-------------------------------- MODULE Elf ---------------------------------
(***************************************************************************)
(* Loading of ELF executables (common/lib/elf.c): the image of a 64-bit    *)
(* kernel with its relocations, slide and page ranges, a section by name,  *)
(* and the staging of an image that is moved to its addresses later.       *)
(*                                                                         *)
(* Numbers are scaled down: a byte is a digit below Byte, a word has two   *)
(* bytes, addresses are words.  The header, the program headers, the       *)
(* symbols and the entries of the dynamic section are records; a table is  *)
(* kept under the offset in the file it begins at.                         *)
(***************************************************************************)
EXTENDS Integers, SequencesExt, FiniteSetsExt

CONSTANTS
  Executables,   \* records, see MCElf
  MaxTries,      \* max_simulated_tries
  Limit          \* max_image_size

VARIABLES
  exe, task,     \* what is loaded, and how: "load" or "elsewhere"
  pc,            \* "check", "measure", "slide", "relocs", "copy", "ranges", "section", "done" or "panic"
  base, size,    \* virtual_base or min_paddr, image_size
  slide, tries,
  relocs,        \* reloc_state
  k,             \* the segment that is copied next
  mem,           \* bytes from physical_base on, or of the buffer
  entry,
  ranges,
  filled,        \* image_size_before_bss
  found          \* the bytes of the section .limine_reqs, or section_hdr_info

vars == <<exe, task, pc, base, size, slide, tries, relocs, k, mem, entry, ranges, filled, found>>

Byte == 8
Word == 2
WordBits == 6
Modulus == 64
Page == 4
HigherHalf == 40    \* FIXED_HIGHER_HALF_OFFSET_64
Rand == 48          \* values of safe_rand32()
RelaSize == 2       \* sizeof(struct elf64_rela)
SymSize == 2        \* sizeof(struct elf64_sym)
ShdrSize == 2       \* sizeof(struct elf64_shdr)
XIndex == 63        \* SHN_XINDEX
None == << >>

Init ==
  /\ exe \in Executables /\ task \in exe.tasks
  /\ pc = "check" /\ base = 0 /\ size = 0 /\ slide = 0 /\ tries = 0
  /\ relocs = << >> /\ k = 1 /\ mem = << >> /\ entry = exe.entry
  /\ ranges = << >> /\ filled = 0 /\ found = None

AlignDown(a) == a - (a % Page)
AlignUp(a) == AlignDown(a + Page - 1)

Loads == SelectSeq(exe.phdrs, LAMBDA p : p.type = "load" /\ p.memsz # 0)
FileSize == Len(exe.file)
FileByte(o) == exe.file[o + 1]

Fail(to) ==
  /\ pc' = to
  /\ UNCHANGED <<exe, task, base, size, slide, tries, relocs, k, mem, entry, ranges, filled, found>>

elf_bits ==
  LET h == exe.hdr
  IN  IF ~h.magic \/ h.class \notin {32, 64} THEN -1
      ELSE CASE h.machine \in {"x86_64", "aarch64"}    -> IF h.class = 64 THEN 64 ELSE -1
             [] h.machine \in {"riscv", "loongarch"}   -> h.class
             [] h.machine = "x86_32"                   -> IF h.class = 32 THEN 32 ELSE -1
             [] OTHER                                  -> -1

elf32_validate == exe.hdr.magic /\ exe.hdr.le /\ exe.hdr.machine = "x86_32" /\ exe.hdr.class = 32 /\ exe.hdr.aligned
elf64_validate == exe.hdr.magic /\ exe.hdr.le /\ exe.hdr.machine = exe.arch /\ exe.hdr.class = 64 /\ exe.hdr.aligned

HeaderSound == exe.type \in {"exec", "dyn"} /\ exe.hdr.phdrs

Check ==
  /\ pc = "check"
  /\ IF \/ elf_bits = -1
        \/ ~(IF task = "elsewhere" /\ elf_bits = 32 THEN elf32_validate ELSE elf64_validate)
        \/ ~HeaderSound
     THEN Fail("panic") ELSE Fail("measure")
-----------------------------------------------------------------------------
(* What a kernel's segments must be                                        *)
Dynamic == SelectSeq(exe.phdrs, LAMBDA p : p.type = "dynamic")

elf64_is_relocatable == exe.type = "dyn"

PowerOfTwo(n) == n \in {1, 2, 4, 8, 16, 32}
AlignsKnown == \A i \in DOMAIN Loads : Loads[i].align <= 1 \/ PowerOfTwo(Loads[i].align)

elf64_max_align == Max({Page} \cup {Loads[i].align : i \in DOMAIN Loads})

(* One segment after the others, in ascending order                        *)
Pass(st, p) ==
  LET low == p.vaddr < HigherHalf
      end == p.vaddr + p.memsz
  IN  [ok |-> /\ st.ok
              /\ IF low THEN elf64_is_relocatable /\ ~st.high ELSE ~st.low
              /\ end < Modulus /\ AlignUp(end) < Modulus
              /\ p.vaddr >= st.top
              /\ AlignDown(p.vaddr) >= st.page \/ p.flags = st.flags,
       low |-> low, high |-> ~low, top |-> end, page |-> AlignUp(end), flags |-> p.flags]

Passed ==
  FoldLeft(Pass, [ok |-> TRUE, low |-> FALSE, high |-> FALSE, top |-> 0, page |-> 0, flags |-> 0], Loads)

Zeroed(n) == [o \in 0 .. n - 1 |-> 0]

Measure ==
  /\ pc = "measure" /\ task = "load"
  /\ IF \/ exe.type = "dyn" /\ (Dynamic = << >> \/ Head(Dynamic).filesz = 0)
        \/ Loads = << >> \/ ~AlignsKnown \/ ~Passed.ok
     THEN Fail("panic")
     ELSE /\ base' = AlignDown(Min({Loads[i].vaddr : i \in DOMAIN Loads}))
          /\ size' = Max({Loads[i].vaddr + Loads[i].memsz : i \in DOMAIN Loads}) - base'
          /\ slide' = IF Passed.low THEN HigherHalf - base' ELSE 0
          /\ mem' = Zeroed(size')
          /\ pc' = IF elf64_is_relocatable /\ exe.kaslr THEN "slide" ELSE "relocs"
          /\ UNCHANGED <<exe, task, tries, relocs, k, entry, ranges, filled, found>>

(* The comparison relies on the overflow                                   *)
TooLow(s) == (base + s + size) % Modulus < HigherHalf

Slide ==
  /\ pc = "slide"
  /\ \E r \in 0 .. Rand - 1 :
       /\ slide' = (r - (r % elf64_max_align)) + (IF Passed.low THEN HigherHalf - base ELSE 0)
       /\ tries' = IF TooLow(slide') THEN tries + 1 ELSE 0
       /\ pc' = IF tries' = MaxTries THEN "panic" ELSE IF TooLow(slide') THEN "slide" ELSE "relocs"
  /\ UNCHANGED <<exe, task, base, size, relocs, k, mem, entry, ranges, filled, found>>
-----------------------------------------------------------------------------
(* Relocations                                                             *)
elf64_translate_vaddr(v, hint) ==
  LET holds == {i \in DOMAIN exe.phdrs : /\ exe.phdrs[i].vaddr + exe.phdrs[i].filesz < Modulus
                                          /\ exe.phdrs[i].vaddr <= v /\ v < exe.phdrs[i].vaddr + exe.phdrs[i].filesz}
      p == exe.phdrs[Min(holds)]
      off == v - p.vaddr + p.off
  IN  IF holds = {} \/ p.off + p.filesz > FileSize \/ off + hint > FileSize
      THEN [ok |-> FALSE, off |-> 0, left |-> 0]
      ELSE [ok |-> TRUE, off |-> off, left |-> p.filesz - (v - p.vaddr)]

(* A table of the dynamic section, or none                                 *)
Placed(t) ==
  IF t.vaddr = 0 THEN [ok |-> t.size = 0, off |-> 0, left |-> 0] ELSE elf64_translate_vaddr(t.vaddr, t.size)

Table(t) == IF t.size = 0 THEN << >> ELSE SubSeq(exe.tables[Placed(t).off], 1, t.size \div t.ent)

popcount(n) == Cardinality({b \in 0 .. WordBits - 1 : (n \div 2^b) % 2 = 1})

RelrCount == FoldLeft(LAMBDA n, e : n + (IF e % 2 = 0 THEN 1 ELSE popcount(e) - 1), 0, Table(exe.dyn.relr))

(* A bug: the words a bitmap covers are counted with its first bit         *)
BugBitmap(st, e) ==
  IF e % 2 = 0 THEN [where |-> e + Word, addrs |-> Append(st.addrs, e)]
  ELSE [where |-> st.where + WordBits * Word,
        addrs |-> st.addrs \o SetToSortSeq({st.where + j * Word : j \in {b \in 0 .. WordBits - 2 : (e \div 2^(b + 1)) % 2 = 1}}, <)]

Decode(st, e) ==
  IF e % 2 = 0 THEN [where |-> e + Word, addrs |-> Append(st.addrs, e)]
  ELSE [where |-> st.where + (WordBits - 1) * Word,
        addrs |-> st.addrs \o SetToSortSeq({st.where + j * Word : j \in {b \in 0 .. WordBits - 2 : (e \div 2^(b + 1)) % 2 = 1}}, <)]

RelrAddrs == FoldLeft(Decode, [where |-> 0, addrs |-> << >>], Table(exe.dyn.relr)).addrs

Relr(a) == [addr |-> a, kind |-> "relr", sym |-> 0, addend |-> 0]

DynamicSound ==
  LET d == exe.dyn
  IN  /\ ~d.needed /\ (d.sym.ent = 0 \/ d.sym.ent >= SymSize)
      /\ d.rela.ent = 0 \/ d.rela.ent >= RelaSize
      /\ \A t \in {"rela", "relr", "sym", "str", "jmp"} : Placed(d[t]).ok
      /\ \A t \in {"rela", "relr", "sym", "jmp"} : Placed(d[t]).off % Word = 0
      /\ d.rela.ent % Word = 0 /\ d.sym.ent % Word = 0
      /\ d.relr.size # 0 => d.relr.ent = Word
      /\ d.rela.size # 0 => d.rela.ent # 0 /\ d.rela.size % d.rela.ent = 0
      /\ d.jmp.size # 0 => d.pltrel = "rela" /\ d.jmp.size % RelaSize = 0

DynamicInFile == Dynamic = << >> \/ (Head(Dynamic).off + Head(Dynamic).filesz <= FileSize /\ Head(Dynamic).off % Word = 0)

elf64_prepare_relocations ==
  /\ pc = "relocs"
  /\ IF ~DynamicInFile \/ (Dynamic # << >> /\ ~DynamicSound) THEN Fail("panic")
     ELSE /\ relocs' = IF Dynamic = << >> THEN << >>
                       ELSE [i \in DOMAIN RelrAddrs |-> Relr(RelrAddrs[i])] \o Table(exe.dyn.rela) \o Table(exe.dyn.jmp)
          /\ pc' = "copy"
          /\ UNCHANGED <<exe, task, base, size, slide, tries, k, mem, entry, ranges, filled, found>>

reloc_load(m, o) == m[o] + Byte * m[o + 1]

reloc_store(m, o, v) ==
  [a \in DOMAIN m |-> IF a = o THEN v % Byte ELSE IF a = o + 1 THEN (v \div Byte) % Byte ELSE m[a]]

SymbolKnown(r) ==
  /\ exe.dyn.sym.vaddr # 0 /\ exe.dyn.sym.ent # 0
  /\ exe.dyn.sym.ent * r.sym <= Placed(exe.dyn.sym).left - SymSize
Symbol(r) == exe.syms[r.sym + 1]

(* The word a relocation stores, over the one that is there                *)
Resolves(r) ==
  r.kind \in {"none", "relative", "relr"}
  \/ (r.kind \in {"slot", "abs"} /\ SymbolKnown(r) /\ (Symbol(r).at # "undef" \/ Symbol(r).weak))

Resolved(r, old) ==
  LET s == Symbol(r)
      value == IF s.at = "undef" THEN 0 ELSE IF s.at = "abs" THEN s.value ELSE s.value + slide
      added == r.kind = "abs" \/ exe.arch = "aarch64"
  IN  CASE r.kind = "none"     -> old
        [] r.kind = "relr"     -> (old + slide) % Modulus
        [] r.kind = "relative" -> (slide + r.addend) % Modulus
        [] OTHER               -> (value + (IF added THEN r.addend ELSE 0)) % Modulus

Inside(r, vaddr, n) == r.addr >= vaddr /\ n >= Word /\ r.addr <= vaddr + n - Word

elf64_apply_relocations(m, o, vaddr, n) ==
  FoldLeft(LAMBDA b, r : IF ~Inside(r, vaddr, n) THEN b
                         ELSE reloc_store(b, o + r.addr - vaddr, Resolved(r, reloc_load(b, o + r.addr - vaddr))),
           m, relocs)
-----------------------------------------------------------------------------
(* Copying                                                                 *)
memcpy(m, o, off, n) == [a \in DOMAIN m |-> IF a \in o .. o + n - 1 THEN FileByte(off + a - o) ELSE m[a]]

SegmentSound(p) == p.filesz <= p.memsz /\ p.off + p.filesz <= FileSize

AllResolve(vaddr, n) == \A i \in DOMAIN relocs : Inside(relocs[i], vaddr, n) => Resolves(relocs[i])

CopySegment ==
  /\ pc = "copy" /\ task = "load" /\ k <= Len(Loads)
  /\ LET p == Loads[k]
     IN  IF ~SegmentSound(p) \/ ~AllResolve(p.vaddr, p.memsz) THEN Fail("panic")
         ELSE /\ mem' = elf64_apply_relocations(memcpy(mem, p.vaddr - base, p.off, p.filesz),
                                                p.vaddr - base, p.vaddr, p.memsz)
              /\ k' = k + 1
              /\ UNCHANGED <<exe, task, pc, base, size, slide, tries, relocs, entry, ranges, filled, found>>

elf64_load ==
  /\ pc = "copy" /\ task = "load" /\ k > Len(Loads)
  /\ filled' = size - (LET p == SelectLastInSeq(Loads, LAMBDA q : q.vaddr + q.memsz = base + size)
                       IN  Loads[p].memsz - Loads[p].filesz)
  /\ base' = (base + slide) % Modulus /\ entry' = (entry + slide) % Modulus /\ pc' = "ranges"
  /\ UNCHANGED <<exe, task, size, slide, tries, relocs, k, mem, ranges, found>>

elf64_get_ranges ==
  /\ pc = "ranges"
  /\ LET Top(p) == ((p.vaddr + slide) % Modulus) + p.memsz
         PageRange(p) == [base |-> AlignDown((p.vaddr + slide) % Modulus), top |-> AlignUp(Top(p)), flags |-> p.flags]
     IN  IF \E i \in DOMAIN Loads : AlignUp(Top(Loads[i])) >= Modulus THEN Fail("panic")
         ELSE /\ ranges' = [i \in DOMAIN Loads |-> PageRange(Loads[i])]
              /\ pc' = "section"
              /\ UNCHANGED <<exe, task, base, size, slide, tries, relocs, k, mem, entry, filled, found>>

(* The section .limine_reqs, with its relocations                          *)
Numbering ==
  LET h == exe.hdr
  IN  IF h.shoff = 0 \/ (h.sh_num # 0 /\ h.shstrndx # XIndex)
      THEN [ok |-> TRUE, num |-> h.sh_num, strndx |-> h.shstrndx]
      ELSE [ok |-> h.shdr_size >= ShdrSize /\ h.shoff + ShdrSize <= FileSize,
            num |-> IF h.sh_num = 0 THEN h.size0 ELSE h.sh_num,
            strndx |-> IF h.shstrndx = XIndex THEN h.link0 ELSE h.shstrndx]

TableEnd == exe.hdr.shoff + Numbering.num * exe.hdr.shdr_size

SectionsReadable ==
  /\ Numbering.ok /\ Numbering.num # 0 /\ Numbering.strndx \in 1 .. Numbering.num - 1
  /\ TableEnd <= FileSize /\ exe.hdr.strtab

Sections == SelectSeq(exe.sections, LAMBDA s : s.name = "reqs")

elf64_load_section ==
  /\ pc = "section"
  /\ IF \/ Numbering.ok /\ Numbering.num # 0 /\ exe.hdr.shdr_size < ShdrSize
     THEN Fail("panic")
     ELSE IF \/ ~SectionsReadable \/ Sections = << >>
             \/ Head(Sections).off >= FileSize \/ Head(Sections).off + Head(Sections).size > FileSize
     THEN Fail("done")
     ELSE LET s == Head(Sections)
          IN  IF ~AllResolve(s.addr, s.size) THEN Fail("panic")
              ELSE /\ found' = elf64_apply_relocations(memcpy(Zeroed(s.size), 0, s.off, s.size), 0, s.addr, s.size)
                   /\ pc' = "done"
                   /\ UNCHANGED <<exe, task, base, size, slide, tries, relocs, k, mem, entry, ranges, filled>>
-----------------------------------------------------------------------------
(* Staging                                                                 *)
MeasureElsewhere ==
  /\ pc = "measure" /\ task = "elsewhere"
  /\ IF \/ Loads = << >>
        \/ elf_bits = 64 /\ \E i \in DOMAIN Loads : Loads[i].paddr + Loads[i].memsz >= Modulus
     THEN Fail("panic")
     ELSE LET low == Min({Loads[i].paddr : i \in DOMAIN Loads})
              high == Max({Loads[i].paddr + Loads[i].memsz : i \in DOMAIN Loads})
          IN  IF high - low > Limit THEN Fail("panic")
              ELSE /\ base' = low /\ size' = high - low /\ mem' = Zeroed(high - low)
                   /\ pc' = "copy"
                   /\ UNCHANGED <<exe, task, slide, tries, relocs, k, entry, ranges, filled, found>>

Adjusts(p) == exe.entry >= p.vaddr /\ p.vaddr + p.memsz < Modulus /\ exe.entry < p.vaddr + p.memsz

load_elsewhere ==
  /\ pc = "copy" /\ task = "elsewhere" /\ k <= Len(Loads)
  /\ LET p == Loads[k]
     IN  IF ~SegmentSound(p) THEN Fail("panic")
         ELSE /\ mem' = memcpy(mem, p.paddr - base, p.off, p.filesz)
              /\ entry' = IF Adjusts(p) /\ \A i \in 1 .. k - 1 : ~Adjusts(Loads[i])
                          THEN entry - p.vaddr + p.paddr ELSE entry
              /\ k' = k + 1
              /\ UNCHANGED <<exe, task, pc, base, size, slide, tries, relocs, ranges, filled, found>>

section_hdr_info ==
  /\ pc = "copy" /\ task = "elsewhere" /\ k > Len(Loads)
  /\ found' = IF Numbering.ok /\ TableEnd <= FileSize THEN [num |-> Numbering.num, strndx |-> Numbering.strndx]
              ELSE [num |-> 0, strndx |-> 0]
  /\ pc' = "done"
  /\ UNCHANGED <<exe, task, base, size, slide, tries, relocs, k, mem, entry, ranges, filled>>

Next ==
  \/ Check \/ Measure \/ Slide \/ elf64_prepare_relocations \/ CopySegment \/ elf64_load \/ elf64_get_ranges
  \/ elf64_load_section \/ MeasureElsewhere \/ load_elsewhere \/ section_hdr_info

Spec == Init /\ [][Next]_vars
-----------------------------------------------------------------------------
(* What the linker meant: the byte at an address of an image.  A member of *)
(* exe.meant is the word it wants at an address: a number, added to what   *)
(* the file has there when it keeps, and to the slide when it moves.       *)
Meant(vaddr, n, off, backed, v) ==
  LET hits == {w \in exe.meant : {w.addr, w.addr + 1} \subseteq vaddr .. vaddr + n - 1 /\ v \in {w.addr, w.addr + 1}}
      w == CHOOSE x \in hits : TRUE
      Plain(a) == IF a - vaddr < backed THEN FileByte(off + a - vaddr) ELSE 0
      kept == IF w.keeps THEN Plain(w.addr) + Byte * Plain(w.addr + 1) ELSE 0
      word == (w.number + kept + (IF w.moves THEN slide ELSE 0)) % Modulus
  IN  IF hits = {} THEN Plain(v) ELSE IF v = w.addr THEN word % Byte ELSE word \div Byte

(* A loaded image is the file's segments over zeroes, with each of the     *)
(* linker's relocations done once, for the slide it is mapped at; it lies  *)
(* in the top of the address space without wrapping; its ranges cover its  *)
(* segments, and pages two segments share have the permissions of both.    *)
LoadedExact ==
  pc = "done" /\ task = "load" =>
    /\ \A v \in 0 .. size - 1 :
         LET a == base - slide + v
             holds == {i \in DOMAIN Loads : Loads[i].vaddr <= a /\ a < Loads[i].vaddr + Loads[i].memsz}
             p == Loads[CHOOSE i \in holds : TRUE]
         IN  IF holds = {} THEN mem[v] = 0
             ELSE Cardinality(holds) = 1 /\ mem[v] = Meant(p.vaddr, p.memsz, p.off, p.filesz, a)
    /\ base >= HigherHalf /\ base + size < Modulus /\ entry = (exe.entry + slide) % Modulus
    /\ filled = Max({Loads[i].vaddr + Loads[i].filesz : i \in DOMAIN Loads} \cup {Loads[Len(Loads)].vaddr}) - (base - slide)
    /\ \A i \in DOMAIN Loads : ranges[i].base <= Loads[i].vaddr + slide
                            /\ Loads[i].vaddr + slide + Loads[i].memsz <= ranges[i].top
    /\ \A i, j \in DOMAIN ranges :
         i # j /\ ranges[i].base < ranges[j].top /\ ranges[j].base < ranges[i].top => ranges[i].flags = ranges[j].flags

(* A section is read as the image holds it; a staged image has its         *)
(* segments at their physical addresses, and its entry point with them.    *)
StagedExact ==
  /\ pc = "done" /\ task = "load" /\ found # None =>
       LET s == Head(Sections)
       IN  \A v \in DOMAIN found : found[v] = Meant(s.addr, s.size, s.off, s.size, s.addr + v)
  /\ pc = "done" /\ task = "elsewhere" =>
       /\ \A a \in base .. base + size - 1 :
            LET holds == {i \in DOMAIN Loads : Loads[i].paddr <= a /\ a < Loads[i].paddr + Loads[i].filesz}
                p == Loads[Max(holds)]
            IN  mem[a - base] = IF holds = {} THEN 0 ELSE FileByte(p.off + a - p.paddr)
       /\ LET holds == {i \in DOMAIN Loads : Loads[i].vaddr <= exe.entry /\ exe.entry < Loads[i].vaddr + Loads[i].memsz}
              p == Loads[Min(holds)]
          IN  entry = IF holds = {} THEN exe.entry ELSE exe.entry - p.vaddr + p.paddr
       /\ found.num > 0 => exe.hdr.shoff + found.num * exe.hdr.shdr_size <= FileSize

(* An image in memory is what the linker meant, wherever it is loaded, and *)
(* elf64_prepare_relocations() writes as many entries for RELR as it made  *)
(* room for.                                                               *)
ImageExact ==
  /\ LoadedExact /\ StagedExact
  /\ pc = "copy" /\ task = "load" /\ Dynamic # << >> => Len(RelrAddrs) = RelrCount
=============================================================================
