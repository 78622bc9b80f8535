------------------------------- MODULE MCElf --------------------------------
(***************************************************************************)
(* Small executables: images of one to three segments, linked low or in    *)
(* the higher half, with the RELR tables a linker writes for each set of   *)
(* words, with relocations of each kind, and with headers, tables and      *)
(* sections that are cut off, misplaced or missing.                        *)
(*                                                                         *)
(* Bounds: images fit between HigherHalf and the top of the address space, *)
(* no segment but those of Odd ends at its very end, and relocations do    *)
(* not overlap.                                                            *)
(***************************************************************************)
EXTENDS Elf

MCFile == [i \in 1 .. 18 |-> (3 * i) % Byte]

Phdr(type, vaddr, off, filesz, memsz, flags) ==
  [type |-> type, vaddr |-> vaddr, paddr |-> vaddr, off |-> off, filesz |-> filesz, memsz |-> memsz,
   flags |-> flags, align |-> Page]

NoTable == [vaddr |-> 0, size |-> 0, ent |-> 0]

Header ==
  [magic |-> TRUE, le |-> TRUE, class |-> 64, machine |-> "x86_64", aligned |-> TRUE, phdrs |-> TRUE,
   shoff |-> 12, sh_num |-> 3, shstrndx |-> 1, shdr_size |-> 2, size0 |-> 0, link0 |-> 0, strtab |-> TRUE]

NoDyn ==
  [needed |-> FALSE, rela |-> NoTable, relr |-> NoTable, sym |-> NoTable, str |-> NoTable,
   jmp |-> [NoTable EXCEPT !.ent = RelaSize], pltrel |-> "rela"]

Image(v) ==
  [hdr |-> Header, type |-> "dyn", arch |-> "x86_64", kaslr |-> FALSE, entry |-> v + 1, tasks |-> {"load"},
   file |-> MCFile,
   phdrs |-> <<Phdr("load", v, 0, 4, 4, 5), Phdr("load", v + 4, 4, 6, 10, 6), Phdr("dynamic", v + 10, 10, 2, 2, 6)>>,
   dyn |-> NoDyn, tables |-> << >>, syms |-> << >>, meant |-> {},
   sections |-> <<[name |-> "text", off |-> 0, size |-> 4, addr |-> v],
                  [name |-> "reqs", off |-> 4, size |-> 5, addr |-> v + 4]>>]

(* What a linker writes for a set of words                                 *)
Bits(addrs, where) == 1 + FoldSet(LAMBDA a, n : n + 2^(1 + (a - where) \div Word), 0,
                                  {a \in addrs : where <= a /\ a < where + 5 * Word})
Relocated(v, addrs) ==
  LET low == Min(addrs)
  IN  <<low, Bits(addrs, low + Word), Bits(addrs, low + 6 * Word)>>

WithRelr(e, addrs) ==
  LET v == e.phdrs[1].vaddr
  IN  [e EXCEPT !.dyn.relr = [vaddr |-> v + 4, size |-> 3 * Word, ent |-> Word],
                !.tables = [o \in {4} |-> Relocated(v, addrs)],
                !.meant = {[addr |-> a, number |-> 0, keeps |-> TRUE, moves |-> TRUE] : a \in addrs}]

Relrs ==
  {WithRelr([Image(v) EXCEPT !.kaslr = r], {v + w : w \in words}) :
     v \in {4, 40}, r \in BOOLEAN,
     words \in SUBSET {0, 2, 4, 8, 10, 12} \ {{}}}
Syms == <<[at |-> "text", weak |-> FALSE, value |-> 5], [at |-> "abs", weak |-> FALSE, value |-> 9],
          [at |-> "undef", weak |-> TRUE, value |-> 0], [at |-> "undef", weak |-> FALSE, value |-> 0]>>

Rela(a, kind, sym) == [addr |-> a, kind |-> kind, sym |-> sym, addend |-> 60]

(* What it wants there: symbol 0 is 5 and moves, symbol 1 is always 9,     *)
(* symbol 2 is nothing; only GLOB_DAT and JUMP_SLOT of x86 have no addend  *)
Wants(r, arch) ==
  LET symbol == <<5, 9, 0, 0>>[r.sym + 1]
      added == IF r.kind = "slot" /\ arch = "x86_64" THEN 0 ELSE 60
  IN  [addr |-> r.addr, keeps |-> r.kind = "none", moves |-> r.kind = "relative" \/ (r.kind \in {"slot", "abs"} /\ r.sym = 0),
       number |-> CASE r.kind = "none" -> 0 [] r.kind = "relative" -> 60 [] OTHER -> symbol + added]

WithRela(e, r, jmp) ==
  LET v == e.phdrs[1].vaddr
      j == [r EXCEPT !.addr = v]
  IN  [e EXCEPT !.dyn.rela = [vaddr |-> v, size |-> 2, ent |-> 2],
                !.dyn.jmp = IF jmp THEN [vaddr |-> v + 2, size |-> 2, ent |-> RelaSize] ELSE @,
                !.dyn.sym = [vaddr |-> v + 4, size |-> 0, ent |-> SymSize],
                !.dyn.str = [vaddr |-> v + 5, size |-> 0, ent |-> 0],
                !.tables = [o \in {0, 2} |-> IF o = 0 THEN <<r>> ELSE <<j>>],
                !.syms = Syms,
                !.meant = {Wants(x, e.arch) : x \in {r} \cup (IF jmp THEN {j} ELSE {})}]

Relas ==
  {WithRela([Image(v) EXCEPT !.arch = a, !.hdr.machine = a], Rela(v + d, kind, sym), jmp) :
     v \in {8, 40}, a \in {"x86_64", "aarch64"}, d \in {3, 5, 12}, jmp \in BOOLEAN,
     kind \in {"none", "relative", "slot", "abs", "copy"}, sym \in 0 .. 3}
  \cup {[WithRela(Image(8), Rela(12, "slot", 0), FALSE) EXCEPT !.dyn.sym.vaddr = 10, !.phdrs[1].filesz = 4 - s] : s \in 0 .. 2}
  \cup {LET e == WithRela(Image(8), Rela(13, "abs", 1), TRUE) IN [e EXCEPT !.syms = Tail(Tail(Syms))]}
-----------------------------------------------------------------------------
Shapes ==
  {[Image(v) EXCEPT !.phdrs = <<Phdr("load", v, 0, 3, m, 5), Phdr("load", w, 3, f, n, g), Phdr("dynamic", v, 0, 2, 2, 6)>>,
                    !.phdrs[1].align = a, !.kaslr = r] :
     v \in {5, 38, 40}, w \in {4, 9, 10, 44, 46}, m \in {3, 4}, f \in {0, 4}, n \in {0, 3, 5}, g \in {5, 6},
     a \in {0, 8}, r \in BOOLEAN}

Staged ==
  {[Image(8) EXCEPT !.phdrs = <<[Phdr("load", 8, 0, 3, m, 5) EXCEPT !.paddr = p],
                                [Phdr("load", w, 3, f, 5, 6) EXCEPT !.paddr = q],
                                Phdr("note", 30, 0, 4, 4, 4)>>,
                    !.entry = en, !.tasks = {"elsewhere"},
                    !.hdr.class = bits, !.hdr.machine = IF bits = 32 THEN "x86_32" ELSE "x86_64"] :
     m \in {3, 5}, w \in {10, 20}, f \in {2, 6}, p \in {0, 4, 61}, q \in {2, 6, 10}, en \in {7, 9, 12, 24}, bits \in {32, 64}}

(* Two tables for those that are tried with something missing              *)
Whole(t) == [WithRela(Image(8), Rela(12, "abs", 0), TRUE) EXCEPT !.tasks = {t}]

Odd ==
  {[Whole(t) EXCEPT !.hdr = h] : t \in {"load", "elsewhere"},
     h \in {[Header EXCEPT !.magic = FALSE], [Header EXCEPT !.le = FALSE], [Header EXCEPT !.class = 32],
            [Header EXCEPT !.class = 0], [Header EXCEPT !.machine = "riscv"], [Header EXCEPT !.machine = "other"],
            [Header EXCEPT !.machine = "x86_32"], [Header EXCEPT !.aligned = FALSE], [Header EXCEPT !.phdrs = FALSE],
            [Header EXCEPT !.shoff = 0], [Header EXCEPT !.shoff = 13], [Header EXCEPT !.shoff = 17, !.sh_num = 0],
            [Header EXCEPT !.sh_num = 0, !.size0 = 2], [Header EXCEPT !.shstrndx = XIndex, !.link0 = 1],
            [Header EXCEPT !.shstrndx = 3], [Header EXCEPT !.shdr_size = 1], [Header EXCEPT !.strtab = FALSE]}}
  \cup {[Whole("load") EXCEPT !.dyn = d] :
     d \in LET w == Whole("load").dyn
           IN  {[w EXCEPT !.needed = TRUE], [w EXCEPT !.sym.ent = 1], [w EXCEPT !.sym.ent = 0], [w EXCEPT !.sym.vaddr = 0],
                [w EXCEPT !.sym.vaddr = 40], [w EXCEPT !.rela.ent = 1], [w EXCEPT !.rela.ent = 0], [w EXCEPT !.rela.vaddr = 0],
                [w EXCEPT !.rela.vaddr = 9], [w EXCEPT !.rela.size = 3], [w EXCEPT !.relr.size = 2],
                [w EXCEPT !.relr = [vaddr |-> 12, size |-> 2, ent |-> 1]], [w EXCEPT !.pltrel = "rel"],
                [w EXCEPT !.jmp.size = 3], [w EXCEPT !.jmp.size = 18]}}
  \cup {[Whole("load") EXCEPT !.type = t] : t \in {"exec", "rel"}}
  \cup {[Whole("load") EXCEPT !.sections = s] : s \in {<< >>, <<[name |-> "reqs", off |-> 16, size |-> 5, addr |-> 10]>>,
                                                     <<[name |-> "reqs", off |-> 4, size |-> 4, addr |-> 10]>>}}
  \cup {[Whole("load") EXCEPT !.phdrs[i] = p] : i \in 1 .. 3,
        p \in {Phdr("note", 8, 0, 4, 4, 5), Phdr("load", 8, 15, 4, 4, 5), Phdr("load", 8, 0, 4, 3, 5), Phdr("load", 60, 0, 3, 4, 5),
               Phdr("dynamic", 8, 17, 2, 2, 5), Phdr("dynamic", 8, 0, 0, 2, 5), [Phdr("load", 8, 0, 4, 4, 5) EXCEPT !.align = 3]}}
  \cup {[Whole(t) EXCEPT !.phdrs = << >>] : t \in {"elsewhere"}}
  \cup {[Whole("load") EXCEPT !.phdrs = <<Phdr("dynamic", 8, 0, 2, 2, 5)>>],
        [Image(40) EXCEPT !.type = "exec", !.phdrs = <<Phdr("load", 40, 0, 4, 4, 5)>>],
        [Image(4) EXCEPT !.phdrs[2].memsz = 12],
        [WithRela(Image(8), Rela(11, "copy", 0), FALSE) EXCEPT !.sections[2] = [name |-> "reqs", off |-> 0, size |-> 5, addr |-> 8]]}

MCExecutables == Relrs \cup Relas \cup Shapes \cup Staged \cup Odd
=============================================================================
