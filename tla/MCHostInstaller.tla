--------------------------- MODULE MCHostInstaller ---------------------------
(***************************************************************************)
(* A device of five blocks of three cells.                                 *)
(*   block 0    boot code | location of stage 2 | timestamp and table      *)
(*   block 1    the GPT header; 2 and 3: room for stage 2                  *)
(*   block 4    the alternate GPT header                                   *)
(***************************************************************************)
EXTENDS HostInstaller

MCValues == {"old", "zero", "boot", "stage2", "loc", "id", "entry", "active"}

Table == {2}

Fill(S, v) == [c \in S |-> v]

Do(kind, S) == [kind |-> kind, cells |-> S, data |-> EmptyBuffer]

Write(S, v) == [kind |-> "write", cells |-> S, data |-> Fill(S, v)]

(* The tail of every install: save the timestamp and the partition table, *)
(* check that stage 2 fits, bootsector, stage 2, its location, put back.  *)
Stages ==
  <<Do("read", Table), Write(0..2, "boot"), Write(6..10, "stage2"), Write({1}, "loc"),
    Do("putback", Table)>>

(* A hybrid ISO: the GPT and its alternate are erased and a DOS table made *)
Convert ==
  <<Do("check", 3..5), Do("check", 12..14), Write(0..2, "zero"), Write(3..5, "zero"),
    Write(12..14, "zero"), Write(Table, "id"), Write(Table, "entry")>>

(* A DOS table, one of whose entries is made active if none is *)
DosTable == <<Do("check", 0..2)>>

MakeActive == <<Write(Table, "active")>>

MCScripts ==
  {DosTable \o Stages, DosTable \o MakeActive \o Stages,
   Convert \o DosTable \o MakeActive \o Stages, <<Do("check", 3..5)>> \o Stages}

MCCells == 0..14

MCImages == {Fill(MCCells, "old")}
=============================================================================
