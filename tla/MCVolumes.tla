----------------------------- MODULE MCVolumes -----------------------------
(***************************************************************************)
(* Machines for TLC: BIOS drives, and UEFI handles of two disks, an        *)
(* optical disc and a network card, partly behind controllers that are     *)
(* connected late, with and without device paths and with equal contents.  *)
(***************************************************************************)
EXTENDS Volumes

Blank ==
  [path |-> << >>, under |-> None, block_io |-> TRUE, skip |-> FALSE, logical |-> FALSE,
   media |-> TRUE, responds |-> TRUE, endless |-> FALSE, optical |-> FALSE, pxe |-> FALSE,
   block_size |-> 1, size |-> 8, scale |-> 1, content |-> "a", parts |-> << >>, disk |-> 0, first |-> 0,
   removable |-> FALSE, atapi |-> FALSE, cd_sectors |-> FALSE, at9f |-> FALSE, high |-> FALSE]

Bus(n) == [kind |-> "bus", start |-> n]
Hd(n) == [kind |-> "hd", start |-> n]
Cd(n) == [kind |-> "cd", start |-> n]

Part(number, first, content) == [number |-> number, first |-> first, size |-> 4, content |-> content]

TwoParts(c) == <<Part(1, 2, c), Part(4, 6, "q")>>

BiosMachines ==
  LET Drives == {[Blank EXCEPT !.responds = FALSE], [Blank EXCEPT !.atapi = TRUE, !.parts = TwoParts("p")]}
                \cup {[Blank EXCEPT !.removable = m, !.cd_sectors = c, !.parts = ps] :
                         m \in BOOLEAN, c \in BOOLEAN, ps \in {<< >>, TwoParts("p")}}
      Third == {[d EXCEPT !.high = h, !.at9f = ~h] : d \in Drives, h \in BOOLEAN}
  IN  {[build |-> "bios", handles |-> <<x, y, z>>, boot |-> b, bda_disk_count |-> n,
        controllers |-> << >>, chain |-> << >>, sys |-> s] :
         x \in Drives, y \in {d \in Drives : d.parts # << >>}, z \in Third, b \in {2, 3}, n \in 0 .. 2,
         s \in {{}, {<<2, 4>>, <<3, 0>>}}}

(* A disk with two partitions and handles for both, another disk alike or  *)
(* not, an optical disc with an El Torito image, and a network card        *)
UefiHandles(paths, first, second, late, scale, net) ==
  LET P(p) == IF paths THEN p ELSE << >>
      Inside(d, c) == IF c = "a" THEN "p" ELSE IF d = 1 THEN c ELSE "r"
      Disk(d, c) == [Blank EXCEPT !.path = P(<<Bus(d)>>), !.disk = d, !.content = c,
                                  !.parts = TwoParts(Inside(d, c)), !.scale = scale]
      PartOf(d, start, c) ==
        [Blank EXCEPT !.path = P(<<Bus(d), Hd(start \div scale)>>), !.disk = d, !.first = start,
                      !.logical = TRUE, !.size = 4, !.content = c, !.scale = scale]
  IN  <<[Disk(1, first) EXCEPT !.under = 1],
        [PartOf(1, 2, Inside(1, first)) EXCEPT !.under = 1],
        [PartOf(1, 6, "q") EXCEPT !.under = 1],
        [Disk(2, second) EXCEPT !.under = IF late \in {4, 5} THEN None ELSE late, !.path = <<Bus(2)>>],
        [PartOf(2, 2, Inside(2, second))
           EXCEPT !.under = late, !.path = <<Bus(2), Hd(2 \div scale)>>],
        [Blank EXCEPT !.path = <<Bus(3)>>, !.disk = 3, !.optical = TRUE, !.content = "cd"],
        [Blank EXCEPT !.path = <<Bus(3), Cd(5)>>, !.disk = 3, !.first = 5, !.logical = TRUE, !.size = 2,
                      !.content = "eltorito"],
        [Blank EXCEPT !.path = <<Bus(4)>>, !.disk = 4, !.block_io = net = "broken", !.pxe = TRUE,
                      !.responds = FALSE, !.content = NoHash],
        [Blank EXCEPT !.path = <<Bus(5)>>, !.disk = 5, !.skip = net = "plain", !.endless = TRUE,
                      !.content = "rom"]>>

Uefi(hs, managed, chain, sys) ==
  [build |-> "uefi", handles |-> hs, chain |-> chain, sys |-> sys, boot |-> 1, bda_disk_count |-> 0,
   controllers |-> LET C(b, st, m) == [block_io |-> b, storage |-> st, managed |-> m]
                   IN  <<C(FALSE, TRUE, FALSE), C(FALSE, TRUE, managed), C(FALSE, FALSE, FALSE),
                         C(TRUE, FALSE, FALSE), C(TRUE, FALSE, managed)>>]   \* the last two are disks

UefiMachines ==
  {Uefi(UefiHandles(m[1], m[2], m[3], m[4], m[5], m[6]), TRUE, m[7], m[8]) :
     m \in {n \in BOOLEAN \X {"a", "b"} \X {"a", "b"} \X (1 .. 5) \X {1, 2} \X {"plain", "broken"}
                     \X {<<2>>, <<3>>, <<7>>, <<8>>, <<9, 5>>, <<9>>} \X {{}, {<<6, 0>>, <<4, 1>>}} :
               /\ n[7] = <<9, 5>> => n[4] \in {1, 4}
               /\ n[8] # {} => n[7] = <<9>>
               /\ n[6] = "broken" => n[7] \in {<<8>>, <<9>>}}}

NetOnly ==
  {Uefi(<<[Blank EXCEPT !.block_io = FALSE, !.pxe = p, !.under = u, !.disk = 1],
          [Blank EXCEPT !.disk = 2, !.under = 2]>>, TRUE, <<1>>, {}) : p \in BOOLEAN, u \in {0, 1}}

(* A reader of blocks of no size, or larger than the pool                  *)
OddBlocks ==
  {Uefi([k \in DOMAIN hs |-> IF k = 9 THEN [hs[k] EXCEPT !.skip = FALSE, !.endless = FALSE, !.block_size = b] ELSE hs[k]],
        TRUE, c, {}) :
     hs \in {UefiHandles(TRUE, "a", "b", 1, 1, "plain")}, b \in {0, PoolSize, PoolSize + 1}, c \in {<<2>>, <<9>>}}

(* Where a disk of equal content appears later it has a device path, and   *)
(* only handles without one are told apart by content                      *)
MCMachines == BiosMachines \cup UefiMachines \cup NetOnly \cup OddBlocks

(* The disk that appears late is a copy of the first and has no path       *)
CloneMachines ==
  {Uefi([k \in DOMAIN hs |-> IF k \in {4, 5} THEN [hs[k] EXCEPT !.path = << >>] ELSE hs[k]], TRUE, <<2>>, {}) :
     hs \in {UefiHandles(FALSE, "a", "a", late, 1, "plain") : late \in {1, 2}}}
=============================================================================
