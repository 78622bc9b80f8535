------------------------------- MODULE MCSmp -------------------------------
(***************************************************************************)
(* Processor 0 is the boot processor.  3 stands for 0xff, 4 for an ID only *)
(* an x2APIC can address or no IPI of loongarch, 5 for 0xffffffff.         *)
(***************************************************************************)
EXTENDS Smp, TLC

MCCpus == {0, 1, 2, 4}

X(kind, id, uid, on) == CpuEntry(kind, id, uid, on, "call")

Nmi(kind, uid, lint, lvt) == [kind |-> kind, uid |-> uid, lint |-> lint, lvt |-> lvt]

(* Plain; both structures for one processor; a processor listed twice, one *)
(* that is disabled, the broadcast IDs                                     *)
Madts ==
  {<<X("xapic", 0, 0, TRUE), X("xapic", 1, 1, TRUE), X("xapic", 2, 2, TRUE)>>,
   <<X("xapic", 0, 1, TRUE), X("x2apic", 0, 0, TRUE), X("x2apic", 1, 6, TRUE), X("x2apic", 4, 7, TRUE)>>,
   <<X("xapic", 0, 0, TRUE), X("xapic", 0, 8, TRUE), X("xapic", 3, 3, TRUE), X("x2apic", 5, 5, TRUE), X("xapic", 2, 2, FALSE), X("xapic", 1, 1, TRUE),
     X("xapic", 1, 8, TRUE), X("x2apic", 2, 2, TRUE), X("x2apic", 2, 8, TRUE)>>}

MCNmis == 
  <<Nmi("xapic", 1, 1, 11), Nmi("x2apic", 0, 1, 12), Nmi("xapic", 3, 0, 13),
    Nmi("xapic", 2, 1, 14), Nmi("xapic", 0, 1, 15), Nmi("x2apic", 6, 0, 16)>>

Entered == [c \in MCCpus |-> 2]

X86(t, dead, slow) ==
  {m \in
   {[arch |-> "x86", tables |-> <<t>>, nmis |-> MCNmis, dead |-> dead, slow |-> slow,
    kernelX2 |-> kx, firmwareX2 |-> fx, x2Usable |-> u, x2Locked |-> l,
    configure |-> c, kept |-> IF u THEN {} ELSE {0},
    dropToEl1 |-> FALSE, entryEl |-> Entered] : kx, fx, u, l, c \in BOOLEAN} :
     (m.x2Locked => m.firmwareX2) /\ (slow # {} => m.kernelX2 = m.configure)}

Other(arch, tables, dead, slow, drop, el) ==
  [arch |-> arch, tables |-> tables, nmis |-> << >>, dead |-> dead, slow |-> slow,
   kernelX2 |-> FALSE, firmwareX2 |-> FALSE, x2Usable |-> FALSE, x2Locked |-> FALSE,
   configure |-> FALSE, kept |-> {},
   dropToEl1 |-> drop, entryEl |-> el]

E(kind, id, on, method) == CpuEntry(kind, id, id, on, method)

(* ACPI lists first (without a boot processor, or only parked ones), then  *)
(* a device tree.  One processor is listed again unless some are late      *)
ArmTables(slow) ==
  LET again(e) == IF slow = {} THEN <<e>> ELSE << >>
      gicc1 == E("gicc", 1, TRUE, "call")
      node1 == E("node", 1, TRUE, "spin")
  IN  {<<<<E("gicc", 0, TRUE, "call"), gicc1>> \o again(gicc1) \o
         <<E("gicc", 2, FALSE, "call"), E("gicc", 4, TRUE, "call")>>>>,
       <<<<E("gicc", 1, FALSE, "none"), E("gicc", 2, TRUE, "none")>>,
         <<node1, E("node", 2, TRUE, "none"), E("node", 0, TRUE, "spin"), E("node", 4, TRUE, "spin")>>
         \o again(node1)>>}

Els == {Entered, [c \in MCCpus |-> 1], [c \in MCCpus |-> IF c = 1 THEN 1 ELSE 2]}

Arm(dead, slow) ==
  {Other("aarch64", t, dead, slow, drop, el) : t \in ArmTables(slow), drop \in BOOLEAN, el \in Els}

Riscv(dead, slow) ==
  {Other("riscv", <<<<E("hart", 1, TRUE, "call"), E("hart", 2, FALSE, "call"), E("hart", 0, TRUE, "call"),
                      E("hart", 4, TRUE, "call")>>>>, dead, slow, FALSE, Entered)}

Loong(dead, slow) ==
  {Other("loongarch", t, dead, slow, FALSE, Entered) :
     t \in {<<<<E("core", 0, TRUE, "spin"), E("core", 5, TRUE, "spin"), E("core", 4, TRUE, "spin"), E("core", 1, TRUE, "spin")>>>>,
            <<<<E("core", 1, TRUE, "spin")>>,
              <<E("node", 6, TRUE, "spin"), E("node", 2, TRUE, "spin"), E("node", 0, TRUE, "spin")>>>>}}

MachinesWith(dead, slow) ==
  UNION {X86(t, dead, slow) : t \in Madts} \cup Arm(dead, slow) \cup Riscv(dead, slow) \cup Loong(dead, slow)

(* Every processor comes up in time or never, or some are late             *)
MCMachines ==
  UNION {MachinesWith(dead, {}) : dead \in {{}, {1}}}
    \cup MachinesWith({}, {1, 2}) \cup MachinesWith({4}, {1})
=============================================================================
