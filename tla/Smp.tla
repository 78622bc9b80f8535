-------------------------------- MODULE Smp --------------------------------
(***************************************************************************)
(* Bringing up the other processors (common/sys/smp.c, common/sys/lapic.c  *)
(* and the trampolines).  The boot processor walks the firmware's list of  *)
(* processors.  For each it fills in passed_info, of which there is one,   *)
(* kicks the processor, and polls the booted flag until it is set or time  *)
(* is up.  The other processor runs the trampoline: it picks up from       *)
(* passed_info the entry of the table it belongs to, raises the flag, and  *)
(* spins on that entry's goto_address until the kernel sets it.            *)
(***************************************************************************)
EXTENDS Integers, Sequences, FiniteSets

CONSTANTS
  Cpus, Bsp,   \* the processors, by LAPIC ID, MPIDR, hart ID or core ID
  Machines,    \* the machines to run on
  Narrow,      \* 0xff, the broadcast ID of an xAPIC
  Wide,        \* 0xffffffff: the x2APIC broadcast ID, or an invalid core ID
  MaxCore      \* 0x3ff: the last core an IPI of loongarch can be sent to

(* A firmware entry: which structure, whose, is it enabled, and does it    *)
(* name a way of starting the processor: "call", "spin" or "none" supported *)
CpuEntry(kind, id, uid, on, method) ==
  [kind |-> kind, id |-> id, uid |-> uid, on |-> on, method |-> method]

(* A machine:                                                              *)
(*   arch      "x86", "aarch64", "riscv" or "loongarch"                    *)
(*   tables    firmware's lists of processors, in the order they are tried *)
(*   nmis      the MADT's NMI structures                                   *)
(*   dead      the processors that never come up                           *)
(*   slow      those that may come up when the wait for them is over       *)
(*   kernelX2, firmwareX2   the kernel wants x2APIC, firmware left it on   *)
(*   x2Usable, x2Locked     x2apic_check(); it cannot be turned off        *)
(*   configure, kept        APICs are configured (base revision 5 on); the *)
(*                          LINTs whose delivery mode forbids masking      *)
(*   dropToEl1, entryEl     the EL asked for, and the EL processors enter  *)
(*                          the trampoline at                              *)
CpuEntries ==
  [kind: {"xapic", "x2apic", "gicc", "node", "hart", "core"}, id: Nat, uid: Nat, on: BOOLEAN,
   method: {"call", "spin", "none"}]

(* An xAPIC ID has eight bits, and the MADT lists the processor that runs  *)
(* as enabled.  Elsewhere, where no processor is looked up before it is    *)
(* started, firmware names the boot processor once, and no processor twice *)
(* if one may answer for another.                                          *)
WellListed(m, list) ==
  /\ m.arch = "x86" =>
       /\ \A n \in 1..Len(list) :
            /\ list[n].kind \in {"xapic", "x2apic"}
            /\ list[n].kind = "xapic" => list[n].id <= Narrow
            /\ list[n].id = Bsp => list[n].on /\ list[n].uid # Wide
       /\ \E n \in 1..Len(list) : list[n].id = Bsp
  /\ m.arch # "x86" =>
       /\ \A n \in 1..Len(list) : list[n].kind \in {"gicc", "node", "hart", "core"}
       /\ \A n, o \in 1..Len(list) :
            n # o /\ list[n].on /\ list[o].on /\ list[n].id = list[o].id =>
              m.slow = {} /\ list[n].id # Bsp

ASSUME SmpConstants ==
  /\ Cpus \subseteq Nat /\ Bsp \in Cpus
  /\ Narrow \in Nat /\ Wide \in Nat /\ Narrow < Wide /\ MaxCore \in Nat
  /\ Cpus \cap {Narrow, Wide} = {}
  /\ \A m \in Machines :
       /\ m.arch \in {"x86", "aarch64", "riscv", "loongarch"}
       /\ m.tables \in Seq(Seq(CpuEntries)) /\ m.tables # << >>
       /\ \A t \in 1..Len(m.tables) : WellListed(m, m.tables[t])
       /\ m.dead \cup m.slow \subseteq Cpus \ {Bsp}
       /\ m.entryEl \in [Cpus -> {1, 2}]
       /\ m.configure => m.arch = "x86"
       /\ m.arch = "x86" => Bsp < Narrow \/ (m.kernelX2 /\ m.x2Usable)

NoEntry == 0

NoOverride == 0

VARIABLES
  machine,
  bsp,      \* what the boot processor does: "mode", "walk", "kick", "wait", "table", "bsp",
            \* "end" or "panic"
  x2apic,   \* its APIC is in x2APIC mode
  table,    \* the index of the list being walked
  k,        \* the index in that list
  ret,      \* ret[0 .. *cpu_count - 1]: [id, uid]
  pending,  \* lapic.c's pending_lint0 and pending_lint1, for the processor being started
  passed,   \* passed_info: [info, booted, el, x2apic]
  ap,       \* each processor: [pc, info, lint, el, x2apic]
  stacks,   \* the entries that were given a stack
  bspLint,  \* the boot processor's LINTs, like an ap's
  goto      \* the entries whose goto_address the kernel has set

vars == <<machine, bsp, x2apic, table, k, ret, pending, passed, ap, stacks, bspLint, goto>>
-----------------------------------------------------------------------------
(* lapic_prep_lint(): of the NMI structures that name the processor, the   *)
(* last one counts, and any x2APIC one before any other.                   *)
Names(nmi, uid) ==
  IF nmi.kind = "xapic" THEN nmi.uid = Narrow \/ (uid < Narrow /\ nmi.uid = uid)
  ELSE nmi.uid = Wide \/ nmi.uid = uid

lapic_set_pending_lint(p, nmi) ==
  IF nmi.lint \notin DOMAIN p \/ (p[nmi.lint].x2 /\ nmi.kind = "xapic") THEN p
  ELSE [p EXCEPT ![nmi.lint] = [lvt |-> nmi.lvt, x2 |-> nmi.kind = "x2apic"]]

Overrides(nmis, uid) ==
  LET after[n \in 0..Len(nmis)] ==
        IF n = 0 THEN [l \in {0, 1} |-> [lvt |-> NoOverride, x2 |-> FALSE]]
        ELSE IF Names(nmis[n], uid) THEN lapic_set_pending_lint(after[n - 1], nmis[n])
        ELSE after[n - 1]
  IN  [l \in {0, 1} |-> after[Len(nmis)][l].lvt]

lapic_prep_lint(uid) == Overrides(machine.nmis, uid)
-----------------------------------------------------------------------------
(* Which entries count towards the size of the table, and which are taken. *)

Listed == machine.tables[table]

madt_has_x2apic_entry(id) ==
  \E n \in 1..Len(Listed) : Listed[n].kind = "x2apic" /\ Listed[n].id = id /\ Listed[n].on

(* Mutant: only the boot processor is looked for *)
BugStartsAgain(id) == id = Bsp /\ \E n \in 1..Len(ret) : ret[n].id = id

mp_info_has_lapic_id(id) == \E n \in 1..Len(ret) : ret[n].id = id

(* Mutant: x2APIC entries count in x2APIC mode only *)
BugCountsFewer(e) == e.on /\ (e.kind = "x2apic" => x2apic)

CountedX86(e) == e.on /\ (e.kind = "x2apic" => x2apic \/ e.id < Narrow)

TakenX86(e) ==
  /\ e.on
  /\ ~mp_info_has_lapic_id(e.id)
  /\ IF e.kind = "xapic" THEN e.id # Narrow /\ ~madt_has_x2apic_entry(e.id)
     ELSE e.id # Wide /\ (x2apic \/ e.id < Narrow)

(* Core PIC structures with an invalid ID are void *)
core_pic_startable(e) == e.on /\ e.id # Wide

(* aarch64: GIC CPU interfaces that are enabled *)
GiccTaken(e) == e.on

(* Device tree nodes of CPUs; loongarch64 wants an ID of 32 bits           *)
NodeTaken(e) == e.on /\ (machine.arch = "loongarch" => e.id <= Wide)

(* Harts that are no coprocessors *)
HartTaken(e) == e.on

TakenElsewhere(e) ==
  CASE e.kind = "gicc" -> GiccTaken(e)
    [] e.kind = "node" -> NodeTaken(e)
    [] e.kind = "hart" -> HartTaken(e)
    [] e.kind = "core" -> core_pic_startable(e)

Counted(e) == IF machine.arch = "x86" THEN CountedX86(e) ELSE TakenElsewhere(e)

Taken(e) == IF machine.arch = "x86" THEN TakenX86(e) ELSE TakenElsewhere(e)

max_cpus == Cardinality({n \in 1..Len(Listed) : Counted(Listed[n])})
-----------------------------------------------------------------------------
(* The trampolines, as the order in which they pick things up.  "stack" is *)
(* where the temporary stack, of which there is one, is first used; it is  *)
(* last used before the flag is raised.                                    *)
ApSteps ==
  CASE machine.arch = "x86" -> <<"apic", "stack", "lint", "info", "flag">>
    [] machine.arch = "aarch64" -> <<"info", "el", "flag">>
    [] machine.arch = "riscv" -> <<"info", "flag">>
    [] machine.arch = "loongarch" -> <<"stack", "info", "flag">>

Off == 0

Parked == Len(ApSteps) + 1

InKernel == Len(ApSteps) + 2

At(c, step) == ap[c].pc \in 1..Len(ApSteps) /\ ApSteps[ap[c].pc] = step

ApMoves(c, new) == ap' = [ap EXCEPT ![c] = [new EXCEPT !.pc = @ + 1]]

(* Mutant: the APIC stays in the mode firmware left it in *)
BugKeepsMode(c) ==
  /\ At(c, "apic")
  /\ ApMoves(c, ap[c])
  /\ UNCHANGED <<machine, bsp, x2apic, table, k, ret, pending, passed, stacks, bspLint, goto>>

(* The APIC is put into the boot processor's mode *)
ApApic(c) ==
  /\ At(c, "apic")
  /\ ApMoves(c, [ap[c] EXCEPT !.x2apic = passed.x2apic])
  /\ UNCHANGED <<machine, bsp, x2apic, table, k, ret, pending, passed, stacks, bspLint, goto>>

ApStack(c) ==
  /\ At(c, "stack")
  /\ ApMoves(c, ap[c])
  /\ UNCHANGED <<machine, bsp, x2apic, table, k, ret, pending, passed, stacks, bspLint, goto>>

(* lapic_configure_handoff_state(), if its address was passed: what can be *)
(* masked is masked or overridden                                          *)
Masked == -1

Handoff(overrides) ==
  [l \in {0, 1} |->
     IF l \in machine.kept \/ ~machine.configure THEN NoOverride
     ELSE IF overrides[l] = NoOverride THEN Masked ELSE overrides[l]]

ApLint(c) ==
  /\ At(c, "lint")
  /\ ApMoves(c, [ap[c] EXCEPT !.lint = Handoff(pending)])
  /\ UNCHANGED <<machine, bsp, x2apic, table, k, ret, pending, passed, stacks, bspLint, goto>>

ApInfo(c) ==
  /\ At(c, "info")
  /\ ApMoves(c, [ap[c] EXCEPT !.info = passed.info])
  /\ UNCHANGED <<machine, bsp, x2apic, table, k, ret, pending, passed, stacks, bspLint, goto>>

(* The EL the processor settles at, which it also reports *)
Settles(c) == IF machine.entryEl[c] = 2 /\ machine.dropToEl1 THEN 1 ELSE machine.entryEl[c]

ApEl(c) ==
  /\ At(c, "el")
  /\ ApMoves(c, [ap[c] EXCEPT !.el = Settles(c)])
  /\ passed' = [passed EXCEPT !.el = Settles(c)]
  /\ UNCHANGED <<machine, bsp, x2apic, table, k, ret, pending, stacks, bspLint, goto>>

ApFlag(c) ==
  /\ At(c, "flag")
  /\ ApMoves(c, ap[c])
  /\ passed' = [passed EXCEPT !.booted = TRUE]
  /\ UNCHANGED <<machine, bsp, x2apic, table, k, ret, pending, stacks, bspLint, goto>>

(* Mutant: the processor spins on the entry after its own *)
BugSpinsOnNext(c) ==
  /\ ap[c].pc = Parked /\ ap[c].info + 1 \in goto
  /\ ApMoves(c, ap[c])
  /\ UNCHANGED <<machine, bsp, x2apic, table, k, ret, pending, passed, stacks, bspLint, goto>>

ApJumps(c) ==
  /\ ap[c].pc = Parked /\ ap[c].info \in goto
  /\ ApMoves(c, ap[c])
  /\ UNCHANGED <<machine, bsp, x2apic, table, k, ret, pending, passed, stacks, bspLint, goto>>

ApStep(c) ==
  \/ ApApic(c) \/ ApStack(c) \/ ApLint(c) \/ ApInfo(c) \/ ApEl(c) \/ ApFlag(c) \/ ApJumps(c)
-----------------------------------------------------------------------------
(* init_smp() on x86: which mode the APIC is left in.  x2APIC that firmware *)
(* left on is turned off for a kernel that does not want it, or where it   *)
(* should not be used, if it can be.                                       *)
SetMode ==
  /\ bsp = "mode"
  /\ LET locked == machine.firmwareX2 /\ machine.x2Locked
     IN  /\ machine.arch = "x86" => ~locked \/ machine.kernelX2
         /\ x2apic' = (machine.arch = "x86" /\ machine.kernelX2 /\ (machine.x2Usable \/ locked))
  /\ bsp' = "walk"
  /\ UNCHANGED <<machine, table, k, ret, pending, passed, ap, stacks, bspLint, goto>>

SetModeFails ==
  /\ bsp = "mode" /\ machine.arch = "x86"
  /\ machine.firmwareX2 /\ machine.x2Locked /\ ~machine.kernelX2
  /\ bsp' = "panic"
  /\ UNCHANGED <<machine, x2apic, table, k, ret, pending, passed, ap, stacks, bspLint, goto>>

Walking == bsp = "walk" /\ k <= Len(Listed)

WalkSkips ==
  /\ Walking
  /\ LET e == Listed[k] IN ~Taken(e) \/ (e.id # Bsp /\ e.method = "none")
  /\ k' = k + 1
  /\ UNCHANGED <<machine, bsp, x2apic, table, ret, pending, passed, ap, stacks, bspLint, goto>>

WalkTakesBsp ==
  /\ Walking
  /\ LET e == Listed[k]
     IN  /\ Taken(e) /\ e.id = Bsp
         /\ ret' = Append(ret, [id |-> e.id, uid |-> e.uid])
  /\ k' = k + 1
  /\ UNCHANGED <<machine, bsp, x2apic, table, pending, passed, ap, stacks, bspLint, goto>>

(* smp_start_ap(), try_start_ap(): passed_info is filled in for the entry  *)
(* after the last one taken                                                *)
WalkStarts ==
  /\ Walking
  /\ LET e == Listed[k]
     IN  /\ Taken(e) /\ e.id # Bsp /\ e.method # "none"
         /\ pending' = IF machine.configure THEN lapic_prep_lint(e.uid) ELSE pending
  /\ passed' = [info |-> Len(ret) + 1, booted |-> FALSE, el |-> 0, x2apic |-> x2apic]
  /\ bsp' = "kick"
  /\ UNCHANGED <<machine, x2apic, table, k, ret, ap, stacks, bspLint, goto>>

Fresh == [pc |-> 1, info |-> NoEntry, lint |-> [l \in {0, 1} |-> NoOverride], el |-> 0,
          x2apic |-> machine.firmwareX2]

(* INIT and two SIPIs: a processor that runs already is reset              *)
KickX86 ==
  /\ bsp = "kick" /\ machine.arch = "x86"
  /\ LET c == Listed[k].id
     IN  ap' = IF c \in DOMAIN ap \ machine.dead THEN [ap EXCEPT ![c] = Fresh] ELSE ap
  /\ bsp' = "wait"
  /\ UNCHANGED <<machine, x2apic, table, k, ret, pending, passed, stacks, bspLint, goto>>

CanStart(c) == c \in DOMAIN ap \ machine.dead /\ ap[c].pc = Off

(* PSCI and SBI calls fail for a processor that is on already, and may for *)
(* one that does not come up                                               *)
KickByCall ==
  /\ bsp = "kick"
  /\ machine.arch = "riscv" \/ (machine.arch = "aarch64" /\ Listed[k].method = "call")
  /\ LET c == Listed[k].id
     IN  \/ CanStart(c) /\ ap' = [ap EXCEPT ![c] = Fresh] /\ bsp' = "wait" /\ k' = k
         \/ ~CanStart(c) /\ ap' = ap /\ bsp' = "walk" /\ k' = k + 1
         \/ c \in machine.dead /\ ap' = ap /\ bsp' = "wait" /\ k' = k
  /\ UNCHANGED <<machine, x2apic, table, ret, pending, passed, stacks, bspLint, goto>>

(* A spin table or a mailbox: whoever waits for the write or the IPI       *)
(* starts; nobody says no                                                  *)
KickByWrite ==
  /\ bsp = "kick"
  /\ \/ machine.arch = "loongarch" /\ Listed[k].id <= MaxCore
     \/ machine.arch = "aarch64" /\ Listed[k].method = "spin"
  /\ LET c == Listed[k].id
     IN  ap' = IF CanStart(c) THEN [ap EXCEPT ![c] = Fresh] ELSE ap
  /\ bsp' = "wait"
  /\ UNCHANGED <<machine, x2apic, table, k, ret, pending, passed, stacks, bspLint, goto>>

(* release_parked_ap() cannot name the core in an IPI                      *)
KickRefused ==
  /\ bsp = "kick" /\ machine.arch = "loongarch" /\ Listed[k].id > MaxCore
  /\ bsp' = "walk" /\ k' = k + 1
  /\ UNCHANGED <<machine, x2apic, table, ret, pending, passed, ap, stacks, bspLint, goto>>

(* The exception level is only checked on aarch64 *)
TargetEl == IF machine.dropToEl1 THEN 1 ELSE machine.entryEl[Bsp]

ElWrong == machine.arch = "aarch64" /\ passed.el # TargetEl

WaitSees ==
  /\ bsp = "wait" /\ passed.booted
  /\ IF ElWrong THEN bsp' = "panic" /\ UNCHANGED <<k, ret>>
     ELSE /\ bsp' = "walk" /\ k' = k + 1
          /\ ret' = Append(ret, [id |-> Listed[k].id, uid |-> Listed[k].uid])
  /\ UNCHANGED <<machine, x2apic, table, pending, passed, ap, stacks, bspLint, goto>>

(* Time is up. It is never up for a processor that is neither dead nor     *)
(* slow, unless it had been started before.                                *)
WaitTimesOut ==
  /\ bsp = "wait" /\ ~passed.booted
  /\ LET c == Listed[k].id
     IN  c \in DOMAIN ap \ (machine.dead \cup machine.slow) => ap[c].pc \in {Off, Parked, InKernel}
  /\ bsp' = "walk" /\ k' = k + 1
  /\ UNCHANGED <<machine, x2apic, table, ret, pending, passed, ap, stacks, bspLint, goto>>

(* The table is handed over, or the next list is tried if it is empty      *)
WalkEnds ==
  /\ bsp = "walk" /\ k > Len(Listed)
  /\ IF ret = << >> /\ table < Len(machine.tables)
     THEN table' = table + 1 /\ k' = 1 /\ UNCHANGED bsp
     ELSE bsp' = "table" /\ UNCHANGED <<table, k>>
  /\ UNCHANGED <<machine, x2apic, ret, pending, passed, ap, stacks, bspLint, goto>>

(* The MP feature of protos/limine.c: without a table the boot processor   *)
(* stands alone; the others get their stacks                               *)
MpResponse ==
  /\ bsp = "table"
  /\ bsp' = "bsp"
  /\ ret' = IF ret = << >> THEN <<[id |-> Bsp, uid |-> 0]>> ELSE ret
  /\ stacks' = {n \in 1..Len(ret) : ret[n].id # Bsp}
  /\ UNCHANGED <<machine, x2apic, table, k, pending, passed, ap, bspLint, goto>>

(* lapic_configure_bsp(): the boot processor's first entry, but an x2APIC  *)
(* one before any other                                                    *)
FirstUid(list, kind) ==
  LET found == {n \in 1..Len(list) : list[n].kind = kind /\ list[n].id = Bsp}
  IN  IF found = {} THEN Wide ELSE list[CHOOSE n \in found : \A o \in found : n <= o].uid

BspUid == IF FirstUid(Listed, "x2apic") # Wide THEN FirstUid(Listed, "x2apic") ELSE FirstUid(Listed, "xapic")

lapic_configure_bsp ==
  /\ bsp = "bsp"
  /\ pending' = IF machine.configure THEN lapic_prep_lint(BspUid) ELSE pending
  /\ bspLint' = Handoff(pending')
  /\ bsp' = "end"
  /\ UNCHANGED <<machine, x2apic, table, k, ret, passed, ap, stacks, goto>>

(* The kernel sends the processor of an entry on its way *)
KernelGoto(n) ==
  /\ bsp = "end" /\ n \notin goto /\ ret[n].id # Bsp
  /\ goto' = goto \cup {n}
  /\ UNCHANGED <<machine, bsp, x2apic, table, k, ret, pending, passed, ap, stacks, bspLint>>

BspStep ==
  \/ SetMode \/ SetModeFails \/ WalkSkips \/ WalkTakesBsp \/ WalkStarts
  \/ KickX86 \/ KickByCall \/ KickByWrite \/ KickRefused \/ WaitSees \/ WaitTimesOut \/ WalkEnds
  \/ MpResponse \/ lapic_configure_bsp

Init ==
  /\ machine \in Machines
  /\ bsp = "mode" /\ x2apic = machine.firmwareX2
  /\ table = 1 /\ k = 1 /\ ret = << >>
  /\ pending = [l \in {0, 1} |-> NoOverride]
  /\ passed = [info |-> NoEntry, booted |-> FALSE, el |-> 0, x2apic |-> FALSE]
  /\ ap = [c \in Cpus \ {Bsp} |-> [Fresh EXCEPT !.pc = Off]]
  /\ stacks = {} /\ goto = {} /\ bspLint = Fresh.lint

Next ==
  \/ BspStep
  \/ \E c \in Cpus \ {Bsp} : ApStep(c)
  \/ \E n \in 1..Len(ret) : KernelGoto(n)

Spec == Init /\ [][Next]_vars

(* A processor that was started keeps executing, and so does the BSP       *)
FairSpec == Spec /\ WF_vars(BspStep) /\ \A c \in Cpus \ {Bsp} : WF_vars(ApStep(c))
-----------------------------------------------------------------------------
Ids == {ret[n].id : n \in 1..Len(ret)}

(* The table the executable gets is sound: while it is filled it has room, *)
(* also for the entry being tried, though it is sized by another walk that *)
(* judges entries by other conditions; no processor is listed twice,       *)
(* however often firmware lists it, nor is the broadcast ID of the mode;   *)
(* and, unless processors answer after they were given up on, whoever it   *)
(* names is up.                                                            *)
TableSound ==
  /\ bsp \notin {"bsp", "end"} => Len(ret) + (IF bsp \in {"kick", "wait"} THEN 1 ELSE 0) <= max_cpus
  /\ \A a, b \in 1..Len(ret) : ret[a].id = ret[b].id => a = b
  /\ machine.arch = "x86" => Wide \notin Ids /\ (x2apic \/ Narrow \notin Ids)
  /\ machine.slow = {} => \A c \in Ids \ {Bsp} : c \in DOMAIN ap /\ ap[c].pc >= Parked

OnStack(c) == \E n \in 1..(Parked - 1) : n < ap[c].pc /\ ap[c].pc < Parked /\ ApSteps[n] = "stack"

(* passed_info, the temporary stack and the pending NMI overrides are one  *)
(* for all processors.  Yet, when all answer in time or never, the stack   *)
(* has one user at a time, a processor that is through the trampoline      *)
(* never waits on an entry that names another, and whoever is listed, the  *)
(* boot processor included, has the NMI overrides of its own entry, the    *)
(* boot processor's APIC mode and EL.                                      *)
OwnEntry ==
  machine.slow = {} =>
    /\ \A c, d \in DOMAIN ap : OnStack(c) /\ OnStack(d) => c = d
    /\ \A c \in DOMAIN ap : ap[c].pc >= Parked =>
         /\ ap[c].info <= Len(ret) => ret[ap[c].info].id = c
         /\ machine.arch = "x86" => ap[c].x2apic = x2apic
         /\ machine.arch = "aarch64" /\ c \in Ids => ap[c].el = TargetEl
         /\ machine.arch = "x86" /\ c \in Ids => ap[c].lint = Handoff(lapic_prep_lint(ret[ap[c].info].uid))
    /\ bsp = "end" =>
         \A n \in 1..Len(ret) : ret[n].id = Bsp => bspLint = Handoff(lapic_prep_lint(ret[n].uid))

(* INIT is sent to no processor of the table, which would be reset while   *)
(* it waits for the kernel, however often firmware lists it.               *)
NeverReset == machine.arch = "x86" /\ bsp = "kick" => Listed[k].id \notin Ids \cup {Bsp}

(* The walk comes to an end whoever stays dead, and a processor of the     *)
(* table runs into the executable once the executable sends for it.        *)
Arrivals ==
  []<>(/\ bsp \in {"end", "panic"}
       /\ machine.slow = {} =>
            \A n \in goto : ret[n].id \in DOMAIN ap => ap[ret[n].id].pc = InKernel)
=============================================================================
