------------------------------ MODULE SmpProofs ------------------------------
(***************************************************************************)
(* What Smp.tla's run checks of the walk over firmware's processors, for   *)
(* every machine.                                                          *)
(***************************************************************************)
EXTENDS Smp, TLAPS

\* Most leaves are first-order: Zenon is tried first, then SMT with more than its
\* default time for the arithmetic, and then both again with more time.
USE ZenonT(3), SMTT(20), ZenonT(30), SMTT(90)

Others == Cpus \ {Bsp}

L == Len(ApSteps)

Fields == {"pc", "info", "lint", "el", "x2apic"}

PassedFields == {"info", "booted", "el", "x2apic"}

Walks == {"mode", "walk", "kick", "wait", "table"}

(* The entries the table is sized by *)
Sized == {n \in 1..Len(Listed) : Counted(Listed[n])}

HasX2 == madt_has_x2apic_entry(Bsp)

(* The LINTs of a processor that gets the overrides of an entry, and the   *)
(* LINTs of one that gets the pending overrides                            *)
Prep == [uid \in Nat |-> Handoff(lapic_prep_lint(uid))]

Handed == Handoff(pending)

TypeInv ==
  /\ machine \in Machines
  /\ bsp \in Walks \cup {"bsp", "end", "panic"}
  /\ table \in 1..Len(machine.tables)
  /\ k \in 1..(Len(Listed) + 1)
  /\ ret \in Seq([id: Nat, uid: Nat])
  /\ DOMAIN passed = PassedFields /\ passed.booted \in BOOLEAN
  /\ DOMAIN ap = Others
  /\ \A c \in Others : DOMAIN ap[c] = Fields /\ ap[c].pc \in 0..(L + 2)

(* The table came out of entries before k that it was sized by, one for    *)
(* each of its own                                                         *)
WalkInv ==
  /\ bsp = "mode" => ret = << >> /\ k = 1
  /\ bsp \in Walks \cup {"panic"} =>
       \A a \in 1..Len(ret) :
         \E n \in 1..(k - 1) : n \in Sized /\ Listed[n].on /\ Listed[n].id = ret[a].id
  /\ bsp \in {"kick", "wait"} =>
       /\ k \in Sized /\ Listed[k].on /\ Listed[k].id # Bsp
       /\ machine.arch = "x86" =>
            /\ Listed[k].id \notin Ids \cup {Wide}
            /\ x2apic \/ Listed[k].id # Narrow

Distinct == \A a, b \in 1..Len(ret) : ret[a].id = ret[b].id => a = b

NoBroadcast == machine.arch = "x86" => Wide \notin Ids /\ (x2apic \/ Narrow \notin Ids)

(* The boot processor's entry is the one lapic_configure_bsp() finds       *)
BspInv ==
  /\ machine.arch = "x86" =>
       /\ bsp \notin {"mode", "panic"} =>
            /\ Bsp < Narrow \/ x2apic
            /\ \A n \in 1..(k - 1) :
                 Listed[n].id = Bsp /\ (Listed[n].kind = "x2apic" \/ ~HasX2) => Bsp \in Ids
       /\ bsp = "panic" => ret = << >>
       /\ bsp = "table" => k = Len(Listed) + 1
       /\ \A a \in 1..Len(ret) : ret[a].id = Bsp => ret[a].uid = BspUid
  /\ bsp = "end" => \A a \in 1..Len(ret) : ret[a].id = Bsp => bspLint = Prep[ret[a].uid]
-----------------------------------------------------------------------------
(* From here on, for machines on which nobody is late                      *)

(* What the steps of the trampoline have left in the processor             *)
Progress(c) ==
  \A n \in 1..L : n < ap[c].pc =>
    /\ ApSteps[n] = "info" => ap[c].info = passed.info
    /\ ApSteps[n] = "apic" => ap[c].x2apic = passed.x2apic
    /\ ApSteps[n] = "lint" => ap[c].lint = Handed
    /\ ApSteps[n] = "el" => ap[c].el = passed.el

(* The processor of the entry that is waited for *)
Current(c) == bsp = "wait" /\ c = Listed[k].id /\ c \notin Ids /\ Progress(c)

(* One that is through the trampoline and in the table *)
Settled(c) ==
  /\ ap[c].info \in 1..Len(ret) /\ ret[ap[c].info].id = c
  /\ machine.arch = "x86" => ap[c].x2apic = x2apic /\ ap[c].lint = Prep[ret[ap[c].info].uid]
  /\ machine.arch = "aarch64" => ap[c].el = TargetEl

(* One at the wrong exception level *)
Refused(c) == bsp = "panic" /\ c \notin Ids /\ ap[c].info = Len(ret) + 1 /\ machine.arch # "x86"

PassedInv ==
  bsp \in {"kick", "wait"} =>
    /\ passed.info = Len(ret) + 1 /\ passed.x2apic = x2apic
    /\ Handed = Prep[Listed[k].uid]
    /\ bsp = "kick" => ~passed.booted
    /\ bsp = "wait" /\ passed.booted =>
         Listed[k].id \in Others /\ ap[Listed[k].id].pc > L /\ Current(Listed[k].id)

ApInv ==
  /\ \A c \in Others : ap[c].pc \in 1..L => Current(c) /\ ~passed.booted
  /\ \A c \in Others : ap[c].pc > L => Settled(c) \/ (Current(c) /\ passed.booted) \/ Refused(c)
  /\ \A c \in Others : c \in machine.dead => ap[c].pc = 0
  /\ \A c \in Ids \ {Bsp} : c \in Others /\ ap[c].pc > L

PromptInv == machine.slow = {} => PassedInv /\ ApInv

SmpInv == TypeInv /\ WalkInv /\ Distinct /\ NoBroadcast /\ BspInv /\ PromptInv
-----------------------------------------------------------------------------
(* The elements of a sequence are of its type                              *)
LEMMA Element ==
  ASSUME NEW S, NEW s \in Seq(S), NEW n \in 1..Len(s)
  PROVE  s[n] \in S
OBVIOUS

(* An index of a sequence is one of the sequence with one element more     *)
LEMMA Widened ==
  ASSUME NEW a \in Nat, NEW b, b = a + 1, NEW n \in 1..a
  PROVE  n \in 1..b
OBVIOUS

(* What depends on the machine alone stays: a processor's trampoline and   *)
(* the exception level it is to be at                                      *)
LEMMA Frame ==
  machine' = machine => ApSteps' = ApSteps /\ L' = L /\ TargetEl' = TargetEl
BY DEF ApSteps, L, TargetEl

(* So do the LINTs that go with an entry's UID                             *)
LEMMA FramePrep ==
  machine' = machine => Prep' = Prep
BY DEF Prep, Handoff, lapic_prep_lint

(* The LINTs a processor would be given change with the pending overrides  *)
(* only                                                                    *)
LEMMA FrameHanded ==
  machine' = machine /\ pending' = pending => Handed' = Handed
BY DEF Handed, Handoff

(* The entries that are walked change with the table only                  *)
LEMMA FrameList ==
  machine' = machine /\ table' = table => Listed' = Listed
BY DEF Listed

(* The boot processor is found in the same entries                         *)
LEMMA FrameBsp ==
  Listed' = Listed => BspUid' = BspUid /\ HasX2' = HasX2
BY DEF BspUid, HasX2, madt_has_x2apic_entry

(* An entry counts for the size of the table as long as the APIC mode is   *)
(* the same                                                                *)
LEMMA FrameSized ==
  machine' = machine /\ Listed' = Listed /\ x2apic' = x2apic => Sized' = Sized
BY DEF Sized, Counted, CountedX86, TakenElsewhere, GiccTaken, NodeTaken, HartTaken, core_pic_startable

(* The processors listed change with the table the executable gets only    *)
LEMMA FrameIds ==
  ret' = ret => Ids' = Ids
BY DEF Ids

(* A trampoline fetches its entry, ends with the flag that the boot        *)
(* processor polls and, on x86, sets the APIC mode                         *)
LEMMA Steps ==
  ASSUME TypeInv
  PROVE  /\ L \in Nat /\ L >= 2
         /\ \A n \in 1..L : ApSteps[n] = "flag" <=> n = L
         /\ \E n \in 1..L : ApSteps[n] = "info"
         /\ machine.arch = "x86" => \E n \in 1..L : ApSteps[n] = "apic"
         /\ machine.arch = "x86" => \E n \in 1..L : ApSteps[n] = "lint"
         /\ machine.arch = "aarch64" => \E n \in 1..L : ApSteps[n] = "el"
<1>1. machine.arch \in {"x86", "aarch64", "riscv", "loongarch"}
  BY SmpConstants DEF TypeInv
<1>2. CASE machine.arch = "x86"
  <2>1. ApSteps = <<"apic", "stack", "lint", "info", "flag">>
    BY <1>2 DEF ApSteps
  <2> QED BY <1>2, <2>1 DEF L
<1>3. CASE machine.arch = "aarch64"
  <2>1. ApSteps = <<"info", "el", "flag">>
    BY <1>3 DEF ApSteps
  <2> QED BY <1>3, <2>1 DEF L
<1>4. CASE machine.arch = "riscv"
  <2>1. ApSteps = <<"info", "flag">>
    BY <1>4 DEF ApSteps
  <2> QED BY <1>4, <2>1 DEF L
<1>5. CASE machine.arch = "loongarch"
  <2>1. ApSteps = <<"stack", "info", "flag">>
    BY <1>5 DEF ApSteps
  <2> QED BY <1>5, <2>1 DEF L
<1> QED BY <1>1, <1>2, <1>3, <1>4, <1>5

(* What is known of the list that is walked *)
LEMMA ListFacts ==
  ASSUME TypeInv
  PROVE  /\ Listed \in Seq(CpuEntries) /\ WellListed(machine, Listed)
         /\ Len(Listed) \in Nat /\ k \in Nat /\ Len(ret) \in Nat
         /\ k <= Len(Listed) => /\ Listed[k] \in CpuEntries
                                /\ Listed[k].id \in Nat /\ Listed[k].uid \in Nat
<1>1. /\ machine.tables \in Seq(Seq(CpuEntries))
      /\ \A t \in 1..Len(machine.tables) : WellListed(machine, machine.tables[t])
  BY SmpConstants DEF TypeInv
<1>2. table \in 1..Len(machine.tables)
  BY DEF TypeInv
<1>3. Listed \in Seq(CpuEntries) /\ WellListed(machine, Listed)
  BY <1>1, <1>2 DEF Listed
<1>4. Len(Listed) \in Nat /\ k \in Nat /\ Len(ret) \in Nat /\ k \in 1..(Len(Listed) + 1)
  BY <1>3 DEF TypeInv
<1>5. k <= Len(Listed) => Listed[k] \in CpuEntries
  BY <1>3, <1>4
<1> QED BY <1>3, <1>4, <1>5 DEF CpuEntries

(* The fields of a processor's record, one of them replaced *)
LEMMA Field ==
  ASSUME NEW r, DOMAIN r = Fields, NEW s, NEW f \in Fields, NEW v, s = [r EXCEPT ![f] = v]
  PROVE  DOMAIN s = Fields /\ s[f] = v /\ \A g \in Fields \ {f} : s[g] = r[g]
OBVIOUS

FreshIs(r) == DOMAIN r = Fields /\ r.pc = 1

(* What a kicked processor starts with has the fields of a processor       *)
LEMMA FreshFacts == FreshIs(Fresh)
BY DEF FreshIs, Fresh, Fields

(* The step of a processor's trampoline that is called so *)
Effect(c, step) ==
  /\ ap[c].pc \in 1..L /\ ApSteps[ap[c].pc] = step
  /\ UNCHANGED <<machine, bsp, x2apic, table, k, ret, pending, stacks, bspLint, goto>>
  /\ DOMAIN ap' = Others /\ \A d \in Others \ {c} : ap'[d] = ap[d]
  /\ DOMAIN ap'[c] = Fields /\ ap'[c].pc = ap[c].pc + 1
  /\ ap'[c].info = (IF step = "info" THEN passed.info ELSE ap[c].info)
  /\ ap'[c].x2apic = (IF step = "apic" THEN passed.x2apic ELSE ap[c].x2apic)
  /\ ap'[c].lint = (IF step = "lint" THEN Handed ELSE ap[c].lint)
  /\ ap'[c].el = (IF step = "el" THEN passed'.el ELSE ap[c].el)
  /\ DOMAIN passed' = PassedFields
  /\ passed'.info = passed.info /\ passed'.x2apic = passed.x2apic
  /\ step = "flag" => passed'.booted = TRUE
  /\ step # "flag" => passed'.booted = passed.booted
  /\ step # "el" => passed'.el = passed.el

(* A step of the trampoline changes the processor that takes it only       *)
LEMMA Moves ==
  ASSUME TypeInv, NEW c \in Others, NEW new, DOMAIN new = Fields, ApMoves(c, new)
  PROVE  /\ DOMAIN ap' = Others /\ \A d \in Others \ {c} : ap'[d] = ap[d]
         /\ DOMAIN ap'[c] = Fields /\ ap'[c].pc = new.pc + 1
         /\ ap'[c].info = new.info /\ ap'[c].x2apic = new.x2apic
         /\ ap'[c].lint = new.lint /\ ap'[c].el = new.el
<1> DEFINE s == [new EXCEPT !.pc = @ + 1]
<1>1. DOMAIN s = Fields /\ s["pc"] = new.pc + 1 /\ \A g \in Fields \ {"pc"} : s[g] = new[g]
  BY DEF Fields
<1>2. ap' = [ap EXCEPT ![c] = s]
  BY DEF ApMoves
<1> HIDE DEF s
<1>3. DOMAIN ap' = Others /\ ap'[c] = s /\ \A d \in Others \ {c} : ap'[d] = ap[d]
  BY <1>2 DEF TypeInv
<1>4. s.info = new.info /\ s.x2apic = new.x2apic /\ s.lint = new.lint /\ s.el = new.el /\ s.pc = new.pc + 1
  BY <1>1 DEF Fields
<1> QED BY <1>1, <1>3, <1>4

(* Each action of the trampoline is the step of its name                   *)
LEMMA ApEffects ==
  ASSUME TypeInv, NEW c \in Others,
         ApApic(c) \/ ApStack(c) \/ ApLint(c) \/ ApInfo(c) \/ ApEl(c) \/ ApFlag(c)
  PROVE  \E step \in {"apic", "stack", "lint", "info", "el", "flag"} : Effect(c, step)
<1>1. /\ DOMAIN ap[c] = Fields /\ DOMAIN passed = PassedFields
      /\ L = Len(ApSteps)
  BY DEF TypeInv, L
<1>2. CASE ApApic(c)
  <2> DEFINE new == [ap[c] EXCEPT !.x2apic = passed.x2apic]
  <2>1. /\ DOMAIN new = Fields /\ new.pc = ap[c].pc /\ new.x2apic = passed.x2apic
        /\ new.info = ap[c].info /\ new.lint = ap[c].lint /\ new.el = ap[c].el
    BY <1>1 DEF Fields
  <2>2. ApMoves(c, new)
    BY <1>2 DEF ApApic
  <2> HIDE DEF new
  <2>3. Effect(c, "apic")
    BY <1>1, <1>2, <2>1, <2>2, Moves DEF ApApic, Effect, At
  <2> QED BY <2>3
<1>3. CASE ApStack(c)
  <2>2. ApMoves(c, ap[c])
    BY <1>3 DEF ApStack
  <2>3. Effect(c, "stack")
    BY <1>1, <1>3, <2>2, Moves DEF ApStack, Effect, At
  <2> QED BY <2>3
<1>4. CASE ApLint(c)
  <2> DEFINE new == [ap[c] EXCEPT !.lint = Handed]
  <2>1. /\ DOMAIN new = Fields /\ new.pc = ap[c].pc /\ new.x2apic = ap[c].x2apic
        /\ new.info = ap[c].info /\ new.lint = Handed /\ new.el = ap[c].el
    BY <1>1 DEF Fields
  <2>2. ApMoves(c, new)
    BY <1>4 DEF ApLint, Handed
  <2> HIDE DEF new
  <2>3. Effect(c, "lint")
    BY <1>1, <1>4, <2>1, <2>2, Moves DEF ApLint, Effect, At
  <2> QED BY <2>3
<1>5. CASE ApInfo(c)
  <2> DEFINE new == [ap[c] EXCEPT !.info = passed.info]
  <2>1. /\ DOMAIN new = Fields /\ new.pc = ap[c].pc /\ new.x2apic = ap[c].x2apic
        /\ new.info = passed.info /\ new.lint = ap[c].lint /\ new.el = ap[c].el
    BY <1>1 DEF Fields
  <2>2. ApMoves(c, new)
    BY <1>5 DEF ApInfo
  <2> HIDE DEF new
  <2>3. Effect(c, "info")
    BY <1>1, <1>5, <2>1, <2>2, Moves DEF ApInfo, Effect, At
  <2> QED BY <2>3
<1>6. CASE ApEl(c)
  <2> DEFINE new == [ap[c] EXCEPT !.el = Settles(c)]
  <2>1. /\ DOMAIN new = Fields /\ new.pc = ap[c].pc /\ new.x2apic = ap[c].x2apic
        /\ new.info = ap[c].info /\ new.lint = ap[c].lint /\ new.el = Settles(c)
    BY <1>1 DEF Fields
  <2>2. ApMoves(c, new)
    BY <1>6 DEF ApEl
  <2>4. /\ DOMAIN passed' = PassedFields /\ passed'.el = Settles(c)
        /\ passed'.info = passed.info /\ passed'.x2apic = passed.x2apic /\ passed'.booted = passed.booted
    BY <1>1, <1>6 DEF ApEl, PassedFields
  <2> HIDE DEF new
  <2>3. Effect(c, "el")
    BY <1>1, <1>6, <2>1, <2>2, <2>4, Moves DEF ApEl, Effect, At
  <2> QED BY <2>3
<1>7. CASE ApFlag(c)
  <2>2. ApMoves(c, ap[c])
    BY <1>7 DEF ApFlag
  <2>4. /\ DOMAIN passed' = PassedFields /\ passed'.el = passed.el
        /\ passed'.info = passed.info /\ passed'.x2apic = passed.x2apic /\ passed'.booted = TRUE
    BY <1>1, <1>7 DEF ApFlag, PassedFields
  <2>3. Effect(c, "flag")
    BY <1>1, <1>7, <2>2, <2>4, Moves DEF ApFlag, Effect, At
  <2> QED BY <2>3
<1> QED BY <1>2, <1>3, <1>4, <1>5, <1>6, <1>7

(* A step that leaves the walk alone *)
WalkSame == UNCHANGED <<machine, bsp, x2apic, table, k, ret, bspLint>>

(* What is known of the walk depends on the walk only                      *)
LEMMA WalkStays ==
  ASSUME SmpInv, WalkSame
  PROVE  WalkInv' /\ Distinct' /\ NoBroadcast' /\ BspInv'
<1>1. UNCHANGED <<machine, bsp, x2apic, table, k, ret, bspLint>>
  BY DEF WalkSame
<1>2. Listed' = Listed /\ Ids' = Ids /\ Prep' = Prep
  BY <1>1, FrameList, FrameIds, FramePrep
<1>3. BspUid' = BspUid /\ HasX2' = HasX2 /\ Sized' = Sized
  BY <1>1, <1>2, FrameBsp, FrameSized
<1>4. WalkInv'
  BY <1>1, <1>2, <1>3 DEF SmpInv, WalkInv, Walks
<1>5. Distinct' /\ NoBroadcast'
  BY <1>1, <1>2 DEF SmpInv, Distinct, NoBroadcast
<1>6. BspInv'
  BY <1>1, <1>2, <1>3 DEF SmpInv, BspInv
<1> QED BY <1>4, <1>5, <1>6

(* Every step of a processor in its trampoline keeps the invariant: it is  *)
(* the one waited for, and takes what was left for it                      *)
LEMMA ApEffectInv ==
  ASSUME SmpInv, NEW c \in Others, NEW step \in {"apic", "stack", "lint", "info", "el", "flag"},
         Effect(c, step)
  PROVE  SmpInv'
<1> USE DEF SmpInv
<1>1. UNCHANGED <<machine, bsp, x2apic, table, k, ret, pending, stacks, bspLint, goto>>
  BY DEF Effect
<1>2. /\ Listed' = Listed /\ Ids' = Ids /\ Prep' = Prep /\ Handed' = Handed
      /\ ApSteps' = ApSteps /\ L' = L /\ TargetEl' = TargetEl
  BY <1>1, FrameList, FrameIds, FramePrep, FrameHanded, Frame
<1>3. /\ L \in Nat /\ L >= 2
      /\ \A n \in 1..L : ApSteps[n] = "flag" <=> n = L
  BY Steps
<1>4. /\ ap[c].pc \in 1..L /\ ApSteps[ap[c].pc] = step
      /\ DOMAIN ap' = Others /\ \A d \in Others \ {c} : ap'[d] = ap[d]
      /\ DOMAIN ap'[c] = Fields /\ ap'[c].pc = ap[c].pc + 1
  BY DEF Effect
<1>5. /\ DOMAIN passed' = PassedFields
      /\ passed'.info = passed.info /\ passed'.x2apic = passed.x2apic
      /\ step = "flag" => passed'.booted = TRUE
      /\ step # "flag" => passed'.booted = passed.booted
      /\ step # "el" => passed'.el = passed.el
  BY DEF Effect
<1>6. TypeInv'
  <2>1. ASSUME NEW d \in Others
        PROVE  DOMAIN ap'[d] = Fields /\ ap'[d].pc \in 0..(L + 2)
    <3>1. CASE d = c
      BY <1>3, <1>4, <3>1
    <3>2. CASE d # c
      BY <1>4, <3>2 DEF TypeInv
    <3> QED BY <3>1, <3>2
  <2>2. passed'.booted \in BOOLEAN
    BY <1>5 DEF TypeInv
  <2> QED BY <1>1, <1>2, <1>4, <1>5, <2>1, <2>2 DEF TypeInv
<1>7. WalkInv' /\ Distinct' /\ NoBroadcast' /\ BspInv'
  BY <1>1, WalkStays DEF WalkSame
<1>8. ASSUME machine.slow = {}
      PROVE  PassedInv' /\ ApInv'
  <2>1. PassedInv /\ ApInv
    BY <1>8 DEF PromptInv
  <2>2. Current(c) /\ ~passed.booted
    BY <2>1, <1>4 DEF ApInv
  <2>3. bsp = "wait" /\ c = Listed[k].id /\ c \notin Ids /\ Progress(c)
    BY <2>2 DEF Current
  <2>4. Progress(c)'
    <3> SUFFICES ASSUME NEW n \in 1..L, n < ap[c].pc + 1
                 PROVE  /\ ApSteps[n] = "info" => ap'[c].info = passed'.info
                        /\ ApSteps[n] = "apic" => ap'[c].x2apic = passed'.x2apic
                        /\ ApSteps[n] = "lint" => ap'[c].lint = Handed
                        /\ ApSteps[n] = "el" => ap'[c].el = passed'.el
      BY <1>2, <1>4 DEF Progress
    <3>1. CASE n = ap[c].pc
      BY <3>1, <1>4, <1>5 DEF Effect
    <3>2. CASE n < ap[c].pc
      <4>1. /\ ApSteps[n] = "info" => ap[c].info = passed.info
            /\ ApSteps[n] = "apic" => ap[c].x2apic = passed.x2apic
            /\ ApSteps[n] = "lint" => ap[c].lint = Handed
            /\ ApSteps[n] = "el" => ap[c].el = passed.el
        BY <3>2, <2>3 DEF Progress
      <4> QED BY <4>1 DEF Effect
    <3> QED BY <1>4, <3>1, <3>2
  <2>5. Current(c)'
    BY <2>3, <2>4, <1>1, <1>2 DEF Current
  <2>6. step = "flag" <=> ap'[c].pc > L
    BY <1>3, <1>4
  <2>7. (passed'.booted <=> step = "flag") /\ passed'.booted \in BOOLEAN
    BY <1>5, <2>2 DEF TypeInv
  <2>8. PassedInv'
    BY <2>1, <2>3, <2>5, <2>6, <2>7, <1>1, <1>2, <1>5 DEF PassedInv
  <2>9. \A d \in Others : ap'[d].pc \in 1..L => Current(d)' /\ ~passed'.booted
    <3> SUFFICES ASSUME NEW d \in Others, ap'[d].pc \in 1..L
                 PROVE  Current(d)' /\ ~passed'.booted
      OBVIOUS
    <3>1. d = c
      BY <1>4, <2>1, <2>3 DEF ApInv, Current
    <3>2. step # "flag"
      BY <3>1, <2>6, <1>3
    <3> QED BY <3>1, <3>2, <2>5, <2>7
  <2>10. \A d \in Others : ap'[d].pc > L => Settled(d)' \/ (Current(d)' /\ passed'.booted) \/ Refused(d)'
    <3> SUFFICES ASSUME NEW d \in Others, ap'[d].pc > L
                 PROVE  Settled(d)' \/ (Current(d)' /\ passed'.booted)
      OBVIOUS
    <3>1. CASE d = c
      BY <3>1, <2>5, <2>6, <2>7
    <3>2. CASE d # c
      <4>1. ap'[d] = ap[d]
        BY <3>2, <1>4
      <4>2. Settled(d)
        BY <4>1, <3>2, <2>1, <2>3 DEF ApInv, Current, Refused
      <4> QED BY <4>1, <4>2, <1>1, <1>2 DEF Settled
    <3> QED BY <3>1, <3>2
  <2>11. \A d \in Others : d \in machine.dead => ap'[d].pc = 0
    BY <1>3, <1>4, <2>1 DEF ApInv
  <2>12. \A d \in Ids \ {Bsp} : d \in Others /\ ap'[d].pc > L
    BY <1>4, <2>1, <2>3 DEF ApInv
  <2> QED BY <2>8, <2>9, <2>10, <2>11, <2>12, <1>1, <1>2 DEF ApInv
<1> QED BY <1>1, <1>6, <1>7, <1>8 DEF PromptInv

(* A processor that the executable sent for leaves, which the walk does    *)
(* not see                                                                 *)
LEMMA ApJumpsInv ==
  ASSUME SmpInv, NEW c \in Others, ApJumps(c)
  PROVE  SmpInv'
<1> USE DEF SmpInv
<1>1. UNCHANGED <<machine, bsp, x2apic, table, k, ret, pending, passed, stacks, bspLint, goto>>
  BY DEF ApJumps
<1>2. /\ Listed' = Listed /\ Ids' = Ids /\ Prep' = Prep /\ Handed' = Handed
      /\ ApSteps' = ApSteps /\ L' = L /\ TargetEl' = TargetEl
  BY <1>1, FrameList, FrameIds, FramePrep, FrameHanded, Frame
<1>3. L \in Nat /\ ap[c].pc = L + 1
  BY Steps DEF ApJumps, Parked, L
<1>4. /\ DOMAIN ap' = Others /\ \A d \in Others \ {c} : ap'[d] = ap[d]
      /\ DOMAIN ap'[c] = Fields /\ ap'[c].pc = L + 2
      /\ ap'[c].info = ap[c].info /\ ap'[c].x2apic = ap[c].x2apic
      /\ ap'[c].lint = ap[c].lint /\ ap'[c].el = ap[c].el
  <2>1. DOMAIN ap[c] = Fields /\ ApMoves(c, ap[c])
    BY DEF TypeInv, ApJumps
  <2> QED BY <1>3, <2>1, Moves
<1>5. \A d \in Others : /\ DOMAIN ap'[d] = Fields /\ ap'[d].pc \in 0..(L + 2)
                        /\ ap'[d].info = ap[d].info /\ ap'[d].x2apic = ap[d].x2apic
                        /\ ap'[d].lint = ap[d].lint /\ ap'[d].el = ap[d].el
                        /\ ap'[d].pc > L <=> ap[d].pc > L
                        /\ ap'[d].pc \in 1..L <=> ap[d].pc \in 1..L
                        /\ ap'[d].pc = 0 <=> ap[d].pc = 0
                        /\ \A n \in 1..L : n < ap'[d].pc <=> n < ap[d].pc
  <2> SUFFICES ASSUME NEW d \in Others
               PROVE  /\ DOMAIN ap'[d] = Fields /\ ap'[d].pc \in 0..(L + 2)
                      /\ ap'[d].info = ap[d].info /\ ap'[d].x2apic = ap[d].x2apic
                      /\ ap'[d].lint = ap[d].lint /\ ap'[d].el = ap[d].el
                      /\ ap'[d].pc > L <=> ap[d].pc > L
                      /\ ap'[d].pc \in 1..L <=> ap[d].pc \in 1..L
                      /\ ap'[d].pc = 0 <=> ap[d].pc = 0
                      /\ \A n \in 1..L : n < ap'[d].pc <=> n < ap[d].pc
    OBVIOUS
  <2>1. CASE d = c
    BY <1>3, <1>4, <2>1
  <2>2. CASE d # c
    BY <1>4, <2>2 DEF TypeInv
  <2> QED BY <2>1, <2>2
<1>6. TypeInv'
  BY <1>1, <1>2, <1>4, <1>5 DEF TypeInv
<1>7. WalkInv' /\ Distinct' /\ NoBroadcast' /\ BspInv'
  BY <1>1, WalkStays DEF WalkSame
<1>8. ASSUME machine.slow = {}
      PROVE  PassedInv' /\ ApInv'
  <2>1. PassedInv /\ ApInv
    BY <1>8 DEF PromptInv
  <2>2. \A d \in Others : Current(d) => Current(d)'
    BY <1>1, <1>2, <1>5 DEF Current, Progress
  <2>3. \A d \in Others : (Settled(d) => Settled(d)') /\ (Refused(d) => Refused(d)')
    BY <1>1, <1>2, <1>5 DEF Settled, Refused
  <2>4. PassedInv'
    BY <2>1, <2>2, <1>1, <1>2, <1>5 DEF PassedInv
  <2>5. ApInv'
    BY <2>1, <2>2, <2>3, <1>1, <1>2, <1>5 DEF ApInv
  <2> QED BY <2>4, <2>5
<1> QED BY <1>1, <1>6, <1>7, <1>8 DEF PromptInv

(* The walk goes on to the next entry without taking this one *)
LEMMA NextEntry ==
  ASSUME SmpInv, bsp \in {"walk", "kick", "wait"}, k <= Len(Listed), bsp' = "walk", k' = k + 1,
         UNCHANGED <<machine, x2apic, table, ret, bspLint>>,
         machine.arch = "x86" /\ Listed[k].id = Bsp /\ (Listed[k].kind = "x2apic" \/ ~HasX2) =>
           Bsp \in Ids
  PROVE  WalkInv' /\ Distinct' /\ NoBroadcast' /\ BspInv' /\ k' \in 1..(Len(Listed') + 1)
<1> USE DEF SmpInv
<1>1. Listed' = Listed /\ Ids' = Ids
  BY FrameList, FrameIds
<1>2. BspUid' = BspUid /\ HasX2' = HasX2 /\ Sized' = Sized
  BY <1>1, FrameBsp, FrameSized
<1>3. k \in Nat /\ k >= 1 /\ Len(Listed) \in Nat /\ Len(ret) \in Nat
  BY ListFacts DEF TypeInv
<1>5. \A a \in 1..Len(ret) :
        \E n \in 1..((k + 1) - 1) : n \in Sized /\ Listed[n].on /\ Listed[n].id = ret[a].id
  <2>1. 1..(k - 1) \subseteq 1..((k + 1) - 1)
    BY <1>3
  <2>2. \A a \in 1..Len(ret) :
          \E n \in 1..(k - 1) : n \in Sized /\ Listed[n].on /\ Listed[n].id = ret[a].id
    BY DEF WalkInv, Walks
  <2> QED BY <2>1, <2>2
<1>6. WalkInv'
  BY <1>1, <1>2, <1>5 DEF WalkInv, Walks
<1>7. Distinct' /\ NoBroadcast'
  BY <1>1 DEF Distinct, NoBroadcast
<1>8. BspInv'
  <2> SUFFICES ASSUME machine.arch = "x86"
               PROVE  /\ Bsp < Narrow \/ x2apic
                      /\ \A n \in 1..((k + 1) - 1) :
                           Listed[n].id = Bsp /\ (Listed[n].kind = "x2apic" \/ ~HasX2) => Bsp \in Ids
                      /\ \A a \in 1..Len(ret) : ret[a].id = Bsp => ret[a].uid = BspUid
    BY <1>1, <1>2 DEF BspInv
  <2>1. ASSUME NEW n \in 1..((k + 1) - 1), Listed[n].id = Bsp, Listed[n].kind = "x2apic" \/ ~HasX2
        PROVE  Bsp \in Ids
    <3>1. n = k \/ n \in 1..(k - 1)
      BY <1>3
    <3> QED BY <2>1, <3>1 DEF BspInv
  <2> QED BY <2>1 DEF BspInv
<1> QED BY <1>1, <1>3, <1>6, <1>7, <1>8

(* The walk goes on, and the table grows by this entry *)
LEMMA NextTaken ==
  ASSUME SmpInv, bsp \in {"walk", "wait"}, k \in Sized, bsp' = "walk", k' = k + 1,
         ret' = Append(ret, [id |-> Listed[k].id, uid |-> Listed[k].uid]),
         UNCHANGED <<machine, x2apic, table, bspLint>>,
         Listed[k].on, Listed[k].id \notin Ids,
         machine.arch = "x86" =>
           /\ Listed[k].id # Wide
           /\ x2apic \/ Listed[k].id # Narrow
           /\ Listed[k].id = Bsp => Listed[k].uid = BspUid
  PROVE  /\ WalkInv' /\ Distinct' /\ NoBroadcast' /\ BspInv' /\ k' \in 1..(Len(Listed') + 1)
         /\ Ids' = Ids \cup {Listed[k].id}
         /\ ret' \in Seq([id: Nat, uid: Nat]) /\ Len(ret') = Len(ret) + 1
         /\ \A a \in 1..Len(ret) : ret'[a] = ret[a]
         /\ ret'[Len(ret) + 1] = [id |-> Listed[k].id, uid |-> Listed[k].uid]
<1> USE DEF SmpInv
<1>1. Listed' = Listed
  BY FrameList
<1>2. BspUid' = BspUid /\ HasX2' = HasX2 /\ Sized' = Sized
  BY <1>1, FrameBsp, FrameSized
<1>3. k \in Nat /\ k >= 1 /\ Len(Listed) \in Nat /\ Len(ret) \in Nat /\ k <= Len(Listed)
  BY ListFacts DEF TypeInv, Sized
<1> DEFINE e == [id |-> Listed[k].id, uid |-> Listed[k].uid]
<1>4. e \in [id: Nat, uid: Nat] /\ e.id = Listed[k].id /\ e.uid = Listed[k].uid
  BY <1>3, ListFacts
<1>5. ret \in Seq([id: Nat, uid: Nat]) /\ ret' = Append(ret, e)
  BY DEF TypeInv
<1> HIDE DEF e
<1>6. /\ ret' \in Seq([id: Nat, uid: Nat]) /\ Len(ret') = Len(ret) + 1
      /\ \A a \in 1..Len(ret) : ret'[a] = ret[a]
      /\ ret'[Len(ret) + 1] = e
  BY <1>4, <1>5
<1>7. 1..Len(ret') = 1..Len(ret) \cup {Len(ret) + 1}
  BY <1>3, <1>6
<1>8. Ids' = Ids \cup {Listed[k].id}
  <2>1. Ids' = {ret'[n].id : n \in 1..Len(ret')}
    BY DEF Ids
  <2>2. Ids = {ret[n].id : n \in 1..Len(ret)}
    BY DEF Ids
  <2> QED BY <2>1, <2>2, <1>4, <1>6, <1>7
<1>10. \A a \in 1..Len(ret') :
         \E n \in 1..((k + 1) - 1) : n \in Sized /\ Listed[n].on /\ Listed[n].id = ret'[a].id
  <2>1. 1..((k + 1) - 1) = 1..(k - 1) \cup {k}
    BY <1>3
  <2>2. \A a \in 1..Len(ret) :
          \E n \in 1..(k - 1) : n \in Sized /\ Listed[n].on /\ Listed[n].id = ret[a].id
    BY DEF WalkInv, Walks
  <2>3. ASSUME NEW a \in 1..Len(ret')
        PROVE  \E n \in 1..((k + 1) - 1) : n \in Sized /\ Listed[n].on /\ Listed[n].id = ret'[a].id
    <3>1. CASE a = Len(ret) + 1
      <4>1. k \in 1..((k + 1) - 1) /\ Listed[k].id = ret'[a].id
        BY <2>1, <3>1, <1>4, <1>6
      <4> QED BY <4>1
    <3>2. CASE a \in 1..Len(ret)
      <4>1. PICK n \in 1..(k - 1) : n \in Sized /\ Listed[n].on /\ Listed[n].id = ret[a].id
        BY <2>2, <3>2
      <4>2. n \in 1..((k + 1) - 1) /\ Listed[n].id = ret'[a].id
        BY <2>1, <3>2, <4>1, <1>6
      <4> QED BY <4>1, <4>2
    <3> QED BY <1>7, <3>1, <3>2
  <2> QED BY <2>3
<1>11. WalkInv'
  BY <1>1, <1>2, <1>10 DEF WalkInv, Walks
<1>12. Distinct'
  <2>1. \A a \in 1..Len(ret) : ret[a].id # Listed[k].id
    BY DEF Ids
  <2>2. ASSUME NEW a \in 1..Len(ret'), NEW b \in 1..Len(ret'), ret'[a].id = ret'[b].id
        PROVE  a = b
    <3>1. CASE a \in 1..Len(ret) /\ b \in 1..Len(ret)
      BY <3>1, <2>2, <1>6 DEF Distinct
    <3>2. CASE a = Len(ret) + 1 /\ b \in 1..Len(ret)
      BY <3>2, <2>1, <2>2, <1>4, <1>6
    <3>3. CASE b = Len(ret) + 1 /\ a \in 1..Len(ret)
      BY <3>3, <2>1, <2>2, <1>4, <1>6
    <3> QED BY <3>1, <3>2, <3>3, <1>7
  <2> QED BY <2>2 DEF Distinct
<1>13. NoBroadcast'
  BY <1>8 DEF NoBroadcast
<1>14. BspInv'
  <2> SUFFICES ASSUME machine.arch = "x86"
               PROVE  /\ Bsp < Narrow \/ x2apic
                      /\ \A n \in 1..((k + 1) - 1) :
                           Listed[n].id = Bsp /\ (Listed[n].kind = "x2apic" \/ ~HasX2) => Bsp \in Ids'
                      /\ \A a \in 1..Len(ret') : ret'[a].id = Bsp => ret'[a].uid = BspUid
    BY <1>1, <1>2 DEF BspInv
  <2>1. ASSUME NEW n \in 1..((k + 1) - 1), Listed[n].id = Bsp, Listed[n].kind = "x2apic" \/ ~HasX2
        PROVE  Bsp \in Ids'
    <3>1. n = k \/ n \in 1..(k - 1)
      BY <1>3
    <3> QED BY <2>1, <3>1, <1>8 DEF BspInv
  <2>2. \A a \in 1..Len(ret) : ret[a].id = Bsp => ret[a].uid = BspUid
    BY DEF BspInv
  <2>3. \A a \in 1..Len(ret') : ret'[a].id = Bsp => ret'[a].uid = BspUid
    BY <2>2, <1>4, <1>6, <1>7
  <2> QED BY <2>1, <2>3 DEF BspInv
<1> QED BY <1>1, <1>3, <1>6, <1>8, <1>11, <1>12, <1>13, <1>14 DEF e

(* Between two entries, nobody runs the trampoline *)
LEMMA Quiet ==
  ASSUME SmpInv, machine.slow = {}, bsp \notin {"wait", "panic"}
  PROVE  /\ \A c \in Others : ap[c].pc \notin 1..L
         /\ \A c \in Others : ap[c].pc > L => Settled(c)
BY DEF SmpInv, PromptInv, ApInv, Current, Refused

(* A step of the boot processor that leaves the processors and the table   *)
(* alone, at a point where nobody runs the trampoline                      *)
LEMMA QuietStep ==
  ASSUME SmpInv, bsp \notin {"wait", "panic"},
         UNCHANGED <<machine, ret, ap>>, x2apic' = x2apic \/ ret = << >>
  PROVE  machine'.slow = {} => ApInv'
<1> USE DEF SmpInv
<1> SUFFICES ASSUME machine.slow = {}
             PROVE  ApInv'
  OBVIOUS
<1>1. ApInv
  BY DEF PromptInv
<1>2. Ids' = Ids /\ Prep' = Prep /\ L' = L /\ TargetEl' = TargetEl
  BY FrameIds, FramePrep, Frame
<1>3. ASSUME NEW c \in Others, ap[c].pc > L
      PROVE  Settled(c)'
  <2>1. Settled(c)
    BY <1>3, Quiet
  <2>2. ret # << >>
    BY <2>1 DEF Settled, TypeInv
  <2> QED BY <1>2, <2>1, <2>2 DEF Settled
<1> QED BY <1>1, <1>2, <1>3, Quiet DEF ApInv

(* The choice of the APIC mode before the walk keeps the invariant         *)
LEMMA SetModeInv ==
  ASSUME SmpInv, SetMode
  PROVE  SmpInv'
<1> USE DEF SmpInv
<1>1. /\ UNCHANGED <<machine, table, k, ret, pending, passed, ap, stacks, bspLint, goto>>
      /\ bsp = "mode" /\ bsp' = "walk"
  BY DEF SetMode
<1>2. ret = << >> /\ Len(ret) = 0 /\ 1..Len(ret) = {} /\ Ids = {}
  BY <1>1 DEF WalkInv, Ids
<1>3. Listed' = Listed /\ Ids' = Ids /\ L' = L
  BY <1>1, FrameList, FrameIds, Frame
<1>4. BspUid' = BspUid /\ HasX2' = HasX2
  BY <1>3, FrameBsp
<1>5. TypeInv'
  BY <1>1, <1>3 DEF TypeInv, Walks
<1>6. WalkInv'
  BY <1>1, <1>2 DEF WalkInv
<1>7. Distinct' /\ NoBroadcast'
  BY <1>1, <1>2, <1>3 DEF Distinct, NoBroadcast
<1>8. BspInv'
  <2>1. machine.arch = "x86" => Bsp < Narrow \/ x2apic'
    BY SmpConstants DEF SetMode, TypeInv
  <2>2. k = 1 /\ 1..(k - 1) = {}
    BY <1>1 DEF WalkInv
  <2> QED BY <1>1, <1>2, <1>3, <1>4, <2>1, <2>2 DEF BspInv
<1>9. PromptInv'
  BY <1>1, <1>2, QuietStep DEF PromptInv, PassedInv
<1> QED BY <1>5, <1>6, <1>7, <1>8, <1>9

(* So does the panic where firmware locked x2APIC on and the kernel does   *)
(* not take it                                                             *)
LEMMA SetModeFailsInv ==
  ASSUME SmpInv, SetModeFails
  PROVE  SmpInv'
<1> USE DEF SmpInv
<1>1. /\ UNCHANGED <<machine, x2apic, table, k, ret, pending, passed, ap, stacks, bspLint, goto>>
      /\ bsp = "mode" /\ bsp' = "panic"
  BY DEF SetModeFails
<1>2. ret = << >>
  BY <1>1 DEF WalkInv
<1>3. Listed' = Listed /\ Ids' = Ids /\ L' = L
  BY <1>1, FrameList, FrameIds, Frame
<1>4. BspUid' = BspUid /\ HasX2' = HasX2 /\ Sized' = Sized
  BY <1>1, <1>3, FrameBsp, FrameSized
<1>5. TypeInv'
  BY <1>1, <1>3 DEF TypeInv, Walks
<1>6. WalkInv'
  BY <1>1, <1>3, <1>4 DEF WalkInv, Walks
<1>7. Distinct' /\ NoBroadcast'
  BY <1>1, <1>3 DEF Distinct, NoBroadcast
<1>8. BspInv'
  BY <1>1, <1>2, <1>3, <1>4 DEF BspInv
<1>9. PromptInv'
  BY <1>1, QuietStep DEF PromptInv, PassedInv
<1> QED BY <1>5, <1>6, <1>7, <1>8, <1>9

(* Going past an entry keeps the invariant: none that lists the boot       *)
(* processor as lapic_configure_bsp() would look for it is skipped         *)
LEMMA WalkSkipsInv ==
  ASSUME SmpInv, WalkSkips
  PROVE  SmpInv'
<1> USE DEF SmpInv
<1>1. /\ UNCHANGED <<machine, bsp, x2apic, table, ret, pending, passed, ap, stacks, bspLint, goto>>
      /\ bsp = "walk" /\ k <= Len(Listed) /\ k' = k + 1
  BY DEF WalkSkips, Walking
<1>2. Listed' = Listed /\ L' = L
  BY <1>1, FrameList, Frame
<1>3. ASSUME machine.arch = "x86", Listed[k].id = Bsp, Listed[k].kind = "x2apic" \/ ~HasX2, Bsp \notin Ids
      PROVE  FALSE
  <2>1. k \in 1..Len(Listed) /\ WellListed(machine, Listed)
    BY <1>1, ListFacts DEF TypeInv
  <2>2. Listed[k].on /\ Listed[k].kind \in {"xapic", "x2apic"}
    BY <2>1, <1>3 DEF WellListed
  <2>3. ~mp_info_has_lapic_id(Bsp)
    BY <1>3 DEF mp_info_has_lapic_id, Ids
  <2>4. Bsp # Narrow /\ Bsp # Wide /\ (Bsp < Narrow \/ x2apic)
    BY <1>1, <1>3, SmpConstants DEF BspInv
  <2>5. Taken(Listed[k])
    BY <1>3, <2>2, <2>3, <2>4 DEF Taken, TakenX86, HasX2
  <2> QED BY <2>5, <1>3 DEF WalkSkips
<1>4. WalkInv' /\ Distinct' /\ NoBroadcast' /\ BspInv' /\ k' \in 1..(Len(Listed') + 1)
  BY <1>1, <1>3, NextEntry
<1>5. TypeInv'
  BY <1>1, <1>2, <1>4 DEF TypeInv, Walks
<1>6. PromptInv'
  BY <1>1, QuietStep DEF PromptInv, PassedInv
<1> QED BY <1>4, <1>5, <1>6

(* Whoever is taken was counted, though by other conditions *)
LEMMA TakenCounted ==
  ASSUME TypeInv, Walking, Taken(Listed[k])
  PROVE  /\ k \in Sized /\ Listed[k].on
         /\ machine.arch = "x86" => /\ Listed[k].id \notin Ids \cup {Wide}
                                    /\ x2apic \/ Listed[k].id # Narrow
                                    /\ Listed[k].kind = "xapic" => ~madt_has_x2apic_entry(Listed[k].id)
<1>1. k \in 1..Len(Listed) /\ WellListed(machine, Listed) /\ Listed[k] \in CpuEntries
  BY ListFacts DEF TypeInv, Walking
<1>2. CASE machine.arch = "x86"
  <2>1. TakenX86(Listed[k])
    BY <1>2 DEF Taken
  <2>2. Listed[k].kind \in {"xapic", "x2apic"} /\ (Listed[k].kind = "xapic" => Listed[k].id <= Narrow)
    BY <1>1, <1>2 DEF WellListed
  <2>3. Listed[k].on /\ Listed[k].id \notin Ids
    BY <2>1 DEF TakenX86, mp_info_has_lapic_id, Ids
  <2>4. Listed[k].id \in Nat /\ Narrow \in Nat /\ Wide \in Nat /\ Narrow < Wide
    BY <1>1, SmpConstants DEF CpuEntries
  <2>5. Listed[k].id # Wide /\ (x2apic \/ Listed[k].id # Narrow)
    BY <2>1, <2>2, <2>4 DEF TakenX86
  <2>6. Counted(Listed[k])
    BY <2>1, <1>2 DEF Counted, CountedX86, TakenX86
  <2> QED BY <1>1, <2>1, <2>3, <2>5, <2>6 DEF Sized, TakenX86
<1>3. CASE machine.arch # "x86"
  <2>1. Counted(Listed[k]) /\ TakenElsewhere(Listed[k])
    BY <1>3 DEF Counted, Taken
  <2>2. Listed[k].kind \in {"gicc", "node", "hart", "core"}
    BY <1>1, <1>3 DEF WellListed
  <2>3. Listed[k].on
    BY <2>1, <2>2 DEF TakenElsewhere, GiccTaken, NodeTaken, HartTaken, core_pic_startable
  <2> QED BY <1>1, <1>3, <2>1, <2>3 DEF Sized
<1> QED BY <1>2, <1>3

(* On x86 the boot processor is taken by the entry lapic_configure_bsp()   *)
(* finds                                                                   *)
LEMMA TakenBsp ==
  ASSUME SmpInv, Walking, Taken(Listed[k]), Listed[k].id = Bsp, machine.arch = "x86"
  PROVE  Listed[k].uid = BspUid
<1> USE DEF SmpInv
<1>1. /\ k \in 1..Len(Listed) /\ WellListed(machine, Listed) /\ Listed[k] \in CpuEntries
      /\ Len(Listed) \in Nat /\ k \in Nat
  BY ListFacts DEF TypeInv, Walking
<1>2. Bsp \notin Ids /\ (Listed[k].kind = "xapic" => ~HasX2)
  BY TakenCounted DEF HasX2
<1>3. \A n \in 1..Len(Listed) :
        Listed[n].id = Bsp => Listed[n].on /\ Listed[n].uid # Wide /\ Listed[n].kind \in {"xapic", "x2apic"}
  BY <1>1 DEF WellListed
<1>4. \A n \in 1..(k - 1) : Listed[n].id = Bsp => Listed[n].kind # "x2apic" /\ HasX2
  BY <1>2 DEF BspInv, Walking
<1>5. ASSUME NEW kind \in {"xapic", "x2apic"}, Listed[k].kind = kind
      PROVE  FirstUid(Listed, kind) = Listed[k].uid
  <2> DEFINE found == {n \in 1..Len(Listed) : Listed[n].kind = kind /\ Listed[n].id = Bsp}
  <2>1. k \in found
    BY <1>1, <1>5
  <2>2. \A n \in found : k <= n
    <3> SUFFICES ASSUME NEW n \in found, n < k
                 PROVE  FALSE
      BY <1>1
    <3>1. n \in 1..(k - 1) /\ Listed[n].id = Bsp /\ Listed[n].kind = kind
      BY <1>1
    <3> QED BY <3>1, <1>2, <1>4, <1>5
  <2>3. (CHOOSE n \in found : \A o \in found : n <= o) = k
    <3> DEFINE m == CHOOSE n \in found : \A o \in found : n <= o
    <3>1. \E n \in found : \A o \in found : n <= o
      BY <2>1, <2>2
    <3>2. m \in found /\ \A o \in found : m <= o
      BY <3>1
    <3> HIDE DEF m
    <3>3. m <= k /\ k <= m /\ m \in Nat
      BY <2>1, <2>2, <3>2
    <3>4. m = k
      BY <3>3, <1>1
    <3> QED BY <3>4 DEF m
  <2>4. FirstUid(Listed, kind) = IF found = {} THEN Wide ELSE Listed[CHOOSE n \in found : \A o \in found : n <= o].uid
    BY DEF FirstUid
  <2> HIDE DEF found
  <2> QED BY <2>1, <2>3, <2>4
<1>6. CASE Listed[k].kind = "x2apic"
  BY <1>1, <1>3, <1>5, <1>6 DEF BspUid
<1>7. CASE Listed[k].kind = "xapic"
  <2>1. {n \in 1..Len(Listed) : Listed[n].kind = "x2apic" /\ Listed[n].id = Bsp} = {}
    BY <1>2, <1>3, <1>7 DEF HasX2, madt_has_x2apic_entry
  <2>2. FirstUid(Listed, "x2apic") = Wide
    BY <2>1 DEF FirstUid
  <2> QED BY <2>2, <1>5, <1>7 DEF BspUid
<1> QED BY <1>1, <1>3, <1>6, <1>7

(* Where no processor may answer for another, or where the boot processor  *)
(* is concerned, an entry that is taken names nobody the table has         *)
LEMMA TakenOnce ==
  ASSUME SmpInv, bsp \in {"walk", "wait"}, k \in Sized, Listed[k].on, machine.arch # "x86",
         machine.slow # {} \/ Listed[k].id = Bsp
  PROVE  Listed[k].id \notin Ids
<1> USE DEF SmpInv
<1> SUFFICES ASSUME Listed[k].id \in Ids
             PROVE  FALSE
  OBVIOUS
<1>1. PICK a \in 1..Len(ret) : ret[a].id = Listed[k].id
  BY DEF Ids
<1>2. PICK n \in 1..(k - 1) : n \in Sized /\ Listed[n].on /\ Listed[n].id = ret[a].id
  BY DEF WalkInv, Walks
<1>3. k \in 1..Len(Listed) /\ n \in 1..Len(Listed) /\ n # k
  BY ListFacts DEF Sized
<1>4. WellListed(machine, Listed)
  BY ListFacts
<1> QED BY <1>1, <1>2, <1>3, <1>4 DEF WellListed

(* Listing the boot processor keeps the invariant: it was not listed       *)
(* before, and its UID is that of the entry lapic_configure_bsp() finds    *)
LEMMA WalkTakesBspInv ==
  ASSUME SmpInv, WalkTakesBsp
  PROVE  SmpInv'
<1> USE DEF SmpInv
<1>1. /\ UNCHANGED <<machine, bsp, x2apic, table, pending, passed, ap, stacks, bspLint, goto>>
      /\ bsp = "walk" /\ Walking /\ k <= Len(Listed) /\ k' = k + 1
      /\ Taken(Listed[k]) /\ Listed[k].id = Bsp
      /\ ret' = Append(ret, [id |-> Listed[k].id, uid |-> Listed[k].uid])
  BY DEF WalkTakesBsp, Walking
<1>2. /\ k \in Sized /\ Listed[k].on
      /\ machine.arch = "x86" => /\ Listed[k].id \notin Ids \cup {Wide}
                                 /\ x2apic \/ Listed[k].id # Narrow
                                 /\ Listed[k].uid = BspUid
  BY <1>1, TakenCounted, TakenBsp
<1>3. Listed[k].id \notin Ids
  BY <1>1, <1>2, TakenOnce
<1>4. /\ WalkInv' /\ Distinct' /\ NoBroadcast' /\ BspInv' /\ k' \in 1..(Len(Listed') + 1)
      /\ Ids' = Ids \cup {Bsp}
      /\ ret' \in Seq([id: Nat, uid: Nat]) /\ Len(ret') = Len(ret) + 1
      /\ \A a \in 1..Len(ret) : ret'[a] = ret[a]
  BY <1>1, <1>2, <1>3, NextTaken
<1>5. Listed' = Listed /\ L' = L /\ TargetEl' = TargetEl /\ Prep' = Prep
  BY <1>1, FrameList, Frame, FramePrep
<1>6. TypeInv'
  BY <1>1, <1>4, <1>5 DEF TypeInv, Walks
<1>7. ASSUME machine.slow = {}
      PROVE  ApInv'
  <2>1. ApInv /\ Len(ret) \in Nat
    BY <1>7, ListFacts DEF PromptInv
  <2>2. ASSUME NEW c \in Others, ap[c].pc > L
        PROVE  Settled(c)'
    <3>1. Settled(c)
      BY <1>1, <1>7, <2>2, Quiet
    <3>2. ap[c].info \in 1..Len(ret') /\ ret'[ap[c].info] = ret[ap[c].info]
      BY <2>1, <3>1, <1>4 DEF Settled
    <3> QED BY <3>1, <3>2, <1>1, <1>5 DEF Settled
  <2> QED BY <2>1, <2>2, <1>1, <1>4, <1>5, <1>7, Quiet DEF ApInv
<1>8. PromptInv'
  BY <1>1, <1>7 DEF PromptInv, PassedInv
<1> QED BY <1>4, <1>6, <1>8

(* Where the executable did not ask for it, the pending overrides are not  *)
(* handed on                                                               *)
LEMMA HandoffSame ==
  ASSUME ~machine.configure
  PROVE  \A p, q : Handoff(p) = Handoff(q)
BY DEF Handoff

(* Preparing passed_info and the overrides for a processor keeps the       *)
(* invariant: no other processor is in the trampoline                      *)
LEMMA WalkStartsInv ==
  ASSUME SmpInv, WalkStarts
  PROVE  SmpInv'
<1> USE DEF SmpInv
<1>1. /\ UNCHANGED <<machine, x2apic, table, k, ret, ap, stacks, bspLint, goto>>
      /\ bsp = "walk" /\ Walking /\ k <= Len(Listed) /\ bsp' = "kick"
      /\ Taken(Listed[k]) /\ Listed[k].id # Bsp
      /\ passed' = [info |-> Len(ret) + 1, booted |-> FALSE, el |-> 0, x2apic |-> x2apic]
      /\ pending' = IF machine.configure THEN lapic_prep_lint(Listed[k].uid) ELSE pending
  BY DEF WalkStarts, Walking
<1>2. /\ k \in Sized /\ Listed[k].on
      /\ machine.arch = "x86" => /\ Listed[k].id \notin Ids \cup {Wide}
                                 /\ x2apic \/ Listed[k].id # Narrow
  BY <1>1, TakenCounted
<1>3. Listed' = Listed /\ Ids' = Ids /\ L' = L /\ Prep' = Prep
  BY <1>1, FrameList, FrameIds, Frame, FramePrep
<1>4. BspUid' = BspUid /\ HasX2' = HasX2 /\ Sized' = Sized
  BY <1>1, <1>3, FrameBsp, FrameSized
<1>5. /\ DOMAIN passed' = PassedFields /\ passed'.booted = FALSE
      /\ passed'.info = Len(ret) + 1 /\ passed'.x2apic = x2apic
  BY <1>1 DEF PassedFields
<1>6. TypeInv'
  BY <1>1, <1>3, <1>5 DEF TypeInv, Walks
<1>7. WalkInv'
  BY <1>1, <1>2, <1>3, <1>4 DEF WalkInv, Walks
<1>8. Distinct' /\ NoBroadcast'
  BY <1>1, <1>3 DEF Distinct, NoBroadcast
<1>9. BspInv'
  BY <1>1, <1>3, <1>4 DEF BspInv
<1>10. Handed' = Prep[Listed[k].uid]
  <2>1. Listed[k].uid \in Nat
    BY <1>1, ListFacts
  <2>2. Handed' = Handoff(pending')
    BY <1>1 DEF Handed, Handoff
  <2>3. Handoff(pending') = Handoff(lapic_prep_lint(Listed[k].uid))
    BY <1>1, HandoffSame
  <2> QED BY <2>1, <2>2, <2>3 DEF Prep
<1>11. PromptInv'
  BY <1>1, <1>3, <1>5, <1>10, QuietStep DEF PromptInv, PassedInv
<1> QED BY <1>6, <1>7, <1>8, <1>9, <1>11

(* The wait begins, for a processor that starts or for one that does not   *)
LEMMA Kicked ==
  ASSUME SmpInv, bsp = "kick", bsp' = "wait",
         UNCHANGED <<machine, x2apic, table, k, ret, pending, passed, stacks, bspLint, goto>>,
         \/ ap' = ap
         \/ /\ Listed[k].id \in Others \ machine.dead
            /\ machine.slow = {} => Listed[k].id \notin Ids
            /\ ap' = [ap EXCEPT ![Listed[k].id] = Fresh]
  PROVE  SmpInv'
<1> USE DEF SmpInv
<1>1. /\ Listed' = Listed /\ Ids' = Ids /\ L' = L /\ Prep' = Prep /\ Handed' = Handed
      /\ ApSteps' = ApSteps /\ TargetEl' = TargetEl
  BY FrameList, FrameIds, Frame, FramePrep, FrameHanded
<1>2. BspUid' = BspUid /\ HasX2' = HasX2 /\ Sized' = Sized
  BY <1>1, FrameBsp, FrameSized
<1>3. L \in Nat /\ L >= 2
  BY Steps
<1> DEFINE c == Listed[k].id
<1>4. /\ DOMAIN ap' = Others
      /\ \A d \in Others : ap'[d] = ap[d] \/ (d = c /\ d \notin machine.dead /\ ap'[d] = Fresh)
      /\ \A d \in Others : ap'[d] # ap[d] /\ machine.slow = {} => d \notin Ids
  BY DEF TypeInv
<1> HIDE DEF c
<1>5. DOMAIN Fresh = Fields /\ Fresh.pc = 1
  BY FreshFacts DEF FreshIs
<1>6. TypeInv'
  <2>1. \A d \in Others : DOMAIN ap'[d] = Fields /\ ap'[d].pc \in 0..(L + 2)
    BY <1>3, <1>4, <1>5 DEF TypeInv
  <2> QED BY <1>1, <1>4, <2>1 DEF TypeInv, Walks
<1>7. WalkInv'
  BY <1>1, <1>2 DEF WalkInv, Walks
<1>8. Distinct' /\ NoBroadcast'
  BY <1>1 DEF Distinct, NoBroadcast
<1>9. BspInv'
  BY <1>1, <1>2 DEF BspInv
<1>10. ASSUME machine.slow = {}
       PROVE  PassedInv' /\ ApInv'
  <2>1. PassedInv /\ ApInv /\ ~passed.booted
    BY <1>10 DEF PromptInv, PassedInv
  <2>2. /\ \A d \in Others : ap[d].pc \notin 1..L
        /\ \A d \in Others : ap[d].pc > L => Settled(d)
    BY <1>10, Quiet
  <2>3. PassedInv'
    BY <2>1, <1>1 DEF PassedInv
  <2>4. ASSUME NEW d \in Others, ap'[d].pc \in 1..L
        PROVE  Current(d)'
    <3>1. d = c /\ ap'[d] = Fresh /\ ap'[d] # ap[d]
      BY <1>4, <2>2, <2>4
    <3>2. d \notin Ids
      BY <1>4, <1>10, <3>1
    <3>3. Progress(d)'
      BY <1>1, <1>3, <1>5, <3>1 DEF Progress
    <3> QED BY <3>1, <3>2, <3>3, <1>1 DEF Current, c
  <2>5. ASSUME NEW d \in Others, ap'[d].pc > L
        PROVE  Settled(d)'
    <3>1. ap'[d] = ap[d]
      BY <1>3, <1>4, <1>5, <2>5
    <3>2. Settled(d)
      BY <2>2, <2>5, <3>1
    <3> QED BY <3>1, <3>2, <1>1 DEF Settled
  <2>6. \A d \in Others : d \in machine.dead => ap'[d].pc = 0
    BY <1>4, <2>1 DEF ApInv
  <2>7. \A d \in Ids \ {Bsp} : d \in Others /\ ap'[d].pc > L
    BY <1>4, <1>10, <2>1 DEF ApInv
  <2> QED BY <2>1, <2>3, <2>4, <2>5, <2>6, <2>7, <1>1 DEF ApInv
<1> QED BY <1>6, <1>7, <1>8, <1>9, <1>10 DEF PromptInv

(* INIT and SIPI start the processor of the entry, which was not started   *)
(* before                                                                  *)
LEMMA KickX86Inv ==
  ASSUME SmpInv, KickX86
  PROVE  SmpInv'
<1>1. /\ bsp = "kick" /\ bsp' = "wait" /\ machine.arch = "x86"
      /\ UNCHANGED <<machine, x2apic, table, k, ret, pending, passed, stacks, bspLint, goto>>
      /\ ap' = IF Listed[k].id \in DOMAIN ap \ machine.dead THEN [ap EXCEPT ![Listed[k].id] = Fresh] ELSE ap
  BY DEF KickX86
<1>2. Listed[k].id \notin Ids /\ DOMAIN ap = Others
  BY <1>1 DEF SmpInv, WalkInv, TypeInv
<1> QED BY <1>1, <1>2, Kicked

(* Whoever is off has no entry *)
LEMMA OffNotListed ==
  ASSUME SmpInv, bsp = "kick", CanStart(Listed[k].id)
  PROVE  /\ Listed[k].id \in Others \ machine.dead
         /\ machine.slow = {} => Listed[k].id \notin Ids
<1>1. Listed[k].id \in Others \ machine.dead /\ ap[Listed[k].id].pc = 0 /\ Listed[k].id # Bsp
  BY DEF SmpInv, TypeInv, WalkInv, CanStart, Off
<1>2. L \in Nat
  BY Steps DEF SmpInv
<1> QED BY <1>1, <1>2 DEF SmpInv, PromptInv, ApInv

(* So does a write to its spin table or mailbox                            *)
LEMMA KickByWriteInv ==
  ASSUME SmpInv, KickByWrite
  PROVE  SmpInv'
<1>1. /\ bsp = "kick" /\ bsp' = "wait"
      /\ UNCHANGED <<machine, x2apic, table, k, ret, pending, passed, stacks, bspLint, goto>>
      /\ ap' = IF CanStart(Listed[k].id) THEN [ap EXCEPT ![Listed[k].id] = Fresh] ELSE ap
  BY DEF KickByWrite
<1> QED BY <1>1, OffNotListed, Kicked

(* The wait is over, or was never begun, and nobody is taken *)
LEMMA GivenUp ==
  ASSUME SmpInv, bsp \in {"kick", "wait"}, bsp' = "walk", k' = k + 1,
         UNCHANGED <<machine, x2apic, table, ret, pending, passed, ap, stacks, bspLint, goto>>,
         machine.slow = {} => /\ ~passed.booted
                              /\ \A c \in Others : ap[c].pc \notin 1..L
  PROVE  SmpInv'
<1> USE DEF SmpInv
<1>1. /\ Listed' = Listed /\ Ids' = Ids /\ L' = L /\ Prep' = Prep /\ TargetEl' = TargetEl
  BY FrameList, FrameIds, Frame, FramePrep
<1>2. k <= Len(Listed) /\ Listed[k].id # Bsp
  BY ListFacts DEF WalkInv, Sized
<1>3. WalkInv' /\ Distinct' /\ NoBroadcast' /\ BspInv' /\ k' \in 1..(Len(Listed') + 1)
  BY <1>2, NextEntry
<1>4. TypeInv'
  BY <1>1, <1>3 DEF TypeInv, Walks
<1>5. ASSUME machine.slow = {}
      PROVE  ApInv'
  <2>1. ApInv /\ bsp # "panic"
    BY <1>5 DEF PromptInv
  <2>2. \A c \in Others : ap[c].pc > L => Settled(c)
    BY <2>1, <1>5 DEF ApInv, Refused
  <2>3. \A c \in Others : Settled(c) => Settled(c)'
    BY <1>1 DEF Settled
  <2> QED BY <2>1, <2>2, <2>3, <1>1, <1>5 DEF ApInv
<1> QED BY <1>3, <1>4, <1>5 DEF PromptInv, PassedInv

(* So does a firmware call; a refused one goes on to the next entry        *)
LEMMA KickByCallInv ==
  ASSUME SmpInv, KickByCall
  PROVE  SmpInv'
<1>1. /\ bsp = "kick"
      /\ UNCHANGED <<machine, x2apic, table, ret, pending, passed, stacks, bspLint, goto>>
  BY DEF KickByCall
<1>2. CASE CanStart(Listed[k].id) /\ ap' = [ap EXCEPT ![Listed[k].id] = Fresh] /\ bsp' = "wait" /\ k' = k
  BY <1>1, <1>2, OffNotListed, Kicked
<1>3. CASE ap' = ap /\ bsp' = "walk" /\ k' = k + 1
  <2>1. machine.slow = {} => ~passed.booted /\ \A c \in Others : ap[c].pc \notin 1..L
    BY <1>1, Quiet DEF SmpInv, PromptInv, PassedInv
  <2> QED BY <1>1, <1>3, <2>1, GivenUp
<1>4. CASE ap' = ap /\ bsp' = "wait" /\ k' = k
  BY <1>1, <1>4, Kicked
<1> QED BY <1>2, <1>3, <1>4 DEF KickByCall

(* So does a core that no IPI can be sent to                               *)
LEMMA KickRefusedInv ==
  ASSUME SmpInv, KickRefused
  PROVE  SmpInv'
<1>1. /\ bsp = "kick" /\ bsp' = "walk" /\ k' = k + 1
      /\ UNCHANGED <<machine, x2apic, table, ret, pending, passed, ap, stacks, bspLint, goto>>
  BY DEF KickRefused
<1>2. machine.slow = {} => ~passed.booted /\ \A c \in Others : ap[c].pc \notin 1..L
  BY <1>1, Quiet DEF SmpInv, PromptInv, PassedInv
<1> QED BY <1>1, <1>2, GivenUp

(* When the wait for a processor ends without an answer and nobody is      *)
(* late, the processor has not started and never will                      *)
LEMMA WaitTimesOutInv ==
  ASSUME SmpInv, WaitTimesOut
  PROVE  SmpInv'
<1>1. /\ bsp = "wait" /\ bsp' = "walk" /\ k' = k + 1 /\ ~passed.booted
      /\ UNCHANGED <<machine, x2apic, table, ret, pending, passed, ap, stacks, bspLint, goto>>
      /\ Listed[k].id \in DOMAIN ap \ (machine.dead \cup machine.slow) =>
           ap[Listed[k].id].pc \in {Off, Parked, InKernel}
  BY DEF WaitTimesOut
<1>2. ASSUME machine.slow = {}, NEW c \in Others, ap[c].pc \in 1..L
      PROVE  FALSE
  <2>1. L \in Nat
    BY Steps DEF SmpInv
  <2>2. c = Listed[k].id /\ c \notin machine.dead
    BY <1>2, <2>1 DEF SmpInv, PromptInv, ApInv, Current
  <2>3. ap[c].pc \in {0, L + 1, L + 2}
    BY <1>1, <1>2, <2>2 DEF SmpInv, TypeInv, Off, Parked, InKernel, L
  <2> QED BY <1>2, <2>1, <2>3
<1> QED BY <1>1, <1>2, GivenUp

(* When the processor answered, it is through the trampoline, and the      *)
(* entry it took is the one that is now added to the table                 *)
LEMMA WaitSeesInv ==
  ASSUME SmpInv, WaitSees
  PROVE  SmpInv'
<1> USE DEF SmpInv
<1>1. /\ bsp = "wait" /\ passed.booted
      /\ UNCHANGED <<machine, x2apic, table, pending, passed, ap, stacks, bspLint, goto>>
  BY DEF WaitSees
<1>2. /\ Listed' = Listed /\ L' = L /\ Prep' = Prep /\ TargetEl' = TargetEl
  BY <1>1, FrameList, Frame, FramePrep
<1>3. /\ L \in Nat /\ L >= 2
      /\ \E n \in 1..L : ApSteps[n] = "info"
      /\ machine.arch = "x86" => \E n \in 1..L : ApSteps[n] = "apic"
      /\ machine.arch = "x86" => \E n \in 1..L : ApSteps[n] = "lint"
      /\ machine.arch = "aarch64" => \E n \in 1..L : ApSteps[n] = "el"
  BY Steps
<1>8. PICK c : c = Listed[k].id
  OBVIOUS
<1>4. /\ k \in Sized /\ Listed[k].on /\ c # Bsp /\ k \in 1..Len(Listed)
      /\ machine.arch = "x86" => c \notin Ids \cup {Wide} /\ (x2apic \/ c # Narrow)
  BY <1>1, <1>8 DEF WalkInv, Sized
<1>5. ASSUME machine.slow = {}
      PROVE  /\ c \in Others /\ ap[c].pc > L /\ c \notin Ids
             /\ ap[c].info = Len(ret) + 1
             /\ machine.arch = "x86" => ap[c].x2apic = x2apic /\ ap[c].lint = Prep[Listed[k].uid]
             /\ machine.arch = "aarch64" => ap[c].el = passed.el
             /\ \A d \in Others : ap[d].pc \notin 1..L
             /\ \A d \in Others \ {c} : ap[d].pc > L => Settled(d)
             /\ ApInv
  <2>1. PassedInv /\ ApInv
    BY <1>5 DEF PromptInv
  <2>2. c \in Others /\ ap[c].pc > L /\ Current(c)
    BY <2>1, <1>1, <1>8 DEF PassedInv
  <2>3. c \notin Ids /\ Progress(c)
    BY <2>2 DEF Current
  <2>4. \A n \in 1..L : n < ap[c].pc
    BY <2>2, <1>3 DEF TypeInv
  <2>5. /\ passed.info = Len(ret) + 1 /\ passed.x2apic = x2apic
        /\ Handed = Prep[Listed[k].uid]
    BY <2>1, <1>1 DEF PassedInv
  <2>6. /\ ap[c].info = Len(ret) + 1
        /\ machine.arch = "x86" => ap[c].x2apic = x2apic /\ ap[c].lint = Prep[Listed[k].uid]
        /\ machine.arch = "aarch64" => ap[c].el = passed.el
    BY <2>3, <2>4, <2>5, <1>3 DEF Progress
  <2>7. /\ \A d \in Others : ap[d].pc \notin 1..L
        /\ \A d \in Others \ {c} : ap[d].pc > L => Settled(d)
    BY <2>1, <1>1, <1>8 DEF ApInv, Current, Refused
  <2> QED BY <2>1, <2>2, <2>3, <2>6, <2>7
<1>6. CASE ElWrong
  <2>1. bsp' = "panic" /\ k' = k /\ ret' = ret /\ machine.arch = "aarch64"
    BY <1>6 DEF WaitSees, ElWrong
  <2>2. Ids' = Ids /\ BspUid' = BspUid /\ HasX2' = HasX2 /\ Sized' = Sized
    BY <1>1, <1>2, <2>1, FrameIds, FrameBsp, FrameSized
  <2>3. TypeInv'
    BY <1>1, <1>2, <2>1 DEF TypeInv, Walks
  <2>4. WalkInv'
    BY <1>1, <1>2, <2>1, <2>2 DEF WalkInv, Walks
  <2>5. Distinct' /\ NoBroadcast'
    BY <1>1, <2>1, <2>2 DEF Distinct, NoBroadcast
  <2>6. BspInv'
    BY <1>1, <2>1, <2>2 DEF BspInv
  <2>7. ASSUME machine.slow = {}
        PROVE  ApInv'
    <3>1. Refused(c)'
      BY <1>5, <2>1, <2>2, <2>7, <1>1 DEF Refused
    <3>2. \A d \in Others : Settled(d) => Settled(d)'
      BY <1>1, <1>2, <2>1 DEF Settled
    <3>3. \A d \in Others : ap[d].pc > L => Settled(d)' \/ Refused(d)'
      BY <1>5, <2>7, <3>1, <3>2
    <3> QED BY <1>1, <1>2, <1>5, <2>2, <2>7, <3>3 DEF ApInv
  <2> QED BY <2>1, <2>3, <2>4, <2>5, <2>6, <2>7, <1>1 DEF PromptInv, PassedInv
<1>7. CASE ~ElWrong
  <2>1. /\ bsp' = "walk" /\ k' = k + 1
        /\ ret' = Append(ret, [id |-> Listed[k].id, uid |-> Listed[k].uid])
    BY <1>7 DEF WaitSees
  <2>2. c \notin Ids
    BY <1>1, <1>4, <1>5, <1>8, TakenOnce
  <2>3. /\ WalkInv' /\ Distinct' /\ NoBroadcast' /\ BspInv' /\ k' \in 1..(Len(Listed') + 1)
        /\ Ids' = Ids \cup {c}
        /\ ret' \in Seq([id: Nat, uid: Nat]) /\ Len(ret') = Len(ret) + 1
        /\ \A a \in 1..Len(ret) : ret'[a] = ret[a]
        /\ ret'[Len(ret) + 1] = [id |-> c, uid |-> Listed[k].uid]
    BY <1>1, <1>4, <1>8, <2>1, <2>2, NextTaken
  <2>4. TypeInv'
    BY <1>1, <1>2, <2>1, <2>3 DEF TypeInv, Walks
  <2>5. ASSUME machine.slow = {}
        PROVE  ApInv'
    <3>1. Len(ret) \in Nat
      BY ListFacts
    <3>2. machine.arch = "aarch64" => passed.el = TargetEl
      BY <1>7 DEF ElWrong
    <3>3. Settled(c)'
      <4>0. ap[c].info = Len(ret) + 1
        BY <1>5, <2>5
      <4>1. ap[c].info \in 1..Len(ret')
        BY <2>3, <3>1, <4>0
      <4>2. ret'[ap[c].info].id = c /\ ret'[ap[c].info].uid = Listed[k].uid
        BY <4>0, <2>3
      <4> QED BY <1>1, <1>2, <1>5, <2>5, <3>2, <4>1, <4>2 DEF Settled
    <3>4. ASSUME NEW d \in Others, Settled(d)
          PROVE  Settled(d)'
      <4>1. ap[d].info \in 1..Len(ret)
        BY <3>4 DEF Settled
      <4>2. ap[d].info \in 1..Len(ret')
        BY <2>3, <3>1, <4>1, Widened
      <4>3. ret'[ap[d].info] = ret[ap[d].info]
        BY <2>3, <4>1
      <4> QED BY <1>1, <1>2, <3>4, <4>2, <4>3 DEF Settled
    <3>5. \A d \in Others : ap[d].pc > L => Settled(d)'
      BY <1>5, <2>5, <3>3, <3>4
    <3> QED BY <1>1, <1>2, <1>5, <2>3, <2>5, <3>5 DEF ApInv
  <2> QED BY <2>1, <2>3, <2>4, <2>5, <1>1 DEF PromptInv, PassedInv
<1> QED BY <1>6, <1>7

(* The end of a list of entries, of which the next one is walked from its  *)
(* first entry if there is one, keeps the invariant                        *)
LEMMA WalkEndsInv ==
  ASSUME SmpInv, WalkEnds
  PROVE  SmpInv'
<1> USE DEF SmpInv
<1>1. /\ bsp = "walk" /\ k > Len(Listed)
      /\ UNCHANGED <<machine, x2apic, ret, pending, passed, ap, stacks, bspLint, goto>>
  BY DEF WalkEnds
<1>2. Ids' = Ids /\ L' = L /\ Len(ret) \in Nat /\ k = Len(Listed) + 1
  BY <1>1, FrameIds, Frame, ListFacts DEF TypeInv
<1>3. CASE ret = << >> /\ table < Len(machine.tables)
  <2>1. table' = table + 1 /\ k' = 1 /\ bsp' = bsp /\ 1..(k' - 1) = {} /\ 1..Len(ret) = {} /\ Len(ret) = 0
    BY <1>3 DEF WalkEnds
  <2>2. table' \in 1..Len(machine.tables) /\ machine.tables \in Seq(Seq(CpuEntries))
    BY <1>3, <2>1, SmpConstants DEF TypeInv
  <2>3. Listed' = machine.tables[table']
    BY <1>1 DEF Listed
  <2>4. Len(Listed') \in Nat
    BY <2>2, <2>3
  <2>5. TypeInv'
    BY <1>1, <1>2, <2>1, <2>2, <2>4 DEF TypeInv, Walks
  <2>7. WalkInv'
    BY <1>1, <2>1 DEF WalkInv
  <2>8. Distinct' /\ NoBroadcast'
    BY <1>1, <1>2 DEF Distinct, NoBroadcast
  <2>9. BspInv'
    BY <1>1, <2>1 DEF BspInv
  <2> QED BY <1>1, <2>1, <2>5, <2>7, <2>8, <2>9, QuietStep DEF PromptInv, PassedInv
<1>4. CASE ~(ret = << >> /\ table < Len(machine.tables))
  <2>1. bsp' = "table" /\ table' = table /\ k' = k
    BY <1>4 DEF WalkEnds
  <2>2. Listed' = Listed
    BY <1>1, <2>1, FrameList
  <2>3. BspUid' = BspUid /\ HasX2' = HasX2 /\ Sized' = Sized
    BY <1>1, <2>2, FrameBsp, FrameSized
  <2>4. TypeInv'
    BY <1>1, <1>2, <2>1, <2>2 DEF TypeInv, Walks
  <2>5. WalkInv'
    BY <1>1, <1>2, <2>1, <2>2, <2>3 DEF WalkInv, Walks
  <2>6. Distinct' /\ NoBroadcast'
    BY <1>1, <1>2 DEF Distinct, NoBroadcast
  <2>7. BspInv'
    BY <1>1, <1>2, <2>1, <2>2, <2>3 DEF BspInv
  <2> QED BY <1>1, <2>1, <2>4, <2>5, <2>6, <2>7, QuietStep DEF PromptInv, PassedInv
<1> QED BY <1>3, <1>4

(* On x86 the table is never handed over without the boot processor *)
LEMMA BspListed ==
  ASSUME SmpInv, bsp = "table", machine.arch = "x86"
  PROVE  ret # << >>
<1> USE DEF SmpInv
<1>1. WellListed(machine, Listed) /\ k = Len(Listed) + 1 /\ Len(Listed) \in Nat
  BY ListFacts DEF BspInv
<1>2. PICK n \in 1..Len(Listed) : Listed[n].id = Bsp
  BY <1>1 DEF WellListed
<1>3. \A o \in 1..Len(Listed) :
        Listed[o].id = Bsp /\ (Listed[o].kind = "x2apic" \/ ~HasX2) => Bsp \in Ids
  <2>1. 1..(k - 1) = 1..Len(Listed)
    BY <1>1
  <2> QED BY <2>1 DEF BspInv
<1>4. Bsp \in Ids
  <2>1. CASE HasX2
    BY <2>1, <1>3 DEF HasX2, madt_has_x2apic_entry
  <2>2. CASE ~HasX2
    BY <2>2, <1>2, <1>3
  <2> QED BY <2>1, <2>2
<1>5. PICK a \in 1..Len(ret) : ret[a].id = Bsp
  BY <1>4 DEF Ids
<1> QED BY <1>5, ListFacts

(* A table that came out empty gets the boot processor alone, which        *)
(* happens on x86 never                                                    *)
LEMMA MpResponseInv ==
  ASSUME SmpInv, MpResponse
  PROVE  SmpInv'
<1> USE DEF SmpInv
<1>1. /\ bsp = "table" /\ bsp' = "bsp"
      /\ ret' = IF ret = << >> THEN <<[id |-> Bsp, uid |-> 0]>> ELSE ret
      /\ UNCHANGED <<machine, x2apic, table, k, pending, passed, ap, bspLint, goto>>
  BY DEF MpResponse
<1>2. Listed' = Listed /\ L' = L /\ TargetEl' = TargetEl /\ Prep' = Prep
  BY <1>1, FrameList, Frame, FramePrep
<1>3. BspUid' = BspUid /\ HasX2' = HasX2
  BY <1>2, FrameBsp
<1>4. CASE ret # << >>
  <2>1. ret' = ret
    BY <1>1, <1>4
  <2>2. Ids' = Ids
    BY <2>1, FrameIds
  <2>3. TypeInv'
    BY <1>1, <1>2, <2>1 DEF TypeInv, Walks
  <2>4. WalkInv'
    BY <1>1 DEF WalkInv, Walks
  <2>5. Distinct' /\ NoBroadcast'
    BY <1>1, <2>1, <2>2 DEF Distinct, NoBroadcast
  <2>6. BspInv'
    BY <1>1, <1>2, <1>3, <2>1, <2>2 DEF BspInv
  <2> QED BY <1>1, <2>1, <2>3, <2>4, <2>5, <2>6, QuietStep DEF PromptInv, PassedInv
<1>5. CASE ret = << >>
  <2>1. machine.arch # "x86"
    BY <1>1, <1>5, BspListed
  <2>2. ret' = <<[id |-> Bsp, uid |-> 0]>> /\ Bsp \in Nat
    BY <1>1, <1>5, SmpConstants
  <2>3. ret' \in Seq([id: Nat, uid: Nat]) /\ Len(ret') = 1
    BY <2>2
  <2>4. Ids' = {Bsp}
    BY <2>2, <2>3 DEF Ids
  <2>5. TypeInv'
    BY <1>1, <1>2, <2>3 DEF TypeInv, Walks
  <2>6. WalkInv'
    BY <1>1 DEF WalkInv, Walks
  <2>7. Distinct' /\ NoBroadcast'
    BY <1>1, <2>1, <2>3 DEF Distinct, NoBroadcast
  <2>8. BspInv'
    BY <1>1, <2>1 DEF BspInv
  <2>9. ASSUME machine.slow = {}
        PROVE  ApInv'
    <3>1. ApInv /\ 1..Len(ret) = {}
      BY <1>5, <2>9 DEF PromptInv
    <3>2. \A c \in Others : ap[c].pc \notin 1..L /\ ~(ap[c].pc > L)
      BY <1>1, <2>9, <3>1, Quiet DEF Settled
    <3> QED BY <1>1, <1>2, <2>4, <3>1, <3>2 DEF ApInv
  <2> QED BY <1>1, <2>5, <2>6, <2>7, <2>8, <2>9 DEF PromptInv, PassedInv
<1> QED BY <1>4, <1>5

(* lapic_configure_bsp() gives the boot processor the overrides of the     *)
(* entry it has in the table                                               *)
LEMMA ConfigureBspInv ==
  ASSUME SmpInv, lapic_configure_bsp
  PROVE  SmpInv'
<1> USE DEF SmpInv
<1>1. /\ bsp = "bsp" /\ bsp' = "end"
      /\ pending' = IF machine.configure THEN lapic_prep_lint(BspUid) ELSE pending
      /\ bspLint' = Handoff(pending')
      /\ UNCHANGED <<machine, x2apic, table, k, ret, passed, ap, stacks, goto>>
  BY DEF lapic_configure_bsp
<1>2. Listed' = Listed /\ L' = L /\ Prep' = Prep /\ Ids' = Ids
  BY <1>1, FrameList, Frame, FramePrep, FrameIds
<1>3. BspUid' = BspUid /\ HasX2' = HasX2
  BY <1>2, FrameBsp
<1>4. TypeInv'
  BY <1>1, <1>2 DEF TypeInv, Walks
<1>5. WalkInv'
  BY <1>1 DEF WalkInv, Walks
<1>6. Distinct' /\ NoBroadcast'
  BY <1>1, <1>2 DEF Distinct, NoBroadcast
<1>7. ASSUME NEW a \in 1..Len(ret), ret[a].id = Bsp
      PROVE  bspLint' = Prep[ret[a].uid]
  <2>1. ret[a].uid \in Nat
    <3>1. ret \in Seq([id: Nat, uid: Nat])
      BY DEF TypeInv
    <3>2. ret[a] \in [id: Nat, uid: Nat]
      BY <3>1, Element
    <3> QED BY <3>2
  <2>2. Prep[ret[a].uid] = Handoff(lapic_prep_lint(ret[a].uid))
    BY <2>1 DEF Prep
  <2>3. CASE ~machine.configure
    BY <1>1, <2>2, <2>3, HandoffSame
  <2>4. CASE machine.configure
    <3>1. machine.arch = "x86"
      BY <2>4, SmpConstants DEF TypeInv
    <3>2. ret[a].uid = BspUid
      BY <1>7, <3>1 DEF BspInv
    <3> QED BY <1>1, <2>2, <2>4, <3>2
  <2> QED BY <2>3, <2>4
<1>8. BspInv'
  BY <1>1, <1>2, <1>3, <1>7 DEF BspInv
<1> QED BY <1>1, <1>4, <1>5, <1>6, <1>8, QuietStep DEF PromptInv, PassedInv

(* What the executable writes to an entry is not what the table was made   *)
(* of                                                                      *)
LEMMA KernelGotoInv ==
  ASSUME SmpInv, NEW n \in 1..Len(ret), KernelGoto(n)
  PROVE  SmpInv'
<1> USE DEF SmpInv
<1>1. /\ bsp = "end"
      /\ UNCHANGED <<machine, bsp, x2apic, table, k, ret, pending, passed, ap, stacks, bspLint>>
  BY DEF KernelGoto
<1>2. Listed' = Listed /\ L' = L
  BY <1>1, FrameList, Frame
<1>3. TypeInv'
  BY <1>1, <1>2 DEF TypeInv
<1>4. WalkInv' /\ Distinct' /\ NoBroadcast' /\ BspInv'
  BY <1>1, WalkStays DEF WalkSame
<1> QED BY <1>1, <1>3, <1>4, QuietStep DEF PromptInv, PassedInv

(* A step that changes nothing keeps the invariant                         *)
LEMMA StutterInv ==
  ASSUME SmpInv, UNCHANGED vars
  PROVE  SmpInv'
<1> USE DEF SmpInv
<1>1. UNCHANGED <<machine, bsp, x2apic, table, k, ret, pending, passed, ap, stacks, bspLint, goto>>
  BY DEF vars
<1>2. /\ Listed' = Listed /\ Ids' = Ids /\ L' = L /\ Prep' = Prep /\ Handed' = Handed
      /\ ApSteps' = ApSteps /\ TargetEl' = TargetEl
  BY <1>1, FrameList, FrameIds, Frame, FramePrep, FrameHanded
<1>3. TypeInv'
  BY <1>1, <1>2 DEF TypeInv
<1>4. WalkInv' /\ Distinct' /\ NoBroadcast' /\ BspInv'
  BY <1>1, WalkStays DEF WalkSame
<1>5. \A c : /\ Current(c) => Current(c)'
             /\ Settled(c) => Settled(c)'
             /\ Refused(c) => Refused(c)'
  BY <1>1, <1>2 DEF Current, Progress, Settled, Refused
<1>6. PassedInv => PassedInv'
  BY <1>1, <1>2, <1>5 DEF PassedInv
<1>7. ApInv => ApInv'
  BY <1>1, <1>2, <1>5 DEF ApInv
<1> QED BY <1>1, <1>3, <1>4, <1>6, <1>7 DEF PromptInv

(* The invariant holds before the walk                                     *)
LEMMA InitInv ==
  ASSUME Init
  PROVE  SmpInv
<1>1. /\ machine \in Machines /\ bsp = "mode" /\ table = 1 /\ k = 1 /\ ret = << >>
      /\ passed = [info |-> NoEntry, booted |-> FALSE, el |-> 0, x2apic |-> FALSE]
      /\ ap = [c \in Others |-> [Fresh EXCEPT !.pc = Off]]
  BY DEF Init, Others
<1>2. Len(ret) = 0 /\ 1..Len(ret) = {} /\ Ids = {}
  BY <1>1 DEF Ids
<1>3. machine.tables \in Seq(Seq(CpuEntries)) /\ machine.tables # << >>
  BY <1>1, SmpConstants
<1>4. 1 \in 1..Len(machine.tables)
  BY <1>3
<1>5. Len(Listed) \in Nat
  BY <1>1, <1>3, <1>4 DEF Listed
<1>6. L \in Nat
  <2>1. machine.arch \in {"x86", "aarch64", "riscv", "loongarch"}
    BY <1>1, SmpConstants
  <2> QED BY <2>1 DEF L, ApSteps
<1>7. DOMAIN ap = Others /\ \A c \in Others : DOMAIN ap[c] = Fields /\ ap[c].pc = 0
  <2>1. DOMAIN [Fresh EXCEPT !.pc = Off] = Fields /\ [Fresh EXCEPT !.pc = Off].pc = 0
    BY DEF Fresh, Fields, Off
  <2> QED BY <1>1, <2>1
<1>8. TypeInv
  BY <1>1, <1>4, <1>5, <1>6, <1>7 DEF TypeInv, Walks, PassedFields
<1>9. WalkInv
  BY <1>1, <1>2 DEF WalkInv
<1>10. Distinct /\ NoBroadcast /\ BspInv
  BY <1>1, <1>2 DEF Distinct, NoBroadcast, BspInv
<1>11. PassedInv /\ ApInv
  BY <1>1, <1>2, <1>6, <1>7 DEF PassedInv, ApInv
<1> QED BY <1>8, <1>9, <1>10, <1>11 DEF SmpInv, PromptInv

(* Every step of the boot processor, of the others and of the executable   *)
(* keeps the invariant                                                     *)
LEMMA NextInv ==
  ASSUME SmpInv, [Next]_vars
  PROVE  SmpInv'
<1>1. CASE UNCHANGED vars
  BY <1>1, StutterInv
<1>2. CASE BspStep
  BY <1>2, SetModeInv, SetModeFailsInv, WalkSkipsInv, WalkTakesBspInv, WalkStartsInv, KickX86Inv,
     KickByCallInv, KickByWriteInv, KickRefusedInv, WaitSeesInv, WaitTimesOutInv, WalkEndsInv, MpResponseInv,
     ConfigureBspInv DEF BspStep
<1>3. ASSUME NEW c \in Others, ApStep(c)
      PROVE  SmpInv'
  <2>1. CASE ApJumps(c)
    BY <2>1, ApJumpsInv
  <2>2. CASE ApApic(c) \/ ApStack(c) \/ ApLint(c) \/ ApInfo(c) \/ ApEl(c) \/ ApFlag(c)
    <3>1. PICK step \in {"apic", "stack", "lint", "info", "el", "flag"} : Effect(c, step)
      BY <2>2, ApEffects DEF SmpInv
    <3> QED BY <3>1, ApEffectInv
  <2> QED BY <1>3, <2>1, <2>2 DEF ApStep
<1>4. ASSUME NEW n \in 1..Len(ret), KernelGoto(n)
      PROVE  SmpInv'
  BY <1>4, KernelGotoInv
<1> QED BY <1>1, <1>2, <1>3, <1>4 DEF Next, Others

(* The walk, the processors it starts and the table stay in step on every  *)
(* machine: SmpInv holds throughout the start of the processors by         *)
(* init_smp(), smp_start_ap() and the trampolines                          *)
THEOREM SmpInvariant == Spec => []SmpInv
<1>1. Init => SmpInv
  BY InitInv
<1>2. SmpInv /\ [Next]_vars => SmpInv'
  BY NextInv
<1> QED BY <1>1, <1>2, PTL DEF Spec

(* On no machine is INIT sent to a processor that is already in the table, *)
(* whatever firmware lists: the duplicate check in front of smp_start_ap() *)
(* suffices                                                                *)
THEOREM TableNeverReset == Spec => []NeverReset
<1>1. SmpInv => NeverReset
  BY DEF SmpInv, WalkInv, NeverReset
<1> QED BY <1>1, SmpInvariant, PTL

(* The invariant gives everybody its own entry                             *)
LEMMA EntryFacts ==
  ASSUME SmpInv
  PROVE  OwnEntry
<1> USE DEF SmpInv
<1> SUFFICES ASSUME machine.slow = {}
             PROVE  OwnEntry
  BY DEF OwnEntry
<1>1. PassedInv /\ ApInv /\ DOMAIN ap = Others /\ Len(ret) \in Nat
  BY ListFacts DEF PromptInv, TypeInv
<1>2. /\ L \in Nat /\ L >= 2 /\ Parked = L + 1
      /\ \E n \in 1..L : ApSteps[n] = "info"
      /\ machine.arch = "x86" => \E n \in 1..L : ApSteps[n] = "apic"
  BY Steps DEF Parked, L
<1>3. \A c \in Others : ap[c].pc \in Int /\ (ap[c].pc >= Parked <=> ap[c].pc > L)
  BY <1>2 DEF TypeInv
<1>4. ASSUME NEW c \in Others, OnStack(c)
      PROVE  c = Listed[k].id
  <2>1. ap[c].pc \in 1..L
    BY <1>2, <1>3, <1>4 DEF OnStack
  <2> QED BY <1>1, <2>1 DEF ApInv, Current
<1>5. ASSUME NEW c \in Others, ap[c].pc > L
      PROVE  /\ ap[c].info <= Len(ret) => ret[ap[c].info].id = c
             /\ machine.arch = "x86" => ap[c].x2apic = x2apic
             /\ machine.arch = "aarch64" /\ c \in Ids => ap[c].el = TargetEl
             /\ machine.arch = "x86" /\ c \in Ids =>
                  ap[c].lint = Handoff(lapic_prep_lint(ret[ap[c].info].uid))
  <2>1. CASE Settled(c)
    <3>1. ret[ap[c].info].uid \in Nat
      <4>1. ret \in Seq([id: Nat, uid: Nat]) /\ ap[c].info \in 1..Len(ret)
        BY <2>1 DEF TypeInv, Settled
      <4>2. ret[ap[c].info] \in [id: Nat, uid: Nat]
        BY <4>1, Element
      <4> QED BY <4>2
    <3>2. Prep[ret[ap[c].info].uid] = Handoff(lapic_prep_lint(ret[ap[c].info].uid))
      BY <3>1 DEF Prep
    <3> QED BY <2>1, <3>2 DEF Settled
  <2>2. CASE Current(c)
    <3>1. bsp = "wait" /\ c \notin Ids /\ Progress(c)
      BY <2>2 DEF Current
    <3>2. passed.info = Len(ret) + 1 /\ passed.x2apic = x2apic
      BY <1>1, <3>1 DEF PassedInv
    <3>3. \A n \in 1..L : n < ap[c].pc
      BY <1>2, <1>3, <1>5
    <3>4. ap[c].info = Len(ret) + 1 /\ (machine.arch = "x86" => ap[c].x2apic = x2apic)
      BY <1>2, <3>1, <3>2, <3>3 DEF Progress
    <3> QED BY <1>1, <3>1, <3>4
  <2>3. CASE Refused(c)
    BY <1>1, <2>3 DEF Refused
  <2> QED BY <1>1, <1>5, <2>1, <2>2, <2>3 DEF ApInv
<1>6. ASSUME bsp = "end", NEW n \in 1..Len(ret), ret[n].id = Bsp
      PROVE  bspLint = Handoff(lapic_prep_lint(ret[n].uid))
  <2>1. ret \in Seq([id: Nat, uid: Nat])
    BY DEF TypeInv
  <2>2. ret[n] \in [id: Nat, uid: Nat]
    BY <2>1, Element
  <2>3. ret[n].uid \in Nat /\ bspLint = Prep[ret[n].uid]
    BY <2>2, <1>6 DEF BspInv
  <2> QED BY <2>3 DEF Prep
<1> QED BY <1>1, <1>3, <1>4, <1>5, <1>6 DEF OwnEntry

(* On every machine where processors answer in time or never, the shared   *)
(* stack, passed_info and overrides reach nobody but the processor they    *)
(* are meant for, and whoever is listed has the LINTs, APIC mode and EL of *)
(* its own entry                                                           *)
THEOREM EntriesAreOwn == Spec => []OwnEntry
BY SmpInvariant, EntryFacts, PTL
-----------------------------------------------------------------------------
(* Room in the table: facts about finite sets are needed from here on only *)
INSTANCE FiniteSetTheorems

(* The table has a different counted entry for each of its own, and, while *)
(* a processor is tried, that one's is counted too.                        *)
LEMMA Room ==
  ASSUME SmpInv, bsp \notin {"bsp", "end"}
  PROVE  Len(ret) + (IF bsp \in {"kick", "wait"} THEN 1 ELSE 0) <= max_cpus
<1> USE DEF SmpInv
<1>1. Len(ret) \in Nat /\ k \in Nat /\ Len(Listed) \in Nat
  BY ListFacts
<1> DEFINE more == IF bsp \in {"kick", "wait"} THEN 1 ELSE 0
           From(a) == {n \in 1..(k - 1) : n \in Sized /\ Listed[n].id = ret[a].id}
           f == [a \in 1..(Len(ret) + more) |-> IF a <= Len(ret) THEN CHOOSE n : n \in From(a) ELSE k]
<1>2. more \in {0, 1} /\ (more = 1 => k \in Sized)
  BY DEF WalkInv
<1> HIDE DEF more
<1>3. \A a \in 1..Len(ret) : f[a] \in From(a)
  <2> SUFFICES ASSUME NEW a \in 1..Len(ret)
               PROVE  f[a] \in From(a)
    OBVIOUS
  <2>1. a \in 1..(Len(ret) + more) /\ a <= Len(ret)
    BY <1>1, <1>2
  <2>2. f[a] = CHOOSE n : n \in From(a)
    BY <2>1, Zenon
  <2>3. bsp \in Walks \cup {"panic"}
    BY DEF TypeInv
  <2>4. PICK n \in 1..(k - 1) : n \in Sized /\ Listed[n].id = ret[a].id
    BY <2>3 DEF WalkInv
  <2>5. n \in From(a)
    BY <2>4
  <2> QED BY <2>2, <2>5, Zenon
<1>4. \A a \in 1..(Len(ret) + more) : a \in 1..Len(ret) \/ (a = Len(ret) + 1 /\ more = 1 /\ f[a] = k)
  BY <1>1, <1>2
<1>5. f = [a \in 1..(Len(ret) + more) |-> f[a]]
  OBVIOUS
<1> HIDE DEF f
<1>6. \A a \in 1..Len(ret) : f[a] \in Sized /\ f[a] \in 1..(k - 1) /\ Listed[f[a]].id = ret[a].id
  BY <1>3
<1>7. \A a, b \in 1..(Len(ret) + more) : f[a] = f[b] => a = b
  <2> SUFFICES ASSUME NEW a \in 1..(Len(ret) + more), NEW b \in 1..(Len(ret) + more), f[a] = f[b]
               PROVE  a = b
    OBVIOUS
  <2>1. CASE a \in 1..Len(ret) /\ b \in 1..Len(ret)
    <3>1. Listed[f[a]].id = ret[a].id /\ Listed[f[b]].id = ret[b].id
      BY <1>6, <2>1
    <3> QED BY <2>1, <3>1 DEF Distinct
  <2>2. CASE a \notin 1..Len(ret) \/ b \notin 1..Len(ret)
    BY <1>1, <1>4, <1>6, <2>2
  <2> QED BY <2>1, <2>2
<1>8. f \in Injection(1..(Len(ret) + more), Sized)
  <2>1. \A a \in 1..(Len(ret) + more) : f[a] \in Sized
    BY <1>2, <1>4, <1>6
  <2>2. f \in [1..(Len(ret) + more) -> Sized]
    BY <1>5, <2>1
  <2> QED BY <1>7, <2>2 DEF Injection, IsInjective
<1>9. IsFiniteSet(Sized)
  <2>1. IsFiniteSet(1..Len(Listed))
    BY <1>1, 1 \in Int, FS_Interval
  <2> QED BY <2>1, FS_Subset DEF Sized
<1>10. Cardinality(1..(Len(ret) + more)) <= Cardinality(Sized)
  BY <1>8, <1>9, FS_Injection DEF ExistsInjection
<1>11. Cardinality(1..(Len(ret) + more)) = Len(ret) + more
  <2>1. PICK n \in Nat : n = Len(ret) + more
    BY <1>1, <1>2
  <2>2. Cardinality(1..n) = IF 1 > n THEN 0 ELSE (n - 1) + 1
    BY 1 \in Int, n \in Int, FS_Interval
  <2> QED BY <2>1, <2>2
<1> QED BY <1>10, <1>11 DEF more, Sized, max_cpus

(* The invariant makes the table sound                                     *)
LEMMA TableFacts ==
  ASSUME SmpInv
  PROVE  TableSound
<1> USE DEF SmpInv
<1>1. machine.slow = {} => \A c \in Ids \ {Bsp} : c \in DOMAIN ap /\ ap[c].pc >= Parked
  <2>1. L \in Nat
    BY Steps
  <2> QED BY <2>1 DEF PromptInv, ApInv, TypeInv, Parked, L
<1> QED BY <1>1, Room DEF TableSound, Distinct, NoBroadcast

(* On every machine the table is sound: the array that was sized by        *)
(* another walk is never overrun, nobody is in it twice or under a         *)
(* broadcast ID, and, if nobody answers late, everybody in it is up        *)
THEOREM TableIsSound == Spec => []TableSound
BY SmpInvariant, TableFacts, PTL
=============================================================================
