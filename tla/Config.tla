------------------------------- MODULE Config -------------------------------
(***************************************************************************)
(* Finding, reading and querying the configuration (common/lib/config.c).  *)
(*                                                                         *)
(* The text is a sequence of characters, with words for the names, keys    *)
(* and values, "${" for the two characters that begin a macro, and Nul for *)
(* the byte that ends it.  Positions count from 1.                         *)
(***************************************************************************)
EXTENDS Integers, SequencesExt, FiniteSetsExt

CONSTANTS
  Machines,         \* records, see MCConfig
  MaxNesting,       \* MAX_MENU_NESTING
  MaxPath,          \* EFI_APP_PATH_LEN
  ConfName,         \* characters of limine.conf and the byte that ends it
  MaxName,          \* characters of the name of a macro
  MaxValue,         \* and of its value
  Builtins          \* <<name, value>> of the macros there always are

VARIABLES
  machine,
  pc,               \* "search", "check", "normalise", "load", "expand", "tree", "menu", "panic" or "halted"
  raw,              \* the text as it was found
  text,             \* config_addr
  macros,
  tree,             \* the entries in the order of the text
  ready, bad        \* config_ready, bad_config

vars == <<machine, pc, raw, text, macros, tree, ready, bad>>

Nul == "0"
Blanks == {" ", "\t"}
NoText == << >>

Init ==
  /\ machine \in Machines
  /\ pc = "search" /\ raw = NoText /\ text = NoText /\ macros = << >> /\ tree = << >>
  /\ ready = FALSE /\ bad = FALSE

Slice(t, i, j) == SubSeq(t, i, j - 1)
First(t, i, ends) == CHOOSE j \in i .. Len(t) : t[j] \in ends /\ \A k \in i .. j - 1 : t[k] \notin ends
LineStart(t, i) == i = 1 \/ t[i - 1] = "\n"
-----------------------------------------------------------------------------
(* Where the configuration is taken from                                   *)
RECURSIVE SmbiosFrom(_)
SmbiosFrom(k) ==
  LET s == machine.smbios
  IN  IF k > Len(s.structs) \/ (s.count # 0 /\ k > s.count) THEN NoText
      ELSE IF (s.structs[k].type = 127 /\ s.count = 0) \/ ~s.structs[k].valid THEN NoText
      ELSE IF s.structs[k].type = 11 /\ s.structs[k].config # NoText THEN s.structs[k].config
      ELSE SmbiosFrom(k + 1)

init_config_smbios == SmbiosFrom(1)

(* The path of the executable, a sequence of nodes.  A node of another     *)
(* kind before the file's own is passed over                               *)
RECURSIVE FileNodes(_)
FileNodes(nodes) ==
  IF nodes = << >> \/ Head(nodes).file THEN nodes
  ELSE IF Head(nodes).short THEN << >> ELSE FileNodes(Tail(nodes))

(* One character more of the path, in which separators are one slash       *)
AddUnit(st, c) ==
  LET room == Len(st.units) + (IF st.separator THEN 1 ELSE 0) < MaxPath - 1
  IN  IF ~st.ok \/ st.ended THEN st
      ELSE IF c = Nul THEN [st EXCEPT !.ended = TRUE]
      ELSE IF c \in {"\\", "/"} THEN [st EXCEPT !.separator = TRUE]
      ELSE IF ~room THEN [st EXCEPT !.ok = ~st.separator]
      ELSE IF ~st.separator THEN [st EXCEPT !.units = Append(@, c)]
      ELSE [st EXCEPT !.units = @ \o <<"/", c>>, !.dir = Len(st.units) + 1, !.separator = FALSE]

AddNode(st, node) ==
  IF ~st.ok \/ node.short THEN [st EXCEPT !.ok = FALSE]
  ELSE FoldLeft(AddUnit, [st EXCEPT !.separator = st.units # << >>, !.ended = FALSE], node.path)

init_efi_app_path ==
  LET nodes == FileNodes(machine.app)
      others == {k \in DOMAIN nodes : ~nodes[k].file}
      run == IF others = {} THEN nodes ELSE SubSeq(nodes, 1, Min(others) - 1)
      st == FoldLeft(AddNode, [ok |-> run # << >>, units |-> << >>, dir |-> 0, separator |-> FALSE, ended |-> FALSE], run)
  IN  [ok |-> st.ok, path |-> IF st.dir = 0 THEN <<"/">> ELSE SubSeq(st.units, 1, st.dir)]

AppPath ==
  LET own == init_efi_app_path
  IN  IF own.ok /\ Len(own.path) + ConfName < MaxPath THEN own.path ELSE <<"/", "EFI", "/", "BOOT", "/">>

Paths ==
  (IF machine.uefi THEN <<AppPath>> ELSE << >>)
    \o <<<<"/", "boot", "/", "limine", "/">>, <<"/", "boot", "/">>, <<"/", "limine", "/">>, <<"/">>>>

(* A path from the root of a volume, with or without the leading slash     *)
Directory(path) == IF path # << >> /\ Head(path) = "/" THEN Tail(path) ELSE path

init_config_disk(part) ==
  LET there == {p \in DOMAIN Paths : Directory(Paths[p]) \in DOMAIN part}
  IN  IF there = {} THEN NoText ELSE part[Directory(Paths[Min(there)])]

Volumes == (IF machine.uefi THEN <<machine.boot>> ELSE << >>) \o machine.parts

Search ==
  /\ pc = "search"
  /\ LET held == {v \in DOMAIN Volumes : init_config_disk(Volumes[v]) # NoText}
         found == IF bad THEN NoText
                  ELSE IF init_config_smbios # NoText THEN init_config_smbios
                  ELSE IF held = {} THEN NoText ELSE init_config_disk(Volumes[Min(held)])
     IN  /\ raw' = found
         /\ pc' = IF found = NoText THEN "menu" ELSE "check"
  /\ UNCHANGED <<machine, text, macros, tree, ready, bad>>

(* The checksum enrolled in the executable                                 *)
Check ==
  /\ pc = "check"
  /\ IF machine.b2sum \in {"empty", "match"} THEN pc' = "normalise" ELSE pc' = "halted"
  /\ UNCHANGED <<machine, raw, text, macros, tree, ready, bad>>
-----------------------------------------------------------------------------
(* Carriage returns and the blanks around lines are dropped                *)
RECURSIVE Trimmed(_)
Trimmed(t) == IF t # << >> /\ t[Len(t)] \in Blanks THEN Trimmed(Front(t)) ELSE t

Keep(st, c) ==
  IF c = "\r" \/ (st.start /\ c \in Blanks) THEN st
  ELSE IF c = "\n" THEN [text |-> Append(Trimmed(st.text), c), start |-> TRUE]
  ELSE [text |-> Append(st.text, c), start |-> FALSE]

has_macro_references(t) == \E i \in DOMAIN t : t[i] = "${"

Normalise ==
  /\ pc = "normalise"
  /\ LET kept == FoldLeft(Keep, [text |-> << >>, start |-> TRUE], Append(raw, "\n")).text
     IN  /\ text' = Append(Trimmed(kept), Nul)
         /\ pc' = IF has_macro_references(text') THEN "load" ELSE "tree"
  /\ macros' = Builtins
  /\ UNCHANGED <<machine, raw, tree, ready, bad>>

(* A definition starts here, with the newline before it or at the start    *)
DefinitionAt(i) ==
  \/ i = 1 /\ text[1] = "${"
  \/ i < Len(text) /\ text[i] = "\n" /\ text[i + 1] = "${"

(* A bug: the first definition of a name is the one that is found          *)
BugAppends(list, name, value) == Append(list, <<name, value>>)

Define(list, name, value) == <<<<name, value>>>> \o list

(* Definitions.  The two characters of "${" are passed over with the       *)
(* newline before them, or with what the text begins with                  *)
RECURSIVE Load(_, _)
Load(i, list) ==
  IF i > Len(text) THEN [ok |-> TRUE, list |-> list]
  ELSE IF ~DefinitionAt(i) THEN Load(i + 1, list)
  ELSE LET open == IF text[i] = "\n" THEN i + 1 ELSE i
           rest == IF i = 1 /\ open = 2 THEN <<"{">> ELSE << >>
           close == First(text, open, {"}", "\n", Nul})
           end == First(text, close, {"\n", Nul})
           name == rest \o Slice(text, open + 1, close)
           value == Slice(text, close + 2, end)
       IN  IF Len(name) > MaxName THEN [ok |-> FALSE, list |-> list]
           ELSE IF text[close] # "}" \/ text[close + 1] # "=" THEN Load(close, list)
           ELSE IF Len(value) > MaxValue THEN [ok |-> FALSE, list |-> list]
           ELSE Load(end, Define(list, name, value))

LoadMacros ==
  /\ pc = "load"
  /\ \E l \in {Load(1, macros)} :
       /\ macros' = l.list
       /\ IF l.ok THEN pc' = "expand" /\ UNCHANGED bad ELSE pc' = "panic" /\ bad' = TRUE
  /\ UNCHANGED <<machine, raw, text, tree, ready>>

MacroValue(name) ==
  LET named == {k \in DOMAIN macros : macros[k][1] = name}
  IN  IF named = {} THEN << >> ELSE macros[Min(named)][2]

RECURSIVE expand_macros(_, _, _)
expand_macros(i, out, tried) ==
  IF i > Len(text) THEN [ok |-> TRUE, text |-> out]
  ELSE IF DefinitionAt(i) /\ ~tried
       THEN LET closes == {j \in i .. Len(text) : text[j] = "}"}
                close == Min(closes)
            IN  IF closes = {} THEN [ok |-> FALSE, text |-> << >>]
                ELSE IF text[close + 1] = "=" THEN expand_macros(First(text, close, {"\n", Nul}), out, FALSE)
                ELSE expand_macros(i, out, TRUE)
  ELSE IF text[i] = "${"
       THEN LET close == First(text, i, {"}", "\n", Nul})
            IN  IF text[close] # "}" \/ close - i - 1 > MaxName THEN [ok |-> FALSE, text |-> << >>]
                ELSE expand_macros(close + 1, out \o MacroValue(Slice(text, i + 1, close)), FALSE)
  ELSE expand_macros(i + 1, Append(out, text[i]), FALSE)

Expand ==
  /\ pc = "expand"
  /\ \E e \in {expand_macros(1, << >>, FALSE)} :
       IF e.ok THEN pc' = "tree" /\ text' = e.text /\ UNCHANGED bad
       ELSE pc' = "panic" /\ bad' = TRUE /\ UNCHANGED text
  /\ macros' = << >>
  /\ UNCHANGED <<machine, raw, tree, ready>>
-----------------------------------------------------------------------------
(* The tree of entries                                                     *)
EntryAt(t, i) == CHOOSE j \in i .. Len(t) :
                   /\ t[j] = Nul \/ (t[j] = "/" /\ LineStart(t, j))
                   /\ \A k \in i .. j - 1 : ~(t[k] = "/" /\ LineStart(t, k))

SkipOver(i, chars) == CHOOSE j \in i .. Len(text) : text[j] \notin chars /\ \A k \in i .. j - 1 : text[k] \in chars

None == 0

(* The entry at i, its depth and where the text goes on                    *)
Entry(i) ==
  LET slashes == SkipOver(i, {"/"})
      plus == IF text[slashes] = "+" THEN slashes + 1 ELSE slashes
      name == SkipOver(plus, Blanks)
      line == First(text, name, {"\n", Nul})
      body == IF text[line] = "\n" THEN line + 1 ELSE line
      next == IF text[body] = "/" THEN body ELSE EntryAt(text, body)
      last == IF next > body /\ text[next - 1] = "\n" THEN next - 1 ELSE next
  IN  [depth |-> slashes - i, open |-> plus > slashes, name |-> Slice(text, name, line),
       body |-> Slice(text, body, last), next |-> next]

NoneAtDepth == [d \in 0 .. MaxNesting |-> None]

RECURSIVE Entries(_, _, _)
Entries(i, made, last) ==
  IF text[i] = Nul THEN [ok |-> TRUE, made |-> made]
  ELSE LET e == Entry(i)
           n == Len(made) + 1
       IN  IF e.depth > MaxNesting \/ (e.depth > 1 /\ last[e.depth - 1] = None) THEN [ok |-> FALSE, made |-> << >>]
           ELSE LET parent == last[e.depth - 1]
                    before == last[e.depth]
                    new == [name |-> e.name, body |-> e.body, open |-> e.open, parent |-> parent,
                            sub |-> None, next |-> None]
                    linked == [k \in DOMAIN made |->
                                 IF k = parent /\ made[k].sub = None THEN [made[k] EXCEPT !.sub = n]
                                 ELSE IF k = before /\ made[k].parent = parent THEN [made[k] EXCEPT !.next = n]
                                 ELSE made[k]]
                IN  Entries(e.next, Append(linked, new),
                            [d \in DOMAIN last |-> IF d < e.depth THEN last[d] ELSE IF d = e.depth THEN n ELSE None])

create_menu_tree ==
  /\ pc = "tree"
  /\ \E first \in {EntryAt(text, 1)} : \E e \in {Entries(first, << >>, NoneAtDepth)} :
       /\ IF e.ok THEN tree' = e.made /\ pc' = "menu" /\ UNCHANGED bad
          ELSE tree' = << >> /\ pc' = "panic" /\ bad' = TRUE
       /\ text' = IF text[first] = Nul THEN text
                  ELSE IF first = 1 THEN Append(Slice(text, 1, First(text, 1, {"\n", Nul})), Nul)
                  ELSE Append(SubSeq(text, 1, first - 2), Nul)
  /\ ready' = TRUE
  /\ UNCHANGED <<machine, raw, macros>>

(* panic(true) returns to the menu with the data rewound, bad_config not   *)
panic ==
  /\ pc = "panic"
  /\ pc' = "search"
  /\ raw' = NoText /\ text' = NoText /\ tree' = << >> /\ macros' = << >> /\ ready' = FALSE
  /\ UNCHANGED <<machine, bad>>

Next == Search \/ Check \/ Normalise \/ LoadMacros \/ Expand \/ create_menu_tree \/ panic

Spec == Init /\ [][Next]_vars
-----------------------------------------------------------------------------
(* Queries: the index-th value of a key and where it is                    *)
Missing == [value |-> << >>, at |-> 0]

config_get_value(t, from, index, key) ==
  LET hits == {i \in from .. Len(t) - 1 : t[i] = key /\ t[i + 1] = ":" /\ (i = from \/ t[i - 1] = "\n")}
      hit == CHOOSE i \in hits : Cardinality({j \in hits : j < i}) = index
      start == CHOOSE j \in hit + 2 .. Len(t) : t[j] \notin Blanks /\ \A k \in hit + 2 .. j - 1 : t[k] \in Blanks
  IN  IF ~ready \/ t = NoText \/ Cardinality(hits) <= index THEN Missing
      ELSE [value |-> Slice(t, start, First(t, start, {"\n", Nul})), at |-> start]

config_get_tuple(t, index, key1, key2) ==
  LET one == config_get_value(t, 1, index, key1)
      two == config_get_value(t, one.at, 0, key2)
      after == config_get_value(t, 1, index + 1, key1)
  IN  IF one.at = 0 THEN <<Missing.value, Missing.value>>
      ELSE IF two.at # 0 /\ after.at # 0 /\ two.at > after.at THEN <<one.value, Missing.value>>
      ELSE <<one.value, two.value>>
-----------------------------------------------------------------------------
(* The same configuration read line by line                                *)
RECURSIVE Split(_)
Split(t) ==
  LET ends == {i \in DOMAIN t : t[i] = "\n"}
  IN  IF ends = {} THEN <<t>>
      ELSE <<SubSeq(t, 1, Min(ends) - 1)>> \o Split(SubSeq(t, Min(ends) + 1, Len(t)))

Stripped(l) ==
  LET ink == {i \in DOMAIN l : l[i] \notin Blanks \cup {"\r"}}
  IN  IF ink = {} THEN << >>
      ELSE SelectSeq(SubSeq(l, Min(ink), Max(ink)), LAMBDA c : c # "\r")

(* Where the assignment of a line that defines a macro is, or 0            *)
Assignment(l) ==
  LET closes == {i \in DOMAIN l : l[i] = "}"}
  IN  IF closes = {} \/ l[1] # "${" THEN 0
      ELSE IF Min(closes) < Len(l) /\ l[Min(closes) + 1] = "=" THEN Min(closes) + 1 ELSE 0

Definitions(lines) == SelectSeq(lines, LAMBDA l : Assignment(l) # 0)

Meaning(lines, name) ==
  LET defs == Builtins \o [k \in DOMAIN Definitions(lines) |->
                LET l == Definitions(lines)[k]
                IN  <<SubSeq(l, 2, Assignment(l) - 2), SubSeq(l, Assignment(l) + 1, Len(l))>>]
      named == {k \in DOMAIN defs : defs[k][1] = name}
  IN  IF named = {} THEN << >> ELSE defs[Max(named)][2]

Closed(l) == \A i \in DOMAIN l : l[i] = "${" => \E j \in i .. Len(l) : l[j] = "}"

(* Macros whose name or value is too long                                  *)
Fits(l) ==
  /\ \A i \in DOMAIN l : \A j \in i .. Len(l) :
       l[i] = "${" /\ l[j] = "}" /\ (\A k \in i .. j - 1 : l[k] # "}") /\ (Assignment(l) = 0 \/ i = 1) => j - i - 1 <= MaxName
  /\ Assignment(l) # 0 => Len(l) - Assignment(l) <= MaxValue

RECURSIVE Replaced(_, _)
Replaced(lines, l) ==
  LET opens == {i \in DOMAIN l : l[i] = "${"}
      o == Min(opens)
      c == Min({i \in o .. Len(l) : l[i] = "}"})
  IN  IF opens = {} THEN l
      ELSE SubSeq(l, 1, o - 1) \o Meaning(lines, SubSeq(l, o + 1, c - 1))
             \o Replaced(lines, SubSeq(l, c + 1, Len(l)))

Read(lines) ==
  LET others == SelectSeq(lines, LAMBDA l : Assignment(l) = 0)
  IN  [k \in DOMAIN others |-> Replaced(lines, others[k])]

Heads(lines) == SetToSortSeq({k \in DOMAIN lines : lines[k] # << >> /\ lines[k][1] = "/"}, <)
Body(lines, h) ==
  LET end == IF h = Len(Heads(lines)) THEN Len(lines) + 1 ELSE Heads(lines)[h + 1]
  IN  IF h = 0 THEN SubSeq(lines, 1, IF Heads(lines) = << >> THEN Len(lines) ELSE Heads(lines)[1] - 1)
      ELSE SubSeq(lines, Heads(lines)[h] + 1, end - 1)
Depth(l) == Cardinality({i \in DOMAIN l : \A j \in 1 .. i : l[j] = "/"})
After(l, i) ==
  LET ink == {j \in i .. Len(l) : l[j] \notin Blanks} IN IF ink = {} THEN << >> ELSE SubSeq(l, Min(ink), Len(l))
Named(l) ==
  LET open == Depth(l) < Len(l) /\ l[Depth(l) + 1] = "+"
  IN  [open |-> open, name |-> After(l, Depth(l) + (IF open THEN 2 ELSE 1))]
Above(lines, h) ==
  LET up == {g \in 1 .. h - 1 : Depth(lines[Heads(lines)[g]]) < Depth(lines[Heads(lines)[h]])}
  IN  IF up = {} THEN None ELSE Max(up)
Nests(lines) ==
  \A h \in DOMAIN Heads(lines) :
    LET d == Depth(lines[Heads(lines)[h]])
    IN  d <= MaxNesting /\ (d = 1 \/ (Above(lines, h) # None /\ Depth(lines[Heads(lines)[Above(lines, h)]]) = d - 1))

With(lines, key) == SetToSortSeq({k \in DOMAIN lines : Len(lines[k]) > 1 /\ lines[k][1] = key /\ lines[k][2] = ":"}, <)

RECURSIVE Joined(_)
Joined(lines) ==
  IF lines = << >> THEN << >>
  ELSE IF Len(lines) = 1 THEN lines[1] ELSE Append(lines[1], "\n") \o Joined(Tail(lines))

RECURSIVE PreOrder(_)
PreOrder(e) == IF e = None THEN << >> ELSE <<e>> \o PreOrder(tree[e].sub) \o PreOrder(tree[e].next)

(* What queries of a section answer                                        *)
AnswersAre(t, lines, key1, key2) ==
  LET ones == With(lines, key1)
      Until(n) == IF n < Len(ones) THEN ones[n + 1] ELSE Len(lines) + 1
      Second(n) == {k \in ones[n] .. Until(n) - 1 : \E j \in DOMAIN With(lines, key2) : With(lines, key2)[j] = k}
      Value(k) == After(lines[k], 3)
  IN  \A n \in 1 .. Len(ones) + 1 :
        IF n > Len(ones) THEN config_get_value(t, 1, n - 1, key1) = Missing
        ELSE /\ config_get_value(t, 1, n - 1, key1).value = Value(ones[n])
             /\ config_get_tuple(t, n - 1, key1, key2) =
                  <<Value(ones[n]), IF Second(n) = {} THEN << >> ELSE Value(Min(Second(n)))>>

(* The directory of the executable: all but the last of the names in the   *)
(* nodes of its path                                                       *)
RECURSIVE NamesIn(_)
NamesIn(path) ==
  LET cuts == {i \in DOMAIN path : path[i] \in {"\\", "/", Nul}}
      first == IF cuts = {} THEN path ELSE SubSeq(path, 1, Min(cuts) - 1)
  IN  (IF first = << >> THEN << >> ELSE <<first>>)
        \o (IF cuts = {} \/ path[Min(cuts)] = Nul THEN << >> ELSE NamesIn(SubSeq(path, Min(cuts) + 1, Len(path))))

OwnNames ==
  LET files == SelectSeq(machine.app, LAMBDA node : node.file)
  IN  FlattenSeq([k \in DOMAIN files |-> NamesIn(files[k].path)])

Beside == FlattenSeq([k \in 1 .. Len(OwnNames) - 1 |-> Append(OwnNames[k], "/")])

(* There is a configuration there, and its path fits                       *)
HasOwn ==
  /\ machine.uefi /\ OwnNames # << >>
  /\ \A k \in DOMAIN machine.app : ~machine.app[k].short
  /\ 1 + Len(Beside) + ConfName < MaxPath /\ Beside \in DOMAIN machine.boot

WellFormed(lines) ==
  /\ \A k \in DOMAIN lines : Fits(lines[k])
  /\ \A k \in DOMAIN lines : Assignment(lines[k]) # 0 \/ Closed(lines[k])
  /\ Nests(Read(lines))

(* The menu and every query show what the file says line by line: each     *)
(* entry with its name, its body and its place in the tree, macros with    *)
(* the last text assigned to them, however blanks, empty lines, carriage   *)
(* returns and definitions are mixed; keys of one section are not found    *)
(* in another; and only a file that is malformed is turned away, once.     *)
(* The file is the one beside the executable when there is one, however    *)
(* the executable's path is split into nodes.                              *)
ConfigExact ==
  /\ pc \in {"menu", "panic"} /\ raw # NoText =>
       \A lines \in {[k \in DOMAIN Split(raw) |-> Stripped(Split(raw)[k])]} :
         IF WellFormed(lines)
         THEN /\ pc = "menu"
              /\ \A read \in {Read(lines)} :
                   /\ AnswersAre(text, Body(read, 0), "K", "L")
                   /\ DOMAIN tree = DOMAIN Heads(read)
                   /\ \A h \in DOMAIN tree :
                        /\ [open |-> tree[h].open, name |-> tree[h].name] = Named(read[Heads(read)[h]])
                        /\ tree[h].body = Joined(Body(read, h))
                        /\ tree[h].parent = Above(read, h)
                        /\ AnswersAre(Append(tree[h].body, Nul), Body(read, h), "K", "L")
                   /\ tree # << >> => PreOrder(1) = [h \in DOMAIN tree |-> h]
         ELSE (\A k \in DOMAIN lines : Assignment(lines[k]) # 0 \/ Closed(lines[k])) => pc = "panic"
  /\ pc = "menu" /\ bad => ~ready /\ tree = << >>
  /\ pc = "check" /\ init_config_smbios = NoText /\ HasOwn =>
       raw = machine.boot[Beside]
=============================================================================
