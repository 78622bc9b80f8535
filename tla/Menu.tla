-------------------------------- MODULE Menu --------------------------------
(***************************************************************************)
(* The boot menu (common/menu.c), the Boot Loader Interface variables it   *)
(* reads and writes (common/lib/bli.c) and its return after a failed boot  *)
(* (common/lib/panic.s2.c), over several boots of one machine.             *)
(*                                                                         *)
(* The entries of a machine are given in the order of the configuration;   *)
(* an entry's name is a sequence of characters, since names are escaped    *)
(* into paths and mapped to identifiers.  Names are not empty, and paths   *)
(* are shorter than MENU_PATH_MAX.                                         *)
(***************************************************************************)
EXTENDS Integers, SequencesExt, FiniteSetsExt

CONSTANTS
  Machines,   \* records, see MCConsole
  Window,     \* rows there are for entries
  Boots,      \* bound: boots of the machine
  Digits,     \* digits as characters
  Room        \* characters there are in loader_entries

VARIABLES
  machine,
  pc,         \* "start", "refresh", "countdown", "input", "editor", "blank",
              \* "autoboot", "loading", "failed", "os", "firmware" or "halted"
  expanded,   \* directories that are expanded
  edited,     \* entries whose body the editor made one that is skipped
  selected,   \* selected_entry
  entry,      \* selected_menu_entry
  max,        \* max_entries
  offset,     \* tree_offset
  quiet,
  skip,       \* skip_timeout
  timeout,    \* timeout_ms, in seconds
  first,      \* first_run
  saved,      \* booting_from_editor, booting_from_blank
  nv,         \* variables of the firmware
  meant,      \* the entries those variables are about
  booted,     \* what boot() was called with
  boots

vars == <<machine, pc, expanded, edited, selected, entry, max, offset, quiet, skip, timeout, first,
          saved, nv, meant, booted, boots>>

(* Body of a value that is computed once                                   *)
With(value, Body(_)) == CHOOSE r \in {Body(v) : v \in {value}} : TRUE

Null == 0
NoString == << >>

E(e) == machine.tree[e]
Entries == DOMAIN machine.tree
Order == [e \in Entries |-> e]

Init ==
  /\ machine \in Machines
  /\ pc = "start" /\ first = TRUE
  /\ expanded = {} /\ edited = {} /\ selected = 0 /\ entry = Null /\ max = 0 /\ offset = 0
  /\ quiet = FALSE /\ skip = FALSE /\ timeout = 0
  /\ saved = [editor |-> FALSE, blank |-> FALSE]
  /\ nv = [oneshot |-> NoString, last |-> NoString, default |-> NoString, entries |-> << >>,
           timeout |-> machine.timeout_var, timeout_oneshot |-> "none"]
  /\ meant = [oneshot |-> Null, last |-> Null, default |-> Null]
  /\ booted = Null /\ boots = 1
-----------------------------------------------------------------------------
(* The tree                                                                *)
should_skip_entry(e) == ~E(e).dir /\ (E(e).skip \/ e \in edited)

Children(p) == SelectSeq(Order, LAMBDA e : E(e).parent = p /\ ~should_skip_entry(e))

RECURSIVE Open(_, _)
Open(e, ex) == E(e).parent = Null \/ (E(e).parent \in ex /\ Open(E(e).parent, ex))

(* print_tree(): the entry of each row                                     *)
Rows(ex) == SelectSeq(Order, LAMBDA e : ~should_skip_entry(e) /\ Open(e, ex))

At(rows, n, otherwise) == IF n < Len(rows) THEN rows[n + 1] ELSE otherwise

RECURSIVE count_visible_entries(_, _)
count_visible_entries(p, ex) ==
  LET Row(n, e) == n + 1 + (IF E(e).dir /\ e \in ex THEN count_visible_entries(e, ex) ELSE 0)
  IN  FoldLeft(Row, 0, Children(p))

SameName(e) == SelectSeq(Children(E(e).parent), LAMBDA s : s < e /\ E(s).name = E(e).name)

get_sibling_dup_index(e) == Len(SameName(e))

(* A bug: only the separator is escaped                                    *)
BugEscapesSlash(name) ==
  FlattenSeq([k \in DOMAIN name |-> IF name[k] = "/" THEN <<"\\", name[k]>> ELSE <<name[k]>>])

escape_name(name) ==
  FlattenSeq([k \in DOMAIN name |->
                IF name[k] \in {"\\", "/", "#"} THEN <<"\\", name[k]>> ELSE <<name[k]>>])

RECURSIVE get_entry_path(_)
get_entry_path(e) ==
  (IF E(e).parent = Null THEN << >> ELSE Append(get_entry_path(E(e).parent), "/"))
    \o escape_name(E(e).name)
    \o (IF get_sibling_dup_index(e) = 0 THEN << >> ELSE <<"#", Digits[get_sibling_dup_index(e)]>>)

IsDigit(c) == \E d \in DOMAIN Digits : Digits[d] = c

(* "#N" ends a component                                                   *)
IsDup(path, k) ==
  /\ k < Len(path) /\ path[k] = "#" /\ IsDigit(path[k + 1])
  /\ k + 1 = Len(path) \/ path[k + 2] = "/"

RECURSIVE parse_path_component(_, _, _)
parse_path_component(path, k, name) ==
  IF k > Len(path) THEN [name |-> name, dup |-> 0, rest |-> << >>]
  ELSE IF path[k] = "/" THEN [name |-> name, dup |-> 0, rest |-> SubSeq(path, k + 1, Len(path))]
  ELSE IF path[k] = "\\" /\ k < Len(path) THEN parse_path_component(path, k + 2, Append(name, path[k + 1]))
  ELSE IF IsDup(path, k)
       THEN [name |-> name, dup |-> CHOOSE d \in DOMAIN Digits : Digits[d] = path[k + 1],
             rest |-> SubSeq(path, k + 3, Len(path))]
  ELSE parse_path_component(path, k + 1, Append(name, path[k]))

(* The entry of a path, its row, and the directories on the way expanded   *)
RECURSIVE find_entry_by_path(_, _, _, _)
find_entry_by_path(path, p, base, ex) ==
  LET Row(n, e) == n + 1 + (IF E(e).dir /\ e \in ex THEN count_visible_entries(e, ex) ELSE 0)
      Index(e) == FoldLeft(Row, base, SelectSeq(Children(p), LAMBDA s : s < e))
      Hits(part) == {e \in Range(Children(p)) :
                       /\ E(e).name = part.name /\ get_sibling_dup_index(e) = part.dup
                       /\ part.rest = << >> \/ E(e).dir}
      Find(part) ==
        LET hits == Hits(part)
            e == Min(hits)
        IN  IF hits = {} THEN [entry |-> Null, index |-> 0, ex |-> ex]
            ELSE IF part.rest = << >> THEN [entry |-> e, index |-> Index(e), ex |-> ex]
            ELSE find_entry_by_path(part.rest, e, Index(e) + 1, ex \cup {e})
  IN  With(parse_path_component(path, 1, << >>), Find)
-----------------------------------------------------------------------------
(* Identifiers of the Boot Loader Interface                                *)
bli_entry_base_id(e) ==
  LET Map(path) == [k \in DOMAIN path |-> IF path[k] = "/" THEN "."
                                          ELSE IF path[k] \in {"\\", "#", " "} THEN "-" ELSE path[k]]
  IN  With(get_entry_path(e), Map)

Leaves == SelectSeq(Order, LAMBDA e : ~E(e).dir /\ ~should_skip_entry(e))

bli_id_dups_before(e, base) ==
  Cardinality({o \in Range(Leaves) : o < e /\ bli_entry_base_id(o) = base})

bli_entry_id(e) ==
  LET Suffix(dups) == IF dups = 0 THEN << >> ELSE <<"-", Digits[dups + 1]>>
  IN  With(bli_entry_base_id(e), LAMBDA base : base \o With(bli_id_dups_before(e, base), Suffix))

(* LoaderEntries, to which nothing is added once an identifier did not fit *)
bli_entries_add(list, id, e) ==
  IF list.full \/ Len(id) + 1 > Room - list.len THEN [list EXCEPT !.full = TRUE]
  ELSE [list EXCEPT !.len = @ + Len(id) + 1, !.ids = Append(@, [entry |-> e, id |-> id])]

bli_publish_entries_walk ==
  LET Add(list, e) == bli_entries_add(list, bli_entry_id(e), e)
  IN  FoldLeft(Add, [ids |-> << >>, len |-> 0, full |-> FALSE], Leaves).ids

bli_id_to_entry(id) ==
  LET with == {e \in Range(Leaves) : bli_entry_id(e) = id} IN IF with = {} THEN Null ELSE Min(with)

find_entry_by_bli_id_or_path(str, ex) ==
  LET ByPath(r) == IF r.entry # Null THEN r ELSE find_entry_by_path(str, Null, 0, r.ex)
      ById(e) == IF e = Null THEN [entry |-> Null, index |-> 0, ex |-> ex]
                 ELSE With(get_entry_path(e), LAMBDA path : find_entry_by_path(path, Null, 0, ex))
  IN  With(With(bli_id_to_entry(str), ById), ByPath)
-----------------------------------------------------------------------------
(* Which entry is selected at first                                        *)
Unset(ex) == [has |-> FALSE, index |-> 0, ex |-> ex, unresolved |-> FALSE]

Found(s, r) == [s EXCEPT !.ex = r.ex, !.has = r.entry # Null, !.index = IF r.entry # Null THEN r.index ELSE @]

FromOneshot(s) ==
  IF machine.uefi /\ nv.oneshot # NoString
  THEN With(find_entry_by_bli_id_or_path(nv.oneshot, s.ex), LAMBDA r : Found(s, r)) ELSE s

FromLast(s) ==
  IF machine.uefi /\ ~s.has /\ machine.remember /\ nv.last # NoString
  THEN With(find_entry_by_path(nv.last, Null, 0, s.ex), LAMBDA r : Found(s, r)) ELSE s

FromConfig(s) ==
  LET d == machine.default
      Named(r) == [Found(s, r) EXCEPT !.has = TRUE, !.unresolved = r.entry = Null]
  IN  IF s.has \/ d.kind = "none" THEN s
      ELSE IF d.kind = "index"
           THEN [s EXCEPT !.has = TRUE, !.unresolved = d.index = 0, !.index = IF d.index = 0 THEN 0 ELSE d.index - 1]
      ELSE With(find_entry_by_path(d.path, Null, 0, s.ex), Named)

FromDefault(s) ==
  IF machine.uefi /\ ~s.has /\ nv.default # NoString
  THEN With(find_entry_by_bli_id_or_path(nv.default, s.ex), LAMBDA r : Found(s, r)) ELSE s

Selection ==
  With(With(With(FromOneshot(Unset({e \in Entries : E(e).dir /\ E(e).expanded})), FromLast), FromConfig),
       FromDefault)

TimeoutValues == {"none", "menu-force", "menu-hidden", "menu-disabled", "zero", "seconds", "junk"}

(* The timeout: a one-shot variable, the configuration, or a variable      *)
handle_timeout(t, value, erase) ==
  CASE value \in {"none", "junk"} -> t
    [] value = "menu-force"    -> [t EXCEPT !.has = TRUE, !.skip = TRUE]
    [] value = "menu-hidden"   -> [t EXCEPT !.has = TRUE, !.quiet = TRUE, !.time = 1]
    [] value = "menu-disabled" -> [t EXCEPT !.has = TRUE, !.time = 0]
    [] value = "zero"          -> IF erase THEN [t EXCEPT !.has = TRUE, !.skip = TRUE]
                                  ELSE [t EXCEPT !.has = TRUE, !.quiet = TRUE, !.time = 1]
    [] value = "seconds"       -> [t EXCEPT !.has = TRUE, !.time = 3]

FromTimeout(t) ==
  IF t.has \/ machine.timeout = "none" THEN t
  ELSE IF machine.timeout = "no" THEN [t EXCEPT !.has = TRUE, !.skip = TRUE]
  ELSE [t EXCEPT !.has = TRUE, !.time = IF machine.timeout = "zero" THEN 0 ELSE 2]

Timeouts ==
  LET t == [has |-> FALSE, skip |-> FALSE, quiet |-> machine.quiet, time |-> 2]
      oneshot == IF machine.uefi THEN handle_timeout(t, nv.timeout_oneshot, TRUE) ELSE t
      config == FromTimeout(oneshot)
  IN  IF machine.uefi /\ ~config.has THEN handle_timeout(config, nv.timeout, FALSE) ELSE config

(* A bug: the menu stays hidden where nothing is going to be booted        *)
BugStaysHidden(noboot, q) == q

Hidden(noboot, q) == q /\ ~noboot

(* The menu is entered, or entered again with its data rewound             *)
Start ==
  /\ pc = "start"
  /\ \E s \in {Selection}, t \in {Timeouts} : \E rows \in {Rows(s.ex)} :
     LET invalid == s.unresolved \/ rows = << >> \/ s.index >= Len(rows)
         noboot == ~first \/ t.skip \/ invalid \/ E(At(rows, s.index, 1)).dir
     IN  /\ expanded' = s.ex
         /\ max' = Len(rows)
         /\ selected' = IF s.index >= Len(rows) THEN 0 ELSE s.index
         /\ entry' = At(rows, s.index, Null)
         /\ timeout' = t.time
         /\ skip' = noboot
         /\ quiet' = Hidden(noboot, t.quiet)
         /\ pc' = IF ~noboot /\ t.time = 0 THEN "autoboot" ELSE "refresh"
  /\ offset' = 0
  /\ nv' = [nv EXCEPT !.oneshot = NoString, !.timeout_oneshot = "none",
                      !.entries = bli_publish_entries_walk]
  /\ meant' = [meant EXCEPT !.oneshot = Null]
  /\ UNCHANGED <<machine, edited, first, saved, booted, boots>>

(* Drawing                                                                 *)
(* A bug: the window holds one row less than the test assumes              *)
BugScrollsLate(o, n) ==
  LET down == IF n > o + Window THEN n - (Window - 1) ELSE o IN IF n < down THEN n ELSE down

Placed(o, n) ==
  LET down == IF n >= o + Window THEN n - (Window - 1) ELSE o IN IF n < down THEN n ELSE down

Refresh ==
  /\ pc = "refresh"
  /\ offset' = Placed(offset, selected)
  /\ \E rows \in {Rows(expanded)} :
         /\ max' = Len(rows)
         /\ entry' = At(rows, selected, entry)
         /\ skip' = (skip \/ rows = << >> \/ E(entry').dir)
         /\ pc' = IF ~skip' THEN "countdown"
                  ELSE IF saved.editor THEN (IF saved.blank THEN "blank" ELSE "editor")
                  ELSE "input"
  /\ UNCHANGED <<machine, expanded, edited, selected, quiet, timeout, first, saved, nv, meant, booted, boots>>

Tick ==
  /\ pc = "countdown"
  /\ timeout' = IF timeout = 0 THEN 0 ELSE timeout - 1
  /\ pc' = IF timeout' = 0 THEN "autoboot" ELSE "countdown"
  /\ UNCHANGED <<machine, expanded, edited, selected, entry, max, offset, quiet, skip, first, saved, nv,
                 meant, booted, boots>>
-----------------------------------------------------------------------------
(* Input                                                                   *)
Moves == {"home", "end", "up", "down", "wheelup", "wheeldown"}
Keys == ((Moves \cup {"enter", "e", "b", "s", "u"}) \X {0}) \cup ({"digit", "click", "move"} \X (0 .. Window))

row_to_entry_index(row) == row < Window /\ offset + row < max

(* Where a key moves the selection                                         *)
Moved(k) ==
  CASE k = "home" -> 0
    [] k = "end"  -> max - 1
    [] k = "up"   -> IF selected = 0 THEN max - 1 ELSE selected - 1
    [] k = "down" -> IF selected + 1 = max THEN 0 ELSE selected + 1
    [] k = "wheelup"   -> IF selected > 2 THEN selected - 2 ELSE 0
    [] k = "wheeldown" -> IF selected + 2 >= max THEN max - 1 ELSE selected + 2

Select(n, to) ==
  /\ selected' = n
  /\ pc' = to
  /\ entry' = IF to = "autoboot" THEN At(Rows(expanded), n, entry) ELSE entry

Go(to) == pc' = to /\ UNCHANGED <<selected, entry>>

Handle(k, n) ==
  \/ k = "b" /\ Go(IF machine.editor THEN "blank" ELSE "input")
  \/ k = "s" /\ Go(IF machine.setup THEN "firmware" ELSE "input")
  \/ k = "u" /\ Go(IF machine.shell THEN "loading" ELSE "input")
  \/ max = 0 /\ k \notin {"b", "s", "u", "enter"} /\ Go("input")
  \/ max # 0 /\ k \in Moves /\ Select(Moved(k), "refresh")
  \/ k = "enter" /\ Go("autoboot")
  \/ max # 0 /\ k = "e" /\ Go(IF machine.editor THEN "editor" ELSE "input")
  \/ /\ max # 0 /\ k = "digit"
     /\ IF n < max THEN Select(n, "autoboot") ELSE Go("refresh")
  \/ /\ max # 0 /\ k = "click"
     /\ IF row_to_entry_index(n) THEN Select(offset + n, "autoboot") ELSE Go("input")
  \/ /\ max # 0 /\ k = "move"
     /\ IF row_to_entry_index(n) /\ offset + n # selected THEN Select(offset + n, "refresh") ELSE Go("input")

(* A key during the countdown ends it; a hidden menu is shown instead      *)
Key ==
  /\ pc \in {"countdown", "input"}
  /\ skip' = TRUE
  /\ IF quiet THEN pc' = "refresh" /\ quiet' = FALSE /\ UNCHANGED <<selected, entry>>
     ELSE (\E k \in Keys : Handle(k[1], k[2])) /\ UNCHANGED quiet
  /\ booted' = IF pc' = "loading" THEN -1 ELSE booted
  /\ UNCHANGED <<machine, expanded, edited, max, offset, timeout, first, saved, nv, meant, boots>>

(* The editor returns a body to boot, or none                              *)
Editor ==
  /\ pc = "editor"
  /\ IF max = 0 \/ E(entry).dir THEN pc' = "input" /\ UNCHANGED <<saved, edited>>
     ELSE \/ pc' = "autoboot" /\ saved' = [saved EXCEPT !.editor = TRUE] /\ edited' = edited \cup {entry}
          \/ pc' = "autoboot" /\ saved' = [saved EXCEPT !.editor = TRUE] /\ edited' = edited \ {entry}
          \/ pc' = "refresh" /\ saved' = [saved EXCEPT !.editor = FALSE] /\ UNCHANGED edited
          \/ E(entry).big /\ ~saved.editor /\ pc' = "failed" /\ UNCHANGED <<saved, edited>>
  /\ UNCHANGED <<machine, expanded, selected, entry, max, offset, quiet, skip, timeout, first, nv, meant,
                 booted, boots>>

EditorBlank ==
  /\ pc = "blank"
  /\ \/ pc' = "loading" /\ booted' = -1 /\ saved' = [editor |-> TRUE, blank |-> TRUE]
     \/ pc' = "refresh" /\ saved' = [editor |-> FALSE, blank |-> FALSE] /\ UNCHANGED booted
  /\ UNCHANGED <<machine, expanded, edited, selected, entry, max, offset, quiet, skip, timeout, first, nv,
                 meant, boots>>

(* "autoboot": a directory is opened or closed, another entry is booted    *)
Autoboot ==
  /\ pc = "autoboot"
  /\ IF max = 0 THEN pc' = "input" /\ UNCHANGED <<expanded, nv, meant, booted>>
     ELSE IF E(entry).dir
     THEN /\ expanded' = IF entry \in expanded THEN expanded \ {entry} ELSE expanded \cup {entry}
          /\ pc' = "refresh" /\ UNCHANGED <<nv, meant, booted>>
     ELSE /\ pc' = "loading" /\ booted' = entry
          /\ nv' = IF machine.uefi THEN [nv EXCEPT !.last = get_entry_path(entry)]
                   ELSE nv
          /\ meant' = IF machine.uefi THEN [meant EXCEPT !.last = entry] ELSE meant
          /\ UNCHANGED expanded
  /\ UNCHANGED <<machine, edited, selected, entry, max, offset, quiet, skip, timeout, first, saved, boots>>
-----------------------------------------------------------------------------
(* boot() either starts something or ends in panic(true)                   *)
boot ==
  /\ pc = "loading"
  /\ pc' \in {"os", "failed"}
  /\ UNCHANGED <<machine, expanded, edited, selected, entry, max, offset, quiet, skip, timeout, first,
                 saved, nv, meant, booted, boots>>

reboot_to_fw_ui ==
  /\ pc = "firmware"
  /\ pc' \in {"os", "failed"}
  /\ booted' = -1
  /\ UNCHANGED <<machine, expanded, edited, selected, entry, max, offset, quiet, skip, timeout, first,
                 saved, nv, meant, boots>>

Rewound ==
  /\ expanded' = {} /\ edited' = {} /\ selected' = 0 /\ entry' = Null /\ max' = 0 /\ offset' = 0
  /\ quiet' = FALSE /\ skip' = FALSE /\ timeout' = 0 /\ booted' = Null

panic ==
  /\ pc = "failed"
  /\ Rewound
  /\ IF machine.measured THEN pc' = "halted" /\ UNCHANGED first ELSE pc' = "start" /\ first' = FALSE
  /\ UNCHANGED <<machine, saved, nv, meant, boots>>

(* What was booted may ask for an entry by its published identifier, or    *)
(* set a timeout, and the machine boots again                              *)
Reboot ==
  /\ pc = "os" /\ boots < Boots
  /\ boots' = boots + 1
  /\ pc' = "start" /\ first' = TRUE /\ Rewound
  /\ saved' = [editor |-> FALSE, blank |-> FALSE]
  /\ IF ~machine.uefi THEN UNCHANGED <<nv, meant>>
     ELSE \/ \E k \in DOMAIN nv.entries :
               \/ /\ nv' = [nv EXCEPT !.oneshot = nv.entries[k].id]
                  /\ meant' = [meant EXCEPT !.oneshot = nv.entries[k].entry]
               \/ /\ nv' = [nv EXCEPT !.default = nv.entries[k].id]
                  /\ meant' = [meant EXCEPT !.default = nv.entries[k].entry]
          \/ \E t \in TimeoutValues : nv' = [nv EXCEPT !.timeout_oneshot = t] /\ UNCHANGED meant
  /\ UNCHANGED machine

Next ==
  \/ Start \/ Refresh \/ Tick \/ Key \/ Editor \/ EditorBlank \/ Autoboot
  \/ boot \/ reboot_to_fw_ui \/ panic \/ Reboot

Alone == Refresh \/ Tick \/ Autoboot

Fairness == WF_vars(Alone)

Spec == Init /\ [][Next]_vars /\ Fairness
-----------------------------------------------------------------------------
(* The entry that is to be selected: the one-shot one the system that ran  *)
(* before asked for, the one booted last where that is remembered, the     *)
(* configured one, or the persistent default                               *)
Wanted ==
  IF meant.oneshot # Null THEN meant.oneshot
  ELSE IF machine.remember /\ meant.last # Null THEN meant.last
  ELSE IF machine.default.kind # "none" THEN Null
  ELSE meant.default

ChosenStep == Start /\ Wanted # Null => At(Rows(expanded'), selected', Null) = Wanted

(* The menu highlights the entry that is wanted, on whatever row it is,    *)
(* though what is kept between boots is its path, with duplicates and      *)
(* special characters written into it, or an identifier made from that;    *)
(* and a one-shot request does not outlive one boot.                       *)
ChosenEntryReturns == [][ChosenStep]_vars

(* The entry a key or the timeout is going to act on is the one on the     *)
(* highlighted row, that row is on the screen, and boot() is called with   *)
(* an entry that can be booted, whatever was opened, closed, scrolled,     *)
(* edited or failed before.                                                *)
BootsHighlighted ==
  /\ pc \in {"countdown", "input"} /\ max # 0 =>
       /\ offset <= selected /\ selected < offset + Window
       /\ entry = At(Rows(expanded), selected, Null)
  /\ pc = "loading" /\ booted > 0 => booted = entry /\ ~E(booted).dir

OutOfSight == quiet /\ pc \in {"refresh", "countdown", "input", "autoboot"}
Resolved == pc = "loading" \/ ~quiet

(* A hidden menu boots by itself or is shown: "quiet" never leaves the     *)
(* loader waiting for a key behind a blank screen.                         *)
HiddenMenuResolves == OutOfSight ~> Resolved
=============================================================================
