------------------------------ MODULE MCConsole ------------------------------
(***************************************************************************)
(* What the user meets before a kernel is loaded, each part on its own     *)
(* inputs: the configuration file, the menu and the editor of an entry.    *)
(* A behaviour is one of the part that component names; the variables of   *)
(* the others stay empty.                                                  *)
(***************************************************************************)
EXTENDS Integers, Sequences

VARIABLES
  component,
  machine, pc, raw, text, macros, tree, ready, bad,
  expanded, edited, selected, entry, max, offset, quiet, skip, timeout, first, saved, nv, meant, booted, boots,
  orig, buffer, cursor, row, drawn, passes, again

(* The inputs, which depend on none of the constants                       *)
CI == INSTANCE MCConfig WITH Machines <- {}, MaxNesting <- 2, Builtins <- << >>,
                           MaxPath <- 9, ConfName <- 3, MaxName <- 2, MaxValue <- 2
MI == INSTANCE Menu WITH Machines <- {}, Window <- 2, Boots <- 2, Digits <- << >>, Room <- 16

Configurations == CI!MCMachines
Originals == {<<"nl", "nl", "a", "nl">>, <<"a", "tab", "a">>, <<"a", "a", "a", "a", "a", "a">>}

(* Menus of entries, directories, duplicates and hidden entries           *)
Digits == <<"1", "2", "3", "4">>

Leaf(parent, name) ==
  [parent |-> parent, name |-> name, dir |-> FALSE, skip |-> FALSE, expanded |-> FALSE, big |-> FALSE]
Dir(parent, name, open) == [Leaf(parent, name) EXCEPT !.dir = TRUE, !.expanded = open]
Skipped(parent, name) == [Leaf(parent, name) EXCEPT !.skip = TRUE]

(* Duplicates inside a directory, one of them skipped, after another one   *)
Nested == <<Dir(0, <<"d">>, TRUE), Leaf(1, <<"a">>), Dir(0, <<"d">>, FALSE), Skipped(3, <<"a">>),
            Leaf(3, <<"a">>), Leaf(3, <<"a">>)>>
(* Names that look like paths with a duplicate                             *)
Marked == <<Leaf(0, <<"a">>), Leaf(0, <<"a">>), Leaf(0, <<"a", "#", "1">>), Leaf(0, <<"a", "/", "a">>),
            [Leaf(0, <<"\\", "a">>) EXCEPT !.big = TRUE]>>
NoEntries == <<Skipped(0, <<"a">>)>>

Plain ==
  [tree |-> Nested, uefi |-> TRUE, remember |-> TRUE, default |-> [kind |-> "none", index |-> 0, path |-> << >>],
   timeout |-> "none", timeout_var |-> "none", quiet |-> FALSE, editor |-> TRUE, setup |-> TRUE, shell |-> TRUE,
   measured |-> FALSE]

Default(k, n, path) == [kind |-> k, index |-> n, path |-> path]

Menus ==
  {[Plain EXCEPT !.tree = t, !.remember = r] : t \in {Nested, Marked}, r \in BOOLEAN}
  \cup {[Plain EXCEPT !.tree = NoEntries, !.quiet = q, !.shell = q, !.timeout = "none"] : q \in BOOLEAN}
  \cup {[Plain EXCEPT !.uefi = FALSE, !.editor = FALSE, !.setup = FALSE, !.shell = FALSE, !.remember = FALSE,
                      !.default = d, !.quiet = q, !.timeout = t] :
          d \in {Default("index", 0, << >>), Default("index", 2, << >>), Default("index", 9, << >>),
                 Default("path", 0, <<"d", "#", "1", "/", "a", "#", "1">>), Default("path", 0, <<"z">>)},
          q \in BOOLEAN, t \in {"none", "no", "zero", "some"}}
  \cup {[Plain EXCEPT !.measured = TRUE, !.quiet = TRUE, !.editor = FALSE, !.timeout_var = v,
                      !.remember = FALSE, !.setup = FALSE] :
          v \in MI!TimeoutValues}

C == INSTANCE Config WITH Machines <- Configurations, MaxNesting <- 2, Builtins <- CI!MCBuiltins,
                         MaxPath <- 9, ConfName <- 3, MaxName <- 2, MaxValue <- 2
M == INSTANCE Menu WITH Machines <- Menus, Window <- 2, Boots <- 2, Room <- 16
E == INSTANCE Editor WITH MaxBuffer <- 6, LineSize <- 3, Window <- 2, Tab <- 8

configOnly == <<raw, text, macros, tree, ready, bad>>
menuOnly == <<expanded, edited, selected, entry, max, offset, quiet, skip, timeout, first, nv, meant, booted, boots>>
editorOnly == <<orig, buffer, cursor, row, drawn, passes, again>>
vars == <<component, machine, pc, saved, configOnly, menuOnly, editorOnly>>

NoConfig ==
  /\ raw = 0 /\ text = 0 /\ macros = 0 /\ tree = 0 /\ ready = 0 /\ bad = 0
NoMenu ==
  /\ expanded = 0 /\ edited = 0 /\ selected = 0 /\ entry = 0 /\ max = 0 /\ offset = 0 /\ quiet = FALSE /\ skip = 0
  /\ timeout = 0 /\ first = 0 /\ nv = 0 /\ meant = 0 /\ booted = 0 /\ boots = 0
NoEditor ==
  /\ orig = 0 /\ buffer = 0 /\ cursor = 0 /\ row = 0 /\ drawn = 0 /\ passes = 0 /\ again = 0

Init ==
  \/ component = "config" /\ C!Init /\ NoMenu /\ NoEditor /\ saved = 0
  \/ component = "menu" /\ M!Init /\ NoConfig /\ NoEditor
  \/ component = "editor" /\ E!Init /\ NoConfig /\ NoMenu /\ machine = 0

ConfigStep == component = "config" /\ C!Next /\ UNCHANGED <<component, saved, menuOnly, editorOnly>>
MenuStep == component = "menu" /\ M!Next /\ UNCHANGED <<component, configOnly, editorOnly>>
EditorStep == component = "editor" /\ E!Next /\ UNCHANGED <<component, machine, configOnly, menuOnly>>

(* What the menu does without a key, the only steps that are sure to come  *)
MenuAlone == component = "menu" /\ M!Alone /\ UNCHANGED <<component, configOnly, editorOnly>>

Next == ConfigStep \/ MenuStep \/ EditorStep

Spec == Init /\ [][Next]_vars /\ WF_vars(MenuAlone)

(* The configuration is what reading the file line by line gives           *)
ConfigExact == component = "config" => C!ConfigExact

(* The menu acts on the entry that is highlighted                          *)
BootsHighlighted == component = "menu" => M!BootsHighlighted

(* The entry chosen for the next start is selected at the next start       *)
ChosenEntryReturns == [][component = "menu" => M!ChosenStep]_vars

(* A hidden menu boots something or shows itself                           *)
HiddenMenuResolves == (component = "menu" /\ M!OutOfSight) ~> M!Resolved

(* The cursor of the editor is on the screen at each redraw                *)
CursorOnScreen == component = "editor" => E!CursorOnScreen
=============================================================================
