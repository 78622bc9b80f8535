------------------------------ MODULE MCConfig ------------------------------
(***************************************************************************)
(* Configurations for TLC: files of up to four lines of the kinds below,   *)
(* and machines whose configuration is in different places.                *)
(***************************************************************************)
EXTENDS Config

MCBuiltins == <<<<<<"ARCH">>, <<"x">>>>>>

Lines ==
  {<<"/", "A">>, <<"/", "/", "+", " ", "B">>, <<"K", ":", "${", "A", "}", "\r">>, << >>,
   <<" ", "L", ":", " ", "y", "\t">>, <<"${", "A", "}", "=", "x">>, <<"${", "A", "}", "B">>}
OtherLines ==
  {<<"${", "A", "}", "=", "/">>, <<"${", "A", "}", "=", "${", "A">>, <<"${", "ARCH", "}", "=", "y">>, <<"K", ":", "${", "A">>,
   <<"/", "/", "/", "A">>, <<"K", ":", "x", "${", "ARCH", "}", "}">>, <<"#", "K", ":", "x">>,
   <<"${", "A", "A", "A", "}", "=", "x">>, <<"K", ":", "${", "A", "A", "A", "}">>, <<"${", "A", "}", "=", "x", "x", "x">>}

RECURSIVE Files(_, _)
Files(n, lines) ==
  IF n = 1 THEN lines ELSE {Append(f, "\n") \o l : f \in Files(n - 1, lines), l \in lines}

(* A definition after an empty first line is left to FirstLines            *)
BlankFirst(f) == Len(f) > 1 /\ Head(Stripped(Split(f)[1]) \o <<"\n">>) = "\n" /\ Assignment(Stripped(Split(f)[2])) # 0

Alone == [uefi |-> FALSE, app |-> << >>, b2sum |-> "empty", smbios |-> [count |-> 0, structs |-> << >>],
          boot |-> << >>, parts |-> << >>]

File(f) == [Alone EXCEPT !.parts = <<[p \in {<<"boot", "/">>} |-> f]>>]

Texts == {f \in Files(4, Lines) \cup Files(2, Lines \cup OtherLines) \cup Files(1, Lines \cup OtherLines)
             \cup {Append(a, "\n") \o b : a \in Files(2, OtherLines), b \in Lines} : f # << >> /\ ~BlankFirst(f)}

Text == <<"K", ":", "x">>
Part(p) == [q \in {p} |-> <<"K", ":">> \o p]

(* Paths of the executable                                                 *)
Node(path) == [file |-> TRUE, short |-> FALSE, path |-> path]
Disk == [file |-> FALSE, short |-> FALSE, path |-> << >>]
Short(node) == [node EXCEPT !.short = TRUE]
AppPaths ==
  {<< >>, <<Disk>>, <<Node(<<"\\", "E", "\\", "f">>)>>, <<Disk, Node(<<"E", "0", "f">>), Node(<<"B", "\\", "f">>)>>,
   <<Node(<<"\\">>), Node(<<"E">>), Node(<<"\\", "\\", "B">>), Node(<<"f", "f", "f", "f", "f">>), Disk>>,
   <<Node(<<"f">>)>>, <<Node(<<"\\", "E", "\\", "f", "f", "f", "f", "f", "f", "f">>)>>,
   <<Node(<<"E", "E", "E", "E", "E", "E", "E">>), Node(<<"f">>)>>, <<Node(<<"E", "E", "E", "E", "/", "f">>)>>, <<Node(<<"E", "E", "E", "E", "E", "/", "f">>)>>,
   <<Short(Disk), Node(<<"f">>)>>, <<Node(<<"E">>), Short(Node(<<"f">>))>>}
Both(p, q) == [r \in {p, q} |-> <<"K", ":">> \o r]
Smbios(count, types, valid) ==
  [count |-> count,
   structs |-> [k \in DOMAIN types |-> [type |-> types[k], valid |-> valid, config |-> IF types[k] = 11 THEN Text ELSE << >>]]]

MCMachines ==
  {File(f) : f \in Texts}
  \cup {[Alone EXCEPT !.uefi = u, !.app = a, !.b2sum = b, !.boot = v, !.parts = <<Part(<<"limine", "/">>), Part(<< >>)>>, !.smbios = s] :
          u \in BOOLEAN, a \in AppPaths, b \in {"empty", "match", "mismatch", "invalid"},
          v \in {Both(<<"E", "/">>, <<"EFI", "/", "BOOT", "/">>), Both(<<"E", "/", "B", "/">>, <<"E", "E", "E", "E", "/">>),
                 Part(<< >>), [q \in {} |-> << >>]},
          s \in {Smbios(0, <<1, 127, 11>>, TRUE), Smbios(3, <<1, 127, 11>>, TRUE), Smbios(1, <<1, 11>>, TRUE),
                 Smbios(0, <<11>>, FALSE)}}
  \cup {Alone}

FirstLines == {File(f) : f \in {<<"\n">> \o g : g \in Files(2, Lines)}}
=============================================================================
