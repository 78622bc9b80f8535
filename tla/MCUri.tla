------------------------------- MODULE MCUri --------------------------------
(* Disks and servers that hold a few files, and URIs that name them        *)
EXTENDS Uri, TLC

A == <<1, 2, 3>>
B == <<4, 5, 6, 7, 8, 9>>
E == << >>
Z5 == <<11, 12>>       \* unpacks to 5 bytes
Z13 == <<13>>          \* unpacks to 13
Z0 == <<14>>           \* unpacks to none
Broken == <<15>>

MCUnpacked ==
  (Z5 :> <<21, 22, 23, 24, 25>>) @@ (Z13 :> [i \in 1 .. 13 |-> 30 + i]) @@ (Z0 :> << >>)

F(data) == [data |-> data, readable |-> TRUE, big |-> FALSE]

Disk1 == [optical |-> FALSE, index |-> 1, partition |-> 2, guids |-> {"g1"}, label |-> "L", late |-> FALSE,
          iso |-> (<<"a">> :> F(A)) @@ (<<"a", "#", "b">> :> F(B)),
          fat |-> (<<"a">> :> F(B)) @@ (<<"b">> :> F(B)) @@ (<<"e">> :> F(E)) @@ (<<"z5">> :> F(Z5)) @@ (<<"z13">> :> F(Z13))
                  @@ (<<"z0">> :> F(Z0)) @@ (<<"x">> :> F(Broken)) @@ (<<"n">> :> [F(A) EXCEPT !.readable = FALSE])
                  @@ (<<"zn">> :> [F(Z5) EXCEPT !.readable = FALSE]) @@ (<<"zb">> :> [F(Z5) EXCEPT !.big = TRUE])]
Disk2 == [Disk1 EXCEPT !.index = 2, !.guids = {"g2be"}, !.label = "M", !.late = TRUE, !.iso = << >>, !.fat = (<<"c">> :> F(A))]
Odd1 == [Disk2 EXCEPT !.optical = TRUE, !.index = 1, !.guids = {}, !.label = "", !.late = FALSE, !.fat = (<<"a">> :> F(B))]

MCMixed == [G1 |-> "g1", G2 |-> "g2"]
MCBe == [G1 |-> "g1be", G2 |-> "g2be"]
MCNumbers == ("0" :> 0) @@ ("1" :> 1) @@ ("2" :> 2) @@ ("9" :> 9)
MCDigests == [hA |-> A, hB |-> B, hE |-> E, hZ |-> Z5, hY |-> Z13, hX |-> Broken]

U(res, root, path) == res \o <<"(">> \o root \o <<"):/">> \o path
H(uri, hash) == uri \o <<"#", hash>>
Hdd(path) == U(<<"hdd">>, <<"1", ":", "2">>, path)
Gz(path) == U(<<"$", "hdd">>, <<"1", ":", "2">>, path)

(* URIs, the data they name, and the machines on which they do             *)
On(uri, data, where) == [uri |-> uri, there |-> TRUE, data |-> data, where |-> where, matches |-> TRUE]
Off(uri) == [uri |-> uri, there |-> FALSE, data |-> E, where |-> "any", matches |-> TRUE]
Wrong(entry) == [entry EXCEPT !.matches = FALSE]

Plain ==
  {On(Hdd(<<"a">>), A, "any"), On(H(Hdd(<<"b">>), "hB"), B, "any"), Wrong(On(H(Hdd(<<"b">>), "hA"), B, "any")),
   Wrong(On(H(Hdd(<<"e">>), "hA"), E, "any")), On(H(Hdd(<<"e">>), "hE"), E, "any"), On(H(Hdd(<<"a", "#", "b">>), "hB"), B, "any"),
   On(H(Gz(<<"z5">>), "hZ"), Z5, "any"), Wrong(On(H(Gz(<<"z5">>), "hA"), Z5, "any")), On(Gz(<<"z13">>), Z13, "any"),
   On(H(Gz(<<"z13">>), "hY"), Z13, "any"), On(Gz(<<"z0">>), Z0, "any"), On(H(Gz(<<"zb">>), "hZ"), Z5, "any"),
   Wrong(On(H(Gz(<<"e">>), "hA"), E, "any"))}

Routed ==
  {On(U(<<"odd">>, <<"1", ":", "2">>, <<"a">>), B, "any"), On(U(<<"guid">>, <<"G1">>, <<"a">>), A, "any"),
   On(U(<<"uuid">>, <<"G2">>, <<"c">>), A, "late"), On(U(<<"fslabel">>, <<"M">>, <<"c">>), A, "late"),
   On(U(<<"hdd">>, <<"2", ":", "2">>, <<"c">>), A, "late"), On(U(<<"boot">>, << >>, <<"b">>), B, "any"),
   On(U(<<"boot">>, <<"2">>, <<"b">>), B, "disk"), On(U(<<"tftp">>, << >>, <<"b">>), B, "net"),
   On(H(U(<<"tftp">>, <<"1.1">>, <<"a">>), "hA"), A, "net"),
   Off(Hdd(<<"missing">>)), Off(H(Hdd(<< >>), "hA")), Off(Hdd(<< >>)), Off(<<"hdd", "1", ":", "2">>), Off(<<"hdd", "(", "1">>),
   Off(U(<<"hdd">>, <<"1">>, <<"a">>)), Off(U(<<"hdd">>, <<":", "1">>, <<"a">>)), Off(U(<<"hdd">>, <<"0", ":", "1">>, <<"a">>)),
   Off(U(<<"odd">>, <<"1", ":", "9">>, <<"a">>)), Off(U(<<"guid">>, <<"bad">>, <<"a">>)), Off(U(<<"boot">>, <<"9">>, <<"a">>)),
   Off(U(<<"tftp">>, <<"bad">>, <<"a">>)), Off(U(<<"disk">>, <<"1">>, <<"a">>)), Off(Hdd(<<"long">>)), Off(H(Hdd(<<"a">>), "short")),
   Off(H(Gz(<<"x">>), "hX")), Off(Hdd(<<"n">>)), Off(H(Gz(<<"zn">>), "hZ")), Off(Gz(<<"zn">>)),
   Off(U(<<"tftp">>, << >>, <<"name">>)), Off(U(<<"boot">>, <<"1">>, <<"a">>)), Off(<<"hdd", "(", "huge">>)}

Entries == Plain \cup Routed

Unpack(e) == IF e.uri[1] = "$" /\ e.there /\ e.data # E THEN MCUnpacked[e.data] ELSE e.data
Truth(kinds) ==
  [u \in {e.uri : e \in Entries} |->
     LET e == CHOOSE e \in Entries : e.uri = u
     IN  [there |-> e.there /\ e.where \in kinds, bytes |-> Unpack(e), matches |-> e.matches]]

World(kind, ia32, secure, strict, free) ==
  [ia32 |-> ia32, uefi |-> kind = "uefi", secure |-> secure, strict |-> strict, free |-> free,
   volumes |-> <<Disk1, Disk2, Odd1>>, unpacked |-> MCUnpacked, acked |-> TRUE,
   boot |-> [pxe |-> kind = "net", optical |-> FALSE, index |-> 1, partition |-> 2],
   reply |-> IF secure THEN "" ELSE "0.0",
   servers |-> [s \in {"0.0", "1.1"} |-> IF s = "0.0" THEN <<"b">> :> F(B) ELSE <<"a">> :> F(A)],
   meant |-> Truth({"any"} \cup (IF kind = "net" THEN {"net"} ELSE {"disk"}) \cup (IF kind = "uefi" THEN {"late"} ELSE {})), empty |-> {e.uri : e \in {x \in Entries : x.there /\ x.data = E}}]

Whole == 0 .. 17
Holes == {0, 1, 2, 3, 5, 6, 7, 9, 10, 11, 12, 13, 14, 15, 16, 17}
Tight == {1, 2, 3, 4, 5, 7, 8, 9}

MCWorlds ==
  {World("bios", TRUE, FALSE, FALSE, Holes), World("bios", TRUE, FALSE, TRUE, Whole), World("uefi", FALSE, FALSE, FALSE, Holes),
   World("uefi", FALSE, TRUE, TRUE, Whole), World("net", TRUE, FALSE, FALSE, Tight), World("net", TRUE, TRUE, TRUE, Whole),
   [World("uefi", FALSE, FALSE, FALSE, Whole) EXCEPT !.boot.pxe = TRUE, !.meant = Truth({"any", "net", "late"})]}

Ask(uri, optional, high, copies, type) == [uri |-> uri, optional |-> optional, high |-> high, copies |-> copies, type |-> type]

MCRequests ==
  {Ask(e.uri, FALSE, h, TRUE, "modules") : e \in Plain, h \in BOOLEAN} \cup {Ask(e.uri, TRUE, FALSE, FALSE, "reclaim") : e \in Entries}
  \cup {Ask(e.uri, FALSE, TRUE, FALSE, "modules") : e \in Routed}
=============================================================================
