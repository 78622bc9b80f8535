------------------------------- MODULE MCIso --------------------------------
(* Discs with and without Rock Ridge, and with what can be wrong on them   *)
EXTENDS Iso, TLC

MCLower == [A |-> "a", B |-> "b", D |-> "d"]

NM(name, on) == [sig |-> "NM", name |-> name, goes_on |-> on]
CE(to, fits) == [sig |-> "CE", to |-> to, fits |-> fits]
Mark(sig) == [sig |-> sig]
SP == [sig |-> "SP", skip |-> 1]

Plain(name, extent, size, susp) ==
  [name |-> name, extent |-> extent, xattr |-> 0, size |-> size, dir |-> FALSE, multi |-> FALSE,
   interleaved |-> FALSE, susp |-> susp,
   len |-> MinLen + Len(name) + (IF Len(name) % 2 = 0 THEN 1 ELSE 0) + (IF susp = << >> THEN 0 ELSE 1 + Len(susp))]

Dir(name, extent, size, susp) == [Plain(name, extent, size, susp) EXCEPT !.dir = TRUE]
Own(susp) == [Dir(<<"self">>, 0, Sector, susp) EXCEPT !.len = MinLen + 1 + Len(susp)]
Up == Dir(<<"parent">>, 0, Sector, << >>)

(* Records one after another; one that would cross a sector begins the next *)
Place(st, r) ==
  LET o == IF (st.size % Sector) + r.len > Sector THEN NextSector(st.size) ELSE st.size
  IN  [size |-> o + r.len, recs |-> (o :> r) @@ st.recs]

Lay(recs) ==
  LET all == FoldLeft(Place, [size |-> 0, recs |-> << >>], recs)
  IN  [size |-> ((all.size + Sector - 1) \div Sector) * Sector, recs |-> all.recs]

AVersion == <<"A", ".", ";", "1">>
BVersion == <<"B", ".", ";", "1">>
BA == <<"B", "A", ";", "1">>
DName == <<"D">>

Split1 == [Plain(BVersion, 12, Sector, <<NM(<<"b">>, FALSE)>>) EXCEPT !.multi = TRUE]
Split2 == [Plain(BVersion, 13, 3, <<NM(<<"b">>, FALSE)>>) EXCEPT !.xattr = 1]
Gaps == [Plain(<<"A", "A">>, 15, 2, << >>) EXCEPT !.interleaved = TRUE]
Torn == [Plain(<<"B", "B">>, 16, 2, << >>) EXCEPT !.multi = TRUE]
Short == [Plain(<<"A", "D">>, 17, 2, << >>) EXCEPT !.len = MinLen + 1]

Root(susp) ==
  Lay(<<Own(susp), Up, Plain(AVersion, 10, 5, <<NM(<<"a">>, TRUE), CE(51, TRUE)>>), Split1, Split2,
        Dir(DName, 30, 2 * Sector, <<NM(<<"d">>, FALSE), CE(60, FALSE)>>), Plain(BA, 18, 1, <<CE(52, TRUE)>>),
        Gaps, Torn, Dir(<<"D", "B">>, 31, Sector + 1, << >>)>>)

Sub == Lay(<<Own(<< >>), Up, Plain(AVersion, 19, 2, <<CE(54, TRUE), Mark("ST"), NM(<<"d">>, FALSE)>>),
             Plain(BVersion, 20, 2, <<Mark("bad"), NM(<<"d">>, FALSE)>>), Short>>)

Areas ==
  (50 :> <<Mark("ER")>>) @@ (51 :> <<Mark("PX"), NM(<<"b">>, FALSE), NM(<<"b">>, FALSE)>>) @@ (52 :> <<CE(52, TRUE)>>)
  @@ (54 :> <<NM(<<"b", "a", "b">>, TRUE), NM(<<"b">>, FALSE)>>)

File(id, up, rr, iso, sections) == [ok |-> TRUE, dir |-> FALSE, id |-> id, up |-> up, rr |-> rr, iso |-> iso, sections |-> sections]
At(lba, size) == [lba |-> lba, size |-> size]

Tree ==
  <<File(1, 0, <<"a", "b">>, <<"A">>, <<At(10, 5)>>),
    File(2, 0, <<"b">>, <<"B">>, <<At(12, Sector), At(14, 3)>>),
    [File(3, 0, <<"d">>, <<"D">>, <<At(30, 2 * Sector)>>) EXCEPT !.dir = TRUE],
    File(4, 0, << >>, <<"B", "A">>, <<At(18, 1)>>),
    File(5, 0, << >>, <<"A", "A">>, <<At(15, 2)>>),
    File(6, 0, << >>, <<"B", "B">>, <<At(16, 2)>>),
    File(7, 3, << >>, <<"A">>, <<At(19, 2)>>),
    File(8, 3, << >>, <<"B">>, <<At(20, 2)>>),
    File(9, 3, << >>, <<"A">>, <<At(17, 2)>>),
    [File(10, 0, << >>, <<"D", "B">>, <<At(31, Sector + 1)>>) EXCEPT !.dir = TRUE]>>

Primary(version, block, size) ==
  [cd001 |-> TRUE, type |-> "primary", version |-> version, block |-> block, size |-> size, root |-> 20]
Other(type) == [cd001 |-> TRUE, type |-> type, version |-> 1]
Blank == [cd001 |-> FALSE, type |-> "boot"]

Disc(susp, rockridge, descriptors, bad, lost) ==
  [descriptors |-> descriptors, dirs |-> (20 :> Root(susp)) @@ (30 :> Sub), areas |-> Areas, bad |-> bad,
   tree |-> Tree, lost |-> lost, rockridge |-> rockridge]

Ridge == <<SP, CE(50, TRUE)>>
Sound == Primary(1, Sector, Root(Ridge).size)
All == 0 .. 10

MCDiscs ==
  {Disc(Ridge, TRUE, <<Sound>>, {}, {5, 6}),
   Disc(Ridge, TRUE, <<Other("boot"), Sound>>, {14, 30}, {5, 6, 7, 8, 9}),
   Disc(Ridge, FALSE, <<Sound>>, {50}, {5, 6}),
   Disc(<<SP>>, FALSE, <<[Sound EXCEPT !.size = Root(<<SP>>).size]>>, {}, {5, 6}),
   Disc(<< >>, FALSE, <<[Sound EXCEPT !.size = Root(<< >>).size]>>, {}, {5, 6})}
  \cup {Disc(Ridge, TRUE, d, {}, All) :
          d \in {<<Primary(2, Sector, 16)>>, <<Primary(1, 8, 16)>>, <<Primary(1, Sector, 17)>>, <<Blank>>,
                 <<Other("boot"), Blank>>, <<Other("terminator"), Sound>>, <<Other("boot")>>,
                 [i \in 1 .. 5 |-> IF i = 5 THEN Sound ELSE Other("boot")]}}
  \cup {Disc(Ridge, TRUE, <<Sound>>, {20}, All)}

Long == <<"long">>
MCRequests ==
  {<< >>, <<Long>>, <<<<"a", "b">>>>, <<<<"A", "b">>>>, <<<<"a">>>>, <<<<"b">>>>, <<<<"B">>>>, <<<<"d">>>>, <<<<"b", "a">>>>,
   <<<<"a", "a">>>>, <<<<"b", "b">>>>, <<<<"d">>, <<"a">>>>, <<<<"d">>, <<"b">>>>, <<<<"d">>, <<"d">>>>, <<<<"b">>, <<"a">>>>,
   <<<<"d", "b">>, <<"a">>>>, <<<<"d">>, <<"a", "d">>>>, <<<<"d">>, Long>>}
=============================================================================
