--------------------------- MODULE MCAtisReports ---------------------------
(* AtisReports with lines as controllers write them and groups of METARs. *)
EXTENDS AtisReports

Number(digits, side) ==
  LET chars == Len(digits) + (IF side = None THEN 0 ELSE 1)
  IN  [Word EXCEPT !.len = chars,
                   !.blocks = <<[digits |-> digits, side |-> side, end |-> chars]>>]
Keyword(len, mark) == [Word EXCEPT !.len = len, !.marks = {mark}]

Landing   == [Keyword(7, "landing") EXCEPT !.side = <<"L", 1>>]
Departing == Keyword(9, "departure")
Approach  == Keyword(8, "landing")
Left      == [Word EXCEPT !.side = <<"L", 4>>, !.unit = <<3, 4>>]
ClosedTwy == [Word EXCEPT !.len = 6, !.side = <<"C", 1>>]
Two       == [Word EXCEPT !.len = 3, !.digit = 2]
Six       == [Word EXCEPT !.len = 3, !.digit = 6]
Point     == [Stop EXCEPT !.marks = {"stop", "point"}]
Info      == [Keyword(4, "INFO") EXCEPT !.marks = {"INFO", "info"}]
Information == Keyword(11, "info")
LetterB   == [Word EXCEPT !.len = 1, !.letter = "B"]
Notam     == Keyword(6, "NOTAM")
Feet      == [Number(<<4, 0, 0, 0>>, None) EXCEPT !.len = 6, !.unit = <<5, 6>>]

Wind(d)      == [Number(d, None) EXCEPT !.len = 7, !.group = [is |-> "wind", of |-> d]]
Altimeter(d) == [Number(d, None) EXCEPT !.len = 5, !.blocks[1].end = 5,
                                        !.group = [is |-> "altimeter", of |-> d]]
Sight(whole, num, den) ==
  [Word EXCEPT !.group = [is |-> "visibility", whole |-> whole, num |-> num,
                          den |-> den, slash |-> den > 1]]
Decimal(whole, num, den) == [Sight(whole, num, den) EXCEPT !.group.slash = FALSE]
Layer(coverage, feet) ==
  [Word EXCEPT !.len = 6,
               !.group = [is |-> "layer", coverage |-> coverage, altitude |-> feet]]

Reads(number, side) == [number |-> number, side |-> side]
Golden(line, landing, departure) ==
  [line |-> line, landing |-> landing, departure |-> departure]

\* Lines with the runways they are read to say, as the code's own tests state them:
\* a spelled runway, a single digit with its side glued to it (not padded) and apart
\* from it, a frequency taken for a runway, a unit that is not one.
GoldenLines == {
  Golden(<< >>, {}, {}),
  Golden(<<Landing, Word, Number(<<2, 6>>, "L"), Word, Number(<<2, 7>>, None), Stop>>,
    {Reads(<<2, 6>>, "L"), Reads(<<2, 7>>, None)}, {}),
  Golden(<<Departing, Number(<<8>>, "R"), Word, Landing, Number(<<8>>, None), Stop>>,
    {Reads(<<8>>, "R"), Reads(<<0, 8>>, None)},
    {Reads(<<8>>, "R"), Reads(<<0, 8>>, None)}),
  Golden(<<Landing, Word, Two, Six, Left, Stop>>, {Reads(<<2, 6>>, "L")}, {}),
  Golden(<<Word, Approach, Number(<<1, 2, 4>>, None), Point, Number(<<5>>, None), Stop>>,
    {Reads(<<0, 4>>, None)}, {}),
  Golden(<<Landing, Number(<<2, 7>>, None), Left, Stop>>, {}, {}),
  Golden(<<Departing, Two, Six, ClosedTwy, Two, Stop, Notam, Word, Feet, Stop>>,
    {}, {Reads(<<2, 6>>, "C"), Reads(<<0, 2>>, None)}),
  Golden(<<Wind(<<2, 7, 0, 1, 5>>), Sight(2, 0, 1), Layer("BKN", 800),
    Altimeter(<<2, 9, 9, 2>>), Stop>>, {}, {}),
  Golden(<<Departing, Information, Approach, Info, LetterB>>, {}, {}) }

ASSUME LinesAreRead ==
  \A g \in GoldenLines :
    RunwayContexts(g.line) = [landingRunways |-> g.landing, departureRunways |-> g.departure]

\* Why MergeKeepsRunways wants complete lines: of two positions whose sentences go on
\* in a common line, the second loses its runway.
ASSUME RunOnLinesLoseRunways ==
  LET entry(line) == [icao |-> None, code |-> None,
                      text |-> <<line, <<Number(<<2, 6>>, "L"), Stop>> >>]
  IN  RunwayContexts(MergeAtisText(<<entry(<<Departing>>), entry(<<Landing>>)>>)) =
        [landingRunways |-> {}, departureRunways |-> {Reads(<<2, 6>>, "L")}]

MCLines == {g.line : g \in GoldenLines}

MCGroups == {
  Wind(<<3, 6, 0, 1, 0>>), Altimeter(<<3, 0, 1, 2>>),
  Sight(0, 0, 1), Sight(None, 1, 2), Sight(1, 1, 2), Sight(3, 0, 1),
  Sight(5, 0, 1), Decimal(5, 1, 2), Sight(10, 0, 1),
  Layer("FEW", 400), Layer("BKN", 400), Layer("OVC", 500), Layer("BKN", 1000),
  Layer("OVC", 3000), Layer("BKN", 3500), Layer("VV", 0) }

MCSymmetry == Permutations(Icaos)
=============================================================================
