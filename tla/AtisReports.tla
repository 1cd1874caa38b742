---------------------------- MODULE AtisReports ----------------------------
(***************************************************************************)
(* The reports that api/internal/atis builds from a datafeed and the METARs*)
(* of its stations.  The texts are written word by word and line by line;  *)
(* then a tick of the poller builds the reports, or a request to           *)
(* /airports/{icao}/weather is answered.                                   *)
(***************************************************************************)
EXTENDS AtisParser, FiniteSets, SequencesExt

CONSTANTS Icaos,
          Codes,                    \* letters an ATIS entry may have
          Lines, Groups,            \* lines of an ATIS, groups of a METAR
          MaxEntries, MaxWritten    \* bounds on positions, and on lines and groups

Words == (UNION {Range(line) : line \in Lines}) \cup Groups

\* The regular expressions take digits only: a visibility is a fraction, a whole
\* number, both, or a decimal, which has no slash.  A code is one letter.
WellFormed(group) ==
  /\ group.is = "layer" => group.altitude \in Nat
  /\ group.is = "visibility" =>
       /\ group.slash \in BOOLEAN /\ group.num \in Nat /\ group.den \in Nat
       /\ group.whole \in Nat \cup {None}
       /\ ~group.slash => group.whole # None /\ group.den # 0

ASSUME TextAssumption ==
  /\ None \notin Icaos /\ None \notin Nat
  /\ \A line \in Lines : line \in Seq(Words)
  /\ \A word \in Words : /\ word.letter \in Codes \cup {None}
                         /\ word.group # None => WellFormed(word.group)

VARIABLES
  feed,     \* the atis entries of the datafeed: icao, atis_code, text_atis
  metar,    \* METAR text of each station; << >> when it could not be had
  reports,  \* what was built of them, by station: a tick or a request
  asked     \* the request's station, None for a tick

vars == <<feed, metar, reports, asked>>

\* Nothing is built or asked for yet.
Writing == reports = None /\ asked = None

Written == FoldLeft(LAMBDA n, entry : n + Len(entry.text), 0, feed)
             + FoldFunction(LAMBDA text, n : n + Len(text), 0, metar)

Init ==
  /\ feed = << >> /\ metar = [i \in Icaos |-> << >>]
  /\ reports = None /\ asked = None
-----------------------------------------------------------------------------
(* Controllers and the weather service write. *)

\* None: a callsign of less than four characters.
SignOn(icao, code) ==
  /\ Writing /\ Len(feed) < MaxEntries
  /\ feed' = Append(feed, [icao |-> icao, code |-> code, text |-> << >>])
  /\ UNCHANGED <<metar, reports, asked>>

WriteLine(line) ==
  /\ Writing /\ feed # << >> /\ Written < MaxWritten
  /\ feed' = [feed EXCEPT ![Len(feed)].text = Append(@, line)]
  /\ UNCHANGED <<metar, reports, asked>>

Observe(icao, group) ==
  /\ Writing /\ Written < MaxWritten
  /\ metar' = [metar EXCEPT ![icao] = Append(@, group)]
  /\ UNCHANGED <<feed, reports, asked>>
-----------------------------------------------------------------------------
(* api/internal/atis *)

Stations(entries) == {e.icao : e \in Range(entries)} \ {None}

\* Mutation: the second position only adds lines where the first has none.
MergeFirstOnly(entries) ==
  IF entries # << >> /\ entries[1].text # << >> THEN FlattenSeq(entries[1].text)
  ELSE FlattenSeq(FlattenSeq([n \in DOMAIN entries |-> entries[n].text]))

\* Every line once, in the order of its first appearance.
MergeAtisText(entries) ==
  LET lines == FlattenSeq([n \in DOMAIN entries |-> entries[n].text])
  IN  FlattenSeq([n \in DOMAIN lines |->
        IF \E k \in 1..n - 1 : lines[k] = lines[n] THEN << >> ELSE lines[n]])

\* A pointer to what was parsed, nil for an empty text.
Nil == << >>
ParseOf(text) == IF text = << >> THEN Nil ELSE <<Parse(text)>>

\* Letter of the first entry that has one.
AtisLetter(entries) ==
  LET lettered == {n \in DOMAIN entries : entries[n].code # None}
  IN  IF lettered = {} THEN None ELSE entries[MinOf(lettered)].code

\* Mutation: a METAR without wind decides that there is none.
PickWindOfMetar(m, a) ==
  IF m # Nil THEN m[1].wind ELSE IF a # Nil THEN a[1].wind ELSE None

PickWind(m, a) ==
  IF m # Nil /\ m[1].wind # None THEN m[1].wind
  ELSE IF a # Nil /\ a[1].wind # None THEN a[1].wind ELSE None

PickAltimeter(m, a) ==
  IF m # Nil /\ m[1].altimeter # None THEN m[1].altimeter
  ELSE IF a # Nil /\ a[1].altimeter # None THEN a[1].altimeter ELSE None

\* Mutation: no text, no category.
PickCategoryOrNone(m, a) ==
  IF m # Nil THEN m[1].flightCategory
  ELSE IF a # Nil THEN a[1].flightCategory ELSE None

\* Unlike the others, it never looks further than the first text there is.
PickCategory(m, a) ==
  IF m # Nil THEN m[1].flightCategory
  ELSE IF a # Nil THEN a[1].flightCategory ELSE "VFR"

BuildOne(entries, metarText) ==
  LET m == ParseOf(metarText)
      a == ParseOf(MergeAtisText(entries))
  IN  [atisAvailable |-> entries # << >>, atisLetter |-> AtisLetter(entries),
       atisText |-> MergeAtisText(entries), flightCategory |-> PickCategory(m, a),
       wind |-> PickWind(m, a), altimeter |-> PickAltimeter(m, a)]

EntriesOf(entries, icao) ==
  FlattenSeq([n \in DOMAIN entries |->
    IF entries[n].icao = icao THEN <<entries[n]>> ELSE << >>])

Build(entries, metars) ==
  [i \in Stations(entries) |-> BuildOne(EntriesOf(entries, i), metars[i])]

MetarOnly(metarText) ==
  LET m == ParseOf(metarText)
  IN  [atisAvailable |-> FALSE, atisLetter |-> None, atisText |-> << >>,
       flightCategory |-> PickCategory(m, Nil), wind |-> PickWind(m, Nil),
       altimeter |-> PickAltimeter(m, Nil)]
-----------------------------------------------------------------------------
Tick ==
  /\ Writing /\ reports' = Build(feed, metar)
  /\ UNCHANGED <<feed, metar, asked>>

\* A METAR that could not be had leaves an empty text, not an error.
HandleAirportWeather(icao) ==
  /\ Writing /\ asked' = icao
  /\ reports' = [i \in {icao} |-> MetarOnly(metar[icao])]
  /\ UNCHANGED <<feed, metar>>

Next ==
  \/ Tick \/ \E line \in Lines : WriteLine(line)
  \/ \E icao \in Icaos : \/ HandleAirportWeather(icao)
                         \/ \E group \in Groups : Observe(icao, group)
  \/ \E icao \in Icaos \cup {None}, code \in Codes \cup {None} : SignOn(icao, code)

Spec == Init /\ [][Next]_vars
-----------------------------------------------------------------------------
(* Properties *)

Categories == {"LIFR", "IFR", "MVFR", "VFR"}
Grade(category) == CASE category = "LIFR" -> 1 [] category = "IFR" -> 2
                     [] category = "MVFR" -> 3 [] category = "VFR" -> 4

\* The texts a report is made of, in the order they are read.
AtisLines(icao) ==
  IF asked # None THEN {} ELSE UNION {Range(e.text) : e \in Range(EntriesOf(feed, icao))}

\* A report has a category, its letter and its groups are such or None; parsing
\* any text gives all that Parse returns.
TypeOK ==
  reports # None =>
    /\ DOMAIN reports \subseteq Icaos /\ asked \in Icaos \cup {None}
    /\ \A i \in DOMAIN reports :
         /\ reports[i].flightCategory \in Categories
         /\ reports[i].atisAvailable = (asked = None)
         /\ reports[i].atisLetter \in Codes \cup {None}
         /\ LET p == Parse(reports[i].atisText)
            IN  /\ p.atisCode \in Codes \cup {None}
                /\ p.atisType \in {"ARRIVAL", "DEPARTURE", "COMBINED", "UNKNOWN"}
                /\ \A pair \in p.frequencies : Len(pair[1]) = 3 /\ Len(pair[2]) < 4
                /\ p.notams # {} => Marked(reports[i].atisText, "NOTAM") # {}

States(texts, kind) == \E text \in texts : First(text, kind) # None

\* Wind and altimeter that any text of a station states are in its report, the
\* letter of any of its positions too, and nothing of another station: merging
\* split positions, dropping repeated lines or a METAR without the group loses
\* none (buildOne, mergeAtisText, pickWind, pickAltimeter).
StatedWeatherIsKept ==
  reports # None =>
    /\ asked = None => DOMAIN reports = Stations(feed)
    /\ \A i \in DOMAIN reports :
         LET texts == AtisLines(i) \cup {metar[i]}
         IN  /\ (reports[i].wind # None) = States(texts, "wind")
             /\ (reports[i].altimeter # None) = States(texts, "altimeter")
             /\ (reports[i].atisLetter # None) =
                  (asked = None /\ \E e \in Range(feed) : e.icao = i /\ e.code # None)

\* A line after which another one starts a sentence of its own.
Complete(line) == line = << >> \/ Len(line) \in Marked(line, "stop")

\* The merged text of a station has exactly the landing and the departure runways
\* that its lines say one by one: however they are split over positions and whatever
\* is repeated, no runway is lost and none slips from one list into the other
\* (extractRunwayContexts over mergeAtisText).  Exempt are stations with a line that
\* goes on in the next one, where a dropped repetition cuts a sentence.
MergeKeepsRunways ==
  reports # None =>
    \A i \in DOMAIN reports :
      (\A line \in AtisLines(i) : Complete(line)) =>
        \A keyword \in {"landing", "departure"} :
          RunwaysSaid(reports[i].atisText, keyword) =
            UNION {RunwaysSaid(line, keyword) : line \in AtisLines(i)}

\* What the weather is: the whole visibility and the lowest ceiling.
GradeOfVisibility(g) ==
  LET whole == IF g = None \/ g.whole = None THEN 0 ELSE g.whole
      num   == whole * g.den + g.num
  IN  CASE g = None -> 4
        [] g # None /\ num < g.den -> 1
        [] g # None /\ num >= g.den /\ num < 3 * g.den -> 2
        [] g # None /\ num >= 3 * g.den /\ num <= 5 * g.den -> 3
        [] OTHER -> 4

GradeOfCeiling(text) ==
  IF \E k \in CeilingLayers(text) : text[k].group.altitude < 500 THEN 1
  ELSE IF \E k \in CeilingLayers(text) : text[k].group.altitude < 1000 THEN 2
  ELSE IF \E k \in CeilingLayers(text) : text[k].group.altitude <= 3000 THEN 3 ELSE 4

TrueGrade(text) ==
  MinOf({GradeOfVisibility(First(text, "visibility")), GradeOfCeiling(text)})

\* Nothing of the visibility is dropped: it is no mixed number and no decimal.
ReadInFull(g) == g = None \/ (g.slash /\ g.whole = None) \/ (~g.slash /\ g.num = 0)

\* Every way in which the category of a text errs goes in one known direction,
\* whatever the order of its layers.  It is not worse than the weather if the
\* visibility is read in full, and not better if a visibility and a single ceiling
\* layer are read and neither is zero; with both it is exact (Ceiling, Category).
CategoryErrsOneWay ==
  reports # None =>
    \A i \in DOMAIN reports :
      LET text  == IF metar[i] # << >> THEN metar[i] ELSE reports[i].atisText
          grade == Grade(reports[i].flightCategory)
          known == Visibility(text) # None /\ Visibility(text)[1] # 0
                     /\ Cardinality(CeilingLayers(text)) = 1 /\ Ceiling(text) # 0
      IN  /\ ReadInFull(First(text, "visibility")) => grade >= TrueGrade(text)
          /\ known => grade <= TrueGrade(text)
=============================================================================
