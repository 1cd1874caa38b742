---------------------------- MODULE AtisParser ----------------------------
(***************************************************************************)
(* What api/internal/parser reads out of an ATIS or METAR text.  A text is *)
(* a sequence of words; a word is known by what the regular expressions    *)
(* find in it.  One space separates two words, a full stop follows its     *)
(* word at once.                                                           *)
(***************************************************************************)
EXTENDS Integers, Sequences

CONSTANT None     \* nil: no group, no ceiling, no visibility

\* A word without anything to find; the others are variants of it.
\*   len     its characters            digit   of a spelled number, ZERO..NINE
\*   blocks  the numbers in it: digits, the side glued to them, where they end
\*   side    L, R or C if it begins so, and the characters it takes to say so
\*   unit    first and last character of one of nonRunwayUnits in it
\*   marks   keywords in it            group   the weather group it is
\*   letter  itself, if it is one
\* The marks "INFO" and "info" are the word INFO and the four letters anywhere.
Word == [len |-> 4, digit |-> None, blocks |-> <<>>, side |-> None, unit |-> None,
         marks |-> {}, group |-> None, letter |-> None]

Stop == [Word EXCEPT !.len = 1, !.marks = {"stop"}]

MaxOf(S) == CHOOSE m \in S : \A n \in S : n <= m
MinOf(S) == CHOOSE m \in S : \A n \in S : m <= n

Marked(text, mark) == {k \in DOMAIN text : mark \in text[k].marks}
-----------------------------------------------------------------------------
(* Sentences and runways *)

Sentences(text) ==
  LET ends == Marked(text, "stop") \cup {0, Len(text) + 1}
  IN  {SubSeq(text, a + 1, MinOf({b \in ends : b > a}) - 1) : a \in ends \ {Len(text) + 1}}

\* Characters of the sentence before word k.
Offset(sentence) ==
  LET before[k \in 1..Len(sentence) + 1] ==
        IF k = 1 THEN 0 ELSE before[k - 1] + sentence[k - 1].len + 1
  IN  before

\* One of nonRunwayUnits lies within the ten characters that follow.
UnitAfter(sentence, from) ==
  \E k \in DOMAIN sentence :
    /\ sentence[k].unit # None
    /\ Offset(sentence)[k] + sentence[k].unit[1] > from
    /\ Offset(sentence)[k] + sentence[k].unit[2] <= from + 10

\* Two digits are taken at a time, and not when a digit follows: what is left of
\* a longer number is its last pair, or its last digit.  padStart2 counts the side
\* as well, so that a single digit is padded only if it has none.
NumericRunway(block) ==
  LET n == Len(block.digits)
  IN  [number |-> IF n % 2 = 0 THEN SubSeq(block.digits, n - 1, n)
                  ELSE IF block.side = None THEN <<0, block.digits[n]>>
                  ELSE <<block.digits[n]>>,
       side |-> block.side]

NumericRunways(sentence) ==
  UNION {{NumericRunway(block) :
            block \in {sentence[k].blocks[b] : b \in
              {i \in DOMAIN sentence[k].blocks :
                 ~UnitAfter(sentence, Offset(sentence)[k] + sentence[k].blocks[i].end)}}} :
         k \in DOMAIN sentence}

Spelled(sentence, k) == k \in DOMAIN sentence /\ sentence[k].digit # None

\* Spelled numbers are taken in pairs from the start of their run.
PairStarts(sentence) ==
  {k \in DOMAIN sentence :
     \E first \in 1..k :
       /\ \A i \in first..k : Spelled(sentence, i)
       /\ ~Spelled(sentence, first - 1) /\ (k - first) % 2 = 0}

\* The match takes the spaces behind the numbers, and the L, R or C with which the
\* next word begins.
SpelledRunway(sentence, k) ==
  LET two  == Spelled(sentence, k + 1)
      next == IF two THEN k + 2 ELSE k + 1
      side == IF next \in DOMAIN sentence THEN sentence[next].side ELSE None
  IN  [runway |-> [number |-> IF two THEN <<sentence[k].digit, sentence[k + 1].digit>>
                              ELSE <<0, sentence[k].digit>>,
                   side |-> IF side = None THEN None ELSE side[1]],
       end |-> Offset(sentence)[next] + (IF side = None THEN 0 ELSE side[2])]

SpelledRunways(sentence) ==
  {SpelledRunway(sentence, k).runway : k \in
     {i \in PairStarts(sentence) : ~UnitAfter(sentence, SpelledRunway(sentence, i).end)}}

RunwaysSaid(text, keyword) ==
  UNION {NumericRunways(s) \cup SpelledRunways(s) : s \in
           {t \in Sentences(text) : Marked(t, keyword) # {}}}

\* extractRunwayContexts; the order of the lists is left out.
RunwayContexts(text) ==
  [landingRunways   |-> RunwaysSaid(text, "landing"),
   departureRunways |-> RunwaysSaid(text, "departure")]
-----------------------------------------------------------------------------
(* Weather *)

\* The first group of a kind, or None.
First(text, kind) ==
  LET found == {k \in DOMAIN text : text[k].group # None /\ text[k].group.is = kind}
  IN  IF found = {} THEN None ELSE text[MinOf(found)].group

\* Quotients are pairs.  Of "1 1/2SM" the 1 before the space is divided by 2, and of
\* "5.5SM" the fraction is dropped.
Visibility(text) ==
  LET g == First(text, "visibility")
  IN  CASE g = None -> None
        [] g # None /\ ~g.slash -> <<g.whole, 1>>
        [] g # None /\ g.slash /\ g.den = 0 -> <<0, 1>>
        [] OTHER -> <<IF g.whole = None THEN g.num ELSE g.whole, g.den>>

Coverages == {"BKN", "OVC", "VV"}

\* Layers that make a ceiling, by their place in the text.
CeilingLayers(text) ==
  {k \in DOMAIN text : text[k].group # None /\ text[k].group.is = "layer"
                         /\ text[k].group.coverage \in Coverages}

\* The last one wins.
Ceiling(text) ==
  IF CeilingLayers(text) = {} THEN None
  ELSE text[MaxOf(CeilingLayers(text))].group.altitude

\* Mutation: IFR is tested before LIFR.
CategoryOutOfOrder(visibility, ceiling) ==
  IF visibility = None \/ ceiling = None THEN "VFR"
  ELSE IF visibility[1] = 0 \/ ceiling = 0 THEN "VFR"
  ELSE IF visibility[1] < 3 * visibility[2] \/ ceiling < 1000 THEN "IFR"
  ELSE IF visibility[1] < visibility[2] \/ ceiling < 500 THEN "LIFR"
  ELSE IF visibility[1] <= 5 * visibility[2] \/ ceiling <= 3000 THEN "MVFR"
  ELSE "VFR"

\* Nothing and zero both count as unknown, and unknown as VFR.
Category(visibility, ceiling) ==
  IF visibility = None \/ ceiling = None THEN "VFR"
  ELSE IF visibility[1] = 0 \/ ceiling = 0 THEN "VFR"
  ELSE IF visibility[1] < visibility[2] \/ ceiling < 500 THEN "LIFR"
  ELSE IF visibility[1] < 3 * visibility[2] \/ ceiling < 1000 THEN "IFR"
  ELSE IF visibility[1] <= 5 * visibility[2] \/ ceiling <= 3000 THEN "MVFR"
  ELSE "VFR"
-----------------------------------------------------------------------------
(* The rest of a text *)

\* Behind the first NOTAM, sentence by sentence.
Notams(text) ==
  IF Marked(text, "NOTAM") = {} THEN {}
  ELSE Sentences(SubSeq(text, MinOf(Marked(text, "NOTAM")) + 1, Len(text))) \ {<<>>}

\* Three digits, a point, one to three digits.
Frequencies(text) ==
  {<<text[k].blocks[1].digits, text[k + 2].blocks[1].digits>> : k \in
     {i \in 1..Len(text) - 2 :
        /\ Len(text[i].blocks) = 1 /\ Len(text[i].blocks[1].digits) = 3
        /\ "point" \in text[i + 1].marks
        /\ Len(text[i + 2].blocks) = 1 /\ Len(text[i + 2].blocks[1].digits) \in 1..3}}

\* The first word INFO that a single letter follows.
AtisCode(text) ==
  LET infos == {k \in Marked(text, "INFO") : k < Len(text) /\ text[k + 1].letter # None}
  IN  IF infos = {} THEN None ELSE text[MinOf(infos) + 1].letter

\* By the keywords before the first INFO, be it the beginning of INFORMATION.
AtisTypeOf(text) ==
  LET infos == Marked(text, "info")
      head  == IF infos = {} THEN text ELSE SubSeq(text, 1, MinOf(infos) - 1)
      dep   == Marked(head, "departure") # {}
      arr   == Marked(head, "landing") # {}
  IN  IF dep /\ arr THEN "COMBINED" ELSE IF dep THEN "DEPARTURE"
      ELSE IF arr THEN "ARRIVAL" ELSE "UNKNOWN"

Parse(text) ==
  [runways |-> RunwayContexts(text), notams |-> Notams(text),
   wind |-> First(text, "wind"), altimeter |-> First(text, "altimeter"),
   frequencies |-> Frequencies(text), atisCode |-> AtisCode(text),
   atisType |-> AtisTypeOf(text),
   flightCategory |-> Category(Visibility(text), Ceiling(text))]
=============================================================================
