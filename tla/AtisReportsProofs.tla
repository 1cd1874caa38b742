------------------------- MODULE AtisReportsProofs -------------------------
(***************************************************************************)
(* What the reports keep of the texts they are built from, for any lines,  *)
(* groups and stations and texts of any length.  Induction is over sets of *)
(* naturals: every set that is not empty has a least element.              *)
(***************************************************************************)
EXTENDS AtisReports, FiniteSetTheorems, SequenceTheorems, TLAPS
-----------------------------------------------------------------------------
(* Least and greatest elements, induction *)

\* Every set of naturals that is not empty has a least element.
LEMMA LeastExists ==
  ASSUME NEW T \in SUBSET Nat, T # {}
  PROVE  \E x \in T : \A y \in T : x <= y
<1>1. PICK x \in T : \A y \in T : ~(<<y, x>> \in OpToRel(<, Nat))
  BY WFMin, NatLessThanWellFounded, Zenon
<1>2. \A y \in T : <<y, x>> \notin {ss \in Nat \X Nat : ss[1] < ss[2]}
  BY <1>1 DEF OpToRel
<1>3. \A y \in T : ~ (y < x)
  BY <1>2
<1> QED
  BY <1>3

\* Every set of naturals with a bound that is not empty has a greatest element.
LEMMA GreatestExists ==
  ASSUME NEW T \in SUBSET Nat, T # {}, NEW b \in Nat, \A y \in T : y <= b
  PROVE  \E x \in T : \A y \in T : y <= x
<1> DEFINE D == {n \in Nat : b - n \in T}
<1>1. D # {}
  <2>1. PICK t \in T : TRUE
    OBVIOUS
  <2>2. b - t \in Nat /\ b - (b - t) = t
    OBVIOUS
  <2> QED
    BY <2>1, <2>2
<1>2. PICK x \in D : \A y \in D : x <= y
  BY <1>1, LeastExists
<1>3. b - x \in T
  BY <1>2
<1>4. ASSUME NEW y \in T PROVE y <= b - x
  <2>1. b - y \in Nat /\ b - (b - y) = y
    OBVIOUS
  <2>2. b - y \in D
    BY <2>1
  <2> QED
    BY <2>2, <1>2
<1> QED
  BY <1>3, <1>4

\* MinOf and MaxOf are what their names say.
LEMMA MinIsLeast ==
  ASSUME NEW T \in SUBSET Nat, T # {}
  PROVE  MinOf(T) \in T /\ \A n \in T : MinOf(T) <= n
BY LeastExists, Zenon DEF MinOf

LEMMA MaxIsGreatest ==
  ASSUME NEW T \in SUBSET Nat, T # {}, NEW b \in Nat, \A y \in T : y <= b
  PROVE  MaxOf(T) \in T /\ \A n \in T : n <= MaxOf(T)
BY GreatestExists, Zenon DEF MaxOf

\* Induction over 1..n.
LEMMA Stepwise ==
  ASSUME NEW n \in Nat, NEW T, 1 \in T, \A i \in 1..n : i \in T => i + 1 \in T
  PROVE  \A i \in 1..n + 1 : i \in T
<1> SUFFICES ASSUME (1..n + 1) \ T # {} PROVE FALSE
  OBVIOUS
<1> DEFINE U == (1..n + 1) \ T
<1>1. U \in SUBSET Nat /\ U # {}
  OBVIOUS
<1>2. PICK x \in U : \A y \in U : x <= y
  BY <1>1, LeastExists
<1>3. x # 1 /\ x - 1 \in 1..n /\ (x - 1) + 1 = x
  BY <1>2
<1>4. x - 1 \in T
  BY <1>2, <1>3
<1> QED
  BY <1>3, <1>4
-----------------------------------------------------------------------------
(* FlattenSeq *)

\* A function on 1..n is a sequence.
LEMMA FunctionIsSeq ==
  ASSUME NEW S, NEW s, NEW n \in Nat, s = [k \in 1..n |-> s[k]], \A k \in 1..n : s[k] \in S
  PROVE  s \in Seq(S)
<1>1. s \in [1..n -> S]
  BY Zenon
<1> QED
  BY <1>1

\* What FlattenSeq computes step by step.
Joined(seqs, n, f) ==
  f = [i \in 1..n |-> IF i = 1 THEN seqs[i] ELSE f[i - 1] \o seqs[i]]

\* The recursion has a solution for sequences of every length.
LEMMA JoinedExists ==
  ASSUME NEW seqs, NEW n \in Nat
  PROVE  \A i \in 1..n + 1 : \E f : Joined(seqs, i, f)
<1> DEFINE T == {i \in 1..n + 1 : \E f : Joined(seqs, i, f)}
<1>1. 1 \in T
  <2> DEFINE f == [i \in 1..1 |-> seqs[i]]
  <2>1. Joined(seqs, 1, f)
    BY DEF Joined
  <2> QED
    BY <2>1
<1>2. ASSUME NEW i \in 1..n, i \in T PROVE i + 1 \in T
  <2>1. PICK f : Joined(seqs, i, f)
    BY <1>2
  <2> DEFINE g == [k \in 1..i + 1 |-> IF k = i + 1 THEN f[i] \o seqs[k] ELSE f[k]]
  <2>2. ASSUME NEW k \in 1..i + 1
        PROVE  g[k] = IF k = 1 THEN seqs[k] ELSE g[k - 1] \o seqs[k]
    <3>1. CASE k = i + 1
      <4>1. g[k - 1] = f[i] /\ k # 1
        BY <3>1
      <4> QED
        BY <3>1, <4>1
    <3>2. CASE k # i + 1
      <4>1. k \in 1..i
        BY <3>2
      <4>2. f[k] = IF k = 1 THEN seqs[k] ELSE f[k - 1] \o seqs[k]
        BY <2>1, <4>1, Zenon DEF Joined
      <4>3. k # 1 => g[k - 1] = f[k - 1]
        BY <4>1
      <4> QED
        BY <4>1, <4>2, <4>3
    <3> QED
      BY <3>1, <3>2
  <2>3. g = [k \in 1..i + 1 |-> g[k]]
    OBVIOUS
  <2>4. g = [k \in 1..i + 1 |-> IF k = 1 THEN seqs[k] ELSE g[k - 1] \o seqs[k]]
    <3> HIDE DEF g
    <3> QED
      BY <2>2, <2>3
  <2>5. Joined(seqs, i + 1, g)
    <3> HIDE DEF g
    <3> QED
      BY <2>4, Zenon DEF Joined
  <2>6. i + 1 \in 1..n + 1
    OBVIOUS
  <2> QED
    BY <2>5, <2>6
<1> HIDE DEF T
<1>3. \A i \in 1..n + 1 : i \in T
  BY <1>1, <1>2, Stepwise
<1> QED
  BY <1>3 DEF T

\* The elements of a concatenation.
LEMMA ConcatRange ==
  ASSUME NEW S, NEW s \in Seq(S), NEW t \in Seq(S)
  PROVE  s \o t \in Seq(S) /\ Range(s \o t) = Range(s) \cup Range(t)
<1>1. s \o t \in Seq(S) /\ Len(s \o t) = Len(s) + Len(t)
  OBVIOUS
<1>2. ASSUME NEW k \in DOMAIN (s \o t) PROVE (s \o t)[k] \in Range(s) \cup Range(t)
  <2>1. CASE k <= Len(s)
    BY <2>1 DEF Range
  <2>2. CASE k > Len(s)
    BY <2>2 DEF Range
  <2> QED
    BY <2>1, <2>2
<1>3. ASSUME NEW k \in DOMAIN s PROVE s[k] \in Range(s \o t)
  <2>1. k \in DOMAIN (s \o t) /\ (s \o t)[k] = s[k]
    OBVIOUS
  <2> QED
    BY <2>1 DEF Range
<1>4. ASSUME NEW k \in DOMAIN t PROVE t[k] \in Range(s \o t)
  <2>1. Len(s) + k \in DOMAIN (s \o t) /\ (s \o t)[Len(s) + k] = t[k]
    OBVIOUS
  <2> QED
    BY <2>1 DEF Range
<1> QED
  BY <1>1, <1>2, <1>3, <1>4 DEF Range

\* FlattenSeq joins one sequence after the other.
LEMMA FlattenStepwise ==
  ASSUME NEW S, NEW seqs \in Seq(Seq(S)), Len(seqs) # 0
  PROVE  \E f \in [1..Len(seqs) -> Seq(S)] :
           /\ FlattenSeq(seqs) = f[Len(seqs)] /\ f[1] = seqs[1]
           /\ \A i \in 1..Len(seqs) - 1 : f[i + 1] = f[i] \o seqs[i + 1]
<1> DEFINE n == Len(seqs)
           f == CHOOSE g : Joined(seqs, n, g)
           T == {i \in 1..n : f[i] \in Seq(S)}
<1>1. n \in Nat /\ n - 1 \in Nat /\ n = (n - 1) + 1 /\ n \in 1..n
  OBVIOUS
<1>2. \E g : Joined(seqs, n, g)
  BY <1>1, JoinedExists
<1>3. Joined(seqs, n, f)
  <2> HIDE DEF n
  <2> QED
    BY <1>2, Zenon
<1>4. FlattenSeq(seqs) = f[n]
  BY Zenon DEF FlattenSeq, Joined
<1> HIDE DEF f
<1>5. /\ f = [i \in 1..n |-> f[i]] /\ f[1] = seqs[1]
      /\ \A i \in 1..n - 1 : f[i + 1] = f[i] \o seqs[i + 1]
  <2>1. \A i \in 1..n : f[i] = IF i = 1 THEN seqs[i] ELSE f[i - 1] \o seqs[i]
    BY <1>3, Zenon DEF Joined
  <2>2. f = [i \in 1..n |-> f[i]]
    BY <1>3, <2>1, Zenon DEF Joined
  <2>3. f[1] = seqs[1]
    BY <1>1, <2>1
  <2>4. ASSUME NEW i \in 1..n - 1 PROVE f[i + 1] = f[i] \o seqs[i + 1]
    <3>1. i + 1 \in 1..n /\ i + 1 # 1 /\ (i + 1) - 1 = i
      BY <1>1
    <3> QED
      BY <3>1, <2>1
  <2> QED
    BY <2>2, <2>3, <2>4
<1>6. 1 \in T
  BY <1>1, <1>5
<1>7. ASSUME NEW i \in 1..n - 1, i \in T PROVE i + 1 \in T
  <2>1. i \in 1..n /\ i + 1 \in 1..n
    BY <1>1
  <2>2. f[i + 1] = f[i] \o seqs[i + 1]
    BY <1>5, Zenon
  <2>3. f[i] \in Seq(S) /\ seqs[i + 1] \in Seq(S)
    BY <1>7, <2>1
  <2>4. f[i + 1] \in Seq(S)
    BY <2>2, <2>3
  <2> QED
    BY <2>1, <2>4
<1> HIDE DEF T
<1>8. \A i \in 1..n : i \in T
  BY <1>1, <1>6, <1>7, Stepwise
<1> QED
  BY <1>4, <1>5, <1>8 DEF T

\* A flattened sequence has the elements of its parts and no others.
LEMMA FlattenRange ==
  ASSUME NEW S, NEW seqs \in Seq(Seq(S))
  PROVE  /\ FlattenSeq(seqs) \in Seq(S)
         /\ Range(FlattenSeq(seqs)) = UNION {Range(seqs[k]) : k \in DOMAIN seqs}
<1>1. CASE Len(seqs) = 0
  BY <1>1, SMT DEF FlattenSeq, Range
<1>2. CASE Len(seqs) # 0
  <2> DEFINE n == Len(seqs)
  <2>1. PICK f \in [1..n -> Seq(S)] :
          /\ FlattenSeq(seqs) = f[n] /\ f[1] = seqs[1]
          /\ \A i \in 1..n - 1 : f[i + 1] = f[i] \o seqs[i + 1]
    BY <1>2, FlattenStepwise
  <2> DEFINE T == {i \in 1..n : Range(f[i]) = UNION {Range(seqs[k]) : k \in 1..i}}
  <2>2. n \in Nat /\ n - 1 \in Nat /\ n = (n - 1) + 1 /\ n \in 1..n
    BY <1>2
  <2>3. 1 \in T
    BY <2>1, <2>2
  <2>4. ASSUME NEW i \in 1..n - 1, i \in T PROVE i + 1 \in T
    <3>1. i \in 1..n /\ i + 1 \in 1..n
      BY <2>2
    <3>2. f[i] \in Seq(S) /\ seqs[i + 1] \in Seq(S)
      <4>1. f[i] \in Seq(S)
        BY <3>1, Zenon
      <4>2. seqs[i + 1] \in Seq(S)
        BY <3>1
      <4> QED
        BY <4>1, <4>2
    <3>3. Range(f[i + 1]) = Range(f[i]) \cup Range(seqs[i + 1])
      <4>1. f[i + 1] = f[i] \o seqs[i + 1]
        BY <2>1, Zenon
      <4> QED
        BY <3>2, <4>1, ConcatRange
    <3>4. 1..i + 1 = 1..i \cup {i + 1}
      OBVIOUS
    <3>5. Range(f[i]) = UNION {Range(seqs[k]) : k \in 1..i}
      BY <2>4
    <3>6. Range(f[i + 1]) = UNION {Range(seqs[k]) : k \in 1..i + 1}
      BY <3>3, <3>4, <3>5, Zenon
    <3> QED
      BY <3>1, <3>6
  <2> HIDE DEF T
  <2>5. \A i \in 1..n : i \in T
    BY <2>2, <2>3, <2>4, Stepwise
  <2> QED
    BY <2>1, <2>2, <2>5 DEF T
<1> QED
  BY <1>1, <1>2
-----------------------------------------------------------------------------
(* Entries and their merged text *)

\* Values of the atis entries, and the lines they have between them.
Entries == [icao : Icaos \cup {None}, code : Codes \cup {None}, text : Seq(Lines)]

LinesOf(entries) == UNION {Range(e.text) : e \in Range(entries)}

\* Lines and METARs are texts.
LEMMA TextsOfWords == Lines \subseteq Seq(Words) /\ Seq(Groups) \subseteq Seq(Words)
<1>1. Groups \subseteq Words
  BY DEF Words
<1>2. Seq(Groups) \subseteq Seq(Words)
  BY <1>1
<1> QED
  BY <1>2, TextAssumption

\* The entries of a station are those that name it.
LEMMA EntriesOfStation ==
  ASSUME NEW entries \in Seq(Entries), NEW icao
  PROVE  /\ EntriesOf(entries, icao) \in Seq(Entries)
         /\ Range(EntriesOf(entries, icao)) = {e \in Range(entries) : e.icao = icao}
<1> DEFINE parts == [n \in DOMAIN entries |->
                      IF entries[n].icao = icao THEN <<entries[n]>> ELSE << >>]
<1>1. \A n \in DOMAIN entries : entries[n] \in Entries
  OBVIOUS
<1>2. parts \in Seq(Seq(Entries)) /\ DOMAIN parts = DOMAIN entries
  <2>1. \A n \in DOMAIN entries : parts[n] \in Seq(Entries)
    BY <1>1
  <2>2. DOMAIN parts = 1..Len(entries) /\ Len(entries) \in Nat /\ DOMAIN entries = 1..Len(entries)
    OBVIOUS
  <2> HIDE DEF parts
  <2>3. parts = [n \in 1..Len(entries) |-> parts[n]]
    BY <2>2 DEF parts
  <2> QED
    BY <2>1, <2>2, <2>3, FunctionIsSeq
<1>3. \A n \in DOMAIN entries :
        Range(parts[n]) = IF entries[n].icao = icao THEN {entries[n]} ELSE {}
  BY DEF Range
<1>4. EntriesOf(entries, icao) = FlattenSeq(parts)
  BY DEF EntriesOf
<1> HIDE DEF parts
<1>5. /\ FlattenSeq(parts) \in Seq(Entries)
      /\ Range(FlattenSeq(parts)) = UNION {Range(parts[n]) : n \in DOMAIN parts}
  BY <1>2, FlattenRange
<1>6. UNION {Range(parts[n]) : n \in DOMAIN parts} = {e \in Range(entries) : e.icao = icao}
  <2>1. \A e : e \in Range(entries) <=> \E n \in DOMAIN entries : entries[n] = e
    BY Zenon DEF Range
  <2>2. UNION {Range(parts[n]) : n \in DOMAIN parts} =
          UNION {Range(parts[n]) : n \in DOMAIN entries}
    BY <1>2
  <2>3. ASSUME NEW e
        PROVE  (\E n \in DOMAIN entries : e \in Range(parts[n])) <=>
                 e \in Range(entries) /\ e.icao = icao
    BY <1>3, <2>1
  <2> QED
    BY <2>2, <2>3, Zenon
<1> QED
  BY <1>4, <1>5, <1>6

\* The merged text is made of the lines of the entries, each of them at least once.
LEMMA MergedParts ==
  ASSUME NEW entries \in Seq(Entries)
  PROVE  \E parts \in Seq(Seq(Words)) :
           /\ MergeAtisText(entries) = FlattenSeq(parts)
           /\ \A n \in DOMAIN parts : parts[n] = << >> \/ parts[n] \in LinesOf(entries)
           /\ \A line \in LinesOf(entries) : \E n \in DOMAIN parts : parts[n] = line
<1> DEFINE texts == [n \in DOMAIN entries |-> entries[n].text]
           lines == FlattenSeq(texts)
           once  == [n \in DOMAIN lines |->
                      IF \E k \in 1..n - 1 : lines[k] = lines[n] THEN << >> ELSE lines[n]]
<1>1. texts \in Seq(Seq(Lines)) /\ DOMAIN texts = DOMAIN entries
  <2>1. \A n \in DOMAIN entries : entries[n] \in Entries
    OBVIOUS
  <2>2. \A n \in DOMAIN entries : texts[n] \in Seq(Lines)
    BY <2>1 DEF Entries
  <2>3. DOMAIN texts = 1..Len(entries) /\ Len(entries) \in Nat /\ DOMAIN entries = 1..Len(entries)
    OBVIOUS
  <2> HIDE DEF texts
  <2>4. texts = [n \in 1..Len(entries) |-> texts[n]]
    BY <2>3 DEF texts
  <2>5. texts \in Seq(Seq(Lines))
    BY <2>2, <2>3, <2>4, FunctionIsSeq
  <2> QED
    BY <2>3, <2>5
<1>2. lines \in Seq(Lines) /\ Range(lines) = UNION {Range(texts[n]) : n \in DOMAIN texts}
  <2> HIDE DEF texts
  <2> QED
    BY <1>1, FlattenRange
<1>3. Range(lines) = LinesOf(entries)
  <2>1. \A n \in DOMAIN entries : texts[n] = entries[n].text
    OBVIOUS
  <2>2. LinesOf(entries) = UNION {Range(entries[n].text) : n \in DOMAIN entries}
    <3>1. \A e : e \in Range(entries) <=> \E n \in DOMAIN entries : entries[n] = e
      BY Zenon DEF Range
    <3> QED
      BY <3>1, Zenon DEF LinesOf
  <2> HIDE DEF texts, lines
  <2> QED
    BY <1>1, <1>2, <2>1, <2>2, Zenon
<1>4. MergeAtisText(entries) = FlattenSeq(once)
  BY DEF MergeAtisText
<1> HIDE DEF lines
<1>5. once \in Seq(Seq(Words)) /\ DOMAIN once = DOMAIN lines
  <2>1. \A n \in DOMAIN lines : lines[n] \in Seq(Words)
    BY <1>2, TextsOfWords
  <2>2. \A n \in DOMAIN lines : once[n] \in Seq(Words)
    BY <2>1
  <2>3. DOMAIN once = 1..Len(lines) /\ Len(lines) \in Nat /\ DOMAIN lines = 1..Len(lines)
    BY <1>2
  <2> HIDE DEF once
  <2>4. once = [n \in 1..Len(lines) |-> once[n]]
    BY <2>3 DEF once
  <2> QED
    BY <2>2, <2>3, <2>4, FunctionIsSeq
<1>6. ASSUME NEW n \in DOMAIN once PROVE once[n] = << >> \/ once[n] \in Range(lines)
  <2>1. lines[n] \in Range(lines)
    BY <1>5, Zenon DEF Range
  <2> QED
    BY <1>5, <2>1
<1>7. ASSUME NEW line \in Range(lines)
      PROVE  \E n \in DOMAIN once : once[n] = line
  <2> DEFINE places == {n \in DOMAIN lines : lines[n] = line}
  <2>1. places \in SUBSET Nat /\ places # {}
    BY <1>2 DEF Range
  <2>2. PICK n \in places : \A k \in places : n <= k
    BY <2>1, LeastExists
  <2>3. n \in DOMAIN lines /\ lines[n] = line /\ ~ \E k \in 1..n - 1 : lines[k] = line
    BY <1>2, <2>2
  <2> QED
    BY <2>3
<1> HIDE DEF once
<1> QED
  BY <1>3, <1>4, <1>5, <1>6, <1>7, Zenon

\* Merging keeps every word of every line of every entry, and adds none.
LEMMA MergedRange ==
  ASSUME NEW entries \in Seq(Entries)
  PROVE  /\ MergeAtisText(entries) \in Seq(Words)
         /\ Range(MergeAtisText(entries)) = UNION {Range(line) : line \in LinesOf(entries)}
<1>1. PICK parts \in Seq(Seq(Words)) :
        /\ MergeAtisText(entries) = FlattenSeq(parts)
        /\ \A n \in DOMAIN parts : parts[n] = << >> \/ parts[n] \in LinesOf(entries)
        /\ \A line \in LinesOf(entries) : \E n \in DOMAIN parts : parts[n] = line
  BY MergedParts
<1>2. /\ FlattenSeq(parts) \in Seq(Words)
      /\ Range(FlattenSeq(parts)) = UNION {Range(parts[n]) : n \in DOMAIN parts}
  BY FlattenRange
<1>3. Range(<< >>) = {}
  BY DEF Range
<1>4. UNION {Range(parts[n]) : n \in DOMAIN parts} =
        UNION {Range(line) : line \in LinesOf(entries)}
  BY <1>1, <1>3, Zenon
<1> QED
  BY <1>1, <1>2, <1>4

\* A word that is a weather group of this kind.
Carries(word, kind) == word.group # None /\ word.group.is = kind

\* A group of a kind is found where there is one, and it is one of that kind.
LEMMA FirstIsFound ==
  ASSUME NEW text \in Seq(Words), NEW kind
  PROVE  /\ (First(text, kind) # None) <=> \E word \in Range(text) : Carries(word, kind)
         /\ First(text, kind) # None =>
              \E word \in Range(text) : Carries(word, kind) /\ First(text, kind) = word.group
<1> DEFINE found == {k \in DOMAIN text : text[k].group # None /\ text[k].group.is = kind}
<1>1. First(text, kind) = IF found = {} THEN None ELSE text[MinOf(found)].group
  BY DEF First
<1>2. CASE found = {}
  BY <1>1, <1>2 DEF Range, Carries
<1>3. CASE found # {}
  <2>1. found \in SUBSET Nat
    OBVIOUS
  <2>2. MinOf(found) \in found
    BY <1>3, <2>1, MinIsLeast
  <2> DEFINE word == text[MinOf(found)]
  <2>3. word \in Range(text) /\ Carries(word, kind)
    BY <2>2 DEF Range, Carries
  <2>4. First(text, kind) = word.group
    BY <1>1, <1>3
  <2> QED
    BY <2>3, <2>4 DEF Carries
<1> QED
  BY <1>2, <1>3
-----------------------------------------------------------------------------
(* The inductive invariant: texts have their types, and what was built is  *)
(* what Build or MetarOnly returns for them.                               *)

TextInv ==
  /\ feed \in Seq(Entries) /\ metar \in [Icaos -> Seq(Groups)]
  /\ asked \in Icaos \cup {None}

BuiltInv ==
  reports # None =>
    reports = IF asked = None THEN Build(feed, metar)
              ELSE [i \in {asked} |-> MetarOnly(metar[asked])]

\* Neither writing nor building leaves the types, and a report is built once.
LEMMA InvHolds == Spec => [](TextInv /\ BuiltInv)
<1>1. Init => TextInv /\ BuiltInv
  BY DEF Init, TextInv, BuiltInv
<1>2. TextInv /\ BuiltInv /\ [Next]_vars => TextInv' /\ BuiltInv'
  <2> SUFFICES ASSUME TextInv, BuiltInv, [Next]_vars PROVE TextInv' /\ BuiltInv'
    OBVIOUS
  <2>1. ASSUME NEW icao \in Icaos \cup {None}, NEW code \in Codes \cup {None}, SignOn(icao, code)
        PROVE  TextInv' /\ BuiltInv'
    <3>1. [icao |-> icao, code |-> code, text |-> << >>] \in Entries
      BY DEF Entries
    <3>2. feed' \in Seq(Entries)
      BY <2>1, <3>1 DEF SignOn, TextInv
    <3> QED
      BY <2>1, <3>2 DEF SignOn, TextInv, BuiltInv, Writing
  <2>2. ASSUME NEW line \in Lines, WriteLine(line) PROVE TextInv' /\ BuiltInv'
    <3>1. Len(feed) \in DOMAIN feed /\ feed[Len(feed)] \in Entries
      BY <2>2 DEF WriteLine, TextInv
    <3>2. Append(feed[Len(feed)].text, line) \in Seq(Lines)
      BY <2>2, <3>1 DEF Entries
    <3> DEFINE entry == [feed[Len(feed)] EXCEPT !.text = Append(feed[Len(feed)].text, line)]
    <3>3. entry \in Entries
      BY <3>1, <3>2 DEF Entries
    <3>4. feed' = [feed EXCEPT ![Len(feed)] = entry]
      BY <2>2 DEF WriteLine
    <3> HIDE DEF entry
    <3>5. feed' \in Seq(Entries)
      BY <3>1, <3>3, <3>4 DEF TextInv
    <3> QED
      BY <2>2, <3>5 DEF WriteLine, TextInv, BuiltInv, Writing
  <2>3. ASSUME NEW icao \in Icaos, NEW group \in Groups, Observe(icao, group)
        PROVE  TextInv' /\ BuiltInv'
    <3>1. Append(metar[icao], group) \in Seq(Groups)
      BY <2>3 DEF TextInv
    <3>2. metar' \in [Icaos -> Seq(Groups)]
      BY <2>3, <3>1 DEF Observe, TextInv
    <3> QED
      BY <2>3, <3>2 DEF Observe, TextInv, BuiltInv, Writing
  <2>4. CASE Tick
    BY <2>4 DEF Tick, TextInv, BuiltInv, Writing
  <2>5. ASSUME NEW icao \in Icaos, HandleAirportWeather(icao) PROVE TextInv' /\ BuiltInv'
    BY <2>5, TextAssumption DEF HandleAirportWeather, TextInv, BuiltInv
  <2>6. CASE UNCHANGED vars
    BY <2>6 DEF vars, TextInv, BuiltInv
  <2> QED
    BY <2>1, <2>2, <2>3, <2>4, <2>5, <2>6 DEF Next
<1> QED
  BY <1>1, <1>2, PTL DEF Spec

\* The lines of a station are lines of the instance.
LEMMA LinesAreLines ==
  ASSUME TextInv, NEW i
  PROVE  AtisLines(i) \subseteq Lines
<1>1. EntriesOf(feed, i) \in Seq(Entries)
  BY EntriesOfStation DEF TextInv
<1>2. ASSUME NEW e \in Range(EntriesOf(feed, i)) PROVE Range(e.text) \subseteq Lines
  <2>1. e \in Entries
    BY <1>1 DEF Range
  <2>2. e.text \in Seq(Lines)
    BY <2>1 DEF Entries
  <2> QED
    BY <2>2 DEF Range
<1> QED
  BY <1>2 DEF AtisLines

\* What a station's report is made of can be parsed.
LEMMA LinesAreTexts ==
  ASSUME TextInv, NEW i
  PROVE  AtisLines(i) \in SUBSET Seq(Words)
BY LinesAreLines, TextsOfWords

\* A report comes from the METAR of its station and from its own text, whose words
\* are those of the lines of the station.
LEMMA ReportIsBuilt ==
  ASSUME TextInv, BuiltInv, reports # None, NEW i \in DOMAIN reports
  PROVE  /\ i \in Icaos /\ metar[i] \in Seq(Words)
         /\ reports[i].atisText \in Seq(Words)
         /\ Range(reports[i].atisText) = UNION {Range(line) : line \in AtisLines(i)}
         /\ LET m == ParseOf(metar[i])
                a == ParseOf(reports[i].atisText)
            IN  /\ reports[i].flightCategory = PickCategory(m, a)
                /\ reports[i].wind = PickWind(m, a)
                /\ reports[i].altimeter = PickAltimeter(m, a)
         /\ reports[i].atisAvailable = (asked = None)
         /\ reports[i].atisLetter =
              IF asked = None THEN AtisLetter(EntriesOf(feed, i)) ELSE None
<1>1. CASE asked = None
  <2>1. reports = [s \in Stations(feed) |-> BuildOne(EntriesOf(feed, s), metar[s])]
    BY <1>1 DEF BuiltInv, Build
  <2>2. i \in Stations(feed) /\ reports[i] = BuildOne(EntriesOf(feed, i), metar[i])
    BY <2>1
  <2>3. PICK e \in Range(feed) : e.icao = i /\ i # None
    BY <2>2 DEF Stations
  <2>4. e \in Entries
    BY <2>3 DEF TextInv, Range
  <2>5. i \in Icaos
    BY <2>3, <2>4 DEF Entries
  <2>6. metar[i] \in Seq(Words)
    BY <2>5, TextsOfWords DEF TextInv
  <2> DEFINE own == EntriesOf(feed, i)
  <2>7. own \in Seq(Entries) /\ Range(own) = {f \in Range(feed) : f.icao = i}
    BY EntriesOfStation DEF TextInv
  <2>8. own # << >>
    BY <2>3, <2>7 DEF Range
  <2>9. LinesOf(own) = AtisLines(i)
    BY <1>1, Zenon DEF LinesOf, AtisLines
  <2> HIDE DEF own
  <2>10. /\ MergeAtisText(own) \in Seq(Words)
         /\ Range(MergeAtisText(own)) = UNION {Range(line) : line \in AtisLines(i)}
    BY <2>7, <2>9, MergedRange
  <2>11. reports[i] = BuildOne(own, metar[i])
    BY <2>2 DEF own
  <2>12. reports[i].atisText = MergeAtisText(own)
    BY <2>11 DEF BuildOne
  <2>13. /\ reports[i].flightCategory =
              PickCategory(ParseOf(metar[i]), ParseOf(MergeAtisText(own)))
         /\ reports[i].wind = PickWind(ParseOf(metar[i]), ParseOf(MergeAtisText(own)))
         /\ reports[i].altimeter =
              PickAltimeter(ParseOf(metar[i]), ParseOf(MergeAtisText(own)))
    BY <2>11 DEF BuildOne
  <2>14. reports[i].atisAvailable = TRUE /\ reports[i].atisLetter = AtisLetter(own)
    <3>1. BuildOne(own, metar[i]).atisAvailable = (own # << >>)
      BY Zenon DEF BuildOne
    <3>2. BuildOne(own, metar[i]).atisLetter = AtisLetter(own)
      BY DEF BuildOne
    <3>3. reports[i].atisAvailable = (own # << >>)
      BY <2>11, <3>1, Zenon
    <3> QED
      BY <2>8, <2>11, <3>2, <3>3
  <2> QED
    BY <1>1, <2>5, <2>6, <2>10, <2>12, <2>13, <2>14 DEF own
<1>2. CASE asked # None
  <2>1. reports = [s \in {asked} |-> MetarOnly(metar[asked])]
    BY <1>2 DEF BuiltInv
  <2>2. i = asked /\ i \in Icaos /\ reports[i] = MetarOnly(metar[i])
    BY <1>2, <2>1 DEF TextInv
  <2>3. metar[i] \in Seq(Words)
    BY <2>2, TextsOfWords DEF TextInv
  <2>4. reports[i].atisText = << >> /\ ParseOf(<< >>) = Nil
    BY <2>2 DEF MetarOnly, ParseOf
  <2>5. << >> \in Seq(Words) /\ Range(<< >>) = {} /\ AtisLines(i) = {}
    BY <1>2 DEF Range, AtisLines
  <2>6. /\ reports[i].flightCategory = PickCategory(ParseOf(metar[i]), Nil)
        /\ reports[i].wind = PickWind(ParseOf(metar[i]), Nil)
        /\ reports[i].altimeter = PickAltimeter(ParseOf(metar[i]), Nil)
        /\ reports[i].atisAvailable = FALSE /\ reports[i].atisLetter = None
    BY <2>2 DEF MetarOnly
  <2>7. UNION {Range(line) : line \in AtisLines(i)} = {}
    BY <2>5
  <2> QED
    BY <1>2, <2>2, <2>3, <2>4, <2>5, <2>6, <2>7
<1> QED
  BY <1>1, <1>2
-----------------------------------------------------------------------------
(* Stated weather *)

\* The group of a kind is read from the METAR if it has one, and else from the ATIS:
\* it is missing exactly if both lack it.
LEMMA GroupIsKept ==
  ASSUME NEW text \in Seq(Words), NEW metarText \in Seq(Words)
  PROVE  /\ (PickWind(ParseOf(metarText), ParseOf(text)) # None) =
              (First(metarText, "wind") # None \/ First(text, "wind") # None)
         /\ (PickAltimeter(ParseOf(metarText), ParseOf(text)) # None) =
              (First(metarText, "altimeter") # None \/ First(text, "altimeter") # None)
<1>1. ASSUME NEW t \in Seq(Words)
      PROVE  /\ ParseOf(t) = Nil => First(t, "wind") = None /\ First(t, "altimeter") = None
             /\ ParseOf(t) # Nil => /\ ParseOf(t)[1].wind = First(t, "wind")
                                   /\ ParseOf(t)[1].altimeter = First(t, "altimeter")
  <2>1. CASE t = << >>
    <3>1. Range(t) = {}
      BY <2>1 DEF Range
    <3>2. First(t, "wind") = None /\ First(t, "altimeter") = None
      BY <3>1, FirstIsFound
    <3> QED
      BY <2>1, <3>2 DEF ParseOf
  <2>2. CASE t # << >>
    <3>1. ParseOf(t) = <<Parse(t)>>
      BY <2>2 DEF ParseOf
    <3>2. Parse(t).wind = First(t, "wind") /\ Parse(t).altimeter = First(t, "altimeter")
      BY DEF Parse
    <3> QED
      BY <3>1, <3>2 DEF Nil
  <2> QED
    BY <2>1, <2>2
<1>2. \A t \in {text, metarText} :
        /\ ParseOf(t) = Nil => First(t, "wind") = None /\ First(t, "altimeter") = None
        /\ ParseOf(t) # Nil => /\ ParseOf(t)[1].wind = First(t, "wind")
                              /\ ParseOf(t)[1].altimeter = First(t, "altimeter")
  BY <1>1
<1> QED
  BY <1>2 DEF PickWind, PickAltimeter

\* A text states a group if one of the texts it was merged from does.
LEMMA MergedStates ==
  ASSUME NEW text \in Seq(Words), NEW texts \in SUBSET Seq(Words), NEW kind,
         Range(text) = UNION {Range(line) : line \in texts}
  PROVE  (First(text, kind) # None) = States(texts, kind)
<1>1. (First(text, kind) # None) <=> \E word \in Range(text) : Carries(word, kind)
  BY FirstIsFound
<1>2. \A line \in texts :
        (First(line, kind) # None) <=> \E word \in Range(line) : Carries(word, kind)
  BY FirstIsFound
<1>3. (\E word \in Range(text) : Carries(word, kind)) <=>
        \E line \in texts : \E word \in Range(line) : Carries(word, kind)
  BY Zenon
<1> QED
  BY <1>1, <1>2, <1>3 DEF States

\* The letter is that of any entry that has one.
LEMMA LetterIsKept ==
  ASSUME NEW entries \in Seq(Entries)
  PROVE  /\ (AtisLetter(entries) # None) = \E e \in Range(entries) : e.code # None
         /\ AtisLetter(entries) \in Codes \cup {None}
<1> DEFINE lettered == {n \in DOMAIN entries : entries[n].code # None}
<1>1. AtisLetter(entries) = IF lettered = {} THEN None ELSE entries[MinOf(lettered)].code
  BY DEF AtisLetter
<1>2. CASE lettered = {}
  BY <1>1, <1>2 DEF Range
<1>3. CASE lettered # {}
  <2>1. lettered \in SUBSET Nat
    OBVIOUS
  <2>2. MinOf(lettered) \in lettered
    BY <1>3, <2>1, MinIsLeast
  <2> DEFINE e == entries[MinOf(lettered)]
  <2>3. e \in Range(entries) /\ e \in Entries /\ e.code # None
    <3>1. MinOf(lettered) \in DOMAIN entries /\ e.code # None
      BY <2>2
    <3>2. e \in Entries
      BY <3>1
    <3>3. e \in Range(entries)
      BY <3>1, Zenon DEF Range
    <3> QED
      BY <3>1, <3>2, <3>3
  <2>4. AtisLetter(entries) = e.code
    BY <1>1, <1>3
  <2> QED
    BY <2>3, <2>4 DEF Entries
<1> QED
  BY <1>2, <1>3

\* Wind, altimeter and letter that any text of a station states are in its report,
\* however the text is split over lines and positions and whatever is repeated
\* (buildOne, mergeAtisText, pickWind, pickAltimeter).
THEOREM StatedWeatherIsReported == Spec => []StatedWeatherIsKept
<1>1. TextInv /\ BuiltInv => StatedWeatherIsKept
  <2> SUFFICES ASSUME TextInv, BuiltInv, reports # None
               PROVE  /\ asked = None => DOMAIN reports = Stations(feed)
                      /\ \A i \in DOMAIN reports :
                           LET texts == AtisLines(i) \cup {metar[i]}
                           IN  /\ (reports[i].wind # None) = States(texts, "wind")
                               /\ (reports[i].altimeter # None) = States(texts, "altimeter")
                               /\ (reports[i].atisLetter # None) =
                                    (asked = None /\ \E e \in Range(feed) :
                                                       e.icao = i /\ e.code # None)
    BY Zenon DEF StatedWeatherIsKept
  <2>1. asked = None => DOMAIN reports = Stations(feed)
    BY DEF BuiltInv, Build
  <2>2. ASSUME NEW i \in DOMAIN reports
        PROVE  LET texts == AtisLines(i) \cup {metar[i]}
               IN  /\ (reports[i].wind # None) = States(texts, "wind")
                   /\ (reports[i].altimeter # None) = States(texts, "altimeter")
    <3> DEFINE own == reports[i].atisText
               m == ParseOf(metar[i])
               a == ParseOf(own)
    <3>1. /\ metar[i] \in Seq(Words) /\ own \in Seq(Words)
          /\ Range(own) = UNION {Range(line) : line \in AtisLines(i)}
          /\ reports[i].wind = PickWind(m, a) /\ reports[i].altimeter = PickAltimeter(m, a)
      BY ReportIsBuilt
    <3>2. AtisLines(i) \in SUBSET Seq(Words)
      BY LinesAreTexts
    <3>3. ASSUME NEW kind
          PROVE  (First(metar[i], kind) # None \/ First(own, kind) # None) =
                   States(AtisLines(i) \cup {metar[i]}, kind)
      <4>1. (First(own, kind) # None) = States(AtisLines(i), kind)
        BY <3>1, <3>2, MergedStates
      <4> QED
        BY <4>1, Zenon DEF States
    <3>4. /\ (PickWind(m, a) # None) =
               (First(metar[i], "wind") # None \/ First(own, "wind") # None)
          /\ (PickAltimeter(m, a) # None) =
               (First(metar[i], "altimeter") # None \/ First(own, "altimeter") # None)
      BY <3>1, GroupIsKept
    <3> HIDE DEF own, m, a
    <3> QED
      BY <3>1, <3>3, <3>4, Zenon
  <2>3. ASSUME NEW i \in DOMAIN reports
        PROVE  (reports[i].atisLetter # None) =
                 (asked = None /\ \E e \in Range(feed) : e.icao = i /\ e.code # None)
    <3>1. reports[i].atisLetter = IF asked = None THEN AtisLetter(EntriesOf(feed, i)) ELSE None
      BY ReportIsBuilt
    <3>2. /\ EntriesOf(feed, i) \in Seq(Entries)
          /\ Range(EntriesOf(feed, i)) = {e \in Range(feed) : e.icao = i}
      BY EntriesOfStation DEF TextInv
    <3>3. (AtisLetter(EntriesOf(feed, i)) # None) =
            \E e \in Range(EntriesOf(feed, i)) : e.code # None
      BY <3>2, LetterIsKept
    <3>4. (\E e \in Range(EntriesOf(feed, i)) : e.code # None) =
            \E e \in Range(feed) : e.icao = i /\ e.code # None
      BY <3>2, Zenon
    <3> QED
      BY <3>1, <3>3, <3>4
  <2> QED
    BY <2>1, <2>2, <2>3, Zenon
<1> QED
  BY <1>1, InvHolds, PTL
-----------------------------------------------------------------------------
(* Types *)

\* What Parse returns for any text of words.
LEMMA ParseTypes ==
  ASSUME NEW text \in Seq(Words)
  PROVE  /\ Parse(text).atisCode \in Codes \cup {None}
         /\ Parse(text).atisType \in {"ARRIVAL", "DEPARTURE", "COMBINED", "UNKNOWN"}
         /\ \A pair \in Parse(text).frequencies : Len(pair[1]) = 3 /\ Len(pair[2]) < 4
         /\ Parse(text).notams # {} => Marked(text, "NOTAM") # {}
         /\ Parse(text).flightCategory \in Categories
<1>1. AtisCode(text) \in Codes \cup {None}
  <2> DEFINE infos == {k \in Marked(text, "INFO") : k < Len(text) /\ text[k + 1].letter # None}
  <2>1. AtisCode(text) = IF infos = {} THEN None ELSE text[MinOf(infos) + 1].letter
    BY DEF AtisCode
  <2>2. CASE infos # {}
    <3>1. infos \in SUBSET Nat
      BY DEF Marked
    <3>2. MinOf(infos) \in infos
      BY <2>2, <3>1, MinIsLeast
    <3>3. MinOf(infos) + 1 \in DOMAIN text
      BY <3>2 DEF Marked
    <3>4. text[MinOf(infos) + 1] \in Words
      BY <3>3
    <3> QED
      BY <2>1, <2>2, <3>4, TextAssumption
  <2> QED
    BY <2>1, <2>2
<1>2. AtisTypeOf(text) \in {"ARRIVAL", "DEPARTURE", "COMBINED", "UNKNOWN"}
  BY DEF AtisTypeOf
<1>3. ASSUME NEW pair \in Frequencies(text) PROVE Len(pair[1]) = 3 /\ Len(pair[2]) < 4
  <2>1. PICK k \in 1..Len(text) - 2 :
          /\ Len(text[k].blocks[1].digits) = 3 /\ Len(text[k + 2].blocks[1].digits) \in 1..3
          /\ pair = <<text[k].blocks[1].digits, text[k + 2].blocks[1].digits>>
    BY DEF Frequencies
  <2>2. pair[1] = text[k].blocks[1].digits /\ pair[2] = text[k + 2].blocks[1].digits
    BY <2>1
  <2>3. Len(pair[1]) = 3 /\ Len(pair[2]) \in 1..3
    BY <2>1, <2>2, Zenon
  <2>4. \A n \in 1..3 : n < 4
    OBVIOUS
  <2> QED
    BY <2>3, <2>4, Zenon
<1>4. Notams(text) # {} => Marked(text, "NOTAM") # {}
  BY DEF Notams
<1>5. Category(Visibility(text), Ceiling(text)) \in Categories
  BY DEF Category, Categories
<1>6. /\ Parse(text).atisCode = AtisCode(text) /\ Parse(text).atisType = AtisTypeOf(text)
      /\ Parse(text).frequencies = Frequencies(text) /\ Parse(text).notams = Notams(text)
      /\ Parse(text).flightCategory = Category(Visibility(text), Ceiling(text))
  BY DEF Parse
<1> QED
  BY <1>1, <1>2, <1>3, <1>4, <1>5, <1>6

\* The text that decides about the category of a station.
Deciding(i) == IF metar[i] # << >> THEN metar[i] ELSE reports[i].atisText

\* The category of a report is that of its METAR, or of its ATIS text if it has none.
LEMMA CategoryOfReport ==
  ASSUME TextInv, BuiltInv, reports # None, NEW i \in DOMAIN reports
  PROVE  /\ Deciding(i) \in Seq(Words)
         /\ reports[i].flightCategory =
              Category(Visibility(Deciding(i)), Ceiling(Deciding(i)))
<1>1. /\ metar[i] \in Seq(Words) /\ reports[i].atisText \in Seq(Words)
      /\ reports[i].flightCategory =
           PickCategory(ParseOf(metar[i]), ParseOf(reports[i].atisText))
  BY ReportIsBuilt
<1>2. \A t : t # << >> => ParseOf(t) # Nil /\ ParseOf(t)[1] = Parse(t)
  BY DEF ParseOf, Nil
<1>3. ParseOf(<< >>) = Nil
  BY DEF ParseOf
<1>4. \A t : Parse(t).flightCategory = Category(Visibility(t), Ceiling(t))
  BY DEF Parse
<1>5. Category(Visibility(<< >>), Ceiling(<< >>)) = "VFR"
  <2>1. << >> \in Seq(Words) /\ Range(<< >>) = {}
    BY DEF Range
  <2>2. First(<< >>, "visibility") = None
    BY <2>1, FirstIsFound
  <2>3. Visibility(<< >>) = None
    BY <2>2 DEF Visibility
  <2> QED
    BY <2>3 DEF Category
<1>6. CASE metar[i] # << >>
  BY <1>1, <1>2, <1>4, <1>6 DEF PickCategory, Deciding
<1>7. CASE metar[i] = << >> /\ reports[i].atisText # << >>
  BY <1>1, <1>2, <1>3, <1>4, <1>7 DEF PickCategory, Deciding
<1>8. CASE metar[i] = << >> /\ reports[i].atisText = << >>
  BY <1>1, <1>3, <1>5, <1>8 DEF PickCategory, Deciding
<1> QED
  BY <1>6, <1>7, <1>8

\* Reports are of stations of the datafeed or of the one asked for, with a category,
\* a letter or none, and everything Parse returns for any text.
THEOREM TypeCorrect == Spec => []TypeOK
<1>1. TextInv /\ BuiltInv => TypeOK
  <2> SUFFICES ASSUME TextInv, BuiltInv, reports # None, NEW i \in DOMAIN reports
               PROVE  /\ i \in Icaos /\ asked \in Icaos \cup {None}
                      /\ reports[i].flightCategory \in Categories
                      /\ reports[i].atisAvailable = (asked = None)
                      /\ reports[i].atisLetter \in Codes \cup {None}
                      /\ reports[i].atisText \in Seq(Words)
    BY ParseTypes, Zenon DEF TypeOK, TextInv
  <2>1. reports[i].flightCategory \in Categories
    BY CategoryOfReport DEF Category, Categories
  <2>2. EntriesOf(feed, i) \in Seq(Entries)
    BY EntriesOfStation DEF TextInv
  <2>3. AtisLetter(EntriesOf(feed, i)) \in Codes \cup {None}
    BY <2>2, LetterIsKept
  <2>4. /\ i \in Icaos /\ reports[i].atisText \in Seq(Words)
        /\ reports[i].atisAvailable = (asked = None)
        /\ reports[i].atisLetter =
             IF asked = None THEN AtisLetter(EntriesOf(feed, i)) ELSE None
    BY ReportIsBuilt
  <2>5. reports[i].atisLetter \in Codes \cup {None}
    BY <2>3, <2>4
  <2> QED
    BY <2>1, <2>4, <2>5 DEF TextInv
<1> QED
  BY <1>1, InvHolds, PTL
-----------------------------------------------------------------------------
(* Categories *)

\* Places of ceiling layers are places of the text, with an altitude.
LEMMA CeilingLayersHaveAltitudes ==
  ASSUME NEW text \in Seq(Words)
  PROVE  /\ CeilingLayers(text) \in SUBSET Nat
         /\ \A k \in CeilingLayers(text) : k <= Len(text) /\ text[k].group.altitude \in Nat
         /\ CeilingLayers(text) = {} => Ceiling(text) = None
         /\ CeilingLayers(text) # {} =>
              \E k \in CeilingLayers(text) : Ceiling(text) = text[k].group.altitude
<1>1. CeilingLayers(text) \in SUBSET Nat /\ \A k \in CeilingLayers(text) : k <= Len(text)
  BY DEF CeilingLayers
<1>2. ASSUME NEW k \in CeilingLayers(text) PROVE text[k].group.altitude \in Nat
  <2>1. text[k] \in Words /\ text[k].group # None /\ text[k].group.is = "layer"
    BY DEF CeilingLayers
  <2> QED
    BY <2>1, TextAssumption DEF WellFormed
<1>3. ASSUME CeilingLayers(text) # {} PROVE MaxOf(CeilingLayers(text)) \in CeilingLayers(text)
  <2>1. Len(text) \in Nat
    OBVIOUS
  <2> QED
    BY <1>1, <1>3, <2>1, MaxIsGreatest
<1> QED
  BY <1>1, <1>2, <1>3 DEF Ceiling

\* The visibility of a text: unknown, or the quotient of the group that is found.
LEMMA VisibilityOfGroup ==
  ASSUME NEW text \in Seq(Words)
  PROVE  LET g == First(text, "visibility")
         IN  /\ g = None => Visibility(text) = None
             /\ g # None =>
                  /\ g.num \in Nat /\ g.den \in Nat /\ g.slash \in BOOLEAN
                  /\ g.whole \in Nat \cup {None}
                  /\ ~g.slash => g.whole # None /\ g.den # 0
                  /\ Visibility(text) =
                       IF ~g.slash THEN <<g.whole, 1>>
                       ELSE IF g.den = 0 THEN <<0, 1>>
                       ELSE <<IF g.whole = None THEN g.num ELSE g.whole, g.den>>
<1> DEFINE g == First(text, "visibility")
<1>1. CASE g = None
  BY <1>1 DEF Visibility
<1>2. CASE g # None
  <2>1. PICK word \in Range(text) : Carries(word, "visibility") /\ g = word.group
    BY <1>2, FirstIsFound
  <2>2. word \in Words
    BY DEF Range
  <2>3. WellFormed(g) /\ g.is = "visibility"
    BY <2>1, <2>2, TextAssumption DEF Carries
  <2> HIDE DEF g
  <2>4. /\ g.num \in Nat /\ g.den \in Nat /\ g.slash \in BOOLEAN
        /\ g.whole \in Nat \cup {None}
        /\ ~g.slash => g.whole # None /\ g.den # 0
    BY <2>3, Zenon DEF WellFormed
  <2>5. Visibility(text) =
          CASE g = None -> None
            [] g # None /\ ~g.slash -> <<g.whole, 1>>
            [] g # None /\ g.slash /\ g.den = 0 -> <<0, 1>>
            [] OTHER -> <<IF g.whole = None THEN g.num ELSE g.whole, g.den>>
    BY Zenon DEF Visibility, g
  <2>6. CASE ~g.slash
    BY <1>2, <2>4, <2>5, <2>6 DEF g
  <2>7. CASE g.slash /\ g.den = 0
    BY <1>2, <2>4, <2>5, <2>7 DEF g
  <2>8. CASE g.slash /\ g.den # 0
    BY <1>2, <2>4, <2>5, <2>8 DEF g
  <2> QED
    BY <2>4, <2>6, <2>7, <2>8
<1> QED
  BY <1>1, <1>2

\* A product of natural numbers is not below its factors, nor below the multiples of
\* one factor that Category asks for.
LEMMA Products ==
  ASSUME NEW w \in Nat, NEW d \in Nat \ {0}
  PROVE  /\ w * d \in Nat /\ w * d >= w
         /\ w >= 1 => w * d >= d
         /\ w >= 3 => w * d >= 3 * d
         /\ w > 5 => w * d >= 6 * d
  OBVIOUS

\* The visibility that is read, unless it is zero, is never above what its group says:
\* it may lack the fraction of a decimal, and the whole of a mixed number is divided.
\* Read in full, it is what its group says.
LEMMA VisibilityGrades ==
  ASSUME NEW text \in Seq(Words), Visibility(text) # None
  PROVE  LET v     == Visibility(text)
             g     == First(text, "visibility")
             grade == GradeOfVisibility(g)
         IN  /\ v[1] \in Nat /\ v[2] \in Nat /\ grade \in 1..4
             /\ v[1] # 0 => /\ v[1] >= v[2] => grade >= 2
                            /\ v[1] >= 3 * v[2] => grade >= 3
                            /\ v[1] > 5 * v[2] => grade = 4
             /\ ReadInFull(g) /\ v[1] # 0 => /\ v[1] < v[2] => grade = 1
                                             /\ v[1] < 3 * v[2] => grade <= 2
                                             /\ v[1] <= 5 * v[2] => grade <= 3
<1> DEFINE g == First(text, "visibility")
           v == Visibility(text)
           grade == GradeOfVisibility(g)
           whole == IF g = None \/ g.whole = None THEN 0 ELSE g.whole
           num == whole * g.den + g.num
<1>1. /\ g # None
      /\ g.num \in Nat /\ g.den \in Nat /\ g.slash \in BOOLEAN
      /\ g.whole \in Nat \cup {None}
      /\ ~g.slash => g.whole # None /\ g.den # 0
      /\ v = IF ~g.slash THEN <<g.whole, 1>>
             ELSE IF g.den = 0 THEN <<0, 1>>
             ELSE <<IF g.whole = None THEN g.num ELSE g.whole, g.den>>
  BY VisibilityOfGroup
<1>2. grade = CASE g = None -> 4
        [] g # None /\ num < g.den -> 1
        [] g # None /\ num >= g.den /\ num < 3 * g.den -> 2
        [] g # None /\ num >= 3 * g.den /\ num <= 5 * g.den -> 3
        [] OTHER -> 4
  BY Zenon DEF GradeOfVisibility
<1>3. ReadInFull(g) <=> (g.slash /\ g.whole = None) \/ (~g.slash /\ g.num = 0)
  BY <1>1 DEF ReadInFull
<1>4. grade \in 1..4
  BY DEF GradeOfVisibility
<1> HIDE DEF g, v, grade
<1>5. ASSUME g.den # 0
      PROVE  /\ num < g.den => grade = 1
             /\ num >= g.den => grade >= 2
             /\ num < 3 * g.den => grade <= 2
             /\ num >= 3 * g.den => grade >= 3
             /\ num <= 5 * g.den => grade <= 3
             /\ num > 5 * g.den => grade = 4
  <2>1. num \in Nat
    <3>1. whole \in Nat
      BY <1>1
    <3> HIDE DEF whole
    <3> QED
      BY <1>1, <1>5, <3>1, Products
  <2> HIDE DEF num
  <2> QED
    BY <1>1, <1>2, <1>5, <2>1
<1>6. CASE ~g.slash
  <2>1. g.whole \in Nat /\ g.den \in Nat \ {0} /\ whole = g.whole
    BY <1>1, <1>6
  <2>2. v[1] = g.whole /\ v[2] = 1
    BY <1>1, <1>6
  <2>3. num = g.whole * g.den + g.num
    BY <2>1, Zenon
  <2>4. /\ g.whole * g.den \in Nat
        /\ g.whole >= 1 => g.whole * g.den >= g.den
        /\ g.whole >= 3 => g.whole * g.den >= 3 * g.den
        /\ g.whole > 5 => g.whole * g.den >= 6 * g.den
    BY <2>1, Products
  <2> HIDE DEF num
  <2>5. /\ v[1] >= v[2] => num >= g.den
        /\ v[1] >= 3 * v[2] => num >= 3 * g.den
        /\ v[1] > 5 * v[2] => num > 5 * g.den
    BY <1>1, <2>1, <2>2, <2>3, <2>4
  <2>6. ASSUME g.num = 0, v[1] # 0
        PROVE  /\ ~(v[1] < v[2])
               /\ v[1] < 3 * v[2] => num < 3 * g.den
               /\ v[1] <= 5 * v[2] => num <= 5 * g.den
    <3>1. num = g.whole * g.den
      BY <2>3, <2>4, <2>6
    <3>2. g.whole <= 2 => g.whole * g.den <= 2 * g.den
      BY <2>1
    <3>3. g.whole <= 5 => g.whole * g.den <= 5 * g.den
      BY <2>1
    <3> QED
      BY <2>1, <2>2, <2>6, <3>1, <3>2, <3>3
  <2> QED
    BY <1>3, <1>4, <1>5, <1>6, <2>1, <2>2, <2>5, <2>6 DEF v, grade, g
<1>7. CASE g.slash /\ g.den = 0
  BY <1>1, <1>4, <1>7 DEF v, grade, g
<1>8. CASE g.slash /\ g.den # 0 /\ g.whole = None
  <2>1. whole = 0
    BY <1>8
  <2>2. num = g.num
    <3>1. num = 0 * g.den + g.num
      BY <2>1, Zenon
    <3>2. \A d, n \in Nat : 0 * d + n = n
      OBVIOUS
    <3> QED
      BY <1>1, <3>1, <3>2, Zenon
  <2>3. v[1] = num /\ v[2] = g.den
    BY <1>1, <1>8, <2>2
  <2> HIDE DEF num
  <2> QED
    BY <1>1, <1>4, <1>5, <1>8, <2>2, <2>3 DEF v, grade, g
<1>9. CASE g.slash /\ g.den # 0 /\ g.whole # None
  <2>1. g.whole \in Nat /\ g.den \in Nat \ {0} /\ whole = g.whole
    BY <1>1, <1>9
  <2>2. v[1] = g.whole /\ v[2] = g.den /\ ~ReadInFull(g)
    BY <1>1, <1>3, <1>9
  <2>3. num = g.whole * g.den + g.num
    BY <2>1, Zenon
  <2>4. g.whole * g.den \in Nat /\ g.whole * g.den >= g.whole
    BY <2>1, Products
  <2> HIDE DEF num
  <2>5. num \in Nat /\ num >= v[1]
    BY <1>1, <2>1, <2>2, <2>3, <2>4
  <2> QED
    BY <1>4, <1>5, <1>9, <2>1, <2>2, <2>5 DEF v, grade, g
<1> QED
  BY <1>1, <1>6, <1>7, <1>8, <1>9

\* The ceiling of a text is one of its layers: it is not below the lowest.
LEMMA CeilingGrades ==
  ASSUME NEW text \in Seq(Words), Ceiling(text) # None
  PROVE  LET c == Ceiling(text)
         IN  /\ c \in Nat /\ GradeOfCeiling(text) \in 1..4
             /\ c < 500 => GradeOfCeiling(text) <= 1
             /\ c < 1000 => GradeOfCeiling(text) <= 2
             /\ c <= 3000 => GradeOfCeiling(text) <= 3
             /\ Cardinality(CeilingLayers(text)) = 1 =>
                  GradeOfCeiling(text) = IF c < 500 THEN 1 ELSE IF c < 1000 THEN 2
                                         ELSE IF c <= 3000 THEN 3 ELSE 4
<1> DEFINE L == CeilingLayers(text)
           alt(k) == text[k].group.altitude
<1>1. L # {} /\ \A k \in L : alt(k) \in Nat
  BY CeilingLayersHaveAltitudes
<1>2. PICK top \in L : Ceiling(text) = alt(top)
  BY <1>1, CeilingLayersHaveAltitudes
<1>3. GradeOfCeiling(text) =
        IF \E k \in L : alt(k) < 500 THEN 1
        ELSE IF \E k \in L : alt(k) < 1000 THEN 2
        ELSE IF \E k \in L : alt(k) <= 3000 THEN 3 ELSE 4
  BY Zenon DEF GradeOfCeiling
<1>4. ASSUME Cardinality(L) = 1 PROVE \A k \in L : k = top
  <2>1. IsFiniteSet(L)
    <3>1. L \in SUBSET Nat /\ Len(text) \in Nat /\ \A k \in L : k <= Len(text)
      BY CeilingLayersHaveAltitudes
    <3> QED
      BY <3>1, FS_BoundedSetOfNaturals
  <2>2. PICK x : L = {x}
    BY <1>4, <2>1, FS_Singleton
  <2> QED
    BY <1>2, <2>2
<1> HIDE DEF L, alt
<1> QED
  BY <1>1, <1>2, <1>3, <1>4 DEF L

\* The category that Category gives to a text is not below the grade of its weather
\* if the visibility is read in full, and not above it if there is one ceiling layer
\* and neither value is zero.
LEMMA CategoryOfText ==
  ASSUME NEW text \in Seq(Words)
  PROVE  LET grade == Grade(Category(Visibility(text), Ceiling(text)))
         IN  /\ ReadInFull(First(text, "visibility")) => grade >= TrueGrade(text)
             /\ (/\ Visibility(text) # None /\ Visibility(text)[1] # 0
                 /\ Cardinality(CeilingLayers(text)) = 1 /\ Ceiling(text) # 0)
                  => grade <= TrueGrade(text)
<1> DEFINE v == Visibility(text)
           c == Ceiling(text)
           vg == GradeOfVisibility(First(text, "visibility"))
           cg == GradeOfCeiling(text)
           grade == Grade(Category(v, c))
<1>1. vg \in 1..4 /\ cg \in 1..4
  BY DEF GradeOfVisibility, GradeOfCeiling
<1>2. TrueGrade(text) \in {vg, cg} /\ TrueGrade(text) <= vg /\ TrueGrade(text) <= cg
  <2>1. TrueGrade(text) = MinOf({vg, cg})
    BY Zenon DEF TrueGrade
  <2> HIDE DEF vg, cg
  <2>2. {vg, cg} \in SUBSET Nat /\ {vg, cg} # {}
    BY <1>1
  <2> QED
    BY <2>1, <2>2, MinIsLeast
<1>3. grade = IF v = None \/ c = None THEN 4
              ELSE IF v[1] = 0 \/ c = 0 THEN 4
              ELSE IF v[1] < v[2] \/ c < 500 THEN 1
              ELSE IF v[1] < 3 * v[2] \/ c < 1000 THEN 2
              ELSE IF v[1] <= 5 * v[2] \/ c <= 3000 THEN 3 ELSE 4
  <2> HIDE DEF v, c
  <2> QED
    BY DEF Grade, Category
<1> DEFINE full == ReadInFull(First(text, "visibility"))
<1>4. v # None =>
        /\ v[1] \in Nat /\ v[2] \in Nat
        /\ v[1] # 0 => /\ v[1] >= v[2] => vg >= 2
                       /\ v[1] >= 3 * v[2] => vg >= 3
                       /\ v[1] > 5 * v[2] => vg = 4
        /\ full /\ v[1] # 0 => /\ v[1] < v[2] => vg = 1
                               /\ v[1] < 3 * v[2] => vg <= 2
                               /\ v[1] <= 5 * v[2] => vg <= 3
  BY VisibilityGrades
<1>5. c # None =>
        /\ c \in Nat
        /\ c < 500 => cg <= 1
        /\ c < 1000 => cg <= 2
        /\ c <= 3000 => cg <= 3
        /\ Cardinality(CeilingLayers(text)) = 1 =>
             cg = IF c < 500 THEN 1 ELSE IF c < 1000 THEN 2 ELSE IF c <= 3000 THEN 3 ELSE 4
  BY CeilingGrades
<1>6. Cardinality(CeilingLayers(text)) = 1 => c # None
  <2>1. CeilingLayers(text) = {} => Cardinality(CeilingLayers(text)) = 0
    BY FS_EmptySet
  <2>2. Cardinality(CeilingLayers(text)) = 1 => CeilingLayers(text) # {}
    BY <2>1
  <2> QED
    BY <2>2, CeilingLayersHaveAltitudes, TextAssumption
<1> DEFINE one == Cardinality(CeilingLayers(text)) = 1
           true == TrueGrade(text)
<1> HIDE DEF v, c, vg, cg, grade, one, true, full
<1>7. full => grade >= true
  BY <1>1, <1>2, <1>3, <1>4, <1>5 DEF true
<1>8. v # None /\ v[1] # 0 /\ one /\ c # 0 => grade <= true
  BY <1>1, <1>2, <1>3, <1>4, <1>5, <1>6 DEF true, one
<1> QED
  BY <1>7, <1>8 DEF v, c, grade, one, true, full

\* A category errs in known directions only, whatever the order of the layers: not
\* below the weather if no part of the visibility is dropped, not above it if a
\* visibility and one ceiling layer are read and neither is zero; so it is exact
\* where both hold (Ceiling, Category, pickCategory).
THEOREM CategoriesErrOneWay == Spec => []CategoryErrsOneWay
<1>1. TextInv /\ BuiltInv => CategoryErrsOneWay
  <2> SUFFICES ASSUME TextInv, BuiltInv, reports # None, NEW i \in DOMAIN reports
               PROVE  LET text  == Deciding(i)
                          grade == Grade(reports[i].flightCategory)
                          known == Visibility(text) # None /\ Visibility(text)[1] # 0
                                     /\ Cardinality(CeilingLayers(text)) = 1
                                     /\ Ceiling(text) # 0
                      IN  /\ ReadInFull(First(text, "visibility")) =>
                               grade >= TrueGrade(text)
                          /\ known => grade <= TrueGrade(text)
    BY Zenon DEF CategoryErrsOneWay, Deciding
  <2>1. /\ Deciding(i) \in Seq(Words)
        /\ reports[i].flightCategory =
             Category(Visibility(Deciding(i)), Ceiling(Deciding(i)))
    BY CategoryOfReport
  <2> QED
    BY <2>1, CategoryOfText
<1> QED
  BY <1>1, InvHolds, PTL
-----------------------------------------------------------------------------
(* Runways *)

\* A sentence of a text lies between two neighbouring stops, or a stop and an end.
Between(text, a, b) ==
  /\ a \in 0..Len(text) /\ b \in a + 1..Len(text) + 1
  /\ a = 0 \/ a \in Marked(text, "stop")
  /\ b = Len(text) + 1 \/ b \in Marked(text, "stop")
  /\ \A c \in a + 1..b - 1 : c \notin Marked(text, "stop")

LEMMA SentencesAreBetween ==
  ASSUME NEW text \in Seq(Words), NEW s
  PROVE  s \in Sentences(text) <=>
           \E a, b \in Nat : Between(text, a, b) /\ s = SubSeq(text, a + 1, b - 1)
<1> DEFINE n == Len(text)
           stops == Marked(text, "stop")
           ends == stops \cup {0, n + 1}
           next(a) == MinOf({b \in ends : b > a})
<1>1. n \in Nat /\ stops \subseteq 1..n /\ ends \subseteq 0..n + 1
  BY DEF Marked
<1>2. s \in Sentences(text) <=> \E a \in ends \ {n + 1} : s = SubSeq(text, a + 1, next(a) - 1)
  BY Zenon DEF Sentences
<1>3. \A a, b : Between(text, a, b) <=>
        /\ a \in 0..n /\ b \in a + 1..n + 1 /\ (a = 0 \/ a \in stops)
        /\ b = n + 1 \/ b \in stops
        /\ \A c \in a + 1..b - 1 : c \notin stops
  BY Zenon DEF Between
<1> HIDE DEF n, stops
<1>4. ASSUME NEW a \in ends \ {n + 1}
      PROVE  /\ next(a) \in ends /\ next(a) > a
             /\ \A b \in ends : b > a => next(a) <= b
  <2>1. {b \in ends : b > a} \in SUBSET Nat
    <3> HIDE DEF ends
    <3>1. \A b \in ends : b \in Nat
      BY <1>1
    <3> QED
      BY <3>1
  <2>2. n + 1 \in {b \in ends : b > a}
    BY <1>1
  <2> QED
    BY <2>1, <2>2, MinIsLeast
<1> HIDE DEF next
<1>5. ASSUME NEW a \in ends \ {n + 1} PROVE Between(text, a, next(a))
  <2>1. PICK b : /\ b = next(a) /\ b \in ends /\ b > a
                 /\ \A c \in ends : c > a => b <= c
    BY <1>4
  <2>2. /\ a \in 0..n /\ b \in a + 1..n + 1 /\ (a = 0 \/ a \in stops)
        /\ b = n + 1 \/ b \in stops
    BY <1>1, <2>1
  <2>3. \A c \in a + 1..b - 1 : c \notin stops
    BY <1>1, <2>1, <2>2
  <2> QED
    BY <1>3, <2>1, <2>2, <2>3
<1>6. ASSUME NEW a \in Nat, NEW b \in Nat, Between(text, a, b)
      PROVE  a \in ends \ {n + 1} /\ b = next(a)
  <2>1. /\ a \in 0..n /\ b \in a + 1..n + 1 /\ (a = 0 \/ a \in stops)
        /\ b = n + 1 \/ b \in stops
        /\ \A c \in a + 1..b - 1 : c \notin stops
    BY <1>3, <1>6
  <2>2. a \in ends \ {n + 1} /\ b \in ends /\ b > a
    BY <1>1, <2>1
  <2>3. PICK x : /\ x = next(a) /\ x \in ends /\ x > a
                 /\ \A c \in ends : c > a => x <= c
    BY <1>4, <2>2
  <2>4. x <= b
    BY <2>2, <2>3
  <2>5. x \in a + 1..b - 1 => x \in stops
    BY <1>1, <2>1, <2>3
  <2>6. x = b
    BY <1>1, <2>1, <2>3, <2>4, <2>5
  <2> QED
    BY <2>2, <2>3, <2>6
<1> HIDE DEF ends
<1>7. ends \subseteq Nat /\ \A a \in ends \ {n + 1} : next(a) \in Nat
  <2>1. \A b \in ends : b \in Nat
    BY <1>1
  <2> QED
    BY <1>4, <2>1
<1> QED
  BY <1>2, <1>5, <1>6, <1>7, Zenon

\* Where two texts are joined after a stop, the stops of the second move behind those
\* of the first.
LEMMA StopsOfJoin ==
  ASSUME NEW s \in Seq(Words), NEW t \in Seq(Words)
  PROVE  /\ Len(s \o t) = Len(s) + Len(t)
         /\ \A k \in 1..Len(s) : k \in Marked(s \o t, "stop") <=> k \in Marked(s, "stop")
         /\ \A k \in 1..Len(t) :
              Len(s) + k \in Marked(s \o t, "stop") <=> k \in Marked(t, "stop")
<1>1. Len(s \o t) = Len(s) + Len(t) /\ Len(s) \in Nat /\ Len(t) \in Nat
  OBVIOUS
<1>2. DOMAIN (s \o t) = 1..Len(s) + Len(t) /\ DOMAIN s = 1..Len(s) /\ DOMAIN t = 1..Len(t)
  OBVIOUS
<1>3. \A k \in 1..Len(s) : k \in DOMAIN (s \o t) /\ (s \o t)[k] = s[k]
  OBVIOUS
<1>4. \A k \in 1..Len(t) : Len(s) + k \in DOMAIN (s \o t) /\ (s \o t)[Len(s) + k] = t[k]
  OBVIOUS
<1>5. \A u, k : k \in Marked(u, "stop") <=> k \in DOMAIN u /\ "stop" \in u[k].marks
  BY DEF Marked
<1>6. \A k \in 1..Len(s) : k \in Marked(s \o t, "stop") <=> k \in Marked(s, "stop")
  BY <1>2, <1>3, <1>5, Zenon
<1>7. \A k \in 1..Len(t) : Len(s) + k \in Marked(s \o t, "stop") <=> k \in Marked(t, "stop")
  BY <1>2, <1>4, <1>5, Zenon
<1> QED
  BY <1>1, <1>6, <1>7

\* Joined after a stop, two texts keep their sentences; empty ones say nothing.
LEMMA SentencesOfJoin ==
  ASSUME NEW s \in Seq(Words), NEW t \in Seq(Words), s # << >>, Complete(s),
         NEW x, x # << >>
  PROVE  x \in Sentences(s \o t) <=> x \in Sentences(s) \/ x \in Sentences(t)
<1> DEFINE st == s \o t
           m == Len(s)
           n == Len(t)
           S == Marked(s, "stop")
           T == Marked(t, "stop")
           ST == Marked(st, "stop")
<1>1. m \in Nat /\ n \in Nat /\ m # 0 /\ Len(st) = m + n /\ st \in Seq(Words)
  OBVIOUS
<1>2. m \in S
  BY DEF Complete
<1>3. S \subseteq 1..m /\ T \subseteq 1..n /\ ST \subseteq 1..m + n
  BY <1>1 DEF Marked
<1>4. /\ \A k \in 1..m : k \in ST <=> k \in S
      /\ \A k \in 1..n : m + k \in ST <=> k \in T
  BY StopsOfJoin
<1>5. \A u, a, b : Between(u, a, b) <=>
        /\ a \in 0..Len(u) /\ b \in a + 1..Len(u) + 1
        /\ a = 0 \/ a \in Marked(u, "stop")
        /\ b = Len(u) + 1 \/ b \in Marked(u, "stop")
        /\ \A c \in a + 1..b - 1 : c \notin Marked(u, "stop")
  BY Zenon DEF Between
<1>6. ASSUME NEW u \in Seq(Words), NEW a \in Nat, NEW b \in Nat, b <= a + 1
      PROVE  SubSeq(u, a + 1, b - 1) = << >>
  <2>1. a + 1 \in Int /\ b - 1 \in Int /\ b - 1 < a + 1
    BY <1>6
  <2> QED
    BY <2>1, SubSeqEmpty
<1>7. ASSUME x \in Sentences(st) PROVE x \in Sentences(s) \/ x \in Sentences(t)
  <2>1. PICK a \in Nat, b \in Nat : Between(st, a, b) /\ x = SubSeq(st, a + 1, b - 1)
    <3>1. st \in Seq(Words)
      BY <1>1
    <3> HIDE DEF st
    <3> QED
      BY <1>7, <3>1, SentencesAreBetween, Zenon
  <2>2. b > a + 1
    BY <1>1, <1>6, <2>1
  <2>3. /\ a \in 0..m + n /\ b \in a + 1..m + n + 1 /\ (a = 0 \/ a \in ST)
        /\ b = m + n + 1 \/ b \in ST
        /\ \A c \in a + 1..b - 1 : c \notin ST
    BY <1>1, <1>5, <2>1
  <2>4. m \in ST
    BY <1>1, <1>2, <1>4
  <2>5. CASE b <= m
    <3>1. /\ a \in 0..m /\ b \in a + 1..m + 1 /\ (a = 0 \/ a \in S)
          /\ b = m + 1 \/ b \in S
          /\ \A c \in a + 1..b - 1 : c \notin S
      <4> HIDE DEF st, m, n, S, T, ST
      <4> QED
        BY <1>1, <1>3, <1>4, <2>3, <2>5
    <3>2. Between(s, a, b)
      BY <1>5, <3>1
    <3>3. a + 1 \in 1..m /\ b - 1 \in 1..m
      BY <1>1, <2>2, <2>5
    <3>4. x = SubSeq(s, a + 1, b - 1)
      BY <2>1, <3>3, SubSeqOfConcat1
    <3> QED
      BY <3>2, <3>4, SentencesAreBetween
  <2>6. CASE b > m
    <3>1. a >= m
      BY <1>1, <2>3, <2>4, <2>6
    <3>2. PICK c \in Nat, d \in Nat : a = m + c /\ b = m + d
      <4>1. a - m \in Nat /\ b - m \in Nat /\ a = m + (a - m) /\ b = m + (b - m)
        BY <1>1, <2>6, <3>1
      <4> QED
        BY <4>1, Zenon
    <3>3. /\ c \in 0..n /\ d \in c + 1..n + 1 /\ (c = 0 \/ c \in T)
          /\ d = n + 1 \/ d \in T
          /\ \A e \in c + 1..d - 1 : e \notin T
      <4> HIDE DEF st, m, n, S, T, ST
      <4>1. c \in 0..n /\ d \in c + 1..n + 1
        BY <1>1, <2>3, <3>2
      <4>2. (c = 0 \/ c \in T) /\ (d = n + 1 \/ d \in T)
        BY <1>1, <1>3, <1>4, <2>3, <3>2, <4>1
      <4>3. ASSUME NEW e \in c + 1..d - 1 PROVE e \notin T
        <5>1. m + e \in a + 1..b - 1 /\ e \in 1..n
          BY <1>1, <3>2, <4>1
        <5> QED
          BY <1>4, <2>3, <5>1
      <4> QED
        BY <4>1, <4>2, <4>3
    <3>4. Between(t, c, d)
      BY <1>5, <3>3
    <3>5. /\ a + 1 \in m + 1..m + n /\ b - 1 \in m + 1..m + n
          /\ (a + 1) - m = c + 1 /\ (b - 1) - m = d - 1
      BY <1>1, <2>2, <2>3, <3>1, <3>2
    <3>6. x = SubSeq(t, c + 1, d - 1)
      <4>1. x = SubSeq(t, (a + 1) - m, (b - 1) - m)
        BY <2>1, <3>5, SubSeqOfConcat2
      <4> QED
        BY <3>5, <4>1, Zenon
    <3> QED
      BY <3>4, <3>6, SentencesAreBetween
  <2> QED
    BY <1>1, <2>5, <2>6
<1>8. ASSUME x \in Sentences(s) PROVE x \in Sentences(st)
  <2>1. PICK a \in Nat, b \in Nat : Between(s, a, b) /\ x = SubSeq(s, a + 1, b - 1)
    BY <1>8, SentencesAreBetween, Zenon
  <2>2. b > a + 1
    BY <1>1, <1>6, <2>1
  <2>3. /\ a \in 0..m /\ b \in a + 1..m + 1 /\ (a = 0 \/ a \in S)
        /\ b = m + 1 \/ b \in S
        /\ \A c \in a + 1..b - 1 : c \notin S
    BY <1>5, <2>1
  <2>4. b <= m
    BY <1>1, <1>2, <2>2, <2>3
  <2>5. /\ a \in 0..m + n /\ b \in a + 1..m + n + 1 /\ (a = 0 \/ a \in ST)
        /\ b = m + n + 1 \/ b \in ST
        /\ \A c \in a + 1..b - 1 : c \notin ST
    <3> HIDE DEF st, m, n, S, T, ST
    <3> QED
      BY <1>1, <1>3, <1>4, <2>3, <2>4
  <2>6. Between(st, a, b)
    BY <1>1, <1>5, <2>5
  <2>7. a + 1 \in 1..m /\ b - 1 \in 1..m
    BY <1>1, <2>2, <2>4
  <2>8. x = SubSeq(st, a + 1, b - 1)
    BY <2>1, <2>7, SubSeqOfConcat1
  <2> QED
    BY <1>1, <2>6, <2>8, SentencesAreBetween
<1>9. ASSUME x \in Sentences(t) PROVE x \in Sentences(st)
  <2>1. PICK c \in Nat, d \in Nat : Between(t, c, d) /\ x = SubSeq(t, c + 1, d - 1)
    BY <1>9, SentencesAreBetween, Zenon
  <2>2. d > c + 1
    BY <1>1, <1>6, <2>1
  <2>3. /\ c \in 0..n /\ d \in c + 1..n + 1 /\ (c = 0 \/ c \in T)
        /\ d = n + 1 \/ d \in T
        /\ \A e \in c + 1..d - 1 : e \notin T
    BY <1>5, <2>1
  <2> DEFINE a == m + c
             b == m + d
  <2>4. /\ a \in 0..m + n /\ b \in a + 1..m + n + 1 /\ (a = 0 \/ a \in ST)
        /\ b = m + n + 1 \/ b \in ST
        /\ \A e \in a + 1..b - 1 : e \notin ST
    <3> HIDE DEF st, m, n, S, T, ST
    <3>1. a \in 0..m + n /\ b \in a + 1..m + n + 1
      BY <1>1, <2>3
    <3>2. (a = 0 \/ a \in ST) /\ (b = m + n + 1 \/ b \in ST)
      BY <1>1, <1>2, <1>3, <1>4, <2>3
    <3>3. ASSUME NEW e \in a + 1..b - 1 PROVE e \notin ST
      <4>1. e - m \in c + 1..d - 1 /\ e - m \in 1..n /\ m + (e - m) = e
        BY <1>1, <2>3
      <4> QED
        BY <1>4, <2>3, <4>1
    <3> QED
      BY <3>1, <3>2, <3>3
  <2>5. Between(st, a, b)
    BY <1>1, <1>5, <2>4
  <2>6. /\ a + 1 \in m + 1..m + n /\ b - 1 \in m + 1..m + n
        /\ (a + 1) - m = c + 1 /\ (b - 1) - m = d - 1 /\ a \in Nat /\ b \in Nat
    BY <1>1, <2>2, <2>3
  <2>7. x = SubSeq(st, a + 1, b - 1)
    <3>1. SubSeq(st, a + 1, b - 1) = SubSeq(t, (a + 1) - m, (b - 1) - m)
      BY <2>6, SubSeqOfConcat2
    <3> QED
      BY <2>1, <2>6, <3>1, Zenon
  <2> QED
    BY <1>1, <2>5, <2>6, <2>7, SentencesAreBetween
<1> QED
  BY <1>7, <1>8, <1>9

\* Nothing is said in an empty text.
LEMMA NothingSaid == ASSUME NEW keyword PROVE RunwaysSaid(<< >>, keyword) = {}
<1> DEFINE e == << >>
<1>1. e \in Seq(Words) /\ Len(e) = 0 /\ Marked(e, keyword) = {}
  BY DEF Marked
<1> HIDE DEF e
<1>2. ASSUME NEW x, x \in Sentences(e) PROVE x = << >>
  <2>1. PICK a \in Nat, b \in Nat : Between(e, a, b) /\ x = SubSeq(e, a + 1, b - 1)
    <3>1. e \in Seq(Words)
      BY <1>1
    <3> QED
      BY <1>2, <3>1, SentencesAreBetween, Zenon
  <2>2. a = 0 /\ b = 1
    BY <1>1, <2>1 DEF Between
  <2>3. a + 1 \in Int /\ b - 1 \in Int /\ b - 1 < a + 1
    BY <2>2
  <2> QED
    BY <2>1, <2>3, SubSeqEmpty
<1>3. {x \in Sentences(e) : Marked(x, keyword) # {}} = {}
  BY <1>1, <1>2, Zenon DEF e
<1> QED
  BY <1>3, Zenon DEF RunwaysSaid, e

\* What is said in two closed texts is said in their join.
LEMMA RunwaysOfJoin ==
  ASSUME NEW s \in Seq(Words), NEW t \in Seq(Words), Complete(s), Complete(t), NEW keyword
  PROVE  /\ Complete(s \o t)
         /\ RunwaysSaid(s \o t, keyword) = RunwaysSaid(s, keyword) \cup RunwaysSaid(t, keyword)
<1>1. RunwaysSaid(<< >>, keyword) = {}
  BY NothingSaid
<1>2. CASE s = << >>
  <2>1. s \o t = t
    BY <1>2
  <2> QED
    BY <1>1, <1>2, <2>1
<1>3. CASE t = << >>
  <2>1. s \o t = s
    BY <1>3
  <2> QED
    BY <1>1, <1>3, <2>1
<1>4. CASE s # << >> /\ t # << >>
  <2>1. Complete(s \o t)
    <3>1. Len(t) \in 1..Len(t) /\ Len(t) \in Marked(t, "stop")
      BY <1>4 DEF Complete
    <3>2. Len(s \o t) \in Marked(s \o t, "stop")
      BY <3>1, StopsOfJoin
    <3> QED
      BY <3>2, Zenon DEF Complete
  <2>2. \A x : x # << >> =>
          (x \in Sentences(s \o t) <=> x \in Sentences(s) \/ x \in Sentences(t))
    BY <1>4, SentencesOfJoin
  <2>3. \A x : Marked(x, keyword) # {} => x # << >>
    BY DEF Marked
  <2>4. {x \in Sentences(s \o t) : Marked(x, keyword) # {}} =
          {x \in Sentences(s) : Marked(x, keyword) # {}}
            \cup {x \in Sentences(t) : Marked(x, keyword) # {}}
    BY <2>2, <2>3, Zenon
  <2>5. RunwaysSaid(s \o t, keyword) = RunwaysSaid(s, keyword) \cup RunwaysSaid(t, keyword)
    BY <2>4, Zenon DEF RunwaysSaid
  <2> QED
    BY <2>1, <2>5
<1> QED
  BY <1>2, <1>3, <1>4

\* What is said in closed texts is said when they follow one another.
LEMMA RunwaysOfFlattened ==
  ASSUME NEW seqs \in Seq(Seq(Words)), \A n \in DOMAIN seqs : Complete(seqs[n]), NEW keyword
  PROVE  RunwaysSaid(FlattenSeq(seqs), keyword) =
           UNION {RunwaysSaid(seqs[n], keyword) : n \in DOMAIN seqs}
<1> DEFINE n == Len(seqs)
<1>1. CASE n = 0
  <2>1. seqs = << >> /\ FlattenSeq(seqs) = << >> /\ DOMAIN seqs = {}
    BY <1>1, SMT DEF FlattenSeq
  <2> QED
    BY <2>1, NothingSaid
<1>2. CASE n # 0
  <2>1. PICK f \in [1..n -> Seq(Words)] :
          /\ FlattenSeq(seqs) = f[n] /\ f[1] = seqs[1]
          /\ \A i \in 1..n - 1 : f[i + 1] = f[i] \o seqs[i + 1]
    BY <1>2, FlattenStepwise
  <2> DEFINE T == {i \in 1..n :
                    /\ Complete(f[i])
                    /\ RunwaysSaid(f[i], keyword) =
                         UNION {RunwaysSaid(seqs[k], keyword) : k \in 1..i}}
  <2>2. n \in Nat /\ n - 1 \in Nat /\ n = (n - 1) + 1 /\ n \in 1..n /\ DOMAIN seqs = 1..n
    BY <1>2
  <2>3. 1 \in T
    <3>1. 1 \in 1..n /\ 1..1 = {1}
      BY <2>2
    <3> QED
      BY <2>1, <2>2, <3>1, Zenon
  <2>4. ASSUME NEW i \in 1..n - 1, i \in T PROVE i + 1 \in T
    <3>1. i \in 1..n /\ i + 1 \in 1..n
      BY <2>2
    <3>2. f[i] \in Seq(Words) /\ seqs[i + 1] \in Seq(Words)
      <4>1. f[i] \in Seq(Words)
        BY <3>1, Zenon
      <4>2. seqs[i + 1] \in Seq(Words)
        BY <3>1
      <4> QED
        BY <4>1, <4>2
    <3>3. Complete(f[i]) /\ Complete(seqs[i + 1])
      BY <2>2, <2>4, <3>1, Zenon
    <3>4. f[i + 1] = f[i] \o seqs[i + 1]
      BY <2>1, Zenon
    <3>5. /\ Complete(f[i + 1])
          /\ RunwaysSaid(f[i + 1], keyword) =
               RunwaysSaid(f[i], keyword) \cup RunwaysSaid(seqs[i + 1], keyword)
      BY <3>2, <3>3, <3>4, RunwaysOfJoin
    <3>6. 1..i + 1 = 1..i \cup {i + 1}
      OBVIOUS
    <3>7. RunwaysSaid(f[i], keyword) = UNION {RunwaysSaid(seqs[k], keyword) : k \in 1..i}
      BY <2>4, Zenon
    <3>8. RunwaysSaid(f[i + 1], keyword) =
            UNION {RunwaysSaid(seqs[k], keyword) : k \in 1..i + 1}
      BY <3>5, <3>6, <3>7, Zenon
    <3> QED
      BY <3>1, <3>5, <3>8
  <2> HIDE DEF T
  <2>5. \A i \in 1..n : i \in T
    BY <2>2, <2>3, <2>4, Stepwise
  <2>6. n \in T
    BY <2>2, <2>5
  <2> QED
    BY <2>1, <2>2, <2>6, Zenon DEF T
<1> QED
  BY <1>1, <1>2

\* The merged text of a station says the runways of its lines and no others, for any
\* complete lines, however they are split over positions and whatever is repeated
\* (mergeAtisText, extractRunwayContexts).
THEOREM MergedRunwaysAreKept == Spec => []MergeKeepsRunways
<1>1. TextInv /\ BuiltInv => MergeKeepsRunways
  <2> SUFFICES ASSUME TextInv, BuiltInv, reports # None, NEW i \in DOMAIN reports,
                      \A line \in AtisLines(i) : Complete(line),
                      NEW keyword \in {"landing", "departure"}
               PROVE  RunwaysSaid(reports[i].atisText, keyword) =
                        UNION {RunwaysSaid(line, keyword) : line \in AtisLines(i)}
    BY Zenon DEF MergeKeepsRunways
  <2>1. CASE asked # None
    <3>1. AtisLines(i) = {}
      BY <2>1 DEF AtisLines
    <3>2. reports[i].atisText = << >>
      BY <2>1 DEF BuiltInv, MetarOnly
    <3> QED
      BY <3>1, <3>2, NothingSaid
  <2>2. CASE asked = None
    <3> DEFINE own == EntriesOf(feed, i)
    <3>1. own \in Seq(Entries)
      BY EntriesOfStation DEF TextInv
    <3>2. LinesOf(own) = AtisLines(i)
      BY <2>2, Zenon DEF LinesOf, AtisLines
    <3>3. reports[i].atisText = MergeAtisText(own)
      BY <2>2 DEF BuiltInv, Build, BuildOne
    <3> HIDE DEF own
    <3>4. PICK parts \in Seq(Seq(Words)) :
            /\ MergeAtisText(own) = FlattenSeq(parts)
            /\ \A n \in DOMAIN parts : parts[n] = << >> \/ parts[n] \in LinesOf(own)
            /\ \A line \in LinesOf(own) : \E n \in DOMAIN parts : parts[n] = line
      BY <3>1, MergedParts
    <3>5. \A n \in DOMAIN parts : Complete(parts[n])
      BY <3>2, <3>4, Zenon DEF Complete
    <3>6. RunwaysSaid(FlattenSeq(parts), keyword) =
            UNION {RunwaysSaid(parts[n], keyword) : n \in DOMAIN parts}
      BY <3>5, RunwaysOfFlattened
    <3>7. UNION {RunwaysSaid(parts[n], keyword) : n \in DOMAIN parts} =
            UNION {RunwaysSaid(line, keyword) : line \in LinesOf(own)}
      BY <3>4, NothingSaid, Zenon
    <3> QED
      BY <3>2, <3>3, <3>4, <3>6, <3>7
  <2> QED
    BY <2>1, <2>2
<1> QED
  BY <1>1, InvHolds, PTL
=============================================================================
