--------------------------- MODULE ContentsProofs ---------------------------
(***************************************************************************)
(* For all documents and ranges: the walks over the headers list each      *)
(* header once and in order, below the right one, and the ranges of the    *)
(* table of contents cover the text.  The inductive invariant describes    *)
(* the calls of the recursion: each lists the children of a header, these  *)
(* headers are nested, and all that was listed behind them is deeper.      *)
(* For the outline that is exported and imported again it is continued:    *)
(* what was read so far are the first pieces of the text, up to the next   *)
(* header.                                                                 *)
(***************************************************************************)
EXTENDS Contents, TLAPS, SequenceTheorems, WellFoundedInduction

CallType == [level : 0..6, parent : -1..(Size - 1)]
EntryType == [header : 0..(Size - 1), parent : -1..(Size - 1), depth : 1..7, start : Int, end : Int]

Types ==
    /\ headers \in Seq(Header) /\ min \in Nat /\ max \in Nat
    /\ walk \in {"toc", "html", "outline"}
    /\ stage \in {"walk", "import", "done"} /\ read \in Nat /\ in_meta \in BOOLEAN
    /\ counter \in Nat
    /\ calls \in Seq(CallType) /\ entries \in Seq(EntryType)

\* The counter runs past the end by one for every call that returns there
Counted ==
    /\ counter + Len(calls) <= Size + 7
    /\ stage # "walk" \/ calls = <<>> => counter >= Size

\* A call lists the children of a header that the call before it listed
Nested ==
    /\ calls # <<>> => calls[1].level = 0 /\ calls[1].parent = -1
    /\ \A k \in DOMAIN calls : calls[k].level >= k - 1
    /\ \A k \in DOMAIN calls : k > 1 =>
           /\ calls[k].parent \in Listed /\ calls[k].parent < counter
           /\ calls[k].level = Level(calls[k].parent) + 1
    /\ \A j, k \in DOMAIN calls : j < k => calls[j].level < calls[k].level

\* Everything listed behind that header is deeper than it
Deeper ==
    \A k \in DOMAIN calls : \A j \in Listed :
        calls[k].parent < j /\ j < counter => Level(j) >= calls[k].level

\* The page's range leaves out a level above others
Skewed == walk = "html" /\ \E j \in 0..(Size - 1) : Level(j) < min

\* No header that was listed in a call so far could have the next one below it
Flat ==
    ~Skewed =>
        /\ \A k \in DOMAIN calls : k > 1 =>
               \A j \in Listed : calls[k - 1].parent < j /\ j < calls[k].parent =>
                   Level(j) >= Level(calls[k].parent)
        /\ calls # <<>> /\ counter < Size =>
               \A j \in Listed : Call.parent < j /\ j < counter =>
                   counter \in Listed /\ Level(j) >= Level(counter)

InOrder ==
    /\ {entries[k].header : k \in DOMAIN entries} = {j \in Listed : j < counter}
    /\ \A j, k \in DOMAIN entries : j < k => entries[j].header < entries[k].header

ParentOf(e) ==
    IF Skewed THEN e.parent \in Above(e.header) \cup {-1}
    ELSE e.parent = Max(Above(e.header) \cup {-1})
RangeOf(e) ==
    /\ e.start = Start(e.header)
    /\ e.end = IF Following(e.header) = Size THEN Line(Size)
               ELSE Start(e.header) + Line(Following(e.header)) - Line(e.header)
EntriesRight == \A k \in DOMAIN entries : ParentOf(entries[k]) /\ RangeOf(entries[k])

IInv == Types /\ Counted /\ Nested /\ Deeper /\ Flat /\ InOrder /\ EntriesRight
-----------------------------------------------------------------------------
\* A set of numbers that is not empty has a least one.
LEMMA LeastExists ==
    ASSUME NEW S, S \subseteq Nat, S # {}
    PROVE  Min(S) \in S /\ \A y \in S : Min(S) <= y
<1>1. PICK m \in S : \A k \in S : <<k, m>> \notin OpToRel(<, Nat)
  BY WFMin, NatLessThanWellFounded, Zenon
<1>2. \A k \in S : ~(k < m)
  BY <1>1 DEF OpToRel
<1>3. \A y \in S : m <= y
  BY <1>2
<1>4. Min(S) \in S /\ \A y \in S : Min(S) <= y
  BY <1>3 DEF Min
<1> QED BY <1>4

\* The greatest member of a set.
LEMMA GreatestIs ==
    ASSUME NEW S, S \subseteq Int, NEW m \in S, \A y \in S : y <= m
    PROVE  Max(S) = m
<1>1. \A y \in S : m >= y
  OBVIOUS
<1>2. Max(S) \in S /\ \A y \in S : Max(S) >= y
  BY <1>1 DEF Max
<1>3. Max(S) >= m /\ Max(S) <= m /\ Max(S) \in Int
  BY <1>2
<1> HIDE DEF Max
<1> QED BY <1>3

\* The headers have levels.
LEMMA HeaderFacts ==
    ASSUME Types
    PROVE  /\ Size \in Nat
           /\ \A k \in 0..(Size - 1) : Level(k) \in 1..6
           /\ Listed \subseteq 0..(Size - 1)
<1>1. Size \in Nat
  BY LenProperties DEF Types, Size
<1>2. ASSUME NEW k \in 0..(Size - 1) PROVE Level(k) \in 1..6
  <2>1. k + 1 \in 1..Len(headers)
    BY <1>1 DEF Size
  <2>2. headers[k + 1] \in Header
    BY <2>1, ElementOfSeq DEF Types
  <2> QED BY <2>2 DEF Level, Header
<1> QED BY <1>1, <1>2 DEF Listed

\* The walk goes on at the next header, and passes none that is listed.
LEMMA NextIs ==
    ASSUME Types, NEW c \in 0..(Size - 1)
    PROVE  /\ Following(c) \in (c + 1)..Size
           /\ \A j \in Listed : j > c => j >= Following(c)
           /\ Following(c) < Size =>
                  IF walk = "html" THEN Following(c) = c + 1 ELSE Following(c) \in Listed
<1> DEFINE S == {Size} \cup {j \in (c + 1)..(Size - 1) : walk = "html" \/ Valid(j)}
<1>1. Following(c) = Min(S)
  BY DEF Following, NextValid
<1>2. S \subseteq Nat /\ S # {} /\ S \subseteq (c + 1)..Size
  BY HeaderFacts
<1>3. Min(S) \in S /\ \A y \in S : Min(S) <= y
  BY <1>2, LeastExists, Zenon
<1>4. \A j \in Listed : j > c => j \in S
  BY HeaderFacts DEF Listed, Ignored
<1>5. ASSUME Min(S) < Size, walk = "html" PROVE Min(S) = c + 1
  <2>1. c + 1 \in S
    BY <1>2, <1>3, <1>5, HeaderFacts
  <2> QED BY <1>2, <1>3, <2>1, HeaderFacts
<1>6. ASSUME Min(S) < Size, walk # "html" PROVE Min(S) \in Listed
  <2>1. Min(S) \in (c + 1)..(Size - 1) /\ Valid(Min(S))
    BY <1>3, <1>6, HeaderFacts
  <2> QED BY <2>1, <1>6, HeaderFacts DEF Listed, Ignored
<1> HIDE DEF S
<1>7. Min(S) \in (c + 1)..Size
  BY <1>2, <1>3
<1>8. \A j \in Listed : j > c => Min(S) <= j
  BY <1>3, <1>4
<1>9. Size \in Nat /\ Listed \subseteq 0..(Size - 1)
  BY HeaderFacts
<1>10. \A j \in Listed : j > c => j >= Min(S)
  BY <1>7, <1>8, <1>9
<1> QED BY <1>1, <1>5, <1>6, <1>7, <1>10

\* What a step that leaves the document alone leaves alone.
LEMMA SameDocument ==
    ASSUME headers' = headers, walk' = walk, min' = min, max' = max
    PROVE  /\ Size' = Size /\ Listed' = Listed
           /\ \A k : Level(k)' = Level(k) /\ (Ignored(k)' <=> Ignored(k))
           /\ \A e : (ParentOf(e)' <=> ParentOf(e)) /\ (RangeOf(e)' <=> RangeOf(e))
           /\ Skewed' <=> Skewed
           /\ CallType' = CallType /\ EntryType' = EntryType
<1>1. Size' = Size
  BY DEF Size
<1>2. \A k : Level(k)' = Level(k) /\ (Ignored(k)' <=> Ignored(k))
  BY DEF Level, Ignored, Valid, header_is_valid
<1>3. Listed' = Listed
  BY DEF Listed, Size, Ignored, Valid, header_is_valid, Level
<1>4. Skewed' <=> Skewed
  BY DEF Skewed, Size, Level
<1>5. \A e : ParentOf(e)' <=> ParentOf(e)
  BY DEF ParentOf, Skewed, Above, Listed, Size, Ignored, Valid, header_is_valid, Level
<1>6. \A e : RangeOf(e)' <=> RangeOf(e)
  BY DEF RangeOf, Start, Line, Following, NextValid, Size, Valid, header_is_valid
<1>7. CallType' = CallType /\ EntryType' = EntryType
  BY <1>1 DEF CallType, EntryType
<1> QED BY <1>1, <1>2, <1>3, <1>4, <1>5, <1>6, <1>7
-----------------------------------------------------------------------------
LEMMA InitOK == Init => IInv
<1> SUFFICES ASSUME Init PROVE IInv
  OBVIOUS
<1>1. headers \in Seq(Header) /\ Size \in Nat
  BY HeaderListsAssumption, LenProperties DEF Init, Size
<1>2. min \in Nat /\ max \in Nat
  BY RangesAssumption DEF Init
<1>3. DOMAIN calls = 1..1 /\ Len(calls) = 1 /\ calls[1] = [level |-> 0, parent |-> -1]
  BY DEF Init
<1>4. calls \in Seq(CallType)
  BY <1>1 DEF Init, CallType
<1>5. entries \in Seq(EntryType) /\ DOMAIN entries = {} /\ counter = 0 /\ stage = "walk"
  BY DEF Init
<1>6. walk \in {"toc", "html", "outline"} /\ read \in Nat /\ in_meta \in BOOLEAN
  BY DEF Init
<1>7. Types
  BY <1>1, <1>2, <1>4, <1>5, <1>6 DEF Types
<1>8. \A j \in Listed : ~(j < counter)
  BY <1>5, <1>7, HeaderFacts
<1>9. Counted
  BY <1>1, <1>3, <1>5 DEF Counted, Init
<1>10. Nested
  BY <1>3 DEF Nested
<1>11. Deeper /\ Flat
  BY <1>3, <1>8 DEF Deeper, Flat, Call
<1>12. InOrder /\ EntriesRight
  BY <1>5, <1>8 DEF InOrder, EntriesRight
<1> QED BY <1>7, <1>9, <1>10, <1>11, <1>12 DEF IInv

\* While the calls, the counter and the entries stay, so does the invariant.
LEMMA WalkUnchanged ==
    ASSUME IInv, UNCHANGED <<headers, walk, min, max, counter, calls, entries>>,
           stage' \in {"walk", "import", "done"}, read' \in Nat, in_meta' \in BOOLEAN,
           stage' = "walk" \/ counter >= Size
    PROVE  IInv'
<1> USE SameDocument
<1>1. Types'
  BY DEF IInv, Types
<1>2. Counted'
  BY DEF IInv, Counted
<1>3. Nested'
  BY DEF IInv, Nested
<1>4. Deeper'
  BY DEF IInv, Deeper
<1>5. Flat'
  BY DEF IInv, Flat, Call
<1>6. InOrder'
  BY DEF IInv, InOrder
<1>7. EntriesRight'
  BY DEF IInv, EntriesRight
<1> QED BY <1>1, <1>2, <1>3, <1>4, <1>5, <1>6, <1>7 DEF IInv

\* What is known when a header is looked at.
LEMMA AtHeader ==
    ASSUME IInv, Walking
    PROVE  /\ counter \in 0..(Size - 1) /\ Level(counter) \in 1..6 /\ Size \in Nat
           /\ Len(calls) \in 1..7 /\ DOMAIN calls = 1..Len(calls) /\ Call = calls[Len(calls)]
           /\ Call \in CallType /\ \A k \in 1..Len(calls) : calls[k] \in CallType
<1>1. counter \in 0..(Size - 1) /\ Size \in Nat
  BY HeaderFacts DEF IInv, Types, Walking
<1>2. calls \in Seq(CallType) /\ calls # <<>>
  BY DEF IInv, Types, Walking
<1>3. Len(calls) \in Nat /\ DOMAIN calls = 1..Len(calls) /\ Len(calls) # 0
  BY <1>2, LenProperties, EmptySeq
<1>4. \A k \in 1..Len(calls) : calls[k] \in CallType
  BY <1>2, ElementOfSeq
<1>5. calls[Len(calls)].level >= Len(calls) - 1 /\ calls[Len(calls)].level <= 6
  BY <1>3, <1>4 DEF IInv, Nested, CallType
<1>6. Len(calls) <= 7
  BY <1>3, <1>4, <1>5 DEF CallType
<1>7. Call = calls[Len(calls)]
  BY DEF Call, Last
<1>8. Len(calls) \in 1..7
  <2>1. \A n \in Nat : n # 0 /\ n <= 7 => n \in 1..7
    OBVIOUS
  <2> QED BY <1>3, <1>6, <2>1, Zenon
<1>9. Level(counter) \in 1..6
  BY <1>1, HeaderFacts DEF IInv
<1>10. Call \in CallType
  <2>1. \A n \in 1..7 : n \in 1..n
    OBVIOUS
  <2> QED BY <1>4, <1>7, <1>8, <2>1, Zenon
<1> QED BY <1>1, <1>3, <1>4, <1>7, <1>8, <1>9, <1>10

LEMMA IgnoreOK ==
    ASSUME IInv, Ignore
    PROVE  IInv'
<1> USE AtHeader, HeaderFacts, SameDocument
<1>1. Walking /\ Types /\ Ignored(counter) /\ counter' = counter + 1
  BY DEF Ignore, AfterIgnored, Forward, IInv
<1>2. UNCHANGED <<headers, walk, min, max, calls, entries, stage, read, in_meta>>
  BY DEF Ignore
<1>3. counter \notin Listed /\ counter \in Nat /\ Listed \subseteq Int
  BY <1>1 DEF Listed
<1>4. \A j \in Listed : j < counter' <=> j < counter
  BY <1>1, <1>3
<1>5. Types'
  BY <1>1, <1>2 DEF Types
<1>6. Counted'
  <2>1. counter' + Len(calls) <= Size + 7
    <3>1. counter \in 0..(Size - 1) /\ Size \in Nat /\ Len(calls) \in 1..7
      BY <1>1, AtHeader, Zenon
    <3>2. \A n \in 1..7 : counter + 1 + n <= Size + 7
      BY <3>1
    <3> QED BY <1>1, <3>1, <3>2
  <2>2. stage = "walk" /\ calls # <<>>
    BY <1>1 DEF Walking
  <2> QED BY <1>2, <2>1, <2>2 DEF Counted
<1>7. Nested'
  BY <1>1, <1>2, SMTT(30) DEF IInv, Nested, CallType
<1>8. Deeper'
  BY <1>2, <1>4 DEF IInv, Deeper
<1>9. Flat'
  <2>1. ASSUME ~Skewed PROVE \A j \in Listed : ~(Call.parent < j /\ j < counter)
    BY <1>1, <1>3, <2>1 DEF IInv, Flat, Walking
  <2>2. Call' = Call
    BY <1>2 DEF Call
  <2> QED BY <1>2, <1>4, <2>1, <2>2 DEF IInv, Flat
<1>10. InOrder'
  BY <1>2, <1>4 DEF IInv, InOrder
<1>11. EntriesRight'
  BY <1>2 DEF IInv, EntriesRight
<1> QED BY <1>5, <1>6, <1>7, <1>8, <1>9, <1>10, <1>11 DEF IInv

\* No other call has a higher level than the one that runs.
LEMMA CallIsDeepest ==
    ASSUME IInv, Walking
    PROVE  \A k \in DOMAIN calls : calls[k].level <= Call.level
<1>1. DOMAIN calls = 1..Len(calls) /\ Len(calls) \in 1..7 /\ Call = calls[Len(calls)]
      /\ \A k \in 1..Len(calls) : calls[k] \in CallType
  BY AtHeader
<1>2. SUFFICES ASSUME NEW k \in 1..Len(calls) PROVE calls[k].level <= Call.level
  BY <1>1
<1>3. CASE k = Len(calls)
  BY <1>1, <1>3 DEF CallType
<1>4. CASE k < Len(calls)
  <2>1. calls[k].level < calls[Len(calls)].level
    BY <1>1, <1>2, <1>4 DEF IInv, Nested
  <2> QED BY <1>1, <2>1 DEF CallType
<1>5. k = Len(calls) \/ k < Len(calls)
  <2>1. \A n \in 1..7 : \A m \in 1..n : m = n \/ m < n
    OBVIOUS
  <2> QED BY <1>1, <1>2, <2>1, Zenon
<1> QED BY <1>3, <1>4, <1>5

\* The header that is listed is the only one up to the next.
LEMMA ListStep ==
    ASSUME IInv, List
    PROVE  /\ Walking /\ Types /\ counter \in Listed /\ Level(counter) >= Call.level
           /\ counter' = Following(counter) /\ counter' \in (counter + 1)..Size
           /\ \A j \in Listed : j < counter' <=> j < counter \/ j = counter
           /\ UNCHANGED <<headers, walk, min, max, stage, read, in_meta>>
<1>1. Walking /\ Types /\ ~Ignored(counter) /\ Level(counter) >= Call.level
      /\ counter' = Following(counter)
      /\ UNCHANGED <<headers, walk, min, max, stage, read, in_meta>>
  BY DEF List, IInv
<1>2. counter \in 0..(Size - 1) /\ Size \in Nat
  BY <1>1, AtHeader
<1>3. counter \in Listed /\ Listed \subseteq 0..(Size - 1)
  BY <1>1, <1>2 DEF Listed
<1>4. counter' \in (counter + 1)..Size /\ \A j \in Listed : j > counter => j >= counter'
  BY <1>1, <1>2, NextIs
<1>5. \A j \in Listed : j < counter' <=> j < counter \/ j = counter
  BY <1>2, <1>3, <1>4
<1> QED BY <1>1, <1>3, <1>4, <1>5

\* The parent of the entry is the nearest header before it with a lower level.
LEMMA ListedBelow ==
    ASSUME IInv, List
    PROVE  ParentOf(Entry(counter)) /\ RangeOf(Entry(counter)) /\ Entry(counter) \in EntryType
<1> DEFINE A == Above(counter) \cup {-1}
<1>1. /\ counter \in 0..(Size - 1) /\ Level(counter) \in 1..6 /\ Size \in Nat
      /\ Len(calls) \in 1..7 /\ DOMAIN calls = 1..Len(calls) /\ Call = calls[Len(calls)]
      /\ Call \in CallType
  BY ListStep, AtHeader, Zenon
<1>2. Types /\ Walking /\ counter \in Listed /\ Level(counter) >= Call.level
  BY ListStep
<1>3. Entry(counter).header = counter /\ Entry(counter).parent = Call.parent
  BY DEF Entry
<1>4. Call.parent \in A
  <2>1. CASE Len(calls) = 1
    BY <1>1, <1>2, <2>1 DEF IInv, Nested, Walking
  <2>2. CASE Len(calls) > 1
    <3>1. Call.parent \in Listed /\ Call.parent < counter /\ Call.level = Level(Call.parent) + 1
      BY <1>1, <2>2 DEF IInv, Nested
    <3>2. Level(Call.parent) \in 1..6
      BY <1>2, <3>1, HeaderFacts
    <3>3. Level(Call.parent) < Level(counter)
      BY <1>1, <1>2, <3>1, <3>2 DEF CallType
    <3> QED BY <3>1, <3>3 DEF Above
  <2> QED BY <1>1, <2>1, <2>2
<1>5. A \subseteq Int
  BY <1>2, HeaderFacts DEF Above
<1>6. ASSUME ~Skewed PROVE Max(A) = Call.parent
  <2>1. ASSUME NEW x \in A PROVE x <= Call.parent
    <3>1. CASE x = -1
      BY <1>1, <3>1 DEF CallType
    <3>2. CASE x \in Above(counter)
      <4>1. x \in Listed /\ x < counter /\ Level(x) < Level(counter)
        BY <3>2 DEF Above
      <4>2. Level(x) \in 1..6 /\ x \in Int
        BY <1>2, <4>1, HeaderFacts
      <4>3. ~(Call.parent < x)
        <5>1. Call.parent < x => Level(x) >= Level(counter)
          BY <1>2, <1>6, <4>1 DEF IInv, Flat, Walking
        <5> QED BY <1>1, <4>1, <4>2, <5>1
      <4> QED BY <1>1, <4>2, <4>3 DEF CallType
    <3> QED BY <3>1, <3>2
  <2> HIDE DEF A
  <2> QED BY <1>4, <1>5, <2>1, GreatestIs
<1>7. ParentOf(Entry(counter))
  BY <1>3, <1>4, <1>6 DEF ParentOf
<1>8. RangeOf(Entry(counter))
  BY DEF RangeOf, Entry
<1>9. Entry(counter) \in EntryType
  <2>1. Start(counter) \in Int /\ Line(counter) \in Int /\ Line(Size) \in Int
    BY <1>1 DEF Start, Line
  <2>2. Line(Following(counter)) \in Int
    BY <1>1, <1>2, NextIs DEF Line
  <2>3. Call.parent \in -1..(Size - 1)
    BY <1>1 DEF CallType
  <2>4. Entry(counter).end \in Int
    BY <2>1, <2>2 DEF Entry
  <2> QED BY <1>1, <2>1, <2>3, <2>4 DEF Entry, EntryType
<1> QED BY <1>7, <1>8, <1>9

\* The calls after a header was listed: a new one if the next header is deeper.
LEMMA CallsAfterList ==
    ASSUME IInv, List
    PROVE  \E n \in 1..7 :
               /\ Len(calls) = n /\ DOMAIN calls = 1..n
               /\ \A k \in 1..n : calls'[k] = calls[k]
               /\ calls' \in Seq(CallType)
               /\ \/ /\ counter' < Size => Level(counter') <= Level(counter)
                     /\ calls' = calls
                  \/ /\ Level(counter) < 6
                     /\ DOMAIN calls' = 1..(n + 1) /\ Len(calls') = n + 1 /\ n + 1 <= 7
                     /\ calls'[n + 1].level = Level(counter) + 1
                     /\ calls'[n + 1].parent = counter
                     /\ Call' = calls'[n + 1]
<1> DEFINE c == [level |-> Level(counter) + 1, parent |-> counter]
           n == Len(calls)
<1>1. Walking /\ Types /\ counter' = Following(counter) /\ counter' \in (counter + 1)..Size
      /\ Level(counter) >= Call.level
  BY ListStep, Zenon
<1>2. /\ counter \in 0..(Size - 1) /\ Level(counter) \in 1..6 /\ Size \in Nat
      /\ n \in 1..7 /\ DOMAIN calls = 1..n /\ Call = calls[n]
  BY <1>1, AtHeader, Zenon
<1>3. calls \in Seq(CallType)
  BY <1>1 DEF Types
<1>4. calls' = IF counter' < Size /\ Level(counter') > Level(counter) THEN Append(calls, c) ELSE calls
  BY DEF List, ChildLevel, DeeperThan
<1>5. CASE counter' < Size /\ Level(counter') > Level(counter)
  <2>1. counter' \in 0..(Size - 1)
    BY <1>1, <1>2, <1>5
  <2>2. Level(counter') \in 1..6
    BY <1>1, <2>1, HeaderFacts
  <2>3. Level(counter) < 6
    BY <1>2, <1>5, <2>2
  <2>4. c \in CallType
    BY <1>2, <2>3 DEF CallType
  <2>5. calls' = Append(calls, c)
    BY <1>4, <1>5
  <2> HIDE DEF c
  <2>6. /\ calls' \in Seq(CallType) /\ Len(calls') = n + 1
        /\ \A k \in 1..n : calls'[k] = calls[k]
        /\ calls'[n + 1] = c
    BY <1>3, <2>4, <2>5, AppendProperties
  <2>7. DOMAIN calls' = 1..(n + 1)
    BY <2>6, LenProperties
  <2>8. n + 1 <= 7
    <3>1. calls[n].level >= n - 1 /\ calls[n].level \in 0..6
      <4>1. \A k \in 1..n : calls[k].level >= k - 1
        BY <1>2 DEF IInv, Nested
      <4>2. calls[n] \in CallType /\ n \in 1..n
        BY <1>1, <1>2, AtHeader
      <4>3. calls[n].level \in 0..6
        BY <4>2 DEF CallType
      <4> QED BY <4>1, <4>2, <4>3, Zenon
    <3>2. calls[n].level < 6
      BY <1>1, <1>2, <2>3, <3>1, SMTT(30)
    <3>3. \A m \in 1..7 : \A l \in 0..6 : l >= m - 1 /\ l < 6 => m + 1 <= 7
      OBVIOUS
    <3> QED BY <1>2, <3>1, <3>2, <3>3, Zenon
  <2>9. Call' = calls'[n + 1]
    BY <2>6 DEF Call, Last
  <2>10. c.level = Level(counter) + 1 /\ c.parent = counter
    BY DEF c
  <2> HIDE DEF n
  <2> QED BY <1>2, <2>3, <2>6, <2>7, <2>8, <2>9, <2>10 DEF n
<1>6. CASE ~(counter' < Size /\ Level(counter') > Level(counter))
  <2>1. calls' = calls
    BY <1>4, <1>6
  <2>2. counter' < Size => Level(counter') <= Level(counter)
    <3>1. ASSUME counter' < Size PROVE Level(counter') \in 1..6
      <4>1. counter' \in 0..(Size - 1)
        BY <1>1, <1>2, <3>1
      <4> QED BY <1>1, <4>1, HeaderFacts
    <3> QED BY <1>2, <1>6, <3>1
  <2> QED BY <1>2, <1>3, <2>1, <2>2
<1> QED BY <1>5, <1>6

LEMMA ListOK ==
    ASSUME IInv, List
    PROVE  IInv'
<1>1. /\ Walking /\ Types /\ counter \in Listed /\ Level(counter) >= Call.level
      /\ counter' = Following(counter) /\ counter' \in (counter + 1)..Size
      /\ \A j \in Listed : j < counter' <=> j < counter \/ j = counter
      /\ UNCHANGED <<headers, walk, min, max, stage, read, in_meta>>
  BY ListStep, Zenon
<1>2. /\ Size' = Size /\ Listed' = Listed
      /\ \A k : Level(k)' = Level(k)
      /\ \A e : (ParentOf(e)' <=> ParentOf(e)) /\ (RangeOf(e)' <=> RangeOf(e))
      /\ Skewed' <=> Skewed
      /\ CallType' = CallType /\ EntryType' = EntryType
  BY <1>1, SameDocument, Zenon
<1>3. PICK n \in 1..7 :
          /\ Len(calls) = n /\ DOMAIN calls = 1..n
          /\ \A k \in 1..n : calls'[k] = calls[k]
          /\ calls' \in Seq(CallType)
          /\ \/ /\ counter' < Size => Level(counter') <= Level(counter)
                /\ calls' = calls
             \/ /\ Level(counter) < 6
                /\ DOMAIN calls' = 1..(n + 1) /\ Len(calls') = n + 1 /\ n + 1 <= 7
                /\ calls'[n + 1].level = Level(counter) + 1
                /\ calls'[n + 1].parent = counter
                /\ Call' = calls'[n + 1]
  BY CallsAfterList
<1>4. /\ counter \in 0..(Size - 1) /\ Level(counter) \in 1..6 /\ Size \in Nat
      /\ Call = calls[n] /\ Call \in CallType /\ \A k \in 1..n : calls[k] \in CallType
  BY <1>1, <1>3, AtHeader, Zenon
<1>5. Listed \subseteq 0..(Size - 1) /\ \A k \in 0..(Size - 1) : Level(k) \in 1..6
  BY <1>1, HeaderFacts
<1>6. \A k \in 1..n : calls[k].level \in 0..6 /\ calls[k].parent \in Int /\ calls[k].level <= Level(counter)
  <2>1. \A k \in 1..n : calls[k].level <= Call.level
    BY <1>1, <1>3, CallIsDeepest, Zenon
  <2> QED BY <1>1, <1>4, <2>1 DEF CallType
<1>7. /\ entries' = Append(entries, Entry(counter)) /\ entries \in Seq(EntryType)
      /\ ParentOf(Entry(counter)) /\ RangeOf(Entry(counter)) /\ Entry(counter) \in EntryType
      /\ Entry(counter).header = counter
  BY ListedBelow DEF List, IInv, Types, Entry
<1>8. /\ entries' \in Seq(EntryType) /\ Len(entries) \in Nat
      /\ DOMAIN entries = 1..Len(entries) /\ DOMAIN entries' = 1..(Len(entries) + 1)
      /\ \A k \in 1..Len(entries) : entries'[k] = entries[k]
      /\ entries'[Len(entries) + 1] = Entry(counter)
  BY <1>7, AppendProperties, LenProperties
<1>9. ASSUME calls' = calls, counter' < Size => Level(counter') <= Level(counter)
      PROVE  Nested' /\ Deeper' /\ Flat'
  <2>1. Call' = Call
    BY <1>9 DEF Call
  <2>2. Nested'
    BY <1>1, <1>2, <1>3, <1>4, <1>5, <1>6, <1>9 DEF IInv, Nested
  <2>3. Deeper'
    <3>1. ASSUME NEW k \in 1..n, NEW j \in Listed, calls[k].parent < j, j < counter'
          PROVE  Level(j) >= calls[k].level
      <4>1. CASE j < counter
        BY <1>3, <3>1, <4>1 DEF IInv, Deeper
      <4>2. CASE j = counter
        BY <1>4, <1>6, <4>2
      <4> QED BY <1>1, <3>1, <4>1, <4>2
    <3> QED BY <1>2, <1>3, <1>9, <3>1 DEF Deeper
  <2>4. Flat'
    <3>1. ASSUME ~Skewed, counter' < Size, NEW j \in Listed, Call.parent < j, j < counter'
          PROVE  counter' \in Listed /\ Level(j) >= Level(counter')
      <4>1. counter' \in 0..(Size - 1) /\ Level(counter') \in 1..6 /\ Level(j) \in 1..6
            /\ Level(counter') <= Level(counter)
        BY <1>1, <1>4, <1>5, <1>9, <3>1
      <4>2. counter' \in Listed
        <5>1. CASE walk = "html"
          <6>1. Level(counter) <= max
            BY <1>1, <1>4, <5>1, SMTT(30) DEF Listed, Ignored, Types
          <6>2. Level(counter') >= min
            BY <3>1, <4>1, <5>1 DEF Skewed, IInv, Types
          <6>3. Level(counter') <= max
            BY <1>1, <1>4, <4>1, <6>1, SMTT(30) DEF Types
          <6>4. ~(Level(counter') < min) /\ ~(Level(counter') > max)
            BY <1>1, <4>1, <6>2, <6>3, SMTT(30) DEF Types
          <6> QED BY <4>1, <5>1, <6>4 DEF Listed, Ignored
        <5>2. CASE walk # "html"
          BY <1>1, <1>4, <3>1, <5>2, NextIs
        <5> QED BY <5>1, <5>2
      <4>3. Level(j) >= Level(counter)
        <5>1. CASE j < counter
          BY <1>1, <3>1, <5>1 DEF IInv, Flat, Walking
        <5>2. CASE j = counter
          BY <1>4, <5>2
        <5> QED BY <1>1, <3>1, <5>1, <5>2
      <4> QED BY <1>4, <4>1, <4>2, <4>3
    <3>2. \A k \in DOMAIN calls : calls'[k] = calls[k]
      BY <1>9
    <3> QED BY <1>2, <1>9, <2>1, <3>1 DEF IInv, Flat
  <2> QED BY <2>2, <2>3, <2>4
<1>10. ASSUME DOMAIN calls' = 1..(n + 1), Call' = calls'[n + 1],
              calls'[n + 1].level = Level(counter) + 1, calls'[n + 1].parent = counter
       PROVE  Nested' /\ Deeper' /\ Flat'
  <2>1. Nested'
    <3>1. calls[1].level = 0 /\ calls[1].parent = -1
      BY <1>1 DEF IInv, Nested, Walking
    <3>2. ASSUME NEW k \in 1..(n + 1) PROVE calls'[k].level >= k - 1
      <4>1. CASE k = n + 1
        <5>1. calls[n].level >= n - 1
          BY <1>3 DEF IInv, Nested
        <5>2. calls[n].level <= Level(counter) /\ calls[n].level \in Int
          BY <1>6
        <5>3. calls'[k].level = Level(counter) + 1
          BY <1>10, <4>1
        <5> QED BY <1>4, <4>1, <5>1, <5>2, <5>3
      <4>2. CASE k \in 1..n
        BY <1>3, <4>2 DEF IInv, Nested
      <4> QED BY <4>1, <4>2
    <3>3. ASSUME NEW k \in 1..(n + 1), k > 1
          PROVE  /\ calls'[k].parent \in Listed /\ calls'[k].parent < counter'
                 /\ calls'[k].level = Level(calls'[k].parent) + 1
      <4>1. CASE k = n + 1
        BY <1>1, <1>4, <1>10, <4>1
      <4>2. CASE k \in 1..n
        <5>1. /\ calls[k].parent \in Listed /\ calls[k].parent < counter
              /\ calls[k].level = Level(calls[k].parent) + 1
          BY <1>3, <3>3, <4>2 DEF IInv, Nested
        <5> QED BY <1>1, <1>3, <1>4, <1>6, <4>2, <5>1
      <4> QED BY <4>1, <4>2
    <3>4. ASSUME NEW j \in 1..(n + 1), NEW k \in 1..(n + 1), j < k
          PROVE  calls'[j].level < calls'[k].level
      <4>1. j \in 1..n
        BY <3>4
      <4>2. CASE k = n + 1
        <5>1. calls'[j].level \in Int /\ calls'[j].level <= Level(counter)
          BY <1>3, <1>6, <4>1
        <5>2. calls'[k].level = Level(counter) + 1
          BY <1>10, <4>2
        <5> QED BY <1>4, <5>1, <5>2
      <4>3. CASE k \in 1..n
        BY <1>3, <3>4, <4>1, <4>3 DEF IInv, Nested
      <4> QED BY <4>2, <4>3
    <3>5. calls'[1].level = 0 /\ calls'[1].parent = -1
      BY <1>3, <3>1
    <3> QED BY <1>2, <1>10, <3>2, <3>3, <3>4, <3>5 DEF Nested
  <2>2. Deeper'
    <3>1. ASSUME NEW k \in 1..(n + 1), NEW j \in Listed, calls'[k].parent < j, j < counter'
          PROVE  Level(j) >= calls'[k].level
      <4>1. CASE k = n + 1
        <5>1. ~(j < counter) /\ j # counter
          BY <1>4, <1>5, <1>10, <3>1, <4>1
        <5> QED BY <1>1, <3>1, <5>1
      <4>2. CASE k \in 1..n /\ j < counter
        BY <1>3, <3>1, <4>2 DEF IInv, Deeper
      <4>3. CASE k \in 1..n /\ j = counter
        BY <1>3, <1>4, <1>6, <4>3
      <4> QED BY <1>1, <3>1, <4>1, <4>2, <4>3
    <3> QED BY <1>2, <1>10, <3>1 DEF Deeper
  <2>3. Flat'
    <3>1. ASSUME ~Skewed, NEW k \in 1..(n + 1), k > 1, NEW j \in Listed,
                 calls'[k - 1].parent < j, j < calls'[k].parent
          PROVE  Level(j) >= Level(calls'[k].parent)
      <4>1. CASE k = n + 1
        <5>1. calls'[k - 1] = Call
          BY <1>3, <1>4, <4>1
        <5> QED BY <1>1, <1>10, <3>1, <4>1, <5>1 DEF IInv, Flat, Walking
      <4>2. CASE k \in 1..n
        <5>1. calls'[k - 1] = calls[k - 1] /\ calls'[k] = calls[k]
          BY <1>3, <3>1, <4>2
        <5> QED BY <1>3, <3>1, <4>2, <5>1 DEF IInv, Flat
      <4> QED BY <4>1, <4>2
    <3>2. ASSUME NEW j \in Listed, counter < j, j < counter' PROVE FALSE
      BY <1>1, <1>4, <1>5, <3>2
    <3> QED BY <1>2, <1>10, <3>1, <3>2 DEF Flat
  <2> QED BY <2>1, <2>2, <2>3
<1>11. Types'
  BY <1>1, <1>2, <1>3, <1>4, <1>8 DEF Types
<1>12. Counted'
  <2>1. Len(calls') \in 1..7 /\ calls' # <<>>
    <3>1. CASE calls' = calls
      BY <1>1, <1>3, <3>1 DEF Walking
    <3>2. CASE Len(calls') = n + 1 /\ n + 1 <= 7
      <4>1. calls' # <<>>
        BY <3>2
      <4>2. \A m \in 1..7 : m + 1 <= 7 => m + 1 \in 1..7
        OBVIOUS
      <4> QED BY <3>2, <4>1, <4>2, Zenon
    <3> QED BY <1>3, <3>1, <3>2
  <2>2. \A m \in 1..7 : counter' + m <= Size + 7
    BY <1>1, <1>4
  <2> QED BY <1>1, <1>2, <2>1, <2>2 DEF Counted, Walking
<1>13. InOrder'
  <2>1. \A k \in 1..Len(entries) : entries[k].header \in Listed /\ entries[k].header < counter
    BY <1>8 DEF IInv, InOrder
  <2>2. ASSUME NEW j \in Listed, j < counter'
        PROVE  \E k \in DOMAIN entries' : entries'[k].header = j
    <3>1. CASE j < counter
      BY <1>8, <3>1 DEF IInv, InOrder
    <3>2. CASE j = counter
      BY <1>7, <1>8, <3>2
    <3> QED BY <1>1, <2>2, <3>1, <3>2
  <2>3. ASSUME NEW k \in DOMAIN entries'
        PROVE  entries'[k].header \in Listed /\ entries'[k].header < counter'
    <3>1. CASE k \in 1..Len(entries)
      <4>1. entries'[k].header \in Listed /\ entries'[k].header < counter
        BY <1>8, <2>1, <3>1
      <4>2. Listed \subseteq Int
        BY <1>5
      <4> QED BY <1>1, <1>4, <4>1, <4>2
    <3>2. CASE k = Len(entries) + 1
      BY <1>1, <1>7, <1>8, <3>2
    <3> QED BY <1>8, <3>1, <3>2
  <2>4. ASSUME NEW j \in DOMAIN entries', NEW k \in DOMAIN entries', j < k
        PROVE  entries'[j].header < entries'[k].header
    <3>1. j \in 1..Len(entries)
      BY <1>8, <2>4
    <3>2. CASE k = Len(entries) + 1
      BY <1>7, <1>8, <2>1, <3>1, <3>2
    <3>3. CASE k \in 1..Len(entries)
      BY <1>8, <2>4, <3>1, <3>3 DEF IInv, InOrder
    <3> QED BY <1>8, <3>2, <3>3
  <2>5. {entries'[k].header : k \in DOMAIN entries'} = {j \in Listed : j < counter'}
    BY <2>2, <2>3
  <2> QED BY <1>2, <2>4, <2>5 DEF InOrder
<1>14. EntriesRight'
  BY <1>2, <1>7, <1>8 DEF IInv, EntriesRight
<1>15. Nested' /\ Deeper' /\ Flat'
  BY <1>3, <1>9, <1>10
<1> QED BY <1>11, <1>12, <1>13, <1>14, <1>15 DEF IInv

\* The calls after one returned.
LEMMA CallsAfterReturn ==
    ASSUME IInv, calls # <<>>, calls' = Front(calls)
    PROVE  \E n \in Nat :
               /\ Len(calls) = n + 1 /\ DOMAIN calls = 1..(n + 1)
               /\ calls' \in Seq(CallType) /\ Len(calls') = n /\ DOMAIN calls' = 1..n
               /\ \A k \in 1..n : calls'[k] = calls[k]
               /\ calls' = <<>> <=> n = 0
               /\ n > 0 => Call' = calls[n]
<1> DEFINE n == Len(calls) - 1
<1>1. calls \in Seq(CallType) /\ n \in Nat
  BY EmptySeq, LenProperties DEF IInv, Types
<1>2. DOMAIN calls = 1..(n + 1) /\ Len(calls) = n + 1
  BY <1>1, LenProperties
<1>3. calls' = SubSeq(calls, 1, n)
  BY DEF Front
<1>4. /\ calls' \in Seq(CallType) /\ Len(calls') = n
      /\ \A k \in 1..n : calls'[k] = calls[k]
  <2>1. \A k \in 1..n : calls[k] \in CallType
    BY <1>1, <1>2, ElementOfSeq
  <2>2. /\ SubSeq(calls, 1, n) \in Seq(CallType)
        /\ Len(SubSeq(calls, 1, n)) = IF 1 <= n THEN n - 1 + 1 ELSE 0
        /\ \A k \in 1..(n - 1 + 1) : SubSeq(calls, 1, n)[k] = calls[1 + k - 1]
    <3> HIDE DEF n
    <3> QED BY <1>1, <2>1, SubSeqProperties
  <2>3. n - 1 + 1 = n /\ \A k \in 1..n : 1 + k - 1 = k
    BY <1>1
  <2>4. (IF 1 <= n THEN n - 1 + 1 ELSE 0) = n
    <3> HIDE DEF n
    <3>1. n \in Nat
      BY <1>1
    <3> QED BY <3>1
  <2> HIDE DEF n
  <2> QED BY <1>3, <2>2, <2>3, <2>4
<1>5. DOMAIN calls' = 1..n
  BY <1>4, LenProperties
<1>6. calls' = <<>> <=> n = 0
  BY <1>1, <1>4, EmptySeq
<1>7. n > 0 => Call' = calls[n]
  BY <1>1, <1>4 DEF Call, Last
<1> QED BY <1>1, <1>2, <1>4, <1>5, <1>6, <1>7

LEMMA LeaveOK ==
    ASSUME IInv, Leave
    PROVE  IInv'
<1>1. /\ Walking /\ ~Ignored(counter) /\ Level(counter) < Call.level /\ Types
      /\ calls' = Front(calls) /\ counter' = counter
      /\ UNCHANGED <<headers, walk, min, max, entries, stage, read, in_meta>>
  BY DEF Leave, AfterReturn, BackForCaller, IInv
<1>2. /\ Size' = Size /\ Listed' = Listed
      /\ \A k : Level(k)' = Level(k)
      /\ \A e : (ParentOf(e)' <=> ParentOf(e)) /\ (RangeOf(e)' <=> RangeOf(e))
      /\ Skewed' <=> Skewed
      /\ CallType' = CallType /\ EntryType' = EntryType
  BY <1>1, SameDocument, Zenon
<1>3. PICK n \in Nat :
          /\ Len(calls) = n + 1 /\ DOMAIN calls = 1..(n + 1)
          /\ calls' \in Seq(CallType) /\ Len(calls') = n /\ DOMAIN calls' = 1..n
          /\ \A k \in 1..n : calls'[k] = calls[k]
          /\ calls' = <<>> <=> n = 0
          /\ n > 0 => Call' = calls[n]
  BY <1>1, CallsAfterReturn DEF Walking
<1>4. /\ counter \in 0..(Size - 1) /\ Level(counter) \in 1..6 /\ Size \in Nat /\ Len(calls) \in 1..7
      /\ Call = calls[n + 1] /\ \A k \in 1..(n + 1) : calls[k] \in CallType
  BY <1>1, <1>3, AtHeader, Zenon
<1>5. Listed \subseteq 0..(Size - 1) /\ \A k \in 0..(Size - 1) : Level(k) \in 1..6
  BY <1>1, HeaderFacts
<1>6. calls[n + 1].level \in 0..6 /\ Level(counter) < calls[n + 1].level
  BY <1>1, <1>3, <1>4 DEF CallType
<1>7. n > 0
  <2>1. calls[1].level = 0
    BY <1>1 DEF IInv, Nested, Walking
  <2> QED BY <1>3, <1>4, <1>6, <2>1
<1>8. Types'
  BY <1>1, <1>2, <1>3 DEF Types
<1>9. Counted'
  <2>1. counter + (n + 1) <= Size + 7
    BY <1>3 DEF IInv, Counted
  <2>2. counter + n <= Size + 7
    BY <1>3, <1>4, <2>1
  <2> QED BY <1>1, <1>2, <1>3, <1>7, <2>2 DEF Counted, Walking
<1>10. Nested'
  <2>1. calls'[1].level = 0 /\ calls'[1].parent = -1
    BY <1>1, <1>3, <1>7 DEF IInv, Nested, Walking
  <2> QED BY <1>1, <1>2, <1>3, <2>1 DEF IInv, Nested
<1>11. Deeper'
  BY <1>1, <1>2, <1>3 DEF IInv, Deeper
<1>12. Flat'
  <2>1. ASSUME ~Skewed, NEW k \in 1..n, k > 1, NEW j \in Listed,
               calls'[k - 1].parent < j, j < calls'[k].parent
        PROVE  Level(j) >= Level(calls'[k].parent)
    <3>1. calls'[k - 1] = calls[k - 1] /\ calls'[k] = calls[k] /\ k \in 1..(n + 1)
      BY <1>3, <2>1
    <3> QED BY <1>3, <2>1, <3>1 DEF IInv, Flat
  <2>2. counter \in Listed
    BY <1>1, <1>4 DEF Listed
  <2>3. ASSUME ~Skewed, NEW j \in Listed, calls[n].parent < j, j < counter
        PROVE  Level(j) >= Level(counter)
    <3> DEFINE p == calls[n + 1].parent
    <3>1. p \in Listed /\ calls[n + 1].level = Level(p) + 1
      BY <1>3, <1>7 DEF IInv, Nested
    <3>2. Level(j) \in 1..6 /\ Level(p) \in 1..6 /\ Level(counter) <= Level(p) /\ p \in Int /\ j \in Int
      <4>1. p \in 0..(Size - 1) /\ j \in 0..(Size - 1)
        BY <1>5, <3>1
      <4>2. Level(j) \in 1..6 /\ Level(p) \in 1..6
        BY <1>5, <4>1
      <4> HIDE DEF p
      <4> QED BY <1>4, <1>6, <3>1, <4>1, <4>2
    <3>3. CASE j < p
      <4>1. Level(j) >= Level(p)
        <5>1. n + 1 \in DOMAIN calls /\ n + 1 > 1 /\ (n + 1) - 1 = n
          BY <1>3, <1>7
        <5> QED BY <2>3, <3>3, <5>1 DEF IInv, Flat
      <4> QED BY <1>4, <3>2, <4>1
    <3>4. CASE j = p
      BY <1>4, <3>2, <3>4
    <3>5. CASE j > p
      <4>1. n + 1 \in DOMAIN calls
        BY <1>3
      <4>2. Level(j) >= calls[n + 1].level
        BY <2>3, <3>5, <4>1 DEF IInv, Deeper
      <4> QED BY <1>4, <1>6, <3>2, <4>2
    <3> QED BY <3>2, <3>3, <3>4, <3>5
  <2> QED BY <1>1, <1>2, <1>3, <1>7, <2>1, <2>2, <2>3 DEF Flat
<1>13. InOrder'
  BY <1>1, <1>2 DEF IInv, InOrder
<1>14. EntriesRight'
  BY <1>1, <1>2 DEF IInv, EntriesRight
<1> QED BY <1>8, <1>9, <1>10, <1>11, <1>12, <1>13, <1>14 DEF IInv

LEMMA ExhaustOK ==
    ASSUME IInv, Exhaust
    PROVE  IInv'
<1>1. /\ stage = "walk" /\ calls # <<>> /\ counter >= Size /\ Types
      /\ calls' = Front(calls)
      /\ counter' = IF Len(calls) > 1 THEN counter + 1 ELSE counter
      /\ UNCHANGED <<headers, walk, min, max, entries, stage, read, in_meta>>
  BY DEF Exhaust, IInv
<1>2. /\ Size' = Size /\ Listed' = Listed
      /\ \A k : Level(k)' = Level(k)
      /\ \A e : (ParentOf(e)' <=> ParentOf(e)) /\ (RangeOf(e)' <=> RangeOf(e))
      /\ Skewed' <=> Skewed
      /\ CallType' = CallType /\ EntryType' = EntryType
  BY <1>1, SameDocument, Zenon
<1>3. PICK n \in Nat :
          /\ Len(calls) = n + 1 /\ DOMAIN calls = 1..(n + 1)
          /\ calls' \in Seq(CallType) /\ Len(calls') = n /\ DOMAIN calls' = 1..n
          /\ \A k \in 1..n : calls'[k] = calls[k]
          /\ calls' = <<>> <=> n = 0
          /\ n > 0 => Call' = calls[n]
  BY <1>1, CallsAfterReturn
<1>4. counter' = IF n > 0 THEN counter + 1 ELSE counter
  BY <1>1, <1>3
<1>5. counter \in Nat /\ Size \in Nat /\ Listed \subseteq 0..(Size - 1) /\ counter' >= Size /\ counter' \in Nat
      /\ counter' >= counter
  BY <1>1, <1>4, HeaderFacts DEF Types
<1>6. \A j \in Listed : j < counter /\ j < counter'
  BY <1>1, <1>5
<1>7. Types'
  BY <1>1, <1>2, <1>3, <1>5 DEF Types
<1>8. Counted'
  <2>1. counter + (n + 1) <= Size + 7
    BY <1>3 DEF IInv, Counted
  <2>2. counter' + n <= Size + 7
    BY <1>3, <1>4, <1>5, <2>1
  <2> QED BY <1>2, <1>3, <1>5, <2>2 DEF Counted
<1>9. Nested'
  <2>1. calls' # <<>> => calls'[1].level = 0 /\ calls'[1].parent = -1
    BY <1>1, <1>3 DEF IInv, Nested
  <2> QED BY <1>2, <1>3, <1>6, <2>1 DEF IInv, Nested
<1>10. Deeper'
  BY <1>2, <1>3, <1>6 DEF IInv, Deeper
<1>11. Flat'
  <2>1. ASSUME ~Skewed, NEW k \in 1..n, k > 1, NEW j \in Listed,
               calls'[k - 1].parent < j, j < calls'[k].parent
        PROVE  Level(j) >= Level(calls'[k].parent)
    <3>1. calls'[k - 1] = calls[k - 1] /\ calls'[k] = calls[k] /\ k \in 1..(n + 1)
      BY <1>3, <2>1
    <3> QED BY <1>3, <2>1, <3>1 DEF IInv, Flat
  <2> QED BY <1>2, <1>3, <1>5, <2>1 DEF Flat
<1>12. InOrder'
  BY <1>1, <1>2, <1>6 DEF IInv, InOrder
<1>13. EntriesRight'
  BY <1>1, <1>2 DEF IInv, EntriesRight
<1> QED BY <1>7, <1>8, <1>9, <1>10, <1>11, <1>12, <1>13 DEF IInv

\* Every step keeps the invariant.
LEMMA Step == IInv /\ [Next]_vars => IInv'
<1> SUFFICES ASSUME IInv, [Next]_vars PROVE IInv'
  OBVIOUS
<1>1. CASE Ignore
  BY <1>1, IgnoreOK
<1>2. CASE List
  BY <1>2, ListOK
<1>3. CASE Leave
  BY <1>3, LeaveOK
<1>4. CASE Exhaust
  BY <1>4, ExhaustOK
<1>5. CASE EndWalk
  <2>1. counter >= Size /\ read \in Nat /\ in_meta \in BOOLEAN
    BY <1>5 DEF EndWalk, IInv, Types, Counted
  <2> QED BY <1>5, <2>1, WalkUnchanged DEF EndWalk
<1>6. CASE ReadTopic
  <2>1. counter >= Size /\ read \in Nat /\ stage = "import"
    BY <1>6 DEF ReadTopic, IInv, Types, Counted
  <2>2. read' \in Nat /\ in_meta' \in BOOLEAN
    <3>1. read' = read + 1 /\ \E topic : in_meta' = (in_meta \/ topic.what = "metadata")
      BY <1>6 DEF ReadTopic
    <3>2. in_meta' \in BOOLEAN
      BY <3>1, Zenon
    <3> QED BY <2>1, <3>1, <3>2
  <2>3. UNCHANGED <<headers, walk, min, max, counter, calls, entries, stage>>
    BY <1>6 DEF ReadTopic
  <2> QED BY <2>1, <2>2, <2>3, WalkUnchanged
<1>7. CASE EndImport
  <2>1. counter >= Size /\ read \in Nat /\ in_meta \in BOOLEAN
    BY <1>7 DEF EndImport, IInv, Types, Counted
  <2> QED BY <1>7, <2>1, WalkUnchanged DEF EndImport
<1>8. CASE UNCHANGED vars
  <2>1. (stage = "walk" \/ counter >= Size) /\ read \in Nat /\ in_meta \in BOOLEAN
        /\ stage \in {"walk", "import", "done"}
    BY DEF IInv, Types, Counted
  <2> QED BY <1>8, <2>1, WalkUnchanged DEF vars
<1> QED BY <1>1, <1>2, <1>3, <1>4, <1>5, <1>6, <1>7, <1>8 DEF Next

\* The invariant holds from the start on.
LEMMA IInvHolds == Spec => []IInv
BY InitOK, Step, PTL DEF Spec
-----------------------------------------------------------------------------
\* In every walk over any headers the counter runs past the last header by at
\* most the number of calls, and the calls are at most seven: the levels are
\* compared as numbers, and a call is made for a deeper header only.
THEOREM TypeCorrect == Spec => []TypeOK
<1>1. IInv => TypeOK
  <2> SUFFICES ASSUME IInv PROVE TypeOK
    OBVIOUS
  <2>1. Types /\ Size \in Nat
    BY HeaderFacts DEF IInv
  <2>2. Len(calls) \in Nat /\ DOMAIN calls = 1..Len(calls)
        /\ \A k \in 1..Len(calls) : calls[k] \in CallType
    BY <2>1, LenProperties, ElementOfSeq DEF Types
  <2>3. counter \in 0..(Size + 7)
    BY <2>1, <2>2 DEF IInv, Counted, Types
  <2>4. Len(calls) <= 7
    <3>1. ASSUME Len(calls) > 7 PROVE FALSE
      <4>1. Len(calls) \in 1..Len(calls)
        BY <2>2, <3>1
      <4>2. calls[Len(calls)].level >= Len(calls) - 1 /\ calls[Len(calls)].level \in 0..6
        BY <2>2, <4>1 DEF IInv, Nested, CallType
      <4> QED BY <2>2, <3>1, <4>2
    <3> QED BY <2>2, <3>1
  <2>5. ASSUME NEW k \in DOMAIN calls
        PROVE  /\ calls[k].level \in 0..7 /\ calls[k].parent \in -1..(Size - 1)
               /\ k > 1 => calls[k].level > calls[k - 1].level
    <3>1. calls[k].level \in 0..6 /\ calls[k].parent \in -1..(Size - 1)
      BY <2>2 DEF CallType
    <3>2. ASSUME k > 1 PROVE calls[k].level > calls[k - 1].level
      <4>1. k - 1 \in DOMAIN calls /\ k - 1 < k
        BY <2>2, <3>2
      <4>2. calls[k - 1].level < calls[k].level
        BY <4>1 DEF IInv, Nested
      <4>3. calls[k - 1].level \in Int
        BY <2>2, <4>1 DEF CallType
      <4> QED BY <3>1, <4>2, <4>3
    <3> QED BY <3>1, <3>2
  <2>6. ASSUME NEW k \in DOMAIN entries
        PROVE  entries[k].header \in 0..(Size - 1) /\ entries[k].depth \in 1..7
    <3>1. entries[k] \in EntryType
      BY <2>1, LenProperties, ElementOfSeq DEF Types
    <3> QED BY <3>1 DEF EntryType
  <2> QED BY <2>1, <2>3, <2>4, <2>5, <2>6 DEF TypeOK, Types
<1> QED BY <1>1, IInvHolds, PTL

\* In every document the walks list each header that they do not ignore once
\* and in order, as a child of the nearest header before it with a lower level.
THEOREM HeadersListedOnce == Spec => []ContentsMirrorHeaders
<1>1. IInv => ContentsMirrorHeaders
  <2> SUFFICES ASSUME IInv, stage # "walk"
               PROVE  /\ {entries[k].header : k \in DOMAIN entries} = Listed
                      /\ \A j, k \in DOMAIN entries : j < k => entries[j].header < entries[k].header
                      /\ \A k \in DOMAIN entries : ParentOf(entries[k])
    BY DEF ContentsMirrorHeaders, ParentOf, Skewed
  <2>1. \A j \in Listed : j < counter
    BY HeaderFacts DEF IInv, Types, Counted
  <2> QED BY <2>1 DEF IInv, InOrder, EntriesRight
<1> QED BY <1>1, IInvHolds, PTL
\* Once the walk has ended every header is listed, and behind an entry is the
\* one for the header up to which its text goes.
LEMMA EntryFollows ==
    ASSUME IInv, stage # "walk", walk # "html", NEW k \in DOMAIN entries
    PROVE  LET h == entries[k].header
               f == Following(h)
           IN  /\ h \in Listed /\ h \in 0..(Size - 1) /\ f \in (h + 1)..Size
               /\ f < Size => k < Len(entries) /\ entries[k + 1].header = f
               /\ f = Size => k = Len(entries)
<1> DEFINE h == entries[k].header
           f == Following(h)
<1>1. Types /\ Size \in Nat /\ Listed \subseteq 0..(Size - 1)
  BY HeaderFacts DEF IInv
<1>2. DOMAIN entries = 1..Len(entries) /\ Len(entries) \in Nat
  BY <1>1, LenProperties DEF Types
<1>3. {entries[m].header : m \in DOMAIN entries} = Listed
  <2>1. \A j \in Listed : j < counter
    BY <1>1 DEF IInv, Types, Counted
  <2> QED BY <2>1 DEF IInv, InOrder
<1>4. h \in Listed /\ h \in 0..(Size - 1)
  BY <1>1, <1>3
<1>5. f \in (h + 1)..Size /\ (\A j \in Listed : j > h => j >= f) /\ (f < Size => f \in Listed)
  BY <1>1, <1>4, NextIs
<1>6. \A i, j \in DOMAIN entries : i < j => entries[i].header < entries[j].header
  BY DEF IInv, InOrder
<1> HIDE DEF h, f
<1>7. ASSUME f < Size
      PROVE  k < Len(entries) /\ entries[k + 1].header = f
  <2>1. PICK m \in DOMAIN entries : entries[m].header = f
    BY <1>3, <1>5, <1>7
  <2>2. m > k
    <3>1. ASSUME m < k PROVE FALSE
      <4>1. f < h
        BY <1>6, <2>1, <3>1 DEF h
      <4> QED BY <1>4, <1>5, <4>1
    <3>2. m # k
      BY <1>4, <1>5, <2>1 DEF h
    <3> QED BY <1>2, <3>1, <3>2
  <2>3. k + 1 \in DOMAIN entries /\ k < Len(entries)
    BY <1>2, <2>2
  <2>4. entries[k + 1].header \in Listed /\ h < entries[k + 1].header
    BY <1>2, <1>3, <1>6, <2>3 DEF h
  <2>5. entries[k + 1].header \in Int /\ f \in Int
    <3>1. entries[k + 1].header \in 0..(Size - 1)
      BY <1>1, <2>4, Zenon
    <3>2. f \in Int
      BY <1>4, <1>5
    <3> QED BY <3>1, <3>2
  <2>6. entries[k + 1].header >= f
    BY <1>1, <1>4, <1>5, <2>4
  <2>7. entries[k + 1].header <= f
    <3>1. CASE m = k + 1
      BY <2>1, <2>5, <3>1
    <3>2. CASE k + 1 < m
      <4>1. entries[k + 1].header < f
        BY <1>6, <2>1, <2>3, <3>2
      <4> QED BY <2>5, <4>1
    <3> QED BY <1>2, <2>2, <3>1, <3>2
  <2>8. entries[k + 1].header = f
    BY <2>6, <2>7, <2>5
  <2> QED BY <2>3, <2>8
<1>8. ASSUME f = Size PROVE k = Len(entries)
  <2>1. ASSUME k < Len(entries) PROVE FALSE
    <3>1. k + 1 \in DOMAIN entries
      BY <1>2, <2>1
    <3>2. entries[k + 1].header \in Listed /\ h < entries[k + 1].header
      BY <1>2, <1>3, <1>6, <3>1 DEF h
    <3>3. entries[k + 1].header \in 0..(Size - 1) /\ entries[k + 1].header >= Size
      BY <1>1, <1>5, <1>8, <3>2
    <3> QED BY <1>1, <3>3
  <2> QED BY <1>2, <2>1
<1> QED BY <1>4, <1>5, <1>7, <1>8 DEF h, f

\* In every document the ranges of the table of contents cover the text from
\* the first valid header to the end, each up to the next one.
THEOREM RangesAreCovered == Spec => []RangesCoverText
<1>1. IInv => RangesCoverText
  <2> SUFFICES ASSUME IInv, walk = "toc", Done, NEW k \in DOMAIN entries
               PROVE  LET e == entries[k]
                          stop == IF k < Len(entries) THEN Line(entries[k + 1].header) ELSE Line(Size)
                          moved == IF headers[e.header + 1].in = "list" THEN Line(e.header) ELSE 0
                      IN  /\ e.start = Line(e.header) - moved
                          /\ e.end = IF stop = Line(Size) THEN stop ELSE stop - moved
    BY DEF RangesCoverText
  <2> DEFINE h == entries[k].header
             f == Following(h)
  <2>1. Size \in Nat
    BY HeaderFacts DEF IInv
  <2>2. /\ h \in Listed /\ h \in 0..(Size - 1) /\ f \in (h + 1)..Size
        /\ f < Size => k < Len(entries) /\ entries[k + 1].header = f
        /\ f = Size => k = Len(entries)
    BY EntryFollows DEF Done
  <2>3. RangeOf(entries[k])
    BY DEF IInv, EntriesRight
  <2>4. entries[k].start = Start(h) /\ entries[k].end =
            IF f = Size THEN Line(Size) ELSE Start(h) + Line(f) - Line(h)
    BY <2>3 DEF RangeOf
  <2> HIDE DEF h, f
  <2>5. Start(h) = Line(h) - (IF headers[h + 1].in = "list" THEN Line(h) ELSE 0)
    BY <2>2 DEF Start, Line
  <2>6. CASE f = Size
    <3>1. Len(entries) \in Nat
      BY LenProperties DEF IInv, Types
    <3>2. ~(k < Len(entries))
      BY <2>2, <2>6, <3>1
    <3> QED BY <2>4, <2>5, <2>6, <3>2 DEF h
  <2>7. CASE f < Size
    <3>1. Line(f) # Line(Size) /\ Line(f) \in Int /\ Line(h) \in Int
      BY <2>1, <2>2, <2>7 DEF Line
    <3>2. Start(h) + Line(f) - Line(h) = Line(f) - (IF headers[h + 1].in = "list" THEN Line(h) ELSE 0)
      BY <2>5, <3>1
    <3> HIDE DEF Line
    <3> QED BY <2>1, <2>2, <2>4, <2>5, <2>7, <3>1, <3>2 DEF h
  <2> QED BY <2>1, <2>2, <2>6, <2>7
<1> QED BY <1>1, IInvHolds, PTL
-----------------------------------------------------------------------------
\* The import: what is read of the outline are the first pieces of the text
\* behind the metadata, in order.
Lead == IF has_preamble THEN 1 ELSE 0
FirstTopics == IF Preamble = <<>> THEN 0 ELSE 1
HeaderTopics == FirstTopics + Len(entries)
Reached == [k \in 0..Len(entries) |->
               IF k = 0 THEN Line(PreambleEnd) ELSE Line(Following(entries[k].header))]

PieceType == [piece : Nat, level : Nat]

Unread == stage = "walk" => read = 0 /\ ~in_meta /\ metadata = <<>> /\ output = <<>>
Importing ==
    /\ has_meta \in BOOLEAN /\ has_preamble \in BOOLEAN
    /\ output \in Seq(PieceType)
    /\ walk = "outline" /\ stage # "walk" /\ FirstValid \in {0, Size} =>
           /\ read <= HeaderTopics + (IF has_meta THEN 2 ELSE 0)
           /\ in_meta <=> read > HeaderTopics
           /\ \A k \in DOMAIN output : output[k].piece = k + 1 - Lead
           /\ Len(output) = IF read < FirstTopics THEN 0
                            ELSE Lead + Reached[IF in_meta THEN Len(entries) ELSE read - FirstTopics] - 2
           /\ metadata = IF read = HeaderTopics + 2 THEN <<[piece |-> 0, level |-> 0]>> ELSE <<>>
           /\ stage = "done" => read = HeaderTopics + (IF has_meta THEN 2 ELSE 0)
XInv == IInv /\ Unread /\ Importing
-----------------------------------------------------------------------------
\* The pieces from one to another, one by one.
LEMMA PiecesIs ==
    ASSUME NEW first \in Nat, NEW last \in Int, first <= last + 1
    PROVE  /\ Pieces(first, last) \in Seq(Nat) /\ Len(Pieces(first, last)) = last - first + 1
           /\ \A p \in 1..(last - first + 1) : Pieces(first, last)[p] = first + p - 1
<1> DEFINE n == last - first + 1
<1>1. n \in Nat
  OBVIOUS
<1>2. \A p \in 1..n : first + p - 1 \in Nat
  OBVIOUS
<1>3. Pieces(first, last) = [p \in 1..n |-> first + p - 1]
  BY DEF Pieces
<1> HIDE DEF n
<1>4. [p \in 1..n |-> first + p - 1] \in Seq(Nat)
  BY <1>1, <1>2, IsASeq
<1>5. Len([p \in 1..n |-> first + p - 1]) = n
  BY <1>1
<1>6. \A p \in 1..n : [q \in 1..n |-> first + q - 1][p] = first + p - 1
  OBVIOUS
<1> QED BY <1>3, <1>4, <1>5, <1>6 DEF n

\* Text has a piece for each piece it is given.
LEMMA TextIs ==
    ASSUME NEW pieces \in Seq(Nat)
    PROVE  /\ Text(pieces) \in Seq(PieceType) /\ Len(Text(pieces)) = Len(pieces)
           /\ \A k \in 1..Len(pieces) : Text(pieces)[k].piece = pieces[k]
<1>1. DOMAIN pieces = 1..Len(pieces) /\ Len(pieces) \in Nat /\ \A k \in 1..Len(pieces) : pieces[k] \in Nat
  BY LenProperties, ElementOfSeq
<1>2. Text(pieces) = [k \in 1..Len(pieces) |-> [piece |-> pieces[k], level |-> 0]]
  BY <1>1 DEF Text
<1>3. \A k \in 1..Len(pieces) : [piece |-> pieces[k], level |-> 0] \in PieceType
  BY <1>1 DEF PieceType
<1>4. [k \in 1..Len(pieces) |-> [piece |-> pieces[k], level |-> 0]] \in Seq(PieceType)
  BY <1>1, <1>3, IsASeq
<1>5. Len([k \in 1..Len(pieces) |-> [piece |-> pieces[k], level |-> 0]]) = Len(pieces)
  BY <1>1
<1> QED BY <1>2, <1>4, <1>5

\* The preamble is the text up to the header where it ends.
LEMMA PreambleIs ==
    ASSUME Types, has_preamble \in BOOLEAN
    PROVE  /\ PreambleEnd \in 0..Size /\ Preamble \in Seq(Nat)
           /\ Len(Preamble) = Lead + Line(PreambleEnd) - 2
           /\ \A k \in 1..Len(Preamble) : Preamble[k] = k + 1 - Lead
<1> DEFINE head == IF has_preamble THEN <<1>> ELSE <<>>
           rest == Pieces(2, Line(PreambleEnd) - 1)
<1>1. PreambleEnd \in 0..Size /\ Size \in Nat
  BY HeaderFacts DEF PreambleEnd
<1>2. Line(PreambleEnd) \in Nat /\ Line(PreambleEnd) >= 2
  <2> HIDE DEF PreambleEnd
  <2> QED BY <1>1 DEF Line
<1> DEFINE n == Line(PreambleEnd)
<1>3. /\ rest \in Seq(Nat) /\ Len(rest) = n - 2 /\ \A p \in 1..(n - 2) : rest[p] = p + 1
  <2> HIDE DEF n
  <2>1. n \in Nat /\ n >= 2
    BY <1>2 DEF n
  <2>2. /\ Pieces(2, n - 1) \in Seq(Nat) /\ Len(Pieces(2, n - 1)) = (n - 1) - 2 + 1
        /\ \A p \in 1..((n - 1) - 2 + 1) : Pieces(2, n - 1)[p] = 2 + p - 1
    BY <2>1, PiecesIs
  <2>3. (n - 1) - 2 + 1 = n - 2 /\ \A p \in 1..(n - 2) : 2 + p - 1 = p + 1
    BY <2>1
  <2> QED BY <2>2, <2>3 DEF n
<1>4. head \in Seq(Nat) /\ Len(head) = Lead /\ \A k \in 1..Lead : head[k] = 1
  BY DEF Lead
<1>5. Preamble = head \o rest
  BY DEF Preamble
<1> HIDE DEF head, rest, n
<1>6. /\ head \o rest \in Seq(Nat) /\ Len(head \o rest) = Lead + (n - 2)
      /\ \A k \in 1..(Lead + (n - 2)) : (head \o rest)[k] = IF k <= Lead THEN head[k] ELSE rest[k - Lead]
  <2>1. /\ head \o rest \in Seq(Nat) /\ Len(head \o rest) = Len(head) + Len(rest)
        /\ \A k \in 1..(Len(head) + Len(rest)) :
               (head \o rest)[k] = IF k <= Len(head) THEN head[k] ELSE rest[k - Len(head)]
    BY <1>3, <1>4, ConcatProperties
  <2> QED BY <1>3, <1>4, <2>1, Zenon
<1>7. Lead \in 0..1 /\ n \in Nat /\ n >= 2
  BY <1>2 DEF Lead, n
<1>8. ASSUME NEW k \in 1..(Lead + (n - 2)) PROVE (head \o rest)[k] = k + 1 - Lead
  <2>1. CASE k <= Lead
    <3>1. k = 1 /\ Lead = 1
      BY <1>7, <1>8, <2>1
    <3> QED BY <1>4, <1>6, <3>1, <2>1
  <2>2. CASE ~(k <= Lead)
    <3>1. k - Lead \in 1..(n - 2) /\ k - Lead + 1 = k + 1 - Lead
      BY <1>7, <1>8, <2>2
    <3> QED BY <1>3, <1>6, <3>1, <2>2
  <2> QED BY <2>1, <2>2
<1>9. Lead + (n - 2) = Lead + n - 2
  BY <1>7
<1> QED BY <1>1, <1>5, <1>6, <1>8, <1>9 DEF n

\* The note of a header is the text up to the next valid header.
LEMMA NoteIs ==
    ASSUME Types, NEW h \in 0..(Size - 1)
    PROVE  /\ Line(h) \in Nat /\ Line(Following(h)) \in Nat /\ Line(h) >= 2
           /\ Line(Following(h)) >= Line(h) + 2
           /\ Note(h) \in Seq(Nat) /\ Len(Note(h)) = Line(Following(h)) - Line(h) - 1
           /\ \A k \in 1..Len(Note(h)) : Note(h)[k] = Line(h) + k
<1>1. Following(h) \in (h + 1)..Size /\ Size \in Nat
  BY NextIs, HeaderFacts
<1> DEFINE f == Following(h)
           n == Line(f)
<1>2. Line(h) \in Nat /\ n \in Nat /\ Behind(h) = Line(h) + 1 /\ n >= Line(h) + 2 /\ Line(h) >= 2
  <2> HIDE DEF f
  <2>1. f \in (h + 1)..Size
    BY <1>1 DEF f
  <2> QED BY <1>1, <2>1 DEF Line, Behind
<1>3. Note(h) = Pieces(Line(h) + 1, n - 1)
  BY <1>2 DEF Note
<1> DEFINE b == Line(h)
<1> HIDE DEF n, f, b
<1>4. /\ Pieces(b + 1, n - 1) \in Seq(Nat)
      /\ Len(Pieces(b + 1, n - 1)) = (n - 1) - (b + 1) + 1
      /\ \A p \in 1..((n - 1) - (b + 1) + 1) : Pieces(b + 1, n - 1)[p] = (b + 1) + p - 1
  <2>1. b + 1 \in Nat /\ n - 1 \in Int /\ b + 1 <= (n - 1) + 1
    BY <1>2 DEF b
  <2> QED BY <2>1, PiecesIs
<1>5. (n - 1) - (b + 1) + 1 = n - b - 1 /\ \A p \in 1..(n - b - 1) : (b + 1) + p - 1 = b + p
  BY <1>2 DEF b
<1> QED BY <1>2, <1>3, <1>4, <1>5 DEF n, f, b
-----------------------------------------------------------------------------
\* The topics of the outline: the preamble, the headers, the metadata.
LEMMA OutlineIs ==
    ASSUME IInv, has_preamble \in BOOLEAN, has_meta \in BOOLEAN
    PROVE  /\ FirstTopics \in 0..1 /\ Len(entries) \in Nat
           /\ DOMAIN entries = 1..Len(entries)
           /\ Len(Outline) = HeaderTopics + (IF has_meta THEN 2 ELSE 0)
           /\ FirstTopics = 1 => Outline[1] = Topic("preamble", 0, Preamble, 1)
           /\ \A k \in 1..Len(entries) :
                  Outline[FirstTopics + k] = Topic("header", Line(entries[k].header),
                                                   Note(entries[k].header), entries[k].depth)
           /\ has_meta => /\ Outline[HeaderTopics + 1] = Topic("metadata", 0, <<>>, 1)
                          /\ Outline[HeaderTopics + 2] = Topic("key", 0, <<0>>, 2)
<1> DEFINE T(k) == Topic("header", Line(entries[k].header), Note(entries[k].header), entries[k].depth)
           P == IF Preamble = <<>> THEN <<>> ELSE <<Topic("preamble", 0, Preamble, 1)>>
           H == [k \in DOMAIN entries |-> T(k)]
           M == IF has_meta THEN <<Topic("metadata", 0, <<>>, 1), Topic("key", 0, <<0>>, 2)>> ELSE <<>>
           m == Len(entries)
           S == {Topic("preamble", 0, Preamble, 1), Topic("metadata", 0, <<>>, 1), Topic("key", 0, <<0>>, 2)}
                \cup {T(k) : k \in 1..m}
<1>1. m \in Nat /\ DOMAIN entries = 1..m
  BY LenProperties DEF IInv, Types
<1>2. Outline = P \o H \o M
  BY DEF Outline
<1> HIDE DEF T
<1>3. P \in Seq(S) /\ Len(P) = FirstTopics /\ (FirstTopics = 1 => P[1] = Topic("preamble", 0, Preamble, 1))
      /\ FirstTopics \in 0..1
  <2>1. CASE Preamble = <<>>
    <3>1. P = <<>> /\ FirstTopics = 0
      BY <2>1 DEF FirstTopics
    <3> HIDE DEF P, S
    <3> QED BY <3>1, EmptySeq
  <2>2. CASE Preamble # <<>>
    <3>1. P = <<Topic("preamble", 0, Preamble, 1)>> /\ FirstTopics = 1
      BY <2>2 DEF FirstTopics
    <3>2. Topic("preamble", 0, Preamble, 1) \in S
      OBVIOUS
    <3> HIDE DEF P, S
    <3> QED BY <3>1, <3>2
  <2> QED BY <2>1, <2>2
<1>4. M \in Seq(S) /\ Len(M) = IF has_meta THEN 2 ELSE 0
  <2> DEFINE x == Topic("metadata", 0, <<>>, 1)
             y == Topic("key", 0, <<0>>, 2)
  <2>1. x \in S /\ y \in S
    OBVIOUS
  <2>2. M = IF has_meta THEN <<x, y>> ELSE <<>>
    OBVIOUS
  <2> HIDE DEF x, y, S, M
  <2> QED BY <2>1, <2>2
<1>5. has_meta => M[1] = Topic("metadata", 0, <<>>, 1) /\ M[2] = Topic("key", 0, <<0>>, 2)
  OBVIOUS
<1>6. H \in Seq(S) /\ Len(H) = m /\ \A k \in 1..m : H[k] = T(k)
  <2>1. H = [k \in 1..m |-> T(k)]
    BY <1>1
  <2>2. \A k \in 1..m : T(k) \in S
    OBVIOUS
  <2> HIDE DEF m, S
  <2>3. [k \in 1..m |-> T(k)] \in Seq(S)
    BY <1>1, <2>2, IsASeq
  <2>4. Len([k \in 1..m |-> T(k)]) = m
    BY <1>1
  <2> QED BY <2>1, <2>3, <2>4
<1> HIDE DEF P, H, M, S, m
<1>7. /\ P \o H \in Seq(S) /\ Len(P \o H) = FirstTopics + m
      /\ \A k \in 1..(FirstTopics + m) : (P \o H)[k] = IF k <= FirstTopics THEN P[k] ELSE H[k - FirstTopics]
  <2>1. /\ P \o H \in Seq(S) /\ Len(P \o H) = Len(P) + Len(H)
        /\ \A k \in 1..(Len(P) + Len(H)) : (P \o H)[k] = IF k <= Len(P) THEN P[k] ELSE H[k - Len(P)]
    BY <1>3, <1>6, ConcatProperties
  <2> QED BY <1>3, <1>6, <2>1, Zenon
<1> DEFINE q == FirstTopics + m
           z == IF has_meta THEN 2 ELSE 0
<1>8. /\ Len((P \o H) \o M) = q + z
      /\ \A k \in 1..(q + z) : ((P \o H) \o M)[k] = IF k <= q THEN (P \o H)[k] ELSE M[k - q]
  <2>1. /\ Len((P \o H) \o M) = Len(P \o H) + Len(M)
        /\ \A k \in 1..(Len(P \o H) + Len(M)) :
               ((P \o H) \o M)[k] = IF k <= Len(P \o H) THEN (P \o H)[k] ELSE M[k - Len(P \o H)]
    BY <1>4, <1>7, ConcatProperties
  <2>2. Len(P \o H) = q /\ Len(M) = z
    BY <1>4, <1>7
  <2> HIDE DEF q, z
  <2> QED BY <2>1, <2>2, Zenon
<1>9. q = HeaderTopics
  BY DEF HeaderTopics, m
<1>10. q \in Nat /\ z \in 0..2 /\ (has_meta => z = 2)
  BY <1>1, <1>3
<1>11. FirstTopics = 1 => Outline[1] = Topic("preamble", 0, Preamble, 1)
  <2> SUFFICES ASSUME FirstTopics = 1 PROVE Outline[1] = Topic("preamble", 0, Preamble, 1)
    OBVIOUS
  <2>1. 1 \in 1..(q + z) /\ 1 <= q /\ 1 \in 1..(FirstTopics + m) /\ 1 <= FirstTopics
    BY <1>1, <1>10
  <2> QED BY <1>2, <1>3, <1>7, <1>8, <2>1
<1>12. ASSUME NEW k \in 1..m PROVE Outline[FirstTopics + k] = T(k)
  <2>1. /\ FirstTopics + k \in 1..(q + z) /\ FirstTopics + k <= q /\ FirstTopics + k \in 1..(FirstTopics + m)
        /\ ~(FirstTopics + k <= FirstTopics) /\ (FirstTopics + k) - FirstTopics = k
    BY <1>1, <1>3, <1>10, <1>12
  <2> HIDE DEF q, z
  <2>2. Outline[FirstTopics + k] = (P \o H)[FirstTopics + k]
    BY <1>2, <1>8, <2>1
  <2>3. (P \o H)[FirstTopics + k] = H[k]
    BY <1>7, <2>1
  <2> QED BY <1>6, <2>2, <2>3
<1>13. ASSUME has_meta
       PROVE  /\ Outline[q + 1] = Topic("metadata", 0, <<>>, 1)
              /\ Outline[q + 2] = Topic("key", 0, <<0>>, 2)
  <2>1. /\ q + 1 \in 1..(q + z) /\ q + 2 \in 1..(q + z) /\ ~(q + 1 <= q) /\ ~(q + 2 <= q)
        /\ (q + 1) - q = 1 /\ (q + 2) - q = 2
    BY <1>10, <1>13
  <2> HIDE DEF q, z
  <2>2. Outline[q + 1] = M[1] /\ Outline[q + 2] = M[2]
    BY <1>2, <1>8, <2>1
  <2> QED BY <1>5, <1>13, <2>2
<1>14. Len(Outline) = q + z
  BY <1>2, <1>8
<1> QED BY <1>1, <1>3, <1>9, <1>11, <1>12, <1>13, <1>14 DEF m, T
-----------------------------------------------------------------------------
\* What was read ends where the next entry begins, and the last one ends the
\* text, if the first header is a valid one or none is.
LEMMA ReachedIs ==
    ASSUME IInv, stage # "walk", walk = "outline", FirstValid \in {0, Size}
    PROVE  /\ Len(entries) \in Nat
           /\ \A k \in 0..(Len(entries) - 1) : Reached[k] = Line(entries[k + 1].header)
           /\ Reached[Len(entries)] = Line(Size)
<1> DEFINE m == Len(entries)
           S == {Size} \cup {k \in 0..(Size - 1) : Valid(k)}
<1>1. Types /\ Size \in Nat /\ Listed \subseteq 0..(Size - 1)
  BY HeaderFacts DEF IInv
<1>2. DOMAIN entries = 1..m /\ m \in Nat
  BY <1>1, LenProperties DEF Types
<1>3. {entries[j].header : j \in DOMAIN entries} = Listed
  <2>1. \A j \in Listed : j < counter
    BY <1>1 DEF IInv, Types, Counted
  <2> QED BY <2>1 DEF IInv, InOrder
<1>4. Listed = {k \in 0..(Size - 1) : Valid(k)}
  BY DEF Listed, Ignored
<1>5. FirstValid \in S /\ \A y \in S : FirstValid <= y
  <2>1. S \subseteq Nat /\ S # {}
    BY <1>1
  <2>2. Min(S) \in S /\ \A y \in S : Min(S) <= y
    BY <2>1, LeastExists, Zenon
  <2> QED BY <2>2 DEF FirstValid
<1> HIDE DEF m
<1>6. ASSUME m = 0 PROVE PreambleEnd = Size
  <2>1. Listed = {}
    BY <1>2, <1>3, <1>6
  <2> QED BY <1>1, <1>4, <2>1 DEF PreambleEnd
<1>7. ASSUME m # 0 PROVE PreambleEnd = 0 /\ entries[1].header = 0
  <2>1. 1 \in DOMAIN entries
    BY <1>2, <1>7
  <2>2. entries[1].header \in Listed
    BY <1>3, <2>1
  <2>3. FirstValid = 0 /\ Size > 0
    BY <1>1, <1>4, <1>5, <2>2
  <2>4. 0 \in Listed
    BY <1>1, <1>4, <1>5, <2>3
  <2>5. PreambleEnd = 0
    BY <1>4, <2>3, <2>4 DEF PreambleEnd
  <2>6. PICK j \in DOMAIN entries : entries[j].header = 0
    BY <1>3, <2>4
  <2>7. j = 1
    <3>1. ASSUME j # 1 PROVE FALSE
      <4>1. 1 < j
        BY <1>2, <3>1
      <4>2. entries[1].header < 0
        BY <2>1, <2>6, <4>1 DEF IInv, InOrder
      <4>3. entries[1].header \in 0..(Size - 1)
        BY <1>1, <2>2
      <4> QED BY <4>2, <4>3
    <3> QED BY <3>1
  <2> QED BY <2>5, <2>6, <2>7
<1>8. ASSUME NEW k \in 0..(m - 1) PROVE Reached[k] = Line(entries[k + 1].header)
  <2>1. CASE k = 0
    BY <1>2, <1>7, <1>8, <2>1 DEF Reached
  <2>2. CASE k # 0
    <3>1. k \in DOMAIN entries /\ k # m
      BY <1>2, <1>8, <2>2
    <3> DEFINE f == Following(entries[k].header)
    <3>2. /\ f \in (entries[k].header + 1)..Size /\ entries[k].header \in 0..(Size - 1)
          /\ f < Size => entries[k + 1].header = f
          /\ f = Size => k = Len(entries)
      BY <3>1, EntryFollows
    <3> HIDE DEF f
    <3>3. f < Size
      BY <1>1, <3>1, <3>2 DEF m
    <3>4. k \in 0..Len(entries)
      BY <1>2, <1>8 DEF m
    <3>5. Reached[k] = Line(f)
      BY <2>2, <3>4 DEF Reached, f
    <3> QED BY <3>2, <3>3, <3>5
  <2> QED BY <2>1, <2>2
<1>9. Reached[m] = Line(Size)
  <2>1. CASE m = 0
    BY <1>6, <2>1 DEF Reached
  <2>2. CASE m # 0
    <3>1. m \in DOMAIN entries /\ ~(m < m)
      BY <1>2, <2>2
    <3> DEFINE f == Following(entries[m].header)
    <3>2. /\ f \in (entries[m].header + 1)..Size /\ entries[m].header \in 0..(Size - 1)
          /\ f < Size => m < Len(entries)
      BY <3>1, EntryFollows
    <3> HIDE DEF f
    <3>3. f = Size
      BY <1>1, <3>1, <3>2 DEF m
    <3>4. m \in 0..Len(entries)
      BY <1>2 DEF m
    <3>5. Reached[m] = Line(f)
      BY <2>2, <3>4 DEF Reached, f
    <3> QED BY <3>3, <3>5
  <2> QED BY <2>1, <2>2
<1> QED BY <1>2, <1>8, <1>9 DEF m
-----------------------------------------------------------------------------
\* What a step leaves alone that leaves the document and the entries alone.
LEMMA SameOutline ==
    ASSUME headers' = headers, has_meta' = has_meta, has_preamble' = has_preamble,
           walk' = walk, entries' = entries
    PROVE  /\ Lead' = Lead /\ FirstTopics' = FirstTopics /\ HeaderTopics' = HeaderTopics
           /\ FirstValid' = FirstValid /\ Reached' = Reached
<1>1. Lead' = Lead
  BY DEF Lead
<1>2. PreambleEnd' = PreambleEnd
  BY DEF PreambleEnd, Size, Valid, header_is_valid
<1>3. Preamble' = Preamble
  BY <1>2 DEF Preamble, Pieces, Line
<1>4. FirstTopics' = FirstTopics
  BY <1>3 DEF FirstTopics
<1>5. FirstValid' = FirstValid
  BY DEF FirstValid, Size, Valid, header_is_valid
<1>6. \A k : Following(k)' = Following(k)
  BY DEF Following, NextValid, Size, Valid, header_is_valid
<1>7. Reached' = Reached
  BY <1>2, <1>6 DEF Reached, Line
<1>8. HeaderTopics' = HeaderTopics
  BY <1>4 DEF HeaderTopics
<1> QED BY <1>1, <1>4, <1>5, <1>7, <1>8

\* A walk that goes on leaves the import alone.
LEMMA StillUnread ==
    ASSUME XInv, stage = "walk", stage' = "walk",
           UNCHANGED <<has_meta, has_preamble, read, in_meta, metadata, output>>
    PROVE  Unread' /\ Importing'
BY DEF XInv, Unread, Importing

\* The import begins with nothing read.
LEMMA ImportBegins ==
    ASSUME XInv, EndWalk
    PROVE  Unread' /\ Importing'
<1>1. /\ stage = "walk" /\ stage' \in {"import", "done"} /\ (walk = "outline" => stage' = "import")
      /\ UNCHANGED <<headers, has_meta, has_preamble, walk, entries, read, in_meta, metadata, output>>
  BY DEF EndWalk
<1>2. read = 0 /\ ~in_meta /\ metadata = <<>> /\ output = <<>> /\ Types
      /\ has_meta \in BOOLEAN /\ has_preamble \in BOOLEAN
  BY <1>1 DEF XInv, Unread, Importing, IInv
<1>3. Len(entries) \in Nat /\ FirstTopics \in 0..1
  BY <1>2, LenProperties DEF Types, FirstTopics
<1>4. FirstTopics = 0 => Lead + Reached[0] - 2 = 0
  <2> SUFFICES ASSUME FirstTopics = 0 PROVE Lead + Reached[0] - 2 = 0
    OBVIOUS
  <2>1. Preamble = <<>>
    BY DEF FirstTopics
  <2>2. Len(Preamble) = 0
    BY <2>1
  <2>3. Len(Preamble) = Lead + Line(PreambleEnd) - 2
    BY <1>2, PreambleIs
  <2> QED BY <2>2, <2>3 DEF Reached
<1>5. Importing'
  <2>1. output' \in Seq(PieceType) /\ DOMAIN output' = {} /\ Len(output') = 0
    BY <1>1, <1>2
  <2> DEFINE z == IF has_meta THEN 2 ELSE 0
  <2>2. HeaderTopics \in Nat /\ 0 <= HeaderTopics + z /\ ~(0 > HeaderTopics) /\ 0 # HeaderTopics + 2
    BY <1>3 DEF HeaderTopics
  <2>3. 0 < FirstTopics \/ (FirstTopics = 0 /\ 0 - FirstTopics = 0)
    BY <1>3
  <2>4. /\ Lead' = Lead /\ FirstTopics' = FirstTopics /\ HeaderTopics' = HeaderTopics
        /\ FirstValid' = FirstValid /\ Reached' = Reached
    BY <1>1, SameOutline
  <2>5. 0 = IF 0 < FirstTopics THEN 0 ELSE Lead + Reached[IF FALSE THEN Len(entries) ELSE 0 - FirstTopics] - 2
    BY <1>4, <2>3
  <2>6. SUFFICES ASSUME (walk = "outline" /\ stage # "walk" /\ FirstValid \in {0, Size})'
                 PROVE  /\ (read <= HeaderTopics + (IF has_meta THEN 2 ELSE 0))'
                        /\ (in_meta <=> read > HeaderTopics)'
                        /\ (\A k \in DOMAIN output : output[k].piece = k + 1 - Lead)'
                        /\ (Len(output) = IF read < FirstTopics THEN 0
                            ELSE Lead + Reached[IF in_meta THEN Len(entries) ELSE read - FirstTopics] - 2)'
                        /\ (metadata = IF read = HeaderTopics + 2
                                       THEN <<[piece |-> 0, level |-> 0]>> ELSE <<>>)'
                        /\ (stage = "done" => read = HeaderTopics + (IF has_meta THEN 2 ELSE 0))'
    BY <1>1, <1>2, <2>1 DEF Importing
  <2>7. stage' # "done"
    BY <1>1, <2>6
  <2>8. Len(output') = IF read' < FirstTopics' THEN 0
                       ELSE Lead' + Reached'[IF in_meta' THEN Len(entries') ELSE read' - FirstTopics'] - 2
    <3>1. read' = 0 /\ in_meta' = FALSE /\ entries' = entries
      BY <1>1, <1>2
    <3> QED BY <2>1, <2>4, <2>5, <3>1
  <2> QED BY <1>1, <1>2, <2>1, <2>2, <2>4, <2>7, <2>8
<1>6. Unread'
  BY <1>1 DEF Unread
<1> QED BY <1>5, <1>6
-----------------------------------------------------------------------------
\* The pieces that are read follow those that were.
LEMMA PiecesFollow ==
    ASSUME NEW a \in 0..1, NEW list \in Seq(PieceType), \A k \in DOMAIN list : list[k].piece = k + 1 - a,
           NEW more \in Seq(PieceType), \A k \in DOMAIN more : more[k].piece = Len(list) + k + 1 - a
    PROVE  /\ list \o more \in Seq(PieceType) /\ Len(list \o more) = Len(list) + Len(more)
           /\ \A k \in DOMAIN (list \o more) : (list \o more)[k].piece = k + 1 - a
<1>1. /\ list \o more \in Seq(PieceType) /\ Len(list \o more) = Len(list) + Len(more)
      /\ \A k \in 1..(Len(list) + Len(more)) :
             (list \o more)[k] = IF k <= Len(list) THEN list[k] ELSE more[k - Len(list)]
  BY ConcatProperties
<1>2. /\ Len(list) \in Nat /\ Len(more) \in Nat /\ DOMAIN list = 1..Len(list) /\ DOMAIN more = 1..Len(more)
      /\ DOMAIN (list \o more) = 1..(Len(list) + Len(more))
  BY <1>1, LenProperties
<1> SUFFICES ASSUME NEW k \in 1..(Len(list) + Len(more))
             PROVE  (list \o more)[k].piece = k + 1 - a
  BY <1>1, <1>2
<1>3. CASE k <= Len(list)
  BY <1>1, <1>2, <1>3
<1>4. CASE ~(k <= Len(list))
  <2>1. k - Len(list) \in 1..Len(more) /\ Len(list) + (k - Len(list)) + 1 - a = k + 1 - a
    BY <1>2, <1>4
  <2>2. more[k - Len(list)].piece = Len(list) + (k - Len(list)) + 1 - a
    BY <1>2, <2>1
  <2> QED BY <1>1, <1>4, <2>1, <2>2
<1> QED BY <1>3, <1>4

\* What a topic of the outline adds to the two buffers.
LEMMA TopicRead ==
    ASSUME ReadTopic, NEW what, NEW line, NEW note, NEW depth,
           Outline[read + 1] = Topic(what, line, note, depth)
    PROVE  /\ in_meta' = (in_meta \/ what = "metadata")
           /\ metadata' = metadata \o (IF in_meta' THEN Text(note) ELSE <<>>)
           /\ output' = output \o
                  (IF in_meta' THEN <<>>
                   ELSE (IF what = "header" THEN <<[piece |-> line, level |-> depth]>> ELSE <<>>) \o Text(note))
BY DEF ReadTopic, Topic

\* Each topic that is read adds the pieces that follow.
LEMMA TopicFollows ==
    ASSUME XInv, ReadTopic
    PROVE  Unread' /\ Importing'
<1> DEFINE m == Len(entries)
           p == FirstTopics
           all == HeaderTopics
           z == IF has_meta THEN 2 ELSE 0
<1>1. /\ stage = "import" /\ stage' = stage /\ read < Len(Outline) /\ read' = read + 1
      /\ UNCHANGED <<headers, has_meta, has_preamble, walk, entries>>
  BY DEF ReadTopic
<1>2. /\ IInv /\ Types /\ has_meta \in BOOLEAN /\ has_preamble \in BOOLEAN
      /\ output \in Seq(PieceType) /\ read \in Nat
  BY DEF XInv, Importing, IInv, Types
<1>3. /\ Lead' = Lead /\ FirstTopics' = FirstTopics /\ HeaderTopics' = HeaderTopics
      /\ FirstValid' = FirstValid /\ Reached' = Reached
  BY <1>1, SameOutline
<1>4. Unread'
  BY <1>1 DEF Unread
<1>5. /\ p \in 0..1 /\ m \in Nat /\ DOMAIN entries = 1..m /\ Len(Outline) = all + z /\ all = p + m /\ z \in 0..2
      /\ (p = 1 => Outline[1] = Topic("preamble", 0, Preamble, 1))
      /\ \A k \in 1..m : Outline[p + k] = Topic("header", Line(entries[k].header),
                                                Note(entries[k].header), entries[k].depth)
      /\ has_meta => /\ Outline[all + 1] = Topic("metadata", 0, <<>>, 1)
                     /\ Outline[all + 2] = Topic("key", 0, <<0>>, 2)
  BY <1>2, OutlineIs DEF HeaderTopics
<1>6. DOMAIN output = 1..Len(output) /\ Len(output) \in Nat /\ Lead \in 0..1
  BY <1>2, LenProperties DEF Lead
<1> DEFINE Good == walk = "outline" /\ FirstValid \in {0, Size}
<1>7. Good => /\ in_meta <=> read > all
              /\ \A k \in DOMAIN output : output[k].piece = k + 1 - Lead
              /\ Len(output) = IF read < p THEN 0
                               ELSE Lead + Reached[IF in_meta THEN m ELSE read - p] - 2
              /\ metadata = IF read = all + 2 THEN <<[piece |-> 0, level |-> 0]>> ELSE <<>>
  BY <1>1, Zenon DEF XInv, Importing
<1>8. Good => /\ \A k \in 0..(m - 1) : Reached[k] = Line(entries[k + 1].header)
              /\ Reached[m] = Line(Size)
  BY <1>1, <1>2, ReachedIs
<1> DEFINE Goal ==
              /\ in_meta' <=> read + 1 > all
              /\ \A k \in DOMAIN output' : output'[k].piece = k + 1 - Lead
              /\ Len(output') = IF read + 1 < p THEN 0
                                ELSE Lead + Reached[IF in_meta' THEN m ELSE read + 1 - p] - 2
              /\ metadata' = IF read + 1 = all + 2 THEN <<[piece |-> 0, level |-> 0]>> ELSE <<>>
<1> HIDE DEF m, p, all, z, Good, Goal
\* What has to be shown, in terms of the document
<1>9. ASSUME output' \in Seq(PieceType),
             Good => Goal
      PROVE  Importing'
  <2>1. read + 1 <= all + z
    BY <1>1, <1>2, <1>5
  <2>2. SUFFICES ASSUME walk' = "outline", stage' # "walk", FirstValid' \in {0, Size'}
                 PROVE  /\ read' <= HeaderTopics' + (IF has_meta' THEN 2 ELSE 0)
                        /\ in_meta' <=> read' > HeaderTopics'
                        /\ \A k \in DOMAIN output' : output'[k].piece = k + 1 - Lead'
                        /\ Len(output') = IF read' < FirstTopics' THEN 0
                            ELSE Lead' + Reached'[IF in_meta' THEN Len(entries') ELSE read' - FirstTopics'] - 2
                        /\ metadata' = IF read' = HeaderTopics' + 2
                                       THEN <<[piece |-> 0, level |-> 0]>> ELSE <<>>
                        /\ stage' = "done" => read' = HeaderTopics' + (IF has_meta' THEN 2 ELSE 0)
    BY <1>1, <1>2, <1>9 DEF Importing
  <2>3. Size' = Size
    BY <1>1 DEF Size
  <2>4. Good
    BY <1>1, <1>3, <2>2, <2>3 DEF Good
  <2>5. read' <= HeaderTopics' + (IF has_meta' THEN 2 ELSE 0)
    BY <1>1, <1>3, <2>1 DEF all, z
  <2>6. in_meta' <=> read' > HeaderTopics'
    BY <1>1, <1>3, <1>9, <2>4, Zenon DEF Goal, all
  <2>7. \A k \in DOMAIN output' : output'[k].piece = k + 1 - Lead'
    BY <1>3, <1>9, <2>4, Zenon DEF Goal
  <2>8. Len(output') = IF read' < FirstTopics' THEN 0
            ELSE Lead' + Reached'[IF in_meta' THEN Len(entries') ELSE read' - FirstTopics'] - 2
    <3> DEFINE x == IF in_meta' THEN m ELSE read + 1 - p
    <3>1. (IF in_meta' THEN Len(entries') ELSE read' - FirstTopics') = x
      <4>1. Len(entries') = m /\ read' - FirstTopics' = read + 1 - p
        <5>1. Len(entries') = m
          BY <1>1, Zenon DEF m
        <5>2. read' = read + 1 /\ FirstTopics' = p
          BY <1>1, <1>3 DEF p
        <5>3. read' - FirstTopics' = read + 1 - p
          BY <1>2, <1>5, <5>2
        <5> QED BY <5>1, <5>3
      <4> QED BY <4>1, Zenon
    <3> HIDE DEF x
    <3>2. Len(output') = IF read + 1 < p THEN 0 ELSE Lead + Reached[x] - 2
      BY <1>9, <2>4 DEF x, Goal
    <3>3. read' = read + 1 /\ FirstTopics' = p /\ Lead' = Lead /\ Reached' = Reached
      BY <1>1, <1>3 DEF p
    <3> QED BY <3>1, <3>2, <3>3
  <2>9. metadata' = IF read' = HeaderTopics' + 2 THEN <<[piece |-> 0, level |-> 0]>> ELSE <<>>
    BY <1>1, <1>3, <1>9, <2>4, Zenon DEF Goal, all
  <2>10. stage' # "done"
    BY <1>1
  <2> QED BY <2>5, <2>6, <2>7, <2>8, <2>9, <2>10
<1>10. CASE read < p
  <2>1. p = 1 /\ read = 0
    BY <1>2, <1>5, <1>10
  <2>2. /\ in_meta' = (in_meta \/ "preamble" = "metadata")
        /\ metadata' = metadata \o (IF in_meta' THEN Text(Preamble) ELSE <<>>)
        /\ output' = output \o (IF in_meta' THEN <<>> ELSE <<>> \o Text(Preamble))
    <3>1. Outline[read + 1] = Topic("preamble", 0, Preamble, 1)
      BY <1>5, <2>1
    <3>2. /\ in_meta' = (in_meta \/ "preamble" = "metadata")
          /\ metadata' = metadata \o (IF in_meta' THEN Text(Preamble) ELSE <<>>)
          /\ output' = output \o
                  (IF in_meta' THEN <<>>
                   ELSE (IF "preamble" = "header" THEN <<[piece |-> 0, level |-> 1]>> ELSE <<>>) \o Text(Preamble))
      BY <3>1, TopicRead
    <3> QED BY <3>2
  <2>3. /\ PreambleEnd \in 0..Size /\ Preamble \in Seq(Nat)
        /\ Len(Preamble) = Lead + Line(PreambleEnd) - 2
        /\ \A k \in 1..Len(Preamble) : Preamble[k] = k + 1 - Lead
    BY <1>2, PreambleIs
  <2>4. /\ Text(Preamble) \in Seq(PieceType) /\ Len(Text(Preamble)) = Len(Preamble)
        /\ \A k \in 1..Len(Preamble) : Text(Preamble)[k].piece = Preamble[k]
    BY <2>3, TextIs
  <2>5. <<>> \o Text(Preamble) = Text(Preamble)
    BY <2>4, ConcatEmptySeq
  <2>6. output' \in Seq(PieceType)
    BY <1>2, <2>2, <2>4, <2>5, ConcatProperties, EmptySeq
  <2>7. ASSUME Good
        PROVE  Goal
    <3>1. ~in_meta /\ Len(output) = 0 /\ metadata = <<>>
      BY <1>5, <1>7, <1>10, <2>1, <2>7
    <3>2. ~in_meta' /\ output = <<>>
      BY <1>2, <2>2, <3>1, EmptySeq
    <3>3. output' = Text(Preamble) /\ metadata' = <<>>
      <4>1. output' = <<>> \o Text(Preamble) /\ metadata' = <<>> \o <<>>
        BY <2>2, <2>5, <3>1, <3>2
      <4> QED BY <2>5, <4>1
    <3>4. DOMAIN output' = 1..Len(Preamble) /\ Len(output') = Len(Preamble)
      BY <2>4, <3>3, LenProperties
    <3>5. Reached[0] = Line(PreambleEnd)
      BY <1>5 DEF Reached, m
    <3>6. \A k \in DOMAIN output' : output'[k].piece = k + 1 - Lead
      BY <2>3, <2>4, <3>3, <3>4
    <3>7. read + 1 = 1 /\ ~(1 < p) /\ 1 - p = 0 /\ 1 # all + 2 /\ ~(1 > all)
      BY <1>5, <2>1
    <3>8. in_meta' <=> read + 1 > all
      BY <3>2, <3>7, Zenon
    <3>9. Len(output') = Lead + Reached[0] - 2
      BY <2>3, <3>4, <3>5
    <3>10. (IF in_meta' THEN m ELSE read + 1 - p) = 0
      <4>1. (IF in_meta' THEN m ELSE read + 1 - p) = read + 1 - p
        BY <3>2
      <4>2. read + 1 - p = 0
        BY <2>1
      <4> QED BY <4>1, <4>2
    <3>11. ~(read + 1 < p) /\ read + 1 # all + 2
      BY <3>7
    <3> QED BY <3>3, <3>6, <3>8, <3>9, <3>10, <3>11, Zenon DEF Goal
  <2> QED BY <1>4, <1>9, <2>6, <2>7, Zenon
<1>11. CASE p <= read /\ read < all
  <2> DEFINE k0 == read - p
             h == entries[k0 + 1].header
             line == [piece |-> Line(h), level |-> entries[k0 + 1].depth]
             more == <<line>> \o Text(Note(h))
  <2>1. /\ k0 \in 0..(m - 1) /\ k0 + 1 \in 1..m /\ read + 1 = p + (k0 + 1) /\ read + 1 - p = k0 + 1
        /\ ~(read + 1 > all) /\ ~(read > all) /\ ~(read < p) /\ ~(read + 1 < p)
        /\ read + 1 # all + 2 /\ read # all + 2
    BY <1>2, <1>5, <1>11
  <2>2. entries[k0 + 1] \in EntryType
    BY <1>2, <2>1, ElementOfSeq DEF Types, m
  <2>3. h \in 0..(Size - 1) /\ entries[k0 + 1].depth \in Nat
    BY <2>2 DEF EntryType
  <2> HIDE DEF k0, h
  <2>4. /\ Line(h) \in Nat /\ Line(Following(h)) \in Nat /\ Line(h) >= 2
        /\ Line(Following(h)) >= Line(h) + 2
        /\ Note(h) \in Seq(Nat) /\ Len(Note(h)) = Line(Following(h)) - Line(h) - 1
        /\ \A k \in 1..Len(Note(h)) : Note(h)[k] = Line(h) + k
    BY <1>2, <2>3, NoteIs
  <2>5. /\ Text(Note(h)) \in Seq(PieceType) /\ Len(Text(Note(h))) = Len(Note(h))
        /\ \A k \in 1..Len(Note(h)) : Text(Note(h))[k].piece = Note(h)[k]
    BY <2>4, TextIs
  <2>6. line \in PieceType /\ line.piece = Line(h)
    BY <2>3, <2>4 DEF PieceType
  <2> HIDE DEF line
  <2>7. /\ more \in Seq(PieceType) /\ Len(more) = Len(Note(h)) + 1
        /\ \A k \in 1..(Len(Note(h)) + 1) : more[k].piece = Line(h) + k - 1
    <3>1. /\ <<line>> \in Seq(PieceType) /\ Len(<<line>>) = 1 /\ <<line>>[1] = line
      BY <2>6
    <3>2. /\ more \in Seq(PieceType) /\ Len(more) = 1 + Len(Note(h))
          /\ \A k \in 1..(1 + Len(Note(h))) : more[k] = IF k <= 1 THEN <<line>>[k] ELSE Text(Note(h))[k - 1]
      <4>1. /\ more \in Seq(PieceType) /\ Len(more) = Len(<<line>>) + Len(Text(Note(h)))
            /\ \A k \in 1..(Len(<<line>>) + Len(Text(Note(h)))) :
                   more[k] = IF k <= Len(<<line>>) THEN <<line>>[k] ELSE Text(Note(h))[k - Len(<<line>>)]
        BY <2>5, <3>1, ConcatProperties
      <4> QED BY <2>5, <3>1, <4>1, Zenon
    <3>3. Len(Note(h)) \in Nat
      BY <2>4, LenProperties
    <3>4. ASSUME NEW k \in 1..(Len(Note(h)) + 1) PROVE more[k].piece = Line(h) + k - 1
      <4>1. CASE k = 1
        BY <2>4, <2>6, <3>1, <3>2, <3>3, <4>1
      <4>2. CASE k # 1
        <5>1. k - 1 \in 1..Len(Note(h)) /\ k \in 1..(1 + Len(Note(h))) /\ ~(k <= 1)
          BY <3>3, <3>4, <4>2
        <5>2. Note(h)[k - 1] = Line(h) + (k - 1)
          BY <2>4, <5>1
        <5> QED BY <2>4, <2>5, <3>2, <5>1, <5>2
      <4> QED BY <4>1, <4>2
    <3> QED BY <3>2, <3>3, <3>4
  <2>8. /\ in_meta' = (in_meta \/ "header" = "metadata")
        /\ metadata' = metadata \o (IF in_meta' THEN Text(Note(h)) ELSE <<>>)
        /\ output' = output \o (IF in_meta' THEN <<>> ELSE more)
    <3>1. Outline[read + 1] = Topic("header", Line(h), Note(h), entries[k0 + 1].depth)
      BY <1>5, <2>1 DEF h
    <3>2. /\ in_meta' = (in_meta \/ "header" = "metadata")
          /\ metadata' = metadata \o (IF in_meta' THEN Text(Note(h)) ELSE <<>>)
          /\ output' = output \o
                  (IF in_meta' THEN <<>>
                   ELSE (IF "header" = "header"
                         THEN <<[piece |-> Line(h), level |-> entries[k0 + 1].depth]>> ELSE <<>>) \o Text(Note(h)))
      BY <3>1, TopicRead
    <3> QED BY <3>2 DEF line
  <2> HIDE DEF more
  <2>9. output' \in Seq(PieceType)
    BY <1>2, <2>7, <2>8, ConcatProperties, EmptySeq
  <2>10. ASSUME Good
        PROVE  Goal
    <3>1. ~in_meta /\ metadata = <<>> /\ Len(output) = Lead + Reached[k0] - 2
      BY <1>7, <2>1, <2>10 DEF k0
    <3>2. Reached[k0] = Line(h)
      BY <1>8, <2>1, <2>10 DEF h
    <3>3. ~in_meta' /\ output' = output \o more /\ metadata' = <<>>
      <4>1. ~in_meta' /\ metadata' = <<>> \o <<>> /\ output' = output \o more
        BY <2>8, <3>1
      <4> QED BY <4>1
    <3>4. DOMAIN more = 1..(Len(Note(h)) + 1)
      BY <2>7, LenProperties
    <3>5. \A k \in DOMAIN more : more[k].piece = Len(output) + k + 1 - Lead
      <4>1. Len(output) = Lead + Line(h) - 2 /\ Line(h) \in Nat
        BY <2>4, <3>1, <3>2
      <4>2. \A k \in DOMAIN more : more[k].piece = Line(h) + k - 1 /\ k \in Int
        BY <2>7, <3>4
      <4> QED BY <1>6, <4>1, <4>2
    <3>6. /\ Len(output \o more) = Len(output) + Len(more)
          /\ \A k \in DOMAIN (output \o more) : (output \o more)[k].piece = k + 1 - Lead
      BY <1>2, <1>6, <1>7, <2>7, <2>10, <3>5, PiecesFollow
    <3>7. Reached[k0 + 1] = Line(Following(h))
      <4>1. k0 + 1 \in 0..Len(entries) /\ k0 + 1 # 0
        BY <2>1 DEF m
      <4> QED BY <4>1 DEF Reached, h
    <3>8. Len(output') = Lead + Line(Following(h)) - 2
      <4>1. Len(output') = (Lead + Line(h) - 2) + (Len(Note(h)) + 1)
        BY <2>7, <3>1, <3>2, <3>3, <3>6
      <4> QED BY <1>6, <2>4, <4>1
    <3> QED BY <2>1, <3>3, <3>6, <3>7, <3>8 DEF Goal
  <2> QED BY <1>4, <1>9, <2>9, <2>10, Zenon
<1>12. CASE all <= read
  <2>1. has_meta /\ z = 2 /\ read \in {all, all + 1} /\ all \in Nat /\ p <= all
    <3>1. read < all + z /\ all \in Nat /\ p <= all
      BY <1>1, <1>5
    <3>2. has_meta /\ z = 2
      BY <1>2, <1>12, <3>1 DEF z
    <3> QED BY <1>2, <1>12, <3>1, <3>2
  <2> DEFINE what == IF read = all THEN "metadata" ELSE "key"
             note == IF read = all THEN <<>> ELSE <<0>>
             depth == IF read = all THEN 1 ELSE 2
  <2>2. /\ what # "header" /\ (what = "metadata" <=> read = all)
        /\ note = IF read = all THEN <<>> ELSE <<0>>
    OBVIOUS
  <2>3. Outline[read + 1] = Topic(what, 0, note, depth)
    <3>1. CASE read = all
      BY <1>5, <2>1, <3>1
    <3>2. CASE read # all
      <4>1. read + 1 = all + 2
        BY <2>1, <3>2
      <4> QED BY <1>5, <2>1, <3>2, <4>1
    <3> QED BY <3>1, <3>2
  <2> HIDE DEF what, note, depth
  <2>4. /\ in_meta' = (in_meta \/ what = "metadata")
        /\ metadata' = metadata \o (IF in_meta' THEN Text(note) ELSE <<>>)
        /\ output' = output \o
                  (IF in_meta' THEN <<>>
                   ELSE (IF what = "header" THEN <<[piece |-> 0, level |-> depth]>> ELSE <<>>) \o Text(note))
    BY <2>3, TopicRead
  <2>5. output' = output \o (IF in_meta' THEN <<>> ELSE <<>> \o Text(note))
    BY <2>2, <2>4
  <2>6. note \in Seq(Nat) /\ Text(note) \in Seq(PieceType)
    <3>1. note \in Seq(Nat)
      <4>1. <<>> \in Seq(Nat) /\ <<0>> \in Seq(Nat)
        OBVIOUS
      <4> QED BY <2>2, <4>1, Zenon
    <3> QED BY <3>1, TextIs
  <2>7. output' \in Seq(PieceType)
    BY <1>2, <2>5, <2>6, ConcatProperties, EmptySeq
  <2>8. ASSUME Good
        PROVE  Goal
    <3>1. /\ in_meta <=> read > all
          /\ \A k \in DOMAIN output : output[k].piece = k + 1 - Lead
          /\ Len(output) = IF read < p THEN 0 ELSE Lead + Reached[IF in_meta THEN m ELSE read - p] - 2
          /\ metadata = IF read = all + 2 THEN <<[piece |-> 0, level |-> 0]>> ELSE <<>>
      BY <1>7, <2>8
    <3>2. read \in Nat /\ ~(read < p) /\ ~(read + 1 < p) /\ read + 1 > all /\ read # all + 2
          /\ (read > all <=> read = all + 1) /\ (read + 1 = all + 2 <=> read = all + 1)
          /\ (read = all => read - p = m)
      BY <1>2, <1>5, <2>1
    <3>3. in_meta' = TRUE
      BY <2>1, <2>2, <2>4, <3>1, <3>2
    <3>4. Len(output) = Lead + Reached[m] - 2
      BY <2>1, <3>1, <3>2
    <3>5. output' = output
      BY <1>2, <2>5, <3>3, ConcatEmptySeq
    <3>6. metadata = <<>> /\ metadata' = metadata \o Text(note)
      BY <2>4, <3>1, <3>2, <3>3
    <3>7. metadata' = Text(note)
      BY <2>6, <3>6, ConcatEmptySeq
    <3>8. Text(note) = IF read = all + 1 THEN <<[piece |-> 0, level |-> 0]>> ELSE <<>>
      <4>1. Text(<<>>) = <<>>
        BY DEF Text
      <4>2. Text(<<0>>) = <<[piece |-> 0, level |-> 0]>>
        <5>1. DOMAIN <<0>> = 1..1 /\ \A k \in 1..1 : <<0>>[k] = 0
          OBVIOUS
        <5>2. Text(<<0>>) = [k \in 1..1 |-> [piece |-> 0, level |-> 0]]
          BY <5>1 DEF Text
        <5> QED BY <5>2
      <4>3. all # all + 1
        BY <2>1
      <4> QED BY <2>1, <2>2, <4>1, <4>2, <4>3
    <3> QED BY <3>1, <3>2, <3>3, <3>4, <3>5, <3>7, <3>8 DEF Goal
  <2> QED BY <1>4, <1>9, <2>7, <2>8, Zenon
<1>13. read < p \/ (p <= read /\ read < all) \/ all <= read
  BY <1>2, <1>5
<1> QED BY <1>4, <1>10, <1>11, <1>12, <1>13

\* The import ends when all of the outline is read.
LEMMA ImportEnds ==
    ASSUME XInv, EndImport
    PROVE  Unread' /\ Importing'
<1>1. /\ stage = "import" /\ stage' = "done" /\ read = Len(Outline)
      /\ UNCHANGED <<headers, has_meta, has_preamble, walk, entries, read, in_meta, metadata, output>>
  BY DEF EndImport
<1>2. IInv /\ has_meta \in BOOLEAN /\ has_preamble \in BOOLEAN
  BY DEF XInv, Importing
<1>3. Len(Outline) = HeaderTopics + (IF has_meta THEN 2 ELSE 0)
  BY <1>2, OutlineIs
<1>4. /\ Lead' = Lead /\ FirstTopics' = FirstTopics /\ HeaderTopics' = HeaderTopics
      /\ FirstValid' = FirstValid /\ Reached' = Reached
  BY <1>1, SameOutline
<1>5. Unread'
  BY <1>1 DEF Unread
<1>6. Importing'
  <2>1. Size' = Size
    BY <1>1 DEF Size
  <2>2. SUFFICES ASSUME walk' = "outline", stage' # "walk", FirstValid' \in {0, Size'}
                 PROVE  /\ read' <= HeaderTopics' + (IF has_meta' THEN 2 ELSE 0)
                        /\ in_meta' <=> read' > HeaderTopics'
                        /\ \A k \in DOMAIN output' : output'[k].piece = k + 1 - Lead'
                        /\ Len(output') = IF read' < FirstTopics' THEN 0
                            ELSE Lead' + Reached'[IF in_meta' THEN Len(entries') ELSE read' - FirstTopics'] - 2
                        /\ metadata' = IF read' = HeaderTopics' + 2
                                       THEN <<[piece |-> 0, level |-> 0]>> ELSE <<>>
                        /\ stage' = "done" => read' = HeaderTopics' + (IF has_meta' THEN 2 ELSE 0)
    BY <1>1 DEF XInv, Importing
  <2>3. walk = "outline" /\ stage # "walk" /\ FirstValid \in {0, Size}
    BY <1>1, <1>4, <2>1, <2>2
  <2>4. /\ read <= HeaderTopics + (IF has_meta THEN 2 ELSE 0)
        /\ in_meta <=> read > HeaderTopics
        /\ \A k \in DOMAIN output : output[k].piece = k + 1 - Lead
        /\ Len(output) = IF read < FirstTopics THEN 0
                         ELSE Lead + Reached[IF in_meta THEN Len(entries) ELSE read - FirstTopics] - 2
        /\ metadata = IF read = HeaderTopics + 2 THEN <<[piece |-> 0, level |-> 0]>> ELSE <<>>
        /\ stage = "done" => read = HeaderTopics + (IF has_meta THEN 2 ELSE 0)
    BY <2>3, Zenon DEF XInv, Importing
  <2> QED BY <1>1, <1>3, <1>4, <2>4, Zenon
<1> QED BY <1>5, <1>6

\* A step that changes nothing keeps what is known of the import.
LEMMA ImportStutters ==
    ASSUME XInv, UNCHANGED vars
    PROVE  Unread' /\ Importing'
<1>1. UNCHANGED <<headers, has_meta, has_preamble, walk, entries, stage, read, in_meta, metadata, output>>
  BY DEF vars
<1>2. /\ Lead' = Lead /\ FirstTopics' = FirstTopics /\ HeaderTopics' = HeaderTopics
      /\ FirstValid' = FirstValid /\ Reached' = Reached
  BY <1>1, SameOutline
<1>3. Unread'
  BY <1>1 DEF XInv, Unread
<1>4. Importing'
  <2>1. Size' = Size
    BY <1>1 DEF Size
  <2>2. SUFFICES ASSUME walk' = "outline", stage' # "walk", FirstValid' \in {0, Size'}
                 PROVE  /\ read' <= HeaderTopics' + (IF has_meta' THEN 2 ELSE 0)
                        /\ in_meta' <=> read' > HeaderTopics'
                        /\ \A k \in DOMAIN output' : output'[k].piece = k + 1 - Lead'
                        /\ Len(output') = IF read' < FirstTopics' THEN 0
                            ELSE Lead' + Reached'[IF in_meta' THEN Len(entries') ELSE read' - FirstTopics'] - 2
                        /\ metadata' = IF read' = HeaderTopics' + 2
                                       THEN <<[piece |-> 0, level |-> 0]>> ELSE <<>>
                        /\ stage' = "done" => read' = HeaderTopics' + (IF has_meta' THEN 2 ELSE 0)
    BY <1>1 DEF XInv, Importing
  <2>3. walk = "outline" /\ stage # "walk" /\ FirstValid \in {0, Size}
    BY <1>1, <1>2, <2>1, <2>2
  <2>4. /\ read <= HeaderTopics + (IF has_meta THEN 2 ELSE 0)
        /\ in_meta <=> read > HeaderTopics
        /\ \A k \in DOMAIN output : output[k].piece = k + 1 - Lead
        /\ Len(output) = IF read < FirstTopics THEN 0
                         ELSE Lead + Reached[IF in_meta THEN Len(entries) ELSE read - FirstTopics] - 2
        /\ metadata = IF read = HeaderTopics + 2 THEN <<[piece |-> 0, level |-> 0]>> ELSE <<>>
        /\ stage = "done" => read = HeaderTopics + (IF has_meta THEN 2 ELSE 0)
    BY <2>3, Zenon DEF XInv, Importing
  <2> QED BY <1>1, <1>2, <2>4, Zenon
<1> QED BY <1>3, <1>4

\* Every step keeps the invariant that knows the import too.
LEMMA ImportStep == XInv /\ [Next]_vars => XInv'
<1> SUFFICES ASSUME XInv, [Next]_vars PROVE XInv'
  OBVIOUS
<1>1. IInv'
  BY Step DEF XInv
<1>2. Unread' /\ Importing'
  <2>1. CASE Ignore
    BY <2>1, StillUnread DEF Ignore, Walking
  <2>2. CASE List
    BY <2>2, StillUnread DEF List, Walking
  <2>3. CASE Leave
    BY <2>3, StillUnread DEF Leave, Walking
  <2>4. CASE Exhaust
    BY <2>4, StillUnread DEF Exhaust
  <2>5. CASE EndWalk
    BY <2>5, ImportBegins
  <2>6. CASE ReadTopic
    BY <2>6, TopicFollows
  <2>7. CASE EndImport
    BY <2>7, ImportEnds
  <2>8. CASE UNCHANGED vars
    BY <2>8, ImportStutters
  <2> QED BY <2>1, <2>2, <2>3, <2>4, <2>5, <2>6, <2>7, <2>8 DEF Next
<1> QED BY <1>1, <1>2 DEF XInv

\* It holds from the start on.
LEMMA ImportHolds == Spec => []XInv
<1>1. Init => XInv
  <2>1. Init => Unread
    BY DEF Init, Unread
  <2>2. Init => Importing
    BY EmptySeq DEF Init, Importing
  <2> QED BY <2>1, <2>2, InitOK DEF XInv
<1> QED BY <1>1, ImportStep, PTL DEF Spec

\* Whatever the headers are, the pieces of a text that is exported as an
\* outline and imported again are the pieces it had, in order, if its first
\* header is not in a quotation or all are.
THEOREM OutlineIsKept == Spec => []OutlineKeepsText
<1>1. XInv => OutlineKeepsText
  <2> SUFFICES ASSUME XInv, walk = "outline", Done, FirstValid \in {0, Size}
               PROVE  Imported = AllPieces
    BY DEF OutlineKeepsText
  <2> DEFINE meta == IF has_meta THEN <<0>> ELSE <<>>
             lead == IF has_preamble THEN <<1>> ELSE <<>>
             body == Pieces(2, 2 * Size + 1)
             a == Lead
             b == Len(metadata)
             all == metadata \o output
             n == a + 2 * Size
  <2>1. /\ IInv /\ Types /\ Size \in Nat /\ has_meta \in BOOLEAN /\ has_preamble \in BOOLEAN
        /\ output \in Seq(PieceType) /\ a \in 0..1 /\ FirstTopics \in 0..1
    BY HeaderFacts DEF XInv, Importing, IInv, Lead, FirstTopics
  <2>2. Len(entries) \in Nat /\ Reached[Len(entries)] = Line(Size)
    BY <2>1, ReachedIs DEF Done
  <2>3. Line(Size) = 2 * Size + 2
    BY DEF Line
  <2>4. /\ read = HeaderTopics + (IF has_meta THEN 2 ELSE 0)
        /\ in_meta <=> read > HeaderTopics
        /\ \A k \in DOMAIN output : output[k].piece = k + 1 - a
        /\ Len(output) = IF read < FirstTopics THEN 0
                         ELSE a + Reached[IF in_meta THEN Len(entries) ELSE read - FirstTopics] - 2
        /\ metadata = IF read = HeaderTopics + 2 THEN <<[piece |-> 0, level |-> 0]>> ELSE <<>>
    BY Zenon DEF XInv, Importing, Done
  <2>5. HeaderTopics = FirstTopics + Len(entries) /\ HeaderTopics \in Nat
    BY <2>1, <2>2 DEF HeaderTopics
  <2>6. ~(read < FirstTopics)
    BY <2>1, <2>2, <2>4, <2>5
  <2>7. (IF in_meta THEN Len(entries) ELSE read - FirstTopics) = Len(entries)
    <3>1. CASE in_meta
      BY <3>1
    <3>2. CASE ~in_meta
      <4>1. ~(read > HeaderTopics)
        BY <2>4, <3>2, Zenon
      <4>2. read - FirstTopics = Len(entries)
        BY <2>1, <2>2, <2>4, <2>5, <4>1
      <4> QED BY <3>2, <4>2
    <3> QED BY <3>1, <3>2
  <2>8. Len(output) = n
    <3>1. Len(output) = a + Reached[Len(entries)] - 2
      BY <2>4, <2>6, <2>7, Zenon
    <3> QED BY <2>1, <2>2, <2>3, <3>1
  <2> HIDE DEF a
  <2>9. /\ metadata = (IF has_meta THEN <<[piece |-> 0, level |-> 0]>> ELSE <<>>)
        /\ b = IF has_meta THEN 1 ELSE 0
        /\ metadata \in Seq(PieceType) /\ \A k \in 1..b : metadata[k].piece = 0
    <3>1. metadata = (IF has_meta THEN <<[piece |-> 0, level |-> 0]>> ELSE <<>>)
      BY <2>4, <2>5
    <3>2. CASE has_meta
      <4>1. metadata = <<[piece |-> 0, level |-> 0]>>
        BY <3>1, <3>2
      <4> QED BY <3>2, <4>1 DEF PieceType
    <3>3. CASE ~has_meta
      <4>1. metadata = <<>>
        BY <3>1, <3>3
      <4> QED BY <3>3, <4>1, EmptySeq
    <3> QED BY <2>1, <3>2, <3>3
  <2> HIDE DEF b
  <2>10. /\ all \in Seq(PieceType) /\ Len(all) = b + n
         /\ \A k \in 1..b : all[k] = metadata[k]
         /\ \A k \in (b + 1)..(b + n) : all[k] = output[k - b]
    <3>1. /\ all \in Seq(PieceType) /\ Len(all) = Len(metadata) + Len(output)
          /\ \A k \in 1..(Len(metadata) + Len(output)) :
                all[k] = IF k <= Len(metadata) THEN metadata[k] ELSE output[k - Len(metadata)]
      BY <2>1, <2>9, ConcatProperties
    <3> HIDE DEF all, n
    <3>2. n \in Nat
      BY <2>1 DEF n
    <3> QED BY <2>8, <2>9, <3>1, <3>2 DEF b
  <2>11. DOMAIN all = 1..(b + n)
    BY <2>10, LenProperties
  <2>12. DOMAIN output = 1..n
    BY <2>1, <2>8, LenProperties
  <2>13. Imported = [k \in 1..(b + n) |-> all[k].piece]
    BY <2>11 DEF Imported
  <2> HIDE DEF all
  <2>14. n \in Nat /\ b \in 0..1
    BY <2>1, <2>9
  <2>15. /\ body \in Seq(Nat) /\ Len(body) = 2 * Size
         /\ \A k \in 1..(2 * Size) : body[k] = k + 1
    <3> DEFINE q == 2 * Size + 1
    <3>1. q \in Int /\ 2 <= q + 1 /\ q - 2 + 1 = 2 * Size
      BY <2>1
    <3>2. body = Pieces(2, q)
      OBVIOUS
    <3> HIDE DEF q
    <3>3. /\ Pieces(2, q) \in Seq(Nat) /\ Len(Pieces(2, q)) = q - 2 + 1
          /\ \A k \in 1..(q - 2 + 1) : Pieces(2, q)[k] = 2 + k - 1
      BY <3>1, PiecesIs
    <3> HIDE DEF body
    <3> QED BY <2>1, <3>1, <3>2, <3>3
  <2> HIDE DEF body
  <2>16. /\ meta \in Seq(Nat) /\ Len(meta) = b /\ \A k \in 1..b : meta[k] = 0
         /\ lead \in Seq(Nat) /\ Len(lead) = a /\ \A k \in 1..a : lead[k] = 1
    BY <2>9, EmptySeq DEF a, Lead
  <2> HIDE DEF meta, lead
  <2>17. /\ meta \o lead \in Seq(Nat) /\ Len(meta \o lead) = b + a
         /\ \A k \in 1..(b + a) : (meta \o lead)[k] = IF k <= b THEN 0 ELSE 1
    <3>1. /\ meta \o lead \in Seq(Nat) /\ Len(meta \o lead) = Len(meta) + Len(lead)
          /\ \A k \in 1..(Len(meta) + Len(lead)) :
                (meta \o lead)[k] = IF k <= Len(meta) THEN meta[k] ELSE lead[k - Len(meta)]
      BY <2>16, ConcatProperties
    <3> QED BY <2>1, <2>14, <2>16, <3>1
  <2> DEFINE every == (meta \o lead) \o body
             front == meta \o lead
  <2>18. /\ every \in Seq(Nat) /\ Len(every) = b + n
         /\ \A k \in 1..(b + n) : every[k] = IF k <= b THEN 0 ELSE k - b + 1 - a
    <3> HIDE DEF front
    <3>1. /\ front \o body \in Seq(Nat) /\ Len(front \o body) = Len(front) + Len(body)
          /\ \A k \in 1..(Len(front) + Len(body)) :
                (front \o body)[k] = IF k <= Len(front) THEN front[k] ELSE body[k - Len(front)]
      BY <2>15, <2>17, ConcatProperties DEF front
    <3>2. Len(front) = b + a /\ \A k \in 1..(b + a) : front[k] = IF k <= b THEN 0 ELSE 1
      BY <2>17 DEF front
    <3>3. every = front \o body
      BY DEF front
    <3> HIDE DEF every
    <3> QED BY <2>1, <2>14, <2>15, <3>1, <3>2, <3>3
  <2> HIDE DEF every, n
  <2>19. every = [k \in 1..(b + n) |-> every[k]]
    BY <2>14, <2>18
  <2>20. ASSUME NEW k \in 1..(b + n) PROVE all[k].piece = every[k]
    <3>1. CASE k <= b
      BY <2>9, <2>10, <2>14, <2>18, <3>1
    <3>2. CASE k > b
      <4>1. all[k] = output[k - b] /\ k - b \in 1..n
        BY <2>10, <2>14, <3>2
      <4>2. output[k - b].piece = k - b + 1 - a
        BY <2>4, <2>12, <4>1
      <4> QED BY <2>14, <2>18, <3>2, <4>1, <4>2
    <3> QED BY <2>14, <3>1, <3>2
  <2>21. AllPieces = every
    BY DEF AllPieces, every, meta, lead, body
  <2> QED BY <2>13, <2>19, <2>20, <2>21, Zenon
<1> QED BY <1>1, ImportHolds, PTL
=============================================================================
