------------------------ MODULE DocumentText_proofs -------------------------
(***************************************************************************)
(* Proofs about SectionSplitter, for texts of any length and any number of *)
(* heading levels, and about DocumentText, for documents with any number   *)
(* of pages and any number of attempts.                                    *)
(*                                                                         *)
(* LinesKept and HeadingsStartSections speak of the sections found so far; *)
(* they are inductive with the same facts about the lines being collected  *)
(* (first..last), which every line already read belongs to unless it is    *)
(* blank or in a section.  NestedPathIsOutline needs that the path holds   *)
(* the open heading of each level (PathInv), and ScannedPagesKept what the *)
(* pages before the current one have given (PagesInv).                     *)
(***************************************************************************)
EXTENDS DocumentText, TLAPS, SequenceTheorems

\* Whether section s is filed under the heading it starts with.
FiledUnder(s) ==
    /\ \A i \in (s.first + 1)..s.last : ~IsHeading(i)
    /\ IF s.path = <<>>
       THEN ~IsHeading(s.first)
       ELSE s.path[Len(s.path)] = s.first /\ IsHeading(s.first)

Current == [path |-> path, first |-> first, last |-> last]

\* The lines collected: the end of what has been read, and not in a section.
CollectedInv ==
    /\ first = 0 => path = <<>>
    /\ first > 0 =>
          /\ first <= last /\ last < pos
          /\ FiledUnder(Current)
          /\ ~done => \A k \in DOMAIN sections : sections[k].last < first
    /\ \A i \in 1..(pos - 1) :
          text[i] # Blank => InSection(i) \/ (~done /\ first > 0 /\ first <= i /\ i <= last)

SectionsInv ==
    /\ \A k \in DOMAIN sections :
          sections[k].first <= sections[k].last /\ sections[k].last < pos
    /\ \A k, l \in DOMAIN sections : k < l => sections[k].last < sections[l].first
    /\ HeadingsStartSections

Typed ==
    /\ text \in Seq(-1..MaxLevel)
    /\ pos \in 1..(Len(text) + 1)
    /\ path \in Seq(Lines) /\ Len(path) <= MaxLevel
    /\ first \in 0..Len(text) /\ last \in 0..Len(text)
    /\ sections \in Seq(Section)
    /\ done \in BOOLEAN
    /\ done => pos = Len(text) + 1

IInv == Typed /\ CollectedInv /\ SectionsInv

-----------------------------------------------------------------------------
LEMMA TextType ==
    ASSUME text \in Seq(-1..MaxLevel)
    PROVE  /\ Len(text) \in Nat /\ DOMAIN text = 1..Len(text)
           /\ \A i \in 1..Len(text) : text[i] \in -1..MaxLevel
BY LenProperties, ElementOfSeq

\* The path under a heading ends with it and has at most its level.
LEMMA PathWithType ==
    ASSUME Typed, pos <= Len(text), IsHeading(pos)
    PROVE  /\ PathWith(pos) \in Seq(Lines)
           /\ Len(PathWith(pos)) \in 1..text[pos]
           /\ PathWith(pos)[Len(PathWith(pos))] = pos
           /\ \A i \in 1..(Len(PathWith(pos)) - 1) : PathWith(pos)[i] = path[i]
           /\ text[pos] - 1 <= Len(path) => Len(PathWith(pos)) = text[pos]
<1> DEFINE keep == IF text[pos] - 1 < Len(path) THEN text[pos] - 1 ELSE Len(path)
           kept == SubSeq(path, 1, keep)
<1>1. /\ Len(text) \in Nat /\ pos \in Lines
      /\ text[pos] \in Nat /\ text[pos] >= 1
      /\ path \in Seq(Lines) /\ Len(path) \in Nat
  <2>1. Len(text) \in Nat /\ pos \in 1..Len(text)
    BY TextType DEF Typed
  <2>2. text[pos] \in -1..MaxLevel /\ text[pos] > 0
    BY <2>1, TextType DEF Typed, IsHeading
  <2> QED BY <2>1, <2>2, LenProperties, MaxLevelAssumption DEF Typed, Lines
<1>2. keep \in Nat /\ keep <= Len(path) /\ keep <= text[pos] - 1
  BY <1>1
<1>3. \A i \in 1..keep : path[i] \in Lines
  BY <1>1, <1>2, ElementOfSeq
<1>8. text[pos] - 1 <= Len(path) => keep = text[pos] - 1
  BY <1>1
<1> HIDE DEF keep
<1>4. /\ kept \in Seq(Lines) /\ Len(kept) = IF 1 <= keep THEN keep - 1 + 1 ELSE 0
      /\ \A i \in 1..(keep - 1 + 1) : kept[i] = path[1 + i - 1]
  BY <1>2, <1>3, SubSeqProperties
<1>5. Len(kept) = keep
  BY <1>2, <1>4
<1> HIDE DEF kept
<1>6. PathWith(pos) = Append(kept, pos)
  BY DEF PathWith, kept, keep
<1>7. /\ PathWith(pos) \in Seq(Lines)
      /\ Len(PathWith(pos)) = Len(kept) + 1
      /\ PathWith(pos)[Len(kept) + 1] = pos
      /\ \A i \in 1..Len(kept) : PathWith(pos)[i] = kept[i]
  BY <1>1, <1>4, <1>6, AppendProperties
<1>9. \A i \in 1..keep : PathWith(pos)[i] = path[i]
  BY <1>2, <1>4, <1>5, <1>7
<1> QED BY <1>1, <1>2, <1>5, <1>7, <1>8, <1>9

\* flush() keeps the sections in order and files the lines collected.
LEMMA FlushKeeps ==
    ASSUME IInv, ~done
    PROVE  /\ Flushed \in Seq(Section)
           /\ \A k \in DOMAIN Flushed :
                 /\ Flushed[k].first <= Flushed[k].last /\ Flushed[k].last < pos
                 /\ FiledUnder(Flushed[k])
           /\ \A k, l \in DOMAIN Flushed : k < l => Flushed[k].last < Flushed[l].first
           /\ \A i \in 1..(pos - 1) : text[i] # Blank =>
                 \E k \in DOMAIN Flushed : Flushed[k].first <= i /\ i <= Flushed[k].last
<1> DEFINE n == Len(sections)
<1>1. /\ sections \in Seq(Section) /\ n \in Nat /\ DOMAIN sections = 1..n
      /\ \A k \in 1..n : sections[k] \in Section
  BY LenProperties, ElementOfSeq DEF IInv, Typed
<1>2. \A k \in 1..n : FiledUnder(sections[k])
  BY <1>1 DEF IInv, SectionsInv, HeadingsStartSections, FiledUnder
<1>3. CASE first = 0
  <2>1. Flushed = sections
    BY <1>3 DEF Flushed
  <2> QED BY <1>1, <1>2, <1>3, <2>1 DEF IInv, SectionsInv, CollectedInv, InSection
<1>4. CASE first # 0
  <2>1. /\ first \in Lines /\ last \in Lines /\ first > 0 /\ Len(text) \in Nat
        /\ pos \in Nat /\ path \in Seq(Lines)
    BY <1>4, TextType DEF IInv, Typed, CollectedInv, Lines
  <2>2. Current \in Section
    BY <2>1 DEF Current, Section
  <2>3. Flushed = Append(sections, Current)
    BY <1>4 DEF Flushed, Current
  <2>4. /\ Flushed \in Seq(Section) /\ Len(Flushed) = n + 1
        /\ \A k \in 1..n : Flushed[k] = sections[k]
        /\ Flushed[n + 1] = Current
    BY <1>1, <2>2, <2>3, AppendProperties
  <2>5. DOMAIN Flushed = 1..(n + 1)
    BY <2>4, LenProperties
  <2> HIDE DEF n
  <2>6. Current.first = first /\ Current.last = last
    BY DEF Current
  <2>7. first <= last /\ last < pos /\ FiledUnder(Current)
    BY <2>1 DEF IInv, CollectedInv
  <2>8. ASSUME NEW k \in DOMAIN Flushed
        PROVE  /\ Flushed[k].first <= Flushed[k].last /\ Flushed[k].last < pos
               /\ FiledUnder(Flushed[k])
    <3>1. CASE k = n + 1
      BY <2>4, <2>6, <2>7, <3>1
    <3>2. CASE k # n + 1
      <4>1. k \in 1..n /\ Flushed[k] = sections[k]
        BY <1>1, <2>4, <2>5, <3>2
      <4> QED BY <1>1, <1>2, <4>1 DEF IInv, SectionsInv
    <3> QED BY <3>1, <3>2
  <2>9. ASSUME NEW k \in DOMAIN Flushed, NEW l \in DOMAIN Flushed, k < l
        PROVE  Flushed[k].last < Flushed[l].first
    <3>1. k \in 1..n /\ Flushed[k] = sections[k]
      BY <1>1, <2>4, <2>5, <2>9
    <3>2. CASE l = n + 1
      BY <1>1, <2>1, <2>4, <2>6, <3>1, <3>2 DEF IInv, CollectedInv
    <3>3. CASE l # n + 1
      <4>1. l \in 1..n /\ Flushed[l] = sections[l]
        BY <1>1, <2>4, <2>5, <3>3
      <4> QED BY <1>1, <2>9, <3>1, <4>1 DEF IInv, SectionsInv
    <3> QED BY <3>2, <3>3
  <2>10. ASSUME NEW i \in 1..(pos - 1), text[i] # Blank
         PROVE  \E k \in DOMAIN Flushed : Flushed[k].first <= i /\ i <= Flushed[k].last
    <3>1. CASE InSection(i)
      <4>1. PICK k \in 1..n : sections[k].first <= i /\ i <= sections[k].last
        BY <1>1, <3>1 DEF InSection
      <4>2. k \in DOMAIN Flushed /\ Flushed[k] = sections[k]
        BY <1>1, <2>4, <2>5
      <4> QED BY <4>1, <4>2
    <3>2. CASE first <= i /\ i <= last
      <4>1. n + 1 \in DOMAIN Flushed
        BY <1>1, <2>5
      <4> QED BY <2>4, <2>6, <3>2, <4>1
    <3> QED BY <2>10, <3>1, <3>2 DEF IInv, CollectedInv
  <2> QED BY <2>4, <2>8, <2>9, <2>10
<1> QED BY <1>3, <1>4

-----------------------------------------------------------------------------
\* The splitter before its first line.
Fresh ==
    /\ pos = 1 /\ path = <<>> /\ first = 0 /\ last = 0
    /\ sections = <<>> /\ done = FALSE

LEMMA FreshIInv == Fresh /\ text \in Seq(-1..MaxLevel) => IInv
<1> SUFFICES ASSUME Fresh, text \in Seq(-1..MaxLevel)
             PROVE  IInv
  OBVIOUS
<1>1. Len(text) \in Nat
  BY TextType
<1>2. <<>> \in Seq(Lines) /\ <<>> \in Seq(Section) /\ Len(<<>>) = 0
  BY EmptySeq
<1>3. Typed
  <2>1. path \in Seq(Lines) /\ Len(path) <= MaxLevel /\ sections \in Seq(Section)
    BY <1>2, MaxLevelAssumption DEF Fresh
  <2>2. pos \in 1..(Len(text) + 1) /\ first \in 0..Len(text) /\ last \in 0..Len(text)
    BY <1>1 DEF Fresh
  <2>3. done = FALSE
    BY DEF Fresh
  <2> QED BY <2>1, <2>2, <2>3 DEF Typed
<1>4. DOMAIN sections = {}
  BY DEF Fresh
<1>5. CollectedInv /\ SectionsInv
  BY <1>1, <1>4 DEF Fresh, CollectedInv, SectionsInv, HeadingsStartSections
<1> QED BY <1>3, <1>5 DEF IInv

LEMMA HeadingLineIInv == IInv /\ HeadingLine => IInv'
<1> SUFFICES ASSUME IInv, HeadingLine
             PROVE  IInv'
  OBVIOUS
<1>1. /\ Typed /\ pos <= Len(text) /\ IsHeading(pos) /\ ~done
      /\ Len(text) \in Nat /\ pos \in Lines
      /\ \A i \in 1..Len(text) : text[i] \in -1..MaxLevel
  BY TextType DEF IInv, Typed, HeadingLine, Lines
<1>2. /\ text' = text /\ done' = done /\ pos' = pos + 1
      /\ first' = pos /\ last' = pos /\ path' = PathWith(pos) /\ sections' = Flushed
      /\ Lines' = Lines /\ Section' = Section
  BY DEF HeadingLine, Lines, Section
<1>3. /\ PathWith(pos) \in Seq(Lines) /\ Len(PathWith(pos)) \in 1..text[pos]
      /\ PathWith(pos)[Len(PathWith(pos))] = pos
  BY <1>1, PathWithType
<1>4. text[pos] \in Nat /\ text[pos] <= MaxLevel
  BY <1>1, MaxLevelAssumption DEF IsHeading, Lines
<1>5. Typed'
  <2>1. sections' \in Seq(Section)
    BY <1>1, <1>2, FlushKeeps
  <2>2. /\ pos' \in 1..(Len(text) + 1) /\ first' \in 0..Len(text) /\ last' \in 0..Len(text)
        /\ Len(path') <= MaxLevel
    BY <1>1, <1>2, <1>3, <1>4, MaxLevelAssumption DEF Lines
  <2> QED BY <1>1, <1>2, <1>3, <2>1, <2>2 DEF Typed
<1>6. \A s : FiledUnder(s)' <=> FiledUnder(s)
  BY <1>2 DEF FiledUnder, IsHeading
<1>7. SectionsInv'
  <2>1. \A k \in DOMAIN sections' :
           /\ sections'[k].first <= sections'[k].last /\ sections'[k].last < pos
           /\ FiledUnder(sections'[k])
    BY <1>1, <1>2, FlushKeeps
  <2>2. \A k, l \in DOMAIN sections' : k < l => sections'[k].last < sections'[l].first
    BY <1>1, <1>2, FlushKeeps
  <2>3. \A k \in DOMAIN sections' : sections'[k] \in Section
    BY <1>2, <1>5, ElementOfSeq, LenProperties DEF Typed
  <2>4. \A k \in DOMAIN sections' : sections'[k].last < pos'
    BY <1>1, <1>2, <2>1, <2>3 DEF Section, Lines
  <2>5. HeadingsStartSections'
    BY <1>2, <2>1 DEF HeadingsStartSections, FiledUnder, IsHeading
  <2> QED BY <2>1, <2>2, <2>4, <2>5 DEF SectionsInv
<1>8. CollectedInv'
  <2>1. first' > 0 /\ first' <= last' /\ last' < pos'
    BY <1>1, <1>2 DEF Lines
  <2>2. FiledUnder(Current)'
    <3>1. path' # <<>>
      BY <1>2, <1>3, <1>4, EmptySeq
    <3>2. \A i \in (pos + 1)..pos : ~IsHeading(i)'
      BY <1>1 DEF Lines
    <3>3. Current' = [path |-> PathWith(pos), first |-> pos, last |-> pos]
      BY <1>2 DEF Current
    <3> QED BY <1>1, <1>2, <1>3, <3>1, <3>2, <3>3 DEF FiledUnder, IsHeading
  <2>3. \A k \in DOMAIN sections' : sections'[k].last < first'
    BY <1>1, <1>2, FlushKeeps
  <2>4. ASSUME NEW i \in 1..(pos' - 1), text'[i] # Blank
        PROVE  InSection(i)' \/ (first' <= i /\ i <= last')
    <3>1. CASE i = pos
      BY <1>1, <1>2, <3>1 DEF Lines
    <3>2. CASE i # pos
      <4>1. i \in 1..(pos - 1)
        BY <1>1, <1>2, <3>2 DEF Lines
      <4>2. \E k \in DOMAIN Flushed : Flushed[k].first <= i /\ i <= Flushed[k].last
        BY <1>1, <1>2, <2>4, <4>1, FlushKeeps
      <4> QED BY <1>2, <4>2 DEF InSection
    <3> QED BY <3>1, <3>2
  <2>5. ~(first' = 0) /\ ~done'
    BY <1>1, <1>2 DEF Lines
  <2> QED BY <2>1, <2>2, <2>3, <2>4, <2>5 DEF CollectedInv
<1> QED BY <1>5, <1>7, <1>8 DEF IInv

LEMMA OtherLineIInv == IInv /\ OtherLine => IInv'
<1> SUFFICES ASSUME IInv, OtherLine
             PROVE  IInv'
  OBVIOUS
<1>1. /\ Typed /\ pos <= Len(text) /\ ~IsHeading(pos) /\ ~done
      /\ Len(text) \in Nat /\ pos \in Lines /\ first \in 0..Len(text)
  BY TextType DEF IInv, Typed, OtherLine, Lines
<1>2. /\ text' = text /\ done' = done /\ pos' = pos + 1
      /\ path' = path /\ sections' = sections
      /\ Lines' = Lines /\ Section' = Section
  BY DEF OtherLine, Lines, Section
<1>3. \/ text[pos] = Blank /\ first' = first /\ last' = last
      \/ /\ text[pos] # Blank /\ last' = pos
         /\ first' = IF first = 0 THEN pos ELSE first
  BY DEF OtherLine
<1>4. Typed'
  BY <1>1, <1>2, <1>3 DEF Typed, Lines
<1>5. SectionsInv'
  <2>1. \A k \in DOMAIN sections : sections[k] \in Section
    BY <1>1, ElementOfSeq, LenProperties DEF Typed
  <2>2. \A k \in DOMAIN sections : sections[k].last < pos + 1
    BY <1>1, <2>1 DEF IInv, SectionsInv, Section, Lines
  <2>3. HeadingsStartSections'
    BY <1>2 DEF IInv, SectionsInv, HeadingsStartSections, IsHeading
  <2> QED BY <1>2, <2>2, <2>3 DEF IInv, SectionsInv
<1>6. \A i : IsHeading(i)' <=> IsHeading(i)
  BY <1>2 DEF IsHeading
<1>7. \A i : InSection(i)' <=> InSection(i)
  BY <1>2 DEF InSection
<1>8. CASE text[pos] = Blank
  <2>1. first' = first /\ last' = last /\ Current' = Current
    BY <1>2, <1>3, <1>8 DEF Current
  <2>2. FiledUnder(Current) => FiledUnder(Current)'
    BY <1>6, <2>1 DEF FiledUnder
  <2>3. ASSUME NEW i \in 1..(pos' - 1), text'[i] # Blank
        PROVE  InSection(i) \/ (first > 0 /\ first <= i /\ i <= last)
    <3>1. i \in 1..(pos - 1) /\ text[i] # Blank
      BY <1>1, <1>2, <1>8, <2>3 DEF Lines
    <3> QED BY <3>1 DEF IInv, CollectedInv
  <2>4. first > 0 => /\ first <= last /\ last < pos'
                     /\ FiledUnder(Current)
                     /\ \A k \in DOMAIN sections : sections[k].last < first
    BY <1>1, <1>2 DEF IInv, CollectedInv, Typed, Lines
  <2>5. first = 0 => path = <<>>
    BY DEF IInv, CollectedInv
  <2>6. CollectedInv'
    BY <1>1, <1>2, <1>7, <2>1, <2>2, <2>3, <2>4, <2>5 DEF CollectedInv
  <2> QED BY <1>4, <1>5, <2>6 DEF IInv
<1>9. CASE text[pos] # Blank
  <2>1. last' = pos /\ first' = IF first = 0 THEN pos ELSE first
    BY <1>3, <1>9
  <2>2. first' > 0 /\ first' <= last' /\ last' < pos' /\ first' \in Nat
    BY <1>1, <1>2, <2>1 DEF IInv, CollectedInv, Typed, Lines
  <2>3. Current' = [path |-> path, first |-> first', last |-> pos]
    BY <1>2, <2>1 DEF Current
  <2>4. FiledUnder(Current)'
    <3>1. CASE first = 0
      <4>1. path = <<>> /\ first' = pos
        BY <2>1, <3>1 DEF IInv, CollectedInv
      <4>2. \A i \in (pos + 1)..pos : FALSE
        BY <1>1 DEF Lines
      <4> QED BY <1>1, <1>6, <2>3, <4>1, <4>2 DEF FiledUnder
    <3>2. CASE first # 0
      <4>1. first' = first /\ first > 0 /\ first <= last /\ last < pos /\ FiledUnder(Current)
        BY <1>1, <2>1, <3>2 DEF IInv, CollectedInv
      <4>2. ASSUME NEW i \in (first + 1)..pos
            PROVE  ~IsHeading(i)
        <5>1. CASE i <= last
          BY <1>1, <4>1, <5>1 DEF FiledUnder, Current, Typed
        <5>2. CASE i = pos
          BY <1>1, <5>2
        <5>3. CASE last < i /\ i < pos
          <6>1. i \in 1..(pos - 1) /\ ~(i <= last) /\ i \in 1..Len(text)
            BY <1>1, <4>1, <5>3 DEF Lines, Typed
          <6>2. CASE text[i] = Blank
            BY <6>2 DEF IsHeading, Blank
          <6>3. CASE InSection(i)
            <7>1. PICK k \in DOMAIN sections : sections[k].first <= i /\ i <= sections[k].last
              BY <6>3 DEF InSection
            <7>2. sections[k] \in Section
              BY <1>1, ElementOfSeq, LenProperties DEF Typed
            <7>3. sections[k].last < first
              BY <1>1, <4>1 DEF IInv, CollectedInv
            <7> QED BY <1>1, <4>1, <5>3, <6>1, <7>1, <7>2, <7>3 DEF Section, Lines, Typed
          <6> QED BY <6>1, <6>2, <6>3 DEF IInv, CollectedInv
        <5> QED BY <1>1, <5>1, <5>2, <5>3 DEF Lines, Typed
      <4>3. IF path = <<>> THEN ~IsHeading(first)
            ELSE path[Len(path)] = first /\ IsHeading(first)
        BY <4>1 DEF FiledUnder, Current
      <4> QED BY <1>6, <2>3, <4>1, <4>2, <4>3 DEF FiledUnder
    <3> QED BY <3>1, <3>2
  <2>5. ASSUME NEW k \in DOMAIN sections
        PROVE  sections[k].last < first'
    <3>1. sections[k].last < pos
      BY DEF IInv, SectionsInv
    <3>2. CASE first = 0
      BY <2>1, <3>1, <3>2
    <3>3. CASE first # 0
      BY <1>1, <2>1, <3>3 DEF IInv, CollectedInv
    <3> QED BY <3>2, <3>3
  <2>6. ASSUME NEW i \in 1..(pos' - 1), text'[i] # Blank
        PROVE  InSection(i) \/ (first' <= i /\ i <= last')
    <3>1. CASE i = pos
      BY <1>1, <2>1, <2>2, <3>1 DEF Lines
    <3>2. CASE i # pos
      <4>1. i \in 1..(pos - 1) /\ text[i] # Blank
        BY <1>1, <1>2, <2>6, <3>2 DEF Lines
      <4>2. InSection(i) \/ (first > 0 /\ first <= i /\ i <= last)
        BY <4>1 DEF IInv, CollectedInv
      <4> QED BY <1>1, <2>1, <4>1, <4>2 DEF Lines, Typed
    <3> QED BY <3>1, <3>2
  <2>7. ~(first' = 0)
    BY <2>2
  <2>8. CollectedInv'
    BY <1>1, <1>2, <1>7, <2>2, <2>4, <2>5, <2>6, <2>7 DEF CollectedInv
  <2> QED BY <1>4, <1>5, <2>8 DEF IInv
<1> QED BY <1>8, <1>9

LEMMA FinishIInv == IInv /\ Finish => IInv'
<1> SUFFICES ASSUME IInv, Finish
             PROVE  IInv'
  OBVIOUS
<1>1. Typed /\ pos > Len(text) /\ ~done /\ Len(text) \in Nat
  BY TextType DEF IInv, Typed, Finish
<1>2. /\ text' = text /\ pos' = pos /\ path' = path /\ first' = first /\ last' = last
      /\ done' = TRUE /\ sections' = Flushed
      /\ Lines' = Lines /\ Section' = Section /\ Current' = Current
  BY DEF Finish, Lines, Section, Current
<1>3. Typed'
  BY <1>1, <1>2, FlushKeeps DEF Typed
<1>4. \A i : IsHeading(i)' <=> IsHeading(i)
  BY <1>2 DEF IsHeading
<1>5. SectionsInv'
  BY <1>1, <1>2, FlushKeeps DEF SectionsInv, HeadingsStartSections, FiledUnder, IsHeading
<1>6. FiledUnder(Current) => FiledUnder(Current)'
  BY <1>2, <1>4 DEF FiledUnder
<1>7. \A i \in 1..(pos - 1) : text[i] # Blank => InSection(i)'
  BY <1>1, <1>2, FlushKeeps DEF InSection
<1>8. CollectedInv'
  BY <1>2, <1>6, <1>7 DEF IInv, CollectedInv
<1> QED BY <1>3, <1>5, <1>8 DEF IInv

-----------------------------------------------------------------------------
(* Headings of a text that skips no level.                                 *)

\* The path holds the last heading of every level that is open before pos,
\* and ends with the last heading of all.
PathInv ==
    /\ \A i \in DOMAIN path :
          /\ path[i] \in 1..(pos - 1) /\ text[path[i]] = i
          /\ \A g \in (path[i] + 1)..(pos - 1) : IsHeading(g) => text[g] > i
    /\ IF path = <<>>
       THEN \A g \in 1..(pos - 1) : ~IsHeading(g)
       ELSE \A g \in (path[Len(path)] + 1)..(pos - 1) : ~IsHeading(g)

PathOutlined == path # <<>> => IsOutline(path, path[Len(path)])

OutlineInv == Nested => PathInv /\ PathOutlined /\ PathIsOutline

\* The heading before pos is at most one level above it.
LEMMA NoLevelSkipped ==
    ASSUME Typed, Nested, PathInv, pos <= Len(text), IsHeading(pos)
    PROVE  text[pos] - 1 <= Len(path)
<1>1. /\ pos \in Lines /\ text[pos] \in Nat /\ path \in Seq(Lines) /\ Len(path) \in Nat
      /\ DOMAIN path = 1..Len(path)
  BY TextType, LenProperties DEF Typed, Lines, IsHeading
<1>2. CASE text[pos] = 1
  BY <1>1, <1>2
<1>3. CASE text[pos] > 1
  <2>1. PICK g \in 1..(pos - 1) : /\ IsHeading(g) /\ text[g] >= text[pos] - 1
                                  /\ \A i \in (g + 1)..(pos - 1) : ~IsHeading(i)
    BY <1>1, <1>3 DEF Nested, IsHeading
  <2>2. path # <<>> /\ Len(path) > 0
    BY <1>1, <2>1, EmptySeq DEF PathInv
  <2> DEFINE q == path[Len(path)]
  <2>3. /\ q \in 1..(pos - 1) /\ text[q] = Len(path)
        /\ \A i \in (q + 1)..(pos - 1) : ~IsHeading(i)
    BY <1>1, <2>2 DEF PathInv
  <2>4. IsHeading(q)
    BY <2>2, <2>3 DEF IsHeading
  <2> HIDE DEF q
  <2>5. q = g
    BY <1>1, <2>1, <2>3, <2>4 DEF Lines
  <2> QED BY <2>1, <2>3, <2>5
<1> QED BY <1>1, <1>2, <1>3 DEF IsHeading

\* The path under a heading has one heading of each level.
LEMMA PathWithInv ==
    ASSUME Typed, Nested, PathInv, pos <= Len(text), IsHeading(pos)
    PROVE  LET p == PathWith(pos) IN
           /\ p \in Seq(Lines) /\ Len(p) \in Nat \ {0} /\ p[Len(p)] = pos
           /\ Len(p) = text[pos]
           /\ \A i \in 1..Len(p) :
                 /\ p[i] \in 1..pos /\ text[p[i]] = i
                 /\ \A g \in (p[i] + 1)..pos : IsHeading(g) => text[g] > i
<1> DEFINE p == PathWith(pos)
<1>1. /\ p \in Seq(Lines) /\ Len(p) \in Nat /\ p[Len(p)] = pos
      /\ \A i \in 1..(Len(p) - 1) : p[i] = path[i]
      /\ Len(p) = text[pos] /\ text[pos] > 0
      /\ pos \in Nat /\ pos > 0
      /\ text[pos] - 1 <= Len(path)
      /\ DOMAIN path = 1..Len(path) /\ Len(path) \in Nat
  BY PathWithType, NoLevelSkipped, LenProperties DEF Typed, IsHeading
<1> HIDE DEF p
<1>2. ASSUME NEW i \in 1..Len(p)
      PROVE  /\ p[i] \in 1..pos /\ text[p[i]] = i
             /\ \A g \in (p[i] + 1)..pos : IsHeading(g) => text[g] > i
  <2>1. CASE i = Len(p)
    BY <1>1, <2>1
  <2>2. CASE i # Len(p)
    <3>1. i \in DOMAIN path /\ p[i] = path[i] /\ i < text[pos]
      BY <1>1, <2>2
    <3>2. /\ path[i] \in 1..(pos - 1) /\ text[path[i]] = i
          /\ \A g \in (path[i] + 1)..(pos - 1) : IsHeading(g) => text[g] > i
      BY <3>1 DEF PathInv
    <3>3. ASSUME NEW g \in (p[i] + 1)..pos, IsHeading(g)
          PROVE  text[g] > i
      BY <1>1, <3>1, <3>2, <3>3
    <3> QED BY <1>1, <3>1, <3>2, <3>3
  <2> QED BY <2>1, <2>2
<1> QED BY <1>1, <1>2 DEF p

\* Such a path is the outline that a reader sees above the heading.
LEMMA PathWithIsOutline ==
    ASSUME Typed, Nested, PathInv, pos <= Len(text), IsHeading(pos)
    PROVE  IsOutline(PathWith(pos), pos)
<1> DEFINE p == PathWith(pos)
<1>1. /\ p \in Seq(Lines) /\ Len(p) \in Nat \ {0} /\ p[Len(p)] = pos
      /\ Len(p) = text[pos] /\ DOMAIN p = 1..Len(p)
      /\ pos \in Nat /\ Len(text) \in Nat /\ pos \in 1..Len(text)
      /\ \A i \in 1..Len(text) : text[i] \in -1..MaxLevel /\ text[i] \in Int
  BY PathWithInv, LenProperties, TextType, MaxLevelAssumption DEF Typed
<1>2. \A i \in 1..Len(p) :
          /\ p[i] \in 1..pos /\ text[p[i]] = i
          /\ \A g \in (p[i] + 1)..pos : IsHeading(g) => text[g] > i
  BY PathWithInv
<1> HIDE DEF p
<1>3. \A i \in 1..Len(p) : i # Len(p) => p[i] # pos
  BY <1>1, <1>2
<1>4. ASSUME NEW i \in DOMAIN p
      PROVE  p[i] \in Above(pos) \cup {pos}
  BY <1>1, <1>2, <1>3 DEF Above, IsHeading
<1>5. ASSUME NEW g \in Above(pos) \cup {pos}
      PROVE  \E i \in DOMAIN p : p[i] = g
  <2>1. CASE g = pos
    BY <1>1, <2>1
  <2>2. CASE g # pos
    <3>1. /\ g \in 1..(pos - 1) /\ IsHeading(g)
          /\ \A i \in (g + 1)..pos : IsHeading(i) => text[g] < text[i]
      BY <2>2 DEF Above
    <3>2. text[g] \in 1..Len(p) /\ text[g] < text[pos]
      BY <1>1, <3>1 DEF IsHeading
    <3> DEFINE q == p[text[g]]
    <3>3. /\ q \in 1..pos /\ text[q] = text[g] /\ IsHeading(q)
          /\ \A h \in (q + 1)..pos : IsHeading(h) => text[h] > text[g]
          /\ text[g] \in DOMAIN p
      BY <1>1, <1>2, <3>1, <3>2 DEF IsHeading
    <3>7. p[text[g]] = q
      OBVIOUS
    <3> HIDE DEF q
    <3>4. ~(q < g)
      <4>1. q < g => g \in (q + 1)..pos
        BY <1>1, <3>1, <3>3
      <4>2. text[g] \in Int
        BY <3>2
      <4> QED BY <3>1, <3>3, <4>1, <4>2
    <3>5. ~(q > g)
      BY <1>1, <3>1, <3>3
    <3>6. q = g
      BY <1>1, <3>1, <3>3, <3>4, <3>5
    <3> QED BY <3>3, <3>6, <3>7
  <2> QED BY <2>1, <2>2
<1>6. ASSUME NEW i \in DOMAIN p, NEW j \in DOMAIN p, i < j
      PROVE  p[i] < p[j]
  <2>1. /\ p[i] \in 1..pos /\ p[j] \in 1..pos /\ text[p[i]] = i /\ text[p[j]] = j
        /\ IsHeading(p[i])
    BY <1>1, <1>2 DEF IsHeading
  <2>2. \A g \in (p[j] + 1)..pos : IsHeading(g) => text[g] > j
    BY <1>1, <1>2
  <2>3. ~(p[j] < p[i])
    BY <1>1, <1>6, <2>1, <2>2
  <2>4. p[i] # p[j]
    BY <1>1, <1>6, <2>1
  <2> QED BY <1>1, <2>1, <2>3, <2>4
<1>7. IsOutline(p, pos)
  BY <1>4, <1>5, <1>6 DEF IsOutline
<1> QED BY <1>7 DEF p

\* flush() files the lines collected under the outline of their heading.
LEMMA FlushOutlined ==
    ASSUME IInv, OutlineInv, Nested
    PROVE  \A k \in DOMAIN Flushed :
              Flushed[k].path # <<>> => IsOutline(Flushed[k].path, Flushed[k].first)
<1> DEFINE n == Len(sections)
<1>1. sections \in Seq(Section) /\ n \in Nat /\ DOMAIN sections = 1..n
  BY LenProperties DEF IInv, Typed
<1>2. CASE first = 0
  BY <1>2 DEF Flushed, OutlineInv, PathIsOutline
<1>3. CASE first # 0
  <2>1. /\ first \in Lines /\ last \in Lines /\ path \in Seq(Lines) /\ first > 0
        /\ FiledUnder(Current)
    BY <1>3, TextType DEF IInv, Typed, CollectedInv, Lines
  <2>2. Current \in Section /\ Flushed = Append(sections, Current)
    BY <1>3, <2>1 DEF Current, Section, Flushed
  <2>3. /\ DOMAIN Flushed = 1..(n + 1)
        /\ \A k \in 1..n : Flushed[k] = sections[k]
        /\ Flushed[n + 1] = Current
    BY <1>1, <2>2, AppendProperties, LenProperties
  <2>4. Current.path = path /\ Current.first = first
    BY DEF Current
  <2>5. path # <<>> => path[Len(path)] = first
    BY <2>1, <2>4 DEF FiledUnder
  <2>6. path # <<>> => IsOutline(path, first)
    BY <2>5 DEF OutlineInv, PathOutlined
  <2> HIDE DEF n
  <2>7. ASSUME NEW k \in DOMAIN Flushed, Flushed[k].path # <<>>
        PROVE  IsOutline(Flushed[k].path, Flushed[k].first)
    <3>1. CASE k = n + 1
      BY <2>3, <2>4, <2>6, <2>7, <3>1
    <3>2. CASE k # n + 1
      <4>1. k \in DOMAIN sections /\ Flushed[k] = sections[k]
        BY <1>1, <2>3, <3>2
      <4> QED BY <2>7, <4>1 DEF OutlineInv, PathIsOutline
    <3> QED BY <3>1, <3>2
  <2> QED BY <2>7
<1> QED BY <1>2, <1>3

LEMMA SameOutline ==
    ASSUME text' = text
    PROVE  /\ \A i : IsHeading(i)' <=> IsHeading(i)
           /\ Nested' <=> Nested
           /\ \A p, h : IsOutline(p, h)' <=> IsOutline(p, h)
BY DEF IsHeading, Nested, IsOutline, Above, Lines

LEMMA HeadingLineOutline == IInv /\ OutlineInv /\ HeadingLine => OutlineInv'
<1> SUFFICES ASSUME IInv, OutlineInv, HeadingLine, Nested
             PROVE  PathInv' /\ PathOutlined' /\ PathIsOutline'
  BY SameOutline DEF OutlineInv, HeadingLine
<1>1. /\ Typed /\ PathInv /\ pos <= Len(text) /\ IsHeading(pos)
      /\ text' = text /\ pos' = pos + 1
      /\ path' = PathWith(pos) /\ sections' = Flushed
      /\ pos \in Nat
  BY DEF IInv, OutlineInv, HeadingLine, Typed
<1>2. /\ path' \in Seq(Lines) /\ Len(path') \in Nat \ {0} /\ path'[Len(path')] = pos
      /\ DOMAIN path' = 1..Len(path') /\ path' # <<>>
      /\ \A i \in 1..Len(path') :
            /\ path'[i] \in 1..pos /\ text[path'[i]] = i
            /\ \A g \in (path'[i] + 1)..pos : IsHeading(g) => text[g] > i
  BY <1>1, PathWithInv, LenProperties, EmptySeq
<1>3. PathInv'
  BY <1>1, <1>2 DEF PathInv, IsHeading
<1>4. IsOutline(path', pos)
  BY <1>1, PathWithIsOutline
<1>5. PathOutlined'
  <2>1. IsOutline(path', path'[Len(path')])
    BY <1>2, <1>4
  <2> QED BY <1>1, <2>1 DEF PathOutlined, IsOutline, Above, IsHeading
<1>6. PathIsOutline'
  BY <1>1, FlushOutlined, SameOutline DEF PathIsOutline
<1> QED BY <1>3, <1>5, <1>6

LEMMA OtherLineOutline == IInv /\ OutlineInv /\ OtherLine => OutlineInv'
<1> SUFFICES ASSUME IInv, OutlineInv, OtherLine, Nested
             PROVE  PathInv' /\ UNCHANGED <<text, path, sections>>
  BY SameOutline DEF OutlineInv, OtherLine, PathOutlined, PathIsOutline
<1>1. /\ PathInv /\ ~IsHeading(pos) /\ pos \in Nat /\ pos > 0
      /\ text' = text /\ pos' = pos + 1 /\ path' = path /\ sections' = sections
      /\ path \in Seq(Lines) /\ DOMAIN path = 1..Len(path)
  BY LenProperties DEF IInv, Typed, OutlineInv, OtherLine
<1>2. \A i \in DOMAIN path :
          /\ path[i] \in 1..(pos' - 1) /\ text[path[i]] = i
          /\ \A g \in (path[i] + 1)..(pos' - 1) : IsHeading(g) => text[g] > i
  BY <1>1 DEF PathInv
<1>3. path = <<>> => \A g \in 1..(pos' - 1) : ~IsHeading(g)
  BY <1>1 DEF PathInv
<1>4. path # <<>> => \A g \in (path[Len(path)] + 1)..(pos' - 1) : ~IsHeading(g)
  <2> SUFFICES ASSUME path # <<>>
               PROVE  \A g \in (path[Len(path)] + 1)..(pos' - 1) : ~IsHeading(g)
    OBVIOUS
  <2>1. Len(path) \in DOMAIN path
    BY <1>1, EmptySeq, LenProperties
  <2>2. path[Len(path)] \in Int
    BY <1>1, <2>1 DEF PathInv
  <2> QED BY <1>1, <2>2 DEF PathInv
<1>5. PathInv'
  BY <1>1, <1>2, <1>3, <1>4 DEF PathInv, IsHeading
<1> QED BY <1>1, <1>5

LEMMA FinishOutline == IInv /\ OutlineInv /\ Finish => OutlineInv'
<1> SUFFICES ASSUME IInv, OutlineInv, Finish, Nested
             PROVE  PathIsOutline' /\ UNCHANGED <<text, pos, path>>
  BY SameOutline DEF OutlineInv, PathOutlined, Finish, PathInv
<1>1. text' = text /\ pos' = pos /\ path' = path /\ sections' = Flushed
  BY DEF Finish
<1>2. PathIsOutline'
  BY <1>1, FlushOutlined, SameOutline DEF PathIsOutline
<1> QED BY <1>1, <1>2

-----------------------------------------------------------------------------
(* The splitter.                                                           *)

SplitInv == IInv /\ OutlineInv

LEMMA FreshInv == Fresh /\ text \in Seq(-1..MaxLevel) => SplitInv
<1> SUFFICES ASSUME Fresh, text \in Seq(-1..MaxLevel)
             PROVE  SplitInv
  OBVIOUS
<1>1. DOMAIN path = {} /\ DOMAIN sections = {} /\ path = <<>> /\ pos = 1
  BY DEF Fresh
<1>2. PathInv /\ PathOutlined /\ PathIsOutline
  BY <1>1 DEF PathInv, PathOutlined, PathIsOutline
<1> QED BY <1>1, <1>2, FreshIInv DEF SplitInv, OutlineInv

LEMMA SplitKept == SplitInv /\ UNCHANGED vars => SplitInv'
<1> SUFFICES ASSUME SplitInv, UNCHANGED vars
             PROVE  SplitInv'
  OBVIOUS
<1>1. IInv'
  BY DEF vars, SplitInv, IInv, Typed, CollectedInv, SectionsInv, HeadingsStartSections,
         FiledUnder, Current, InSection, IsHeading, Lines, Section
<1>2. /\ text' = text /\ pos' = pos /\ path' = path /\ sections' = sections
  BY DEF vars
<1>3. PathInv => PathInv'
  BY <1>2 DEF PathInv, IsHeading
<1>4. PathIsOutline => PathIsOutline'
  BY <1>2, SameOutline DEF PathIsOutline
<1>5. OutlineInv'
  BY <1>2, <1>3, <1>4, SameOutline DEF SplitInv, OutlineInv, PathOutlined
<1> QED BY <1>1, <1>5 DEF SplitInv

LEMMA SplitNext == SplitInv /\ [Next]_vars => SplitInv'
BY SplitKept, HeadingLineIInv, OtherLineIInv, FinishIInv,
   HeadingLineOutline, OtherLineOutline, FinishOutline DEF SplitInv, Next

\* A text is split once, from its first line.
LEMMA SplitterInvariance == Spec => []SplitInv
<1>1. Init => SplitInv
  BY FreshInv, DocumentsAssumption DEF Init, Fresh
<1> QED BY <1>1, SplitNext, PTL DEF Spec

-----------------------------------------------------------------------------
(* A document.                                                             *)

LineType == [line : -1..MaxLevel, page : 0..Len(file.pages)]

DocumentTyped ==
    /\ file \in Files /\ provider \in Providers /\ stage \in Stages
    /\ page \in 1..(Len(file.pages) + 1) /\ attempt \in 1..MaxAttempts
    /\ lines \in Seq(LineType)

\* Page n has given a line if it can be read.
PageRead(ls, n) ==
    IF file.pages[n] = "legible"
    THEN \E i \in 1..Len(ls) : ls[i].page = n /\ ls[i].line # Blank
    ELSE \A i \in 1..Len(ls) : ls[i].page # n

\* What the pages before page p have given, after the text of the file: ls.
TextFirst(ls) ==
    /\ ls # <<>> => ls[1].line # Blank
    /\ Len(file.text) <= Len(ls)
    /\ \A i \in 1..Len(file.text) : ls[i] = Given(file.text[i])

InOrder(ls, p) ==
    /\ \A i \in 1..Len(ls) : ls[i].page < p
    /\ \A i, j \in 1..Len(ls) :
          i < j /\ ls[i].page # 0 /\ ls[j].page # 0 => ls[i].page < ls[j].page

AllRead(ls, p) == provider = "vision" => \A n \in 1..(p - 1) : PageRead(ls, n)

PagesInv(ls, p) == TextFirst(ls) /\ InOrder(ls, p) /\ AllRead(ls, p)

\* The text that is split is what the parser has returned, with all pages.
StageInv ==
    /\ stage \in {"parse", "ocr"} => Fresh /\ text = <<>>
    /\ stage = "parse" => page = 1
    /\ stage \in {"ocr", "split", "done"} => PagesInv(lines, page)
    /\ stage \in {"split", "done"} =>
          /\ lines # <<>>
          /\ text = [i \in 1..Len(lines) |-> lines[i].line]
          /\ file.dense \/ page = Len(file.pages) + 1
    /\ stage = "done" <=> done
    /\ stage = "done" => sections # <<>>

FileInv == DocumentTyped /\ StageInv /\ SplitInv

LEMMA FileTypes ==
    ASSUME DocumentTyped
    PROVE  /\ file \in FileType
           /\ file.text \in Seq(-1..MaxLevel) /\ Len(file.text) \in Nat
           /\ DOMAIN file.text = 1..Len(file.text)
           /\ \A i \in 1..Len(file.text) : file.text[i] \in -1..MaxLevel
           /\ Len(file.pages) \in Nat /\ DOMAIN file.pages = 1..Len(file.pages)
           /\ Len(lines) \in Nat /\ DOMAIN lines = 1..Len(lines)
           /\ \A i \in 1..Len(lines) : lines[i] \in LineType
<1>1. /\ file \in FileType
      /\ file.text \in Seq(-1..MaxLevel) /\ file.pages \in Seq(PageKinds)
      /\ lines \in Seq(LineType)
  BY FilesAssumption DEF DocumentTyped, FileType
<1>2. /\ Len(file.text) \in Nat /\ DOMAIN file.text = 1..Len(file.text)
      /\ \A i \in 1..Len(file.text) : file.text[i] \in -1..MaxLevel
  BY <1>1, LenProperties, ElementOfSeq
<1>3. Len(file.pages) \in Nat /\ DOMAIN file.pages = 1..Len(file.pages)
  BY <1>1, LenProperties
<1>4. /\ Len(lines) \in Nat /\ DOMAIN lines = 1..Len(lines)
      /\ \A i \in 1..Len(lines) : lines[i] \in LineType
  BY <1>1, LenProperties, ElementOfSeq
<1> QED BY <1>1, <1>2, <1>3, <1>4

\* The text that MarkItDown finds, before the first page.
LEMMA ConvertedPages ==
    ASSUME DocumentTyped
    PROVE  Converted \in Seq(LineType) /\ PagesInv(Converted, 1)
<1> DEFINE n == Len(file.text)
<1>1. /\ n \in Nat /\ Converted = [i \in 1..n |-> Given(file.text[i])]
      /\ \A i \in 1..n : Given(file.text[i]) \in LineType
      /\ \A i \in 1..n : Given(file.text[i]).page = 0
  BY FileTypes DEF Converted, Given, LineType
<1>2. Converted \in Seq(LineType) /\ Len(Converted) = n
  BY <1>1, IsASeq, LenProperties
<1>3. n > 0 => Converted[1].line # Blank
  BY <1>1, FilesAssumption, EmptySeq DEF DocumentTyped, Given
<1>4. Converted # <<>> => n > 0
  BY <1>1, <1>2, EmptySeq
<1> HIDE DEF n
<1>5. PagesInv(Converted, 1)
  BY <1>1, <1>2, <1>3, <1>4 DEF PagesInv, TextFirst, InOrder, AllRead, n
<1> QED BY <1>2, <1>5

\* What a request adds: one line of its page, after lines that no request gave.
LEMMA PartIs ==
    ASSUME NEW n \in 0..Len(file.pages), NEW line \in -1..MaxLevel
    PROVE  LET new == Part(n, line) IN
           /\ new \in Seq(LineType) /\ Len(new) \in Nat \ {0}
           /\ \A i \in 1..(Len(new) - 1) : new[i].page = 0
           /\ new[Len(new)] = [line |-> line, page |-> n]
           /\ lines = <<>> => new[1].line \in {Plain, line}
<1> DEFINE Filler == {g \in LineType : g.page = 0}
           a == IF lines = <<>> THEN <<>> ELSE <<Given(Blank)>>
           b == IF file.kind = "pdf" THEN <<Given(Plain)>> ELSE <<>>
           r == [line |-> line, page |-> n]
           ab == a \o b
<1>1. Given(Blank) \in Filler /\ Given(Plain) \in Filler /\ r \in LineType
  <2>1. 0 \in 0..Len(file.pages) /\ -1 \in -1..MaxLevel /\ 0 \in -1..MaxLevel
    BY MaxLevelAssumption
  <2> QED BY <2>1 DEF Given, Blank, Plain, LineType
<1>2. Part(n, line) = ab \o <<r>>
  BY DEF Part
<1>13. Filler \subseteq LineType
  OBVIOUS
<1> HIDE DEF Filler
<1>3. a \in Seq(Filler) /\ b \in Seq(Filler)
  <2>1. \A g \in Filler : <<g>> \in Seq(Filler)
    OBVIOUS
  <2> QED BY <1>1, <2>1, EmptySeq
<1>4. ab \in Seq(Filler) /\ Len(ab) \in Nat /\ ab \in Seq(LineType)
  <2>1. ab \in Seq(Filler)
    BY <1>3, ConcatProperties
  <2> HIDE DEF ab
  <2> QED BY <1>13, <2>1, LenProperties, SeqMonotonic
<1>5. \A i \in 1..Len(ab) : ab[i].page = 0
  <2> HIDE DEF ab
  <2> QED BY <1>4, ElementOfSeq DEF Filler
<1>6. lines = <<>> => Len(ab) = 0 \/ ab[1] = Given(Plain)
  <2>1. lines = <<>> => ab = b
    BY <1>3, ConcatEmptySeq
  <2>2. b = <<>> \/ b = <<Given(Plain)>>
    OBVIOUS
  <2> HIDE DEF ab, b
  <2> QED BY <2>1, <2>2
<1> DEFINE new == Append(ab, r)
<1>7. Part(n, line) = new
  <2> HIDE DEF ab, r
  <2> QED BY <1>1, <1>2, <1>4, AppendIsConcat
<1>8. /\ new \in Seq(LineType) /\ Len(new) = Len(ab) + 1
      /\ \A i \in 1..Len(ab) : new[i] = ab[i]
      /\ new[Len(ab) + 1] = r
  <2> HIDE DEF ab, r
  <2> QED BY <1>1, <1>4, AppendProperties
<1>9. Given(Plain).line = Plain /\ r.line = line
  BY DEF Given
<1> HIDE DEF new, ab, r
<1>10. lines = <<>> => new[1].line \in {Plain, line}
  BY <1>4, <1>6, <1>8, <1>9
<1>11. \A i \in 1..(Len(new) - 1) : new[i].page = 0
  BY <1>4, <1>5, <1>8
<1>12. new[Len(new)] = [line |-> line, page |-> n]
  BY <1>8 DEF r
<1> QED BY <1>4, <1>7, <1>8, <1>10, <1>11, <1>12

\* A page whose answer is added to the text.
LEMMA PartKept ==
    ASSUME DocumentTyped, PagesInv(lines, page), page <= Len(file.pages),
           provider = "vision" => file.pages[page] = "legible",
           NEW line \in {Plain, 1}
    PROVE  /\ lines \o Part(page, line) \in Seq(LineType)
           /\ PagesInv(lines \o Part(page, line), page + 1)
<1> DEFINE new == Part(page, line)
           all == lines \o new
           n == Len(lines)
<1>1. /\ page \in Nat \ {0} /\ page \in 0..Len(file.pages) /\ line \in -1..MaxLevel
      /\ n \in Nat /\ lines \in Seq(LineType) /\ Len(file.text) \in Nat
      /\ \A i \in 1..n : lines[i].page \in Nat
  BY FileTypes, MaxLevelAssumption DEF DocumentTyped, Plain, LineType
<1>2. /\ new \in Seq(LineType) /\ Len(new) \in Nat \ {0}
      /\ \A i \in 1..(Len(new) - 1) : new[i].page = 0
      /\ new[Len(new)].page = page /\ new[Len(new)].line = line
      /\ lines = <<>> => new[1].line \in {Plain, line}
  <2>1. /\ new \in Seq(LineType) /\ Len(new) \in Nat \ {0}
        /\ \A i \in 1..(Len(new) - 1) : new[i].page = 0
        /\ new[Len(new)] = [line |-> line, page |-> page]
        /\ lines = <<>> => new[1].line \in {Plain, line}
    BY <1>1, PartIs
  <2> QED BY <2>1
<1> HIDE DEF new
<1>3. /\ all \in Seq(LineType) /\ Len(all) = n + Len(new)
      /\ \A i \in 1..(n + Len(new)) : all[i] = IF i <= n THEN lines[i] ELSE new[i - n]
  BY <1>1, <1>2, ConcatProperties
<1> HIDE DEF all, n
<1>4. /\ \A i \in 1..n : all[i] = lines[i]
      /\ \A i \in (n + 1)..(Len(all) - 1) : all[i].page = 0
      /\ all[Len(all)].page = page /\ all[Len(all)].line = line
      /\ Len(all) \in 1..Len(all) /\ Len(all) > n /\ Len(all) \in Nat
  <2>1. \A i \in 1..n : all[i] = lines[i]
    BY <1>1, <1>2, <1>3
  <2>2. ASSUME NEW i \in (n + 1)..(Len(all) - 1)
        PROVE  all[i].page = 0
    <3>1. all[i] = new[i - n] /\ i - n \in 1..(Len(new) - 1)
      BY <1>1, <1>2, <1>3
    <3> QED BY <1>2, <3>1
  <2>3. all[Len(all)] = new[Len(new)]
    BY <1>1, <1>2, <1>3
  <2> QED BY <1>1, <1>2, <1>3, <2>1, <2>2, <2>3
<1>5. /\ lines # <<>> => lines[1].line # Blank
      /\ Len(file.text) <= n
      /\ \A i \in 1..Len(file.text) : lines[i] = Given(file.text[i])
      /\ \A i \in 1..n : lines[i].page < page
      /\ \A i, j \in 1..n :
            i < j /\ lines[i].page # 0 /\ lines[j].page # 0 => lines[i].page < lines[j].page
  BY DEF PagesInv, TextFirst, InOrder, n
<1>6. all[1].line # Blank
  <2>1. CASE lines = <<>>
    <3>1. n = 0 /\ all[1] = new[1]
      BY <1>1, <1>2, <1>3, <2>1, EmptySeq DEF n
    <3> QED BY <1>2, <2>1, <3>1 DEF Plain, Blank
  <2>2. CASE lines # <<>>
    <3>1. n > 0
      BY <1>1, <2>2, EmptySeq DEF n
    <3> QED BY <1>1, <1>4, <1>5, <2>2, <3>1
  <2> QED BY <2>1, <2>2
<1>7. \A i \in 1..Len(all) : all[i].page < page + 1
  <2> TAKE i \in 1..Len(all)
  <2>1. CASE i \in 1..n
    BY <1>1, <1>4, <1>5, <2>1
  <2>2. CASE i \in (n + 1)..(Len(all) - 1)
    BY <1>1, <1>4, <2>2
  <2>3. CASE i = Len(all)
    BY <1>1, <1>4, <2>3
  <2> QED BY <1>1, <1>4, <2>1, <2>2, <2>3
<1>8. ASSUME NEW i \in 1..Len(all), NEW j \in 1..Len(all),
             i < j, all[i].page # 0, all[j].page # 0
      PROVE  all[i].page < all[j].page
  <2>1. i \in 1..n
    BY <1>1, <1>4, <1>8
  <2>2. CASE j \in 1..n
    BY <1>4, <1>5, <1>8, <2>1, <2>2
  <2>3. CASE j = Len(all)
    BY <1>4, <1>5, <2>1, <2>3
  <2> QED BY <1>1, <1>4, <1>8, <2>2, <2>3
<1>9. ASSUME provider = "vision", NEW m \in 1..(page + 1 - 1)
      PROVE  PageRead(all, m)
  <2>1. CASE m = page
    <3>1. line # Blank
      BY DEF Plain, Blank
    <3> QED BY <1>4, <1>9, <2>1, <3>1 DEF PageRead
  <2>2. CASE m # page
    <3>1. m \in 1..(page - 1)
      BY <1>1, <2>2
    <3>2. CASE file.pages[m] = "legible"
      <4>1. PICK i \in 1..n : lines[i].page = m /\ lines[i].line # Blank
        BY <1>9, <3>1, <3>2 DEF PagesInv, AllRead, PageRead, n
      <4>2. i \in 1..Len(all) /\ all[i] = lines[i]
        BY <1>1, <1>4
      <4> QED BY <3>2, <4>1, <4>2 DEF PageRead
    <3>3. CASE file.pages[m] # "legible"
      <4>1. \A i \in 1..n : lines[i].page # m
        BY <1>9, <3>1, <3>3 DEF PagesInv, AllRead, PageRead, n
      <4>2. \A i \in 1..Len(all) : all[i].page # m
        <5> TAKE i \in 1..Len(all)
        <5>1. i \in 1..n \/ i \in (n + 1)..(Len(all) - 1) \/ i = Len(all)
          BY <1>1, <1>4
        <5> QED BY <1>4, <2>2, <3>1, <4>1, <5>1
      <4> QED BY <3>3, <4>2 DEF PageRead
    <3> QED BY <3>2, <3>3
  <2> QED BY <2>1, <2>2
<1>10. PagesInv(all, page + 1)
  <2>1. Len(file.text) <= Len(all)
    BY <1>1, <1>4, <1>5
  <2>2. \A i \in 1..Len(file.text) : all[i] = Given(file.text[i])
    BY <1>1, <1>4, <1>5
  <2>3. TextFirst(all)
    BY <1>6, <2>1, <2>2 DEF TextFirst
  <2>4. InOrder(all, page + 1)
    BY <1>7, <1>8 DEF InOrder
  <2>5. AllRead(all, page + 1)
    BY <1>1, <1>9 DEF AllRead
  <2> QED BY <2>3, <2>4, <2>5 DEF PagesInv
<1> QED BY <1>3, <1>10 DEF all, new

\* A page that is passed over, or whose answer is not used.
LEMMA PageSkipped ==
    ASSUME DocumentTyped, PagesInv(lines, page), page <= Len(file.pages),
           provider = "vision" => file.pages[page] # "legible"
    PROVE  PagesInv(lines, page + 1)
<1>1. /\ page \in Nat \ {0} /\ Len(lines) \in Nat
      /\ \A i \in 1..Len(lines) : lines[i].page \in Nat /\ lines[i].page < page
  BY FileTypes DEF DocumentTyped, LineType, PagesInv, InOrder
<1>2. \A i \in 1..Len(lines) : lines[i].page < page + 1 /\ lines[i].page # page
  BY <1>1
<1>3. ASSUME provider = "vision", NEW n \in 1..(page + 1 - 1)
      PROVE  PageRead(lines, n)
  <2>1. CASE n = page
    BY <1>2, <1>3, <2>1 DEF PageRead
  <2>2. CASE n # page
    <3>1. n \in 1..(page - 1)
      BY <1>1, <2>2
    <3> QED BY <1>3, <3>1 DEF PagesInv, AllRead
  <2> QED BY <2>1, <2>2
<1>4. \A i \in 1..Len(lines) : lines[i].page < page + 1
  BY <1>2
<1>5. InOrder(lines, page + 1)
  BY <1>4 DEF PagesInv, InOrder
<1>6. AllRead(lines, page + 1)
  BY <1>1, <1>3 DEF AllRead
<1> QED BY <1>5, <1>6 DEF PagesInv

LEMMA FreshInvNext == (Fresh /\ text \in Seq(-1..MaxLevel) => SplitInv)'
BY FreshInv, PTL

\* The parser returns: the splitter has its first line before it, or the run
\* has failed.
LEMMA DeliverKeeps ==
    ASSUME FileInv, stage \in {"parse", "ocr"},
           NEW parsed \in Seq(LineType), Deliver(parsed), PagesInv(parsed, page),
           file.dense \/ page = Len(file.pages) + 1,
           UNCHANGED <<file, provider, page, attempt, pos, path, first, last, sections, done>>
    PROVE  FileInv'
<1>1. /\ Fresh /\ DocumentTyped
      /\ file' = file /\ provider' = provider /\ page' = page /\ attempt' = attempt
      /\ pos' = pos /\ path' = path /\ first' = first /\ last' = last
      /\ sections' = sections /\ done' = done
      /\ lines' = parsed /\ text' = [i \in DOMAIN parsed |-> parsed[i].line]
      /\ stage' = IF parsed = <<>> THEN "failed" ELSE "split"
  BY DEF FileInv, StageInv, Deliver
<1>2. /\ Len(parsed) \in Nat /\ DOMAIN parsed = 1..Len(parsed)
      /\ \A i \in 1..Len(parsed) : parsed[i].line \in -1..MaxLevel
  <2>1. \A i \in 1..Len(parsed) : parsed[i] \in LineType
    BY ElementOfSeq
  <2> QED BY <2>1, LenProperties DEF LineType
<1>3. text' \in Seq(-1..MaxLevel)
  BY <1>1, <1>2, IsASeq
<1>4. Fresh'
  BY <1>1 DEF Fresh
<1>5. SplitInv'
  BY <1>3, <1>4, FreshInvNext
<1>6. DocumentTyped'
  BY <1>1 DEF DocumentTyped, LineType, Stages
<1>7. StageInv'
  BY <1>1, <1>2, <1>4 DEF StageInv, PagesInv, TextFirst, InOrder, AllRead, PageRead, Given, Fresh
<1> QED BY <1>5, <1>6, <1>7 DEF FileInv

\* A step of the parser that does not return.
LEMMA ParserKeeps ==
    ASSUME FileInv, stage \in {"parse", "ocr"}, UNCHANGED vars,
           file' = file, provider' = provider, stage' \in {"ocr", "failed"},
           page' \in 1..(Len(file.pages) + 1), attempt' \in 1..MaxAttempts,
           lines' \in Seq(LineType),
           stage' = "ocr" => PagesInv(lines', page')
    PROVE  FileInv'
<1>1. /\ Fresh /\ text = <<>> /\ DocumentTyped /\ ~done
      /\ text' = text /\ pos' = pos /\ path' = path /\ first' = first /\ last' = last
      /\ sections' = sections /\ done' = done
  BY DEF FileInv, StageInv, vars, Fresh
<1>2. SplitInv'
  BY SplitKept DEF FileInv
<1>3. DocumentTyped'
  BY <1>1 DEF DocumentTyped, LineType, Stages
<1>4. StageInv'
  BY <1>1 DEF StageInv, PagesInv, TextFirst, InOrder, AllRead, PageRead, Given, Fresh
<1> QED BY <1>2, <1>3, <1>4 DEF FileInv

LEMMA FileInitKeeps == FileInit => FileInv
<1> SUFFICES ASSUME FileInit
             PROVE  FileInv
  OBVIOUS
<1>1. Fresh /\ text = <<>> /\ lines = <<>> /\ page = 1 /\ attempt = 1 /\ stage = "parse"
      /\ file \in Files /\ provider \in Providers
  BY DEF FileInit, Fresh
<1>2. SplitInv
  BY <1>1, FreshInv, EmptySeq
<1>3. Len(file.pages) \in Nat
  BY <1>1, FilesAssumption, LenProperties DEF FileType
<1>4. DocumentTyped
  BY <1>1, <1>3, EmptySeq, MaxAttemptsAssumption DEF DocumentTyped, Stages
<1>5. StageInv
  BY <1>1 DEF StageInv, Fresh
<1> QED BY <1>2, <1>4, <1>5 DEF FileInv

\* A line is split, the stage stays.
LEMMA SplitLineKeeps == FileInv /\ SplitLine => FileInv'
<1> SUFFICES ASSUME FileInv, SplitLine
             PROVE  FileInv'
  OBVIOUS
<1>1. /\ file' = file /\ provider' = provider /\ stage' = stage /\ page' = page
      /\ attempt' = attempt /\ lines' = lines
      /\ stage = "split" /\ text' = text /\ done' = done
  BY DEF SplitLine, runVars, HeadingLine, OtherLine
<1>2. SplitInv'
  BY SplitNext DEF FileInv, SplitLine, Next
<1>3. DocumentTyped'
  BY <1>1 DEF FileInv, DocumentTyped, LineType
<1>4. StageInv'
  BY <1>1 DEF FileInv, StageInv, PagesInv, TextFirst, InOrder, AllRead, PageRead, Given
<1> QED BY <1>2, <1>3, <1>4 DEF FileInv

\* A text that is not empty has a line that is not blank, hence a section.
LEMMA SplitEndsKeeps == FileInv /\ SplitEnds => FileInv' /\ stage' = "done"
<1> SUFFICES ASSUME FileInv, SplitEnds
             PROVE  FileInv' /\ stage' = "done"
  OBVIOUS
<1>1. /\ file' = file /\ provider' = provider /\ page' = page
      /\ attempt' = attempt /\ lines' = lines
      /\ stage' = IF sections' = <<>> THEN "failed" ELSE "done"
      /\ stage = "split" /\ text' = text /\ done' = TRUE /\ sections' = Flushed
      /\ ~done /\ pos > Len(text)
      /\ DocumentTyped /\ IInv
  BY DEF FileInv, SplitInv, SplitEnds, Finish
<1>2. SplitInv'
  BY SplitNext DEF FileInv, SplitEnds, Next
<1>3. sections' # <<>>
  <2>1. /\ lines # <<>> /\ lines[1].line # Blank
        /\ text = [i \in 1..Len(lines) |-> lines[i].line]
    BY <1>1 DEF FileInv, StageInv, PagesInv, TextFirst
  <2>2. Len(lines) \in Nat /\ Len(lines) > 0
    BY <1>1, <2>1, FileTypes, EmptySeq DEF DocumentTyped
  <2>3. Len(text) = Len(lines) /\ text[1] # Blank /\ pos \in Nat
    BY <1>1, <2>1, <2>2, LenProperties DEF IInv, Typed
  <2>4. \E k \in DOMAIN Flushed : Flushed[k].first <= 1 /\ 1 <= Flushed[k].last
    BY <1>1, <2>2, <2>3, FlushKeeps
  <2> QED BY <1>1, <2>4
<1>4. DocumentTyped'
  BY <1>1 DEF DocumentTyped, LineType, Stages
<1>5. StageInv'
  BY <1>1, <1>3 DEF FileInv, StageInv, PagesInv, TextFirst, InOrder, AllRead, PageRead, Given
<1> QED BY <1>1, <1>2, <1>3, <1>4, <1>5 DEF FileInv

LEMMA FileStep == FileInv /\ FileNext => FileInv'
<1> SUFFICES ASSUME FileInv, FileNext
             PROVE  FileInv'
  OBVIOUS
<1>1. /\ DocumentTyped /\ StageInv /\ SplitInv
      /\ file \in FileType /\ Len(file.pages) \in Nat
      /\ page \in Nat \ {0} /\ page <= Len(file.pages) + 1
      /\ attempt \in 1..MaxAttempts /\ 1 \in 1..MaxAttempts
      /\ lines \in Seq(LineType)
  BY FileTypes, MaxAttemptsAssumption DEF FileInv, DocumentTyped
<1>2. ASSUME stage = "ocr"
      PROVE  PagesInv(lines, page)
  BY <1>1, <1>2 DEF StageInv
<1>3. CASE ConvertFile
  <2>1. stage = "parse" /\ page = 1 /\ Deliver(Converted)
    BY <1>1, <1>3 DEF ConvertFile, StageInv
  <2>2. file.dense \/ page = Len(file.pages) + 1
    <3>1. CASE file.kind = "other"
      BY <1>1, <2>1, <3>1, FilesAssumption, EmptySeq DEF DocumentTyped
    <3> QED BY <1>3, <3>1 DEF ConvertFile
  <2>3. Converted \in Seq(LineType) /\ PagesInv(Converted, page)
    BY <1>1, <2>1, ConvertedPages
  <2>4. UNCHANGED <<file, provider, page, attempt, pos, path, first, last, sections, done>>
    BY <1>3 DEF ConvertFile
  <2> QED BY <2>1, <2>2, <2>3, <2>4, DeliverKeeps
<1>4. CASE ConvertFails
  BY <1>1, <1>4, ParserKeeps DEF ConvertFails
<1>5. CASE StartOcr
  <2>1. page = 1
    BY <1>1, <1>5 DEF StartOcr, StageInv
  <2>2. Converted \in Seq(LineType) /\ PagesInv(Converted, page)
    BY <1>1, <2>1, ConvertedPages
  <2> QED BY <1>1, <1>5, <2>2, ParserKeeps DEF StartOcr
<1>6. CASE SkipPage
  <2>1. PagesInv(lines, page + 1)
    BY <1>1, <1>2, <1>6, PageSkipped DEF SkipPage, OcrAt
  <2>2. page + 1 \in 1..(Len(file.pages) + 1)
    BY <1>1, <1>6 DEF SkipPage, OcrAt
  <2> QED BY <1>1, <1>6, <2>1, <2>2, ParserKeeps DEF SkipPage, OcrAt, NextPage
<1>7. CASE OcrAnswers
  <2>1. /\ stage = "ocr" /\ stage' = stage /\ page <= Len(file.pages)
        /\ page' = page + 1 /\ attempt' = 1
        /\ page + 1 \in 1..(Len(file.pages) + 1)
        /\ UNCHANGED vars /\ file' = file /\ provider' = provider
    BY <1>1, <1>7 DEF OcrAnswers, OcrAt, NextPage
  <2>2. lines' \in Seq(LineType) /\ PagesInv(lines', page + 1)
    <3>1. ASSUME provider = "vision" => file.pages[page] = "legible",
                 NEW line \in {Plain, 1}, lines' = lines \o Part(page, line)
          PROVE  lines' \in Seq(LineType) /\ PagesInv(lines', page + 1)
      BY <1>1, <1>2, <2>1, <3>1, PartKept
    <3>2. ASSUME provider = "vision", file.pages[page] = "noise", lines' = lines
          PROVE  lines' \in Seq(LineType) /\ PagesInv(lines', page + 1)
      BY <1>1, <1>2, <2>1, <3>2, PageSkipped
    <3> QED BY <1>7, <3>1, <3>2 DEF OcrAnswers
  <2> QED BY <1>1, <2>1, <2>2, ParserKeeps
<1>8. CASE OcrRaises
  <2>1. /\ stage = "ocr" /\ stage' \in {"ocr", "failed"} /\ attempt' \in 1..MaxAttempts
        /\ UNCHANGED <<vars, file, provider, page, lines>>
    BY <1>1, <1>8, MaxAttemptsAssumption DEF OcrRaises, OcrAt
  <2> QED BY <1>1, <1>2, <2>1, ParserKeeps
<1>9. CASE OcrEnds
  <2>1. stage = "ocr" /\ page = Len(file.pages) + 1 /\ Deliver(lines)
    BY <1>1, <1>9 DEF OcrEnds
  <2>2. UNCHANGED <<file, provider, page, attempt, pos, path, first, last, sections, done>>
    BY <1>9 DEF OcrEnds
  <2> QED BY <1>1, <1>2, <2>1, <2>2, DeliverKeeps
<1>10. CASE PageRaises
  BY <1>1, <1>2, <1>10, ParserKeeps DEF PageRaises, OcrAt
<1> QED BY <1>3, <1>4, <1>5, <1>6, <1>7, <1>8, <1>9, <1>10,
          SplitLineKeeps, SplitEndsKeeps DEF FileNext

LEMMA FileInvariance == FileSpec => []FileInv
<1>1. FileInv /\ UNCHANGED <<vars, runVars>> => FileInv'
  <2> SUFFICES ASSUME FileInv, UNCHANGED <<vars, runVars>>
               PROVE  FileInv'
    OBVIOUS
  <2>1. /\ file' = file /\ provider' = provider /\ stage' = stage /\ page' = page
        /\ attempt' = attempt /\ lines' = lines
        /\ text' = text /\ pos' = pos /\ path' = path /\ first' = first /\ last' = last
        /\ sections' = sections /\ done' = done /\ UNCHANGED vars
    BY DEF vars, runVars
  <2>2. SplitInv' /\ DocumentTyped'
    BY <2>1, SplitKept DEF FileInv, DocumentTyped, LineType
  <2>3. StageInv'
    BY <2>1 DEF FileInv, StageInv, Fresh, PagesInv, TextFirst, InOrder, AllRead, PageRead, Given
  <2> QED BY <2>2, <2>3 DEF FileInv
<1>2. FileInv /\ [FileNext]_<<vars, runVars>> => FileInv'
  BY <1>1, FileStep
<1> QED BY <1>2, FileInitKeeps, PTL DEF FileSpec

-----------------------------------------------------------------------------
(* The splitter by itself, or as the last stage of a document.             *)

LEMMA Invariance == Spec \/ FileSpec => []SplitInv
<1>1. FileInv => SplitInv
  BY DEF FileInv
<1> QED BY <1>1, SplitterInvariance, FileInvariance, PTL

\* However long a text is, splitting loses, repeats and reorders no line.
THEOREM NothingLost == Spec \/ FileSpec => []LinesKept
<1>1. SplitInv => LinesKept
  <2> SUFFICES ASSUME IInv, done
               PROVE  LinesKept
    BY DEF SplitInv, LinesKept
  <2>1. Len(text) \in Nat /\ pos = Len(text) + 1
    BY TextType DEF IInv, Typed
  <2>2. \A i \in Lines : text[i] # Blank => InSection(i)
    BY <2>1 DEF IInv, CollectedInv, Lines
  <2> QED BY <2>2 DEF IInv, SectionsInv, LinesKept, InSection
<1> QED BY <1>1, Invariance, PTL

\* Every heading starts a section that is filed under it.
THEOREM Filing == Spec \/ FileSpec => []HeadingsStartSections
<1>1. SplitInv => HeadingsStartSections
  BY DEF SplitInv, IInv, SectionsInv
<1> QED BY <1>1, Invariance, PTL

\* Where no level is skipped, heading_path is the outline above the section.
THEOREM Outlines == Spec \/ FileSpec => []NestedPathIsOutline
<1>1. SplitInv => NestedPathIsOutline
  BY DEF SplitInv, OutlineInv, NestedPathIsOutline
<1> QED BY <1>1, Invariance, PTL

\* Every variable keeps its type; no path is longer than there are levels.
THEOREM Typing == Spec => []TypeOK
<1>1. SplitInv /\ text \in Documents => TypeOK
  BY DEF SplitInv, IInv, Typed, TypeOK
<1>2. text \in Documents /\ [Next]_vars => (text \in Documents)'
  BY DEF Next, HeadingLine, OtherLine, Finish, vars
<1>3. Init => text \in Documents
  BY DEF Init
<1> QED BY <1>1, <1>2, <1>3, SplitterInvariance, PTL DEF Spec

\* Every variable of a document keeps its type.
THEOREM DocumentTyping == FileSpec => []StagesTypeOK
<1>1. FileInv => StagesTypeOK
  BY FileTypes DEF FileInv, DocumentTyped, LineType, SplitInv, IInv, Typed, StagesTypeOK
<1> QED BY <1>1, FileInvariance, PTL

\* A run goes on with at least one section, and a text once split does not
\* fail it: the fallback for a text without sections is never reached.
THEOREM SectionsFound == FileSpec => []NonEmptyTextHasSections
<1>1. FileInv => NonEmptyTextHasSections
  BY DEF FileInv, StageInv, NonEmptyTextHasSections
<1> QED BY <1>1, FileInvariance, PTL

\* Whichever requests fail and are repeated, a scanned document with any
\* number of pages is indexed whole and in the order of its pages, or not at all.
THEOREM PagesKept == FileSpec => []ScannedPagesKept
<1>1. FileInv => ScannedPagesKept
  <2> SUFFICES ASSUME FileInv, stage = "done", provider = "vision"
               PROVE  /\ \A i \in DOMAIN file.text : text[i] = file.text[i]
                      /\ file.dense \/ \A n \in DOMAIN file.pages :
                             IF file.pages[n] = "legible"
                             THEN \E i \in ReadFrom(n) : ReadFrom(n) = {i} /\ InSection(i)
                             ELSE ReadFrom(n) = {}
                      /\ \A i, j \in DOMAIN lines :
                             i < j /\ lines[i].page # 0 /\ lines[j].page # 0 =>
                                 lines[i].page < lines[j].page
    BY DEF ScannedPagesKept
  <2>1. /\ DOMAIN lines = 1..Len(lines) /\ Len(lines) \in Nat
        /\ \A i \in 1..Len(lines) : lines[i].page \in Nat
        /\ DOMAIN file.text = 1..Len(file.text) /\ Len(file.text) \in Nat
        /\ DOMAIN file.pages = 1..Len(file.pages) /\ Len(file.pages) \in Nat
    BY FileTypes DEF FileInv, LineType
  <2>2. /\ done /\ text = [i \in 1..Len(lines) |-> lines[i].line]
        /\ TextFirst(lines) /\ InOrder(lines, page) /\ AllRead(lines, page)
        /\ file.dense \/ page = Len(file.pages) + 1
    BY DEF FileInv, StageInv, PagesInv
  <2>3. ASSUME NEW i \in DOMAIN file.text
        PROVE  text[i] = file.text[i]
    <3>1. i \in 1..Len(lines) /\ lines[i] = Given(file.text[i])
      BY <2>1, <2>2 DEF TextFirst
    <3> QED BY <2>2, <3>1 DEF Given
  <2>4. ASSUME ~file.dense, NEW n \in DOMAIN file.pages
        PROVE  IF file.pages[n] = "legible"
               THEN \E i \in ReadFrom(n) : ReadFrom(n) = {i} /\ InSection(i)
               ELSE ReadFrom(n) = {}
    <3>1. PageRead(lines, n) /\ n # 0 /\ n \in Nat
      BY <2>1, <2>2, <2>4 DEF AllRead
    <3>2. CASE file.pages[n] # "legible"
      BY <2>1, <3>1, <3>2 DEF PageRead, ReadFrom
    <3>3. CASE file.pages[n] = "legible"
      <4>1. PICK i \in 1..Len(lines) : lines[i].page = n /\ lines[i].line # Blank
        BY <3>1, <3>3 DEF PageRead
      <4>2. ASSUME NEW j \in 1..Len(lines), lines[j].page = n
            PROVE  j = i
        BY <2>1, <2>2, <3>1, <4>1, <4>2 DEF InOrder
      <4>3. i \in ReadFrom(n) /\ ReadFrom(n) = {i}
        BY <2>1, <4>1, <4>2 DEF ReadFrom
      <4>4. InSection(i)
        <5>1. IInv /\ pos = Len(text) + 1 /\ Len(text) = Len(lines)
          BY <2>1, <2>2, LenProperties DEF FileInv, SplitInv, IInv, Typed
        <5>2. i \in 1..(pos - 1) /\ text[i] # Blank
          BY <2>1, <2>2, <4>1, <5>1
        <5> QED BY <2>2, <5>1, <5>2 DEF IInv, CollectedInv
      <4> QED BY <3>3, <4>3, <4>4
    <3> QED BY <3>2, <3>3
  <2>5. \A i, j \in DOMAIN lines :
            i < j /\ lines[i].page # 0 /\ lines[j].page # 0 => lines[i].page < lines[j].page
    BY <2>1, <2>2 DEF InOrder
  <2> QED BY <2>3, <2>4, <2>5
<1> QED BY <1>1, FileInvariance, PTL
=============================================================================
