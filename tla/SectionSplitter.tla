-------------------------- MODULE SectionSplitter ---------------------------
(***************************************************************************)
(* app/infrastructure/sectioning/heading_splitter.py: splits the markdown  *)
(* of a document into sections at its headings, line by line.              *)
(*                                                                         *)
(* A line is the level of a heading (1..MaxLevel), Plain or Blank; a       *)
(* heading is identified by its line number.  The content of a section is  *)
(* stripped, so it runs from its first line that is not blank to its last. *)
(*                                                                         *)
(* sections is what _split_markdown returns.  split() calls                *)
(* _fallback_sections when that is empty, which it never is: LinesKept     *)
(* implies that a text with a line that is not blank has a section.  So    *)
(* the fallback is not modelled.  docs/TESTS.md:122 expects it to make     *)
(* "Untitled" sections of a text without headings; the code makes one      *)
(* section with an empty path.                                             *)
(***************************************************************************)
EXTENDS Integers, Sequences

CONSTANTS
    MaxLevel,       \* deepest heading: six in markdown
    Documents       \* texts of the documents considered

Plain == 0
Blank == -1

ASSUME MaxLevelAssumption == MaxLevel \in Nat \ {0}

\* split() strips the text, so that its first and last lines are not blank.
ASSUME DocumentsAssumption ==
    \A t \in Documents :
        /\ t \in Seq(-1..MaxLevel)
        /\ t # <<>> => t[1] # Blank /\ t[Len(t)] # Blank

VARIABLES
    text,           \* the lines
    pos,            \* the next line to look at
    path,           \* current_path: line numbers of headings
    first, last,    \* extent of current_lines without blank edges, 0 if empty
    sections,       \* path and extent of each section
    done

vars == <<text, pos, path, first, last, sections, done>>

Init ==
    /\ text \in Documents
    /\ pos = 1
    /\ path = <<>>
    /\ first = 0 /\ last = 0
    /\ sections = <<>>
    /\ done = FALSE

-----------------------------------------------------------------------------
IsHeading(i) == text[i] > 0

\* flush(): nothing for lines that are all blank.
Flushed ==
    IF first = 0
    THEN sections
    ELSE Append(sections, [path |-> path, first |-> first, last |-> last])

\* Slip: deeper headings stay in the path.
PathLonger(i) == Append(path, i)

\* Slip: one level too many is kept.
PathOffByOne(i) ==
    LET keep == IF text[i] < Len(path) THEN text[i] ELSE Len(path)
    IN  Append(SubSeq(path, 1, keep), i)

\* current_path[: level - 1] + [heading]; a slice stops at the end of the list.
PathWith(i) ==
    LET keep == IF text[i] - 1 < Len(path) THEN text[i] - 1 ELSE Len(path)
    IN  Append(SubSeq(path, 1, keep), i)

\* Slip: the path is changed before the flush.
HeadingThenFlush ==
    /\ pos <= Len(text)
    /\ IsHeading(pos)
    /\ path' = PathWith(pos)
    /\ sections' = IF first = 0 THEN sections
                   ELSE Append(sections, [path |-> path', first |-> first, last |-> last])
    /\ first' = pos /\ last' = pos
    /\ pos' = pos + 1
    /\ UNCHANGED <<text, done>>

HeadingLine ==
    /\ pos <= Len(text)
    /\ IsHeading(pos)
    /\ sections' = Flushed
    /\ path' = PathWith(pos)
    /\ first' = pos /\ last' = pos
    /\ pos' = pos + 1
    /\ UNCHANGED <<text, done>>

OtherLine ==
    /\ pos <= Len(text)
    /\ ~IsHeading(pos)
    /\ IF text[pos] = Blank
       THEN UNCHANGED <<first, last>>
       ELSE first' = (IF first = 0 THEN pos ELSE first) /\ last' = pos
    /\ pos' = pos + 1
    /\ UNCHANGED <<text, path, sections, done>>

\* Slip: the last section is not flushed.
FinishWithoutFlush ==
    /\ pos > Len(text)
    /\ ~done
    /\ done' = TRUE
    /\ UNCHANGED <<text, pos, path, first, last, sections>>

Finish ==
    /\ pos > Len(text)
    /\ ~done
    /\ sections' = Flushed
    /\ done' = TRUE
    /\ UNCHANGED <<text, pos, path, first, last>>

Next == HeadingLine \/ OtherLine \/ Finish

Spec == Init /\ [][Next]_vars

-----------------------------------------------------------------------------
(* Properties                                                              *)

Lines == 1..Len(text)
Section == [path : Seq(Lines), first : Lines, last : Lines]

\* Type of every variable; a path is never longer than there are levels.
TypeOK ==
    /\ text \in Documents
    /\ pos \in 1..(Len(text) + 1)
    /\ path \in Seq(Lines) /\ Len(path) <= MaxLevel
    /\ first \in 0..Len(text) /\ last \in 0..Len(text)
    /\ sections \in Seq(Section)
    /\ done \in BOOLEAN

\* Splitting loses, repeats and reorders nothing: every line that is not
\* blank is in a section, and sections follow each other in the text.
LinesKept ==
    done =>
        /\ \A i \in Lines : text[i] # Blank =>
               \E k \in DOMAIN sections : sections[k].first <= i /\ i <= sections[k].last
        /\ \A k \in DOMAIN sections : sections[k].first <= sections[k].last
        /\ \A k, l \in DOMAIN sections : k < l => sections[k].last < sections[l].first

\* A heading is found only on the first line of a section, and its section is
\* filed under it: "heading" is the last element of heading_path.  Only text
\* before the first heading has no heading.
HeadingsStartSections ==
    \A k \in DOMAIN sections :
        LET s == sections[k] IN
        /\ \A i \in (s.first + 1)..s.last : ~IsHeading(i)
        /\ IF s.path = <<>>
           THEN ~IsHeading(s.first)
           ELSE s.path[Len(s.path)] = s.first /\ IsHeading(s.first)

\* The headings a reader sees above line h in the outline of the text: each
\* is shallower than everything between it and h, and than h.
Above(h) ==
    {g \in 1..(h - 1) :
        IsHeading(g) /\ \A i \in (g + 1)..h : IsHeading(i) => text[g] < text[i]}

IsOutline(p, h) ==
    /\ \A i \in DOMAIN p : p[i] \in Above(h) \cup {h}
    /\ \A g \in Above(h) \cup {h} : \E i \in DOMAIN p : p[i] = g
    /\ \A i, j \in DOMAIN p : i < j => p[i] < p[j]

\* No heading is more than one level below the heading before it, and the
\* first one is of level 1.
Nested ==
    \A h \in Lines : IsHeading(h) /\ text[h] > 1 =>
        \E g \in 1..(h - 1) :
            /\ IsHeading(g) /\ text[g] >= text[h] - 1
            /\ \A i \in (g + 1)..(h - 1) : ~IsHeading(i)

\* docs/ARCHITECTURE.md:157: heading_path lists the headings from the root to
\* the section.  It does not where a level is skipped: of '## A', '## B' the
\* second has the path [A, B].
PathIsOutline ==
    \A k \in DOMAIN sections :
        sections[k].path # <<>> => IsOutline(sections[k].path, sections[k].first)

\* heading_path lists those headings, and no others, in a text that skips no
\* level, however deep it goes and wherever it returns to.
NestedPathIsOutline == Nested => PathIsOutline
=============================================================================
