---------------------------- MODULE DocumentText ----------------------------
(***************************************************************************)
(* From the bytes of a document to its sections: the parsers               *)
(* (pipeline/parsers), the page-by-page OCR of scanned PDFs with the       *)
(* provider's retries (utils/ai_provider.py), the checks of RunIngestJob   *)
(* on what they return, and the splitter that it is handed to              *)
(* (SectionSplitter, whose variables and actions are used as they are).    *)
(*                                                                         *)
(* A file is of one of three kinds: an image, a PDF, or any other format,  *)
(* all of which come down to one conversion.  text is what MarkItDown      *)
(* makes of it, and dense tells whether that has as many characters as the *)
(* OCR fallback asks for.  A page of a PDF is                              *)
(*    "layer"   fitz finds enough text on it, which MarkItDown need not,   *)
(*    "broken"  it cannot be rendered,                                     *)
(*    "noise"   the vision model reads fewer than _MIN_OCR_CHARS there,    *)
(*    "legible" it reads a line, a heading or not.                         *)
(* An image file is a single page.  A PDF that fitz cannot open is one     *)
(* without pages.  Converters strip what they return.                      *)
(***************************************************************************)
EXTENDS SectionSplitter, FiniteSets

CONSTANTS
    Files,          \* the documents considered
    MaxAttempts     \* OCR_MAX_RETRIES, at least one

ASSUME MaxAttemptsAssumption == MaxAttempts \in Nat \ {0}

PageKinds == {"layer", "broken", "noise", "legible"}
Providers == {"vision", "mock"}

FileType ==
    [kind : {"other", "pdf", "image"}, text : Seq(-1..MaxLevel), dense : BOOLEAN,
     pages : Seq(PageKinds)]

ASSUME FilesAssumption ==
    \A f \in Files :
        /\ f \in FileType
        /\ f.text # <<>> => f.text[1] # Blank /\ f.text[Len(f.text)] # Blank
        /\ f.text = <<>> => ~f.dense
        /\ f.kind = "other" => f.pages = <<>>
        /\ f.kind = "image" =>
               f.text = <<>> /\ Len(f.pages) = 1 /\ f.pages[1] \in {"noise", "legible"}

VARIABLES
    file,
    provider,       \* OpenAIProvider or MockAIProvider
    stage,          \* how far the run has come: see Stages
    page,           \* the page at which the OCR is
    attempt,        \* the attempt of its request
    lines           \* the text so far: each line, and the page that OCR read it from

runVars == <<file, provider, stage, page, attempt, lines>>

Stages == {"parse", "ocr", "split", "done", "failed"}

\* A line that no OCR request returned.
Given(line) == [line |-> line, page |-> 0]

FileInit ==
    /\ file \in Files
    /\ provider \in Providers
    /\ stage = "parse"
    /\ page = 1 /\ attempt = 1
    /\ lines = <<>>
    /\ text = <<>>
    /\ pos = 1
    /\ path = <<>>
    /\ first = 0 /\ last = 0
    /\ sections = <<>>
    /\ done = FALSE

-----------------------------------------------------------------------------
(* The parsers.                                                            *)

\* Slip: an empty text is handed on.
DeliverAnything(parsed) ==
    /\ text' = [i \in DOMAIN parsed |-> parsed[i].line]
    /\ lines' = parsed
    /\ stage' = "split"

\* The parser returns; an empty text fails the run.
Deliver(parsed) ==
    /\ text' = [i \in DOMAIN parsed |-> parsed[i].line]
    /\ lines' = parsed
    /\ stage' = IF parsed = <<>> THEN "failed" ELSE "split"

Converted == [i \in DOMAIN file.text |-> Given(file.text[i])]

\* With a client for images or without, through a temporary file.
ConvertFile ==
    /\ stage = "parse"
    /\ file.kind = "other" \/ (file.kind = "pdf" /\ file.dense)
    /\ Deliver(Converted)
    /\ UNCHANGED <<file, provider, page, attempt, pos, path, first, last, sections, done>>

\* The text of a PDF is too short, or there is nothing but an image.
StartOcr ==
    /\ stage = "parse"
    /\ file.kind = "image" \/ (file.kind = "pdf" /\ ~file.dense)
    /\ stage' = "ocr"
    /\ lines' = Converted
    /\ UNCHANGED <<vars, file, provider, page, attempt>>

\* The converter raises: a damaged file, a full disk, a vision call.
ConvertFails ==
    /\ stage = "parse"
    /\ file.kind # "image"
    /\ stage' = "failed"
    /\ UNCHANGED <<vars, file, provider, page, attempt, lines>>

OcrAt(kinds) ==
    /\ stage = "ocr"
    /\ page <= Len(file.pages)
    /\ file.pages[page] \in kinds

NextPage == page' = page + 1 /\ attempt' = 1

\* The page is passed over without a request.
SkipPage ==
    /\ OcrAt({"layer", "broken"})
    /\ NextPage
    /\ UNCHANGED <<vars, file, provider, stage, lines>>

\* What the request for page n returned, after a marker if it is of a PDF; a
\* blank line keeps it apart from what is before.
Part(n, line) ==
    (IF lines = <<>> THEN <<>> ELSE <<Given(Blank)>>)
    \o (IF file.kind = "pdf" THEN <<Given(Plain)>> ELSE <<>>)
    \o <<[line |-> line, page |-> n]>>

\* The mock returns one line for any image.
OcrAnswers ==
    /\ OcrAt({"noise", "legible"})
    /\ \/ /\ provider = "vision" /\ file.pages[page] = "legible"
          /\ \E line \in {Plain, 1} : lines' = lines \o Part(page, line)
       \/ /\ provider = "vision" /\ file.pages[page] = "noise"
          /\ UNCHANGED lines
       \/ /\ provider = "mock"
          /\ lines' = lines \o Part(page, Plain)
    /\ NextPage
    /\ UNCHANGED <<vars, file, provider, stage>>

\* Slip: after the last attempt the page counts as empty.
OcrGivesUp ==
    /\ OcrAt({"noise", "legible"})
    /\ provider = "vision"
    /\ IF attempt < MaxAttempts
       THEN attempt' = attempt + 1 /\ UNCHANGED page
       ELSE NextPage
    /\ UNCHANGED <<vars, file, provider, stage, lines>>

\* The request raises: tried again, and after the last attempt the run fails
\* with everything read so far.
OcrRaises ==
    /\ OcrAt({"noise", "legible"})
    /\ provider = "vision"
    /\ IF attempt < MaxAttempts
       THEN attempt' = attempt + 1 /\ UNCHANGED stage
       ELSE stage' = "failed" /\ UNCHANGED attempt
    /\ UNCHANGED <<vars, file, provider, page, lines>>

\* fitz cannot load the page or take its text: that is not caught.
PageRaises ==
    /\ OcrAt(PageKinds)
    /\ file.kind = "pdf"
    /\ stage' = "failed"
    /\ UNCHANGED <<vars, file, provider, page, attempt, lines>>

OcrEnds ==
    /\ stage = "ocr"
    /\ page > Len(file.pages)
    /\ Deliver(lines)
    /\ UNCHANGED <<file, provider, page, attempt, pos, path, first, last, sections, done>>

-----------------------------------------------------------------------------
(* The splitter.                                                           *)

SplitLine ==
    /\ stage = "split"
    /\ HeadingLine \/ OtherLine
    /\ UNCHANGED runVars

\* A text without sections fails the run.
SplitEnds ==
    /\ stage = "split"
    /\ Finish
    /\ stage' = IF sections' = <<>> THEN "failed" ELSE "done"
    /\ UNCHANGED <<file, provider, page, attempt, lines>>

FileNext ==
    \/ ConvertFile \/ ConvertFails
    \/ StartOcr \/ SkipPage \/ OcrAnswers \/ OcrRaises \/ PageRaises \/ OcrEnds
    \/ SplitLine \/ SplitEnds

FileSpec == FileInit /\ [][FileNext]_<<vars, runVars>>

-----------------------------------------------------------------------------
(* Properties, besides LinesKept, HeadingsStartSections and                *)
(* NestedPathIsOutline of the splitter.                                    *)

\* Type of every variable; a path is never longer than there are levels.
StagesTypeOK ==
    /\ file \in FileType /\ provider \in Providers /\ stage \in Stages
    /\ page \in 1..(Len(file.pages) + 1) /\ attempt \in 1..MaxAttempts
    /\ lines \in Seq([line : -1..MaxLevel, page : 0..Len(file.pages)])
    /\ text \in Seq(-1..MaxLevel)
    /\ pos \in 1..(Len(text) + 1)
    /\ path \in Seq(Lines) /\ Len(path) <= MaxLevel
    /\ first \in 0..Len(text) /\ last \in 0..Len(text)
    /\ sections \in Seq(Section)
    /\ done \in BOOLEAN

ReadFrom(n) == {i \in DOMAIN lines : lines[i].page = n}

InSection(i) == \E k \in DOMAIN sections : sections[k].first <= i /\ i <= sections[k].last

\* A scanned document that is indexed is indexed whole, whichever requests
\* were repeated: every page that the model can read is in a section, once and
\* in the order of the pages, after the text that the file gave by itself.  One
\* page without an answer fails the run, it never leaves a gap.
ScannedPagesKept ==
    stage = "done" /\ provider = "vision" =>
        /\ \A i \in DOMAIN file.text : text[i] = file.text[i]
        /\ file.dense \/ \A n \in DOMAIN file.pages :
               IF file.pages[n] = "legible"
               THEN \E i \in ReadFrom(n) : ReadFrom(n) = {i} /\ InSection(i)
               ELSE ReadFrom(n) = {}
        /\ \A i, j \in DOMAIN lines :
               i < j /\ lines[i].page # 0 /\ lines[j].page # 0 =>
                   lines[i].page < lines[j].page

\* The text of a run that gets to the splitter always has a section: no trimming
\* of blank lines, at a heading or at the end, leaves a run with nothing.  So
\* neither the check for an empty list of sections nor the fallback of split()
\* is ever reached, not even by a text without headings.  docs/TESTS.md:122 says
\* otherwise: such a text goes to the fallback and becomes "Untitled" sections.
NonEmptyTextHasSections == done => sections # <<>>
=============================================================================
