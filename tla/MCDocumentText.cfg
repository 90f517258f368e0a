\* Every text of up to six lines with headings of three levels, images, and
\* PDFs of up to three pages; two attempts of a request.  It ends.
CONSTANTS
    MaxLevel = 3
    MaxLines = 6
    MaxPages = 3
    MaxAttempts = 2
    Documents <- MCDocuments
    Files <- MCFiles
CHECK_DEADLOCK FALSE
SPECIFICATION FileSpec
INVARIANTS
    StagesTypeOK
    LinesKept
    HeadingsStartSections
    NestedPathIsOutline
    ScannedPagesKept
    NonEmptyTextHasSections
