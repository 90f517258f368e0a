--------------------------- MODULE MCDocumentText ---------------------------
(* TLC instance of DocumentText: every text of up to MaxLines lines, and   *)
(* PDFs of up to MaxPages pages with every mixture of pages.               *)
EXTENDS DocumentText

CONSTANTS MaxLines, MaxPages

MCDocuments ==
    {t \in UNION {[1..n -> -1..MaxLevel] : n \in 0..MaxLines} :
        t # <<>> => t[1] # Blank /\ t[Len(t)] # Blank}

Others == {[kind |-> "other", text |-> t, dense |-> t # <<>>, pages |-> <<>>] :
             t \in MCDocuments}

Images == {[kind |-> "image", text |-> <<>>, dense |-> FALSE, pages |-> <<k>>] :
             k \in {"noise", "legible"}}

PageLists == UNION {[1..n -> PageKinds] : n \in 0..MaxPages}

\* What MarkItDown finds in a PDF: nothing, a line, or a heading and a line.
PdfTexts == {<<>>, <<Plain>>, <<2, Plain>>}

Pdfs == {[kind |-> "pdf", text |-> t, dense |-> d, pages |-> p] :
           t \in PdfTexts, d \in BOOLEAN, p \in PageLists}

MCFiles == Others \cup Images \cup {f \in Pdfs : f.text = <<>> => ~f.dense}
=============================================================================
