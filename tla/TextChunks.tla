---------------------------- MODULE TextChunks ----------------------------
(***************************************************************************)
(* From the bytes of a file to its chunks: extract_text, clean_segments    *)
(* and chunk_segments.  A file is what its parser makes of it: parts, the  *)
(* pages of a PDF, the paragraphs of a DOCX, the one text of a TXT.        *)
(*                                                                         *)
(* A letter is what NFKC works on at a time: a character that is not blank *)
(* with the marks that follow it, whatever their order.  The table Nfkc    *)
(* says what becomes of each.  A tab is modelled as a space.               *)
(***************************************************************************)
EXTENDS ChunkWindows, Subsequences, SequencesExt

CONSTANTS
  Letters,   \* the characters that are not blank, with their marks
  Nfkc,      \* what unicodedata.normalize makes of a character
  Texts,     \* what a part may hold
  MaxParts,  \* bound on the parts of a file
  Sizes,     \* configured chunk sizes
  Overlaps   \* configured overlaps

Characters == Letters \cup {" ", "\n", "\r"}

(* A part is a sequence of characters; pages are numbered from 1. *)
ASSUME TextsAssumption == Texts \subseteq Seq(Characters) /\ MaxParts \in Nat \ {0}
(* Nothing that can be seen is normalised away; a ligature becomes several *)
(* letters, a spacing accent a blank and a mark.                           *)
ASSUME NfkcAssumption ==
  /\ Nfkc \in [Characters -> Seq(Characters)]
  /\ \A char \in Characters :
       IF Blank(char) THEN Nfkc[char] = <<char>>
       ELSE \E i \in DOMAIN Nfkc[char] : ~Blank(Nfkc[char][i])
ASSUME SizesAssumption == Sizes \subseteq Int /\ Overlaps \subseteq Int

VARIABLES file, segments

textVars == <<windowVars, file, segments>>

(* failing: the pages of a PDF whose extraction raises. *)
PdfFiles ==
  UNION {[type : {"pdf"}, readable : BOOLEAN, parts : {parts}, failing : SUBSET DOMAIN parts]
           : parts \in BoundedSeq(Texts, MaxParts)}

Files ==
  PdfFiles
    \cup [type : {"docx"}, readable : BOOLEAN, parts : BoundedSeq(Texts, MaxParts), failing : {{}}]
    \cup [type : {"txt"}, readable : BOOLEAN, parts : {<<text>> : text \in Texts}, failing : {{}}]

TextInit ==
  /\ file \in Files
  /\ segments = <<>>
  /\ size \in Sizes
  /\ overlap \in Overlaps
  /\ stream = <<>>
  /\ start = 0
  /\ chunks = <<>>
  /\ pc = "extract"

NoFile == [type |-> "pdf", readable |-> FALSE, parts |-> <<>>, failing |-> {}]

(* No file is being worked on. *)
NoText ==
  /\ file = NoFile
  /\ segments = <<>>
  /\ size = 0
  /\ overlap = 0
  /\ stream = <<>>
  /\ start = 0
  /\ chunks = <<>>
  /\ pc = "returned"

(* The chunks are handed on. *)
ReturnChunks ==
  /\ pc = "done"
  /\ file' = NoFile
  /\ segments' = <<>>
  /\ size' = 0
  /\ overlap' = 0
  /\ stream' = <<>>
  /\ start' = 0
  /\ chunks' = <<>>
  /\ pc' = "returned"

-----------------------------------------------------------------------------
HasInk(text) == \E i \in DOMAIN text : ~Blank(text[i])

(* _extract_docx drops blank paragraphs and joins the others. *)
Paragraphs(parts) ==
  LET inked == Filtered(parts, HasInk)
      joined[n \in 0..Len(inked)] ==
        IF n = 0 THEN <<>>
        ELSE IF n = 1 THEN inked[1]
        ELSE joined[n - 1] \o <<"\n">> \o inked[n]
  IN  joined[Len(inked)]

(* A page that raises is logged and taken for an empty one. *)
Pages(f) == [n \in DOMAIN f.parts |-> IF n \in f.failing THEN <<>> ELSE f.parts[n]]

(* Blank pages are dropped before the pages are numbered. *)
ExtractedFaulty(f) ==
  LET pages == Filtered(Pages(f), HasInk) IN
  CASE f.type = "txt" -> <<[text |-> f.parts[1], page |-> 1]>>
    [] f.type = "docx" -> <<[text |-> Paragraphs(f.parts), page |-> 1]>>
    [] f.type = "pdf" -> [n \in DOMAIN pages |-> [text |-> pages[n], page |-> n]]

Extracted(f) ==
  CASE f.type = "txt" -> <<[text |-> f.parts[1], page |-> 1]>>
    [] f.type = "docx" -> <<[text |-> Paragraphs(f.parts), page |-> 1]>>
    [] f.type = "pdf" -> [n \in DOMAIN f.parts |-> [text |-> Pages(f)[n], page |-> n]]

(* invalid_txt, pdf_extract_failed, docx_extract_failed, empty_extraction;  *)
(* a TXT file is not asked whether it has text.                             *)
Extract ==
  /\ pc = "extract"
  /\ IF /\ file.readable
        /\ file.type = "txt" \/ \E n \in DOMAIN file.parts : HasInk(Pages(file)[n])
     THEN pc' = "start" /\ segments' = Extracted(file)
     ELSE pc' = "unreadable" /\ UNCHANGED segments
  /\ UNCHANGED <<size, overlap, stream, start, chunks, file>>

-----------------------------------------------------------------------------
(* Of a run of the character at most n are kept. *)
Squeeze(char, n) ==
  [text \in Seq(Characters) |->
     Picked(text, {i \in DOMAIN text : ~(i > n /\ \A k \in 0..n : text[i - k] = char)})]

UnifyNewlines ==
  [text \in Seq(Characters) |->
     LET kept == Picked(text, {i \in DOMAIN text : ~(i > 1 /\ text[i] = "\n" /\ text[i - 1] = "\r")})
     IN  [i \in DOMAIN kept |-> IF kept[i] = "\r" THEN "\n" ELSE kept[i]]]

Strip ==
  [text \in Seq(Characters) |->
     LET ink == {i \in DOMAIN text : ~Blank(text[i])} IN
     IF ink = {} THEN <<>> ELSE SubSeq(text, Min(ink), Max(ink))]

Normalized(text) == FlattenSeq([i \in DOMAIN text |-> Nfkc[text[i]]])

CleanText(text) ==
  Strip[Squeeze("\n", 2)[Squeeze(" ", 1)[UnifyNewlines[Normalized(text)]]]]

CleanSegments ==
  /\ Clean
  /\ LET cleaned == [n \in DOMAIN segments |->
                       [segments[n] EXCEPT !.text = CleanText(segments[n].text)]]
     IN  segments' = Filtered(cleaned, LAMBDA segment : segment.text # <<>>)
  /\ UNCHANGED file

Tagged(text, page) == [i \in DOMAIN text |-> [char |-> text[i], page |-> page]]

(* Before every segment but the first a separator, counted to its page. *)
Linear(segs) ==
  LET line[n \in 0..Len(segs)] ==
        IF n = 0 THEN <<>>
        ELSE LET before == line[n - 1] IN
             (IF before = <<>> \/ Last(before).char \in {"\n", Separator} THEN before
              ELSE before \o Tagged(<<Separator>>, segs[n].page))
             \o Tagged(segs[n].text, segs[n].page)
  IN  line[Len(segs)]

(* The loop is entered even when there is no text. *)
LoadSegmentsFaulty ==
  /\ pc = "load"
  /\ stream' = Linear(segments)
  /\ pc' = "window"
  /\ UNCHANGED <<size, overlap, start, chunks, file, segments>>

(* Nothing is left to cut when no segment has text. *)
LoadSegments ==
  /\ Load(Linear(segments))
  /\ UNCHANGED <<file, segments>>

TextNext ==
  \/ Extract
  \/ CleanSegments
  \/ LoadSegments
  \/ (CheckSizes \/ Window) /\ UNCHANGED <<file, segments>>

-----------------------------------------------------------------------------
Chunk == [first : Nat \ {0}, last : Nat \ {0}, page : 1..MaxParts]

TextTypeOK ==
  /\ file \in Files
  /\ \A n \in DOMAIN segments : segments[n].page \in 1..MaxParts
  /\ size \in Sizes \cup {0}
  /\ overlap \in Overlaps \cup {0}
  /\ start \in 0..Len(stream)
  /\ chunks \in Seq(Chunk)
  /\ pc \in {"extract", "unreadable", "start", "failed", "clean", "load", "window", "done", "returned"}

Visible(text) == Filtered(text, LAMBDA char : ~Blank(char))

CharsOfPage(page) ==
  LET elements == Filtered(stream, LAMBDA element : element.page = page)
  IN  [n \in DOMAIN elements |-> elements[n].char]

(* Of the normalised text extraction, cleaning and joining lose no visible *)
(* character, reorder none, and leave each on its page: on page n of a PDF *)
(* stands what its n-th page holds, also after pages that are blank or     *)
(* that failed.  Of a page that failed nothing is kept, and nothing but a  *)
(* line of the log says so.                                                *)
InkSurvives ==
  pc \in {"window", "done"} =>
    IF file.type = "pdf"
    THEN \A n \in DOMAIN file.parts :
           Visible(CharsOfPage(n)) = IF n \in file.failing THEN <<>>
                                     ELSE Visible(Normalized(file.parts[n]))
    ELSE Visible(CharsOfPage(1)) = Visible(Normalized(FlattenSeq(file.parts)))

(* The page a chunk is cited with holds part of what the chunk shows: no   *)
(* share of blanks and separators makes a chunk name a foreign page.       *)
PageIsInChunk ==
  \A k \in DOMAIN chunks :
    \E i \in Ink(chunks[k].first, chunks[k].last) : stream[i].page = chunks[k].page

(* The steps of ChunkWindows, once there is text. *)
Windows == INSTANCE ChunkWindows
             WITH pc <- IF pc \in {"extract", "unreadable", "returned"} THEN "start" ELSE pc

ImplementsWindows == Windows!WindowsSpec
=============================================================================
