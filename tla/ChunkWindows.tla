--------------------------- MODULE ChunkWindows ---------------------------
(***************************************************************************)
(* The window loop of chunk_segments over a stream of characters.  A chunk *)
(* is abstracted to the positions it spans in the stream after strip() and *)
(* to its page.                                                            *)
(***************************************************************************)
EXTENDS Integers, Sequences, FiniteSetsExt

VARIABLES
  size,     \* chunk_size
  overlap,  \* chunk_overlap
  stream,   \* the characters, each tagged with its page
  start,    \* how many elements of the stream lie before the window
  chunks,   \* what has been cut so far
  pc

windowVars == <<size, overlap, stream, start, chunks, pc>>

(* The separator between two segments is one element of the stream. *)
Separator == "\n\n"

Blank(char) == char \in {" ", "\n", "\r", Separator}

Ink(a, b) == {i \in a..b : ~Blank(stream[i].char)}

(* Which text comes is the environment's choice. *)
WindowsInit ==
  /\ size \in Int
  /\ overlap \in Int
  /\ stream = <<>>
  /\ start = 0
  /\ chunks = <<>>
  /\ pc = "start"

(* ValueError *)
CheckSizes ==
  /\ pc = "start"
  /\ pc' = IF size <= 0 \/ overlap < 0 \/ overlap >= size THEN "failed" ELSE "clean"
  /\ UNCHANGED <<size, overlap, stream, start, chunks>>

(* What cleaning makes of the segments is no matter of the windows. *)
Clean ==
  /\ pc = "clean"
  /\ pc' = "load"
  /\ UNCHANGED <<size, overlap, stream, start, chunks>>

(* Without text there are no chunks. *)
Load(text) ==
  /\ pc = "load"
  /\ stream' = text
  /\ pc' = IF text = <<>> THEN "done" ELSE "window"
  /\ UNCHANGED <<size, overlap, start, chunks>>

(* Of two pages with the same share the later one is taken. *)
DominantPageFaulty(a, b) ==
  LET count(page) == Cardinality({i \in a..b : stream[i].page = page})
      most == {i \in a..b : \A j \in a..b : count(stream[j].page) <= count(stream[i].page)}
  IN  stream[Max(most)].page

(* The page with most characters; of several the one that comes first.     *)
DominantPage(a, b) ==
  LET count(page) == Cardinality({i \in a..b : stream[i].page = page})
      most == {i \in a..b : \A j \in a..b : count(stream[j].page) <= count(stream[i].page)}
  IN  stream[Min(most)].page

WindowEnd == IF start + size < Len(stream) THEN start + size ELSE Len(stream)

(* The windows do not overlap. *)
WindowFaulty ==
  /\ pc = "window"
  /\ LET ink == Ink(start + 1, WindowEnd) IN
       chunks' = IF ink = {} THEN chunks
                 ELSE Append(chunks, [first |-> Min(ink), last |-> Max(ink),
                                      page |-> DominantPage(start + 1, WindowEnd)])
  /\ IF WindowEnd >= Len(stream)
     THEN pc' = "done" /\ UNCHANGED start
     ELSE start' = start + size /\ UNCHANGED pc
  /\ UNCHANGED <<size, overlap, stream>>

(* A blank window is skipped before the loop has advanced. *)
WindowStuckFaulty ==
  /\ pc = "window"
  /\ LET ink == Ink(start + 1, WindowEnd) IN
       /\ ink # {}
       /\ chunks' = Append(chunks, [first |-> Min(ink), last |-> Max(ink),
                                    page |-> DominantPage(start + 1, WindowEnd)])
  /\ IF WindowEnd >= Len(stream)
     THEN pc' = "done" /\ UNCHANGED start
     ELSE start' = start + size - overlap /\ UNCHANGED pc
  /\ UNCHANGED <<size, overlap, stream>>

(* A window with no visible character makes no chunk. *)
Window ==
  /\ pc = "window"
  /\ LET ink == Ink(start + 1, WindowEnd) IN
       chunks' = IF ink = {} THEN chunks
                 ELSE Append(chunks, [first |-> Min(ink), last |-> Max(ink),
                                      page |-> DominantPage(start + 1, WindowEnd)])
  /\ IF WindowEnd >= Len(stream)
     THEN pc' = "done" /\ UNCHANGED start
     ELSE start' = start + size - overlap /\ UNCHANGED pc
  /\ UNCHANGED <<size, overlap, stream>>

(* The function returns; its next call starts anew. *)
Return == pc \in {"done", "failed"} /\ WindowsInit'

(* A stream is any sequence of characters, each with a page. *)
IsStream(text) ==
  /\ DOMAIN text = 1..Len(text) /\ Len(text) \in Nat
  /\ \A i \in DOMAIN text : DOMAIN text[i] = {"char", "page"}

WindowsNext == CheckSizes \/ Clean \/ Window \/ Return \/ (IsStream(stream') /\ Load(stream'))

WindowsSpec == WindowsInit /\ [][WindowsNext]_windowVars

-----------------------------------------------------------------------------
(* Nothing is lost at a boundary: two visible characters no further apart  *)
(* than the overlap are together in some chunk, and in particular every    *)
(* character is in one.                                                    *)
PassagesStayWhole ==
  pc = "done" =>
    \A i, j \in Ink(1, Len(stream)) :
      i <= j /\ j - i <= overlap =>
        \E k \in DOMAIN chunks : chunks[k].first <= i /\ j <= chunks[k].last
=============================================================================
