-------------------------- MODULE TextChunkProofs --------------------------
(***************************************************************************)
(* The window loop loses nothing at its boundaries, for every text, chunk  *)
(* size and overlap; and what extraction, cleaning and joining make of a   *)
(* file keeps the shape the loop relies on.                                *)
(***************************************************************************)
EXTENDS TextChunks, SubsequenceProofs

Together(i, j) ==
  \E k \in DOMAIN chunks : chunks[k].first <= i /\ j <= chunks[k].last

Covered(n) ==
  \A i, j \in Ink(1, Len(stream)) :
    i <= j /\ j - i <= overlap /\ i <= n => Together(i, j)

(* What stands before the window is covered, together with whatever        *)
(* follows it closely.                                                     *)
WindowsInv ==
  /\ size \in Int
  /\ overlap \in Int
  /\ pc \in {"start", "clean", "load", "failed", "window", "done"}
  /\ \E X : chunks \in Seq(X)
  /\ pc \in {"start", "clean", "load"} => chunks = <<>> /\ start = 0
  /\ pc \in {"clean", "load", "window", "done"} => 0 <= overlap /\ overlap < size
  /\ pc = "window" => /\ Len(stream) \in Nat
                      /\ start \in 0..Len(stream)
                      /\ Covered(start)
  /\ PassagesStayWhole

(* At the start nothing is joined and nothing is cut. *)
LEMMA WindowsInvInit == WindowsInit => WindowsInv
<1> SUFFICES ASSUME WindowsInit PROVE WindowsInv
  OBVIOUS
<1>1. \E X : chunks \in Seq(X)
  <2>1. <<>> \in Seq({})
    OBVIOUS
  <2> QED BY <2>1 DEF WindowsInit
<1> QED BY <1>1 DEF WindowsInit, WindowsInv, PassagesStayWhole

(* One turn of the loop. *)
LEMMA WindowExtendsCover ==
  ASSUME WindowsInv, Window
  PROVE  /\ \E X : chunks' \in Seq(X)
         /\ pc' = "window" => start' \in 0..Len(stream) /\ Covered(start)'
         /\ PassagesStayWhole'
<1> DEFINE total == Len(stream)
           ink == Ink(start + 1, WindowEnd)
           chunk == [first |-> Min(ink), last |-> Max(ink),
                     page |-> DominantPage(start + 1, WindowEnd)]
<1>1. /\ size \in Nat /\ overlap \in Nat /\ overlap < size
      /\ total \in Nat /\ start \in 0..total
      /\ pc = "window" /\ Covered(start)
      /\ UNCHANGED <<size, overlap, stream>>
  BY DEF WindowsInv, Window
<1>2. PICK X : chunks \in Seq(X)
  BY DEF WindowsInv
<1> DEFINE n == Len(chunks)
<1>3. WindowEnd \in start..total /\ WindowEnd <= start + size
  BY <1>1 DEF WindowEnd
<1>4. chunks' = IF ink = {} THEN chunks ELSE Append(chunks, chunk)
  BY DEF Window
<1>5. DOMAIN chunks = 1..n /\ n \in Nat
  BY <1>2
<1>6. /\ Append(chunks, chunk) \in Seq(X \cup {chunk})
      /\ DOMAIN Append(chunks, chunk) = 1..(n + 1)
      /\ \A k \in 1..n : Append(chunks, chunk)[k] = chunks[k]
      /\ Append(chunks, chunk)[n + 1] = chunk
  <2> HIDE DEF chunk
  <2>1. chunks \in Seq(X \cup {chunk})
    BY <1>2
  <2>2. /\ Append(chunks, chunk) \in Seq(X \cup {chunk})
        /\ Len(Append(chunks, chunk)) = n + 1
        /\ \A k \in 1..n : Append(chunks, chunk)[k] = chunks[k]
        /\ Append(chunks, chunk)[n + 1] = chunk
    BY <2>1, AppendProperties
  <2> QED BY <2>2
<1>7. \E Y : chunks' \in Seq(Y)
  <2> HIDE DEF chunk, ink
  <2>1. CASE ink = {}
    BY <1>2, <1>4, <2>1
  <2>2. CASE ink # {}
    BY <1>4, <1>6, <2>2
  <2> QED BY <2>1, <2>2
<1>8. \A i, j : Together(i, j) => Together(i, j)'
  <2> HIDE DEF chunk, ink, n
  <2> QED BY <1>4, <1>5, <1>6 DEF Together
<1>9. \A i, j \in ink : Together(i, j)'
  <2> SUFFICES ASSUME NEW i \in ink, NEW j \in ink PROVE Together(i, j)'
    OBVIOUS
  <2>1. ink \in SUBSET ((start + 1)..WindowEnd) /\ ink # {}
    BY DEF Ink
  <2>2. Min(ink) <= i /\ j <= Max(ink)
    <3> HIDE DEF ink
    <3>1. start + 1 \in Nat /\ WindowEnd \in Nat
      BY <1>1, <1>3
    <3>2. /\ Min(ink) \in ink /\ \A y \in ink : Min(ink) <= y
          /\ Max(ink) \in ink /\ \A y \in ink : Max(ink) >= y
      BY <2>1, <3>1, LeastPosition, GreatestPosition
    <3> QED BY <2>1, <3>1, <3>2
  <2>3. chunks'[n + 1].first = Min(ink) /\ chunks'[n + 1].last = Max(ink)
    <3>1. chunk.first = Min(ink) /\ chunk.last = Max(ink)
      OBVIOUS
    <3> HIDE DEF chunk, ink, n
    <3> QED BY <1>4, <1>6, <2>1, <3>1
  <2>4. n + 1 \in DOMAIN chunks'
    <3> HIDE DEF chunk, ink, n
    <3> QED BY <1>4, <1>5, <1>6, <2>1
  <2> HIDE DEF ink, n
  <2> QED BY <2>2, <2>3, <2>4 DEF Together
<1>10. ASSUME NEW i \in Ink(1, total), NEW j \in Ink(1, total),
              i <= j, j - i <= overlap, j <= WindowEnd
       PROVE  Together(i, j)'
  <2>1. CASE i <= start
    <3>1. Together(i, j)
      BY <1>1, <1>10, <2>1 DEF Covered
    <3> HIDE DEF chunk, ink, n
    <3> QED BY <1>8, <3>1
  <2>2. CASE i > start
    <3>1. i \in ink /\ j \in ink
      BY <1>1, <1>3, <1>10, <2>2 DEF Ink
    <3> QED BY <1>9, <3>1
  <2> QED BY <1>1, <2>1, <2>2 DEF Ink
<1>11. CASE WindowEnd >= total
  <2>1. pc' = "done" /\ start' = start
    BY <1>11 DEF Window
  <2>2. Ink(1, total)' = Ink(1, total)
    BY <1>1 DEF Ink, Blank
  <2>3. \A i, j \in Ink(1, total) : i <= j /\ j - i <= overlap => Together(i, j)'
    BY <1>1, <1>3, <1>10, <1>11 DEF Ink
  <2>4. PassagesStayWhole'
    <3> HIDE DEF chunk, ink, n
    <3> QED BY <1>1, <2>2, <2>3 DEF PassagesStayWhole, Together
  <2> HIDE DEF chunk, ink, n
  <2> QED BY <1>7, <2>1, <2>4
<1>12. CASE ~(WindowEnd >= total)
  <2>1. pc' = "window" /\ start' = start + size - overlap /\ WindowEnd = start + size
    BY <1>1, <1>12 DEF Window, WindowEnd
  <2>2. start' \in 0..total
    BY <1>1, <1>3, <2>1
  <2>3. ASSUME NEW i \in Ink(1, total), NEW j \in Ink(1, total),
               i <= j, j - i <= overlap, i <= start'
        PROVE  Together(i, j)'
    <3>1. j <= WindowEnd
      BY <1>1, <2>1, <2>3 DEF Ink
    <3> QED BY <1>10, <2>3, <3>1
  <2>4. Covered(start)'
    BY <1>1, <2>3 DEF Covered, Ink, Blank
  <2> QED BY <1>7, <2>1, <2>2, <2>4 DEF PassagesStayWhole
<1> QED BY <1>11, <1>12

(* One step per step of chunk_segments. *)
LEMMA WindowsInvStep == WindowsInv /\ [WindowsNext]_windowVars => WindowsInv'
<1> SUFFICES ASSUME WindowsInv, [WindowsNext]_windowVars PROVE WindowsInv'
  OBVIOUS
<1>1. CASE CheckSizes
  BY <1>1 DEF CheckSizes, WindowsInv, PassagesStayWhole
<1>2. CASE Clean
  BY <1>2 DEF Clean, WindowsInv, PassagesStayWhole
<1>3. CASE Window
  BY <1>3, WindowExtendsCover DEF WindowsInv, Window
<1>4. CASE IsStream(stream') /\ Load(stream')
  <2>1. /\ pc = "load" /\ chunks = <<>> /\ start = 0 /\ Len(stream') \in Nat
        /\ UNCHANGED <<size, overlap, start, chunks>>
        /\ \/ stream' = <<>> /\ pc' = "done"
           \/ pc' = "window"
    BY <1>4 DEF WindowsInv, Load, IsStream
  <2>2. \A a, b : stream' = <<>> /\ b = Len(stream') => Ink(1, b)' = {}
    BY DEF Ink
  <2>3. Covered(start)'
    BY <2>1 DEF Covered, Ink
  <2>4. PassagesStayWhole'
    BY <2>1 DEF PassagesStayWhole, Ink
  <2> QED BY <2>1, <2>3, <2>4 DEF WindowsInv
<1>5. CASE Return
  <2>1. <<>> \in Seq({})
    OBVIOUS
  <2>2. \E X : chunks' \in Seq(X)
    BY <1>5, <2>1 DEF Return, WindowsInit
  <2> QED BY <1>5, <2>2 DEF Return, WindowsInit, WindowsInv, PassagesStayWhole
<1>6. CASE UNCHANGED windowVars
  BY <1>6 DEF windowVars, WindowsInv, PassagesStayWhole, Covered, Together, Ink, Blank
<1> QED BY <1>1, <1>2, <1>3, <1>4, <1>5, <1>6 DEF WindowsNext

(* No passage of two characters within the overlap is cut apart, and no    *)
(* character is lost, by chunk_segments on any text.                       *)
THEOREM NothingIsCutApart == WindowsSpec => []PassagesStayWhole
<1>1. WindowsInv => PassagesStayWhole
  BY DEF WindowsInv
<1>2. QED
  BY <1>1, WindowsInvInit, WindowsInvStep, PTL DEF WindowsSpec
-----------------------------------------------------------------------------
(* Cleaning leaves text without blanks at its ends, or nothing. *)
Tight(text) == text # <<>> => ~Blank(text[1]) /\ ~Blank(text[Len(text)])

(* Each step of the cleaning yields a text of the same characters. *)
LEMMA UnifyNewlinesType ==
  ASSUME NEW text \in Seq(Characters)
  PROVE  UnifyNewlines[text] \in Seq(Characters)
<1> DEFINE D == {i \in DOMAIN text : ~(i > 1 /\ text[i] = "\n" /\ text[i - 1] = "\r")}
           kept == Picked(text, D)
<1>1. kept \in Seq(Characters)
  BY PickedType
<1>2. UnifyNewlines[text] = [i \in DOMAIN kept |-> IF kept[i] = "\r" THEN "\n" ELSE kept[i]]
  BY DEF UnifyNewlines
<1> HIDE DEF kept
<1>3. DOMAIN kept = 1..Len(kept) /\ Len(kept) \in Nat /\ \A i \in 1..Len(kept) : kept[i] \in Characters
  BY <1>1, LenProperties
<1>4. "\n" \in Characters
  BY DEF Characters
<1>5. UnifyNewlines[text] \in [1..Len(kept) -> Characters]
  BY <1>2, <1>3, <1>4
<1>6. QED
  BY <1>3, <1>5

(* Squeezing a text gives a text.                                          *)
LEMMA SqueezeType ==
  ASSUME NEW char, NEW n, NEW text \in Seq(Characters)
  PROVE  Squeeze(char, n)[text] \in Seq(Characters)
BY PickedType DEF Squeeze

(* Stripping gives a text with no blank at its ends.                       *)
LEMMA StripType ==
  ASSUME NEW text \in Seq(Characters)
  PROVE  Strip[text] \in Seq(Characters) /\ Tight(Strip[text])
<1> DEFINE ink == {i \in DOMAIN text : ~Blank(text[i])}
           a == Min(ink)
           b == Max(ink)
<1>1. Strip[text] = IF ink = {} THEN <<>> ELSE SubSeq(text, a, b)
  BY DEF Strip
<1>2. CASE ink = {}
  BY <1>1, <1>2 DEF Tight
<1>3. CASE ink # {}
  <2>1. /\ Len(text) \in Nat /\ ink \in SUBSET (1..Len(text)) /\ 1 \in Nat
        /\ \A i \in 1..Len(text) : text[i] \in Characters
    BY LenProperties
  <2>2. a \in ink /\ b \in ink /\ a <= b
    <3> HIDE DEF ink
    <3>1. /\ Min(ink) \in ink /\ \A y \in ink : Min(ink) <= y
          /\ Max(ink) \in ink /\ \A y \in ink : Max(ink) >= y
      BY <1>3, <2>1, LeastPosition, GreatestPosition
    <3>2. QED
      BY <2>1, <3>1
  <2>3. ~Blank(text[a]) /\ ~Blank(text[b])
    BY <2>2
  <2> DEFINE part == SubSeq(text, a, b)
  <2>4. a \in 1..Len(text) /\ b \in 1..Len(text)
    BY <2>1, <2>2
  <2> HIDE DEF a, b, ink
  <2>5. /\ part \in Seq(Characters) /\ Len(part) = b - a + 1
        /\ \A i \in 1..(b - a + 1) : part[i] = text[a + i - 1]
    BY <2>1, <2>2, <2>4, SubSeqProperties
  <2>6. part[1] = text[a] /\ part[Len(part)] = text[b]
    <3>1. 1 \in 1..(b - a + 1) /\ b - a + 1 \in 1..(b - a + 1) /\ a + 1 - 1 = a /\ a + (b - a + 1) - 1 = b
      BY <2>1, <2>2, <2>4
    <3>2. QED
      BY <2>5, <3>1
  <2>7. QED
    BY <1>1, <1>3, <2>3, <2>5, <2>6 DEF Tight
<1>4. QED
  BY <1>2, <1>3

(* flat[n] is the concatenation of the first n parts. *)
Flattens(flat, parts) ==
  /\ flat \in [1..Len(parts) -> Seq(Characters)]
  /\ flat[1] = parts[1]
  /\ \A n \in 2..Len(parts) : flat[n] = flat[n - 1] \o parts[n]
  /\ FlattenSeq(parts) = flat[Len(parts)]

(* The parts of a file can be concatenated by going through them once. *)
LEMMA FlattenStepwise ==
  ASSUME NEW parts \in Seq(Seq(Characters)), Len(parts) # 0
  PROVE  \E flat : Flattens(flat, parts)
<1> DEFINE total == Len(parts)
           T == Seq(Characters)
           New(n, v) == IF n = 1 THEN parts[n] ELSE v \o parts[n]
           Step == [n \in 1..total |-> [v \in T |-> New(n, v)]]
           Makes(flat) == flat = [n \in 1..total |-> IF n = 1 THEN parts[n] ELSE flat[n - 1] \o parts[n]]
           flat == CHOOSE h : Makes(h)
<1>1. FlattenSeq(parts) = flat[total]
  BY DEF FlattenSeq
<1>2. total \in Nat /\ total >= 1 /\ <<>> \in T /\ \A n \in 1..total : parts[n] \in T
  BY LenProperties
<1>3. ASSUME NEW n \in 1..total, NEW v \in T PROVE New(n, v) \in T
  <2>1. parts[n] \in T
    BY <1>2
  <2> HIDE DEF total
  <2>2. v \o parts[n] \in T
    BY <2>1, ConcatProperties
  <2>3. QED
    BY <2>1, <2>2
<1> HIDE DEF T
<1>4. PICK g \in [0..total -> T] : g[0] = <<>> /\ \A n \in 1..total : g[n] = Step[n][g[n - 1]]
  <2>1. IsRule(Step, total, T)
    <3> HIDE DEF New
    <3>1. QED
      BY <1>3 DEF IsRule
  <2> HIDE DEF Step, total
  <2>2. \E g : Follows(g, total, T, <<>>, Step)
    BY <1>2, <2>1, StepByStep
  <2>3. QED
    BY <2>2 DEF Follows
<1>5. ASSUME NEW n \in 1..total PROVE g[n] = New(n, g[n - 1])
  <2>1. n - 1 \in 0..total /\ g[n - 1] \in T
    BY <1>2
  <2> HIDE DEF New
  <2>2. QED
    BY <1>4, <2>1
<1> DEFINE f == [n \in 1..total |-> g[n]]
<1>6. Makes(f)
  <2>1. ASSUME NEW n \in 1..total PROVE f[n] = IF n = 1 THEN parts[n] ELSE f[n - 1] \o parts[n]
    <3>1. CASE n = 1
      BY <1>5, <3>1
    <3>2. CASE n # 1
      <4>1. n - 1 \in 1..total
        BY <1>2, <3>2
      <4>2. f[n - 1] = g[n - 1]
        BY <4>1
      <4>3. QED
        BY <1>5, <3>2, <4>2
    <3>3. QED
      BY <3>1, <3>2
  <2>2. QED
    BY <2>1
<1>7. Makes(flat)
  <2> HIDE DEF Makes
  <2>1. QED
    BY <1>6
<1> HIDE DEF flat
<1>8. /\ flat[1] = parts[1]
      /\ \A n \in 2..total : flat[n] = flat[n - 1] \o parts[n]
      /\ flat = [n \in 1..total |-> flat[n]]
  <2> HIDE DEF total
  <2>1. flat = [n \in 1..total |-> IF n = 1 THEN parts[n] ELSE flat[n - 1] \o parts[n]]
    BY <1>7
  <2>2. /\ 1 \in 1..total /\ \A n \in 2..total : n \in 1..total /\ n # 1
    BY <1>2
  <2>3. QED
    BY <2>1, <2>2
<1>9. \A n \in 0..total : n = 0 \/ flat[n] \in T
  <2> DEFINE S == {n \in 0..total : n = 0 \/ flat[n] \in T}
  <2>1. 0 \in S
    BY <1>2
  <2>2. ASSUME NEW n \in 1..total, n - 1 \in S PROVE n \in S
    <3>1. parts[n] \in T /\ n \in 0..total
      BY <1>2
    <3>2. CASE n = 1
      BY <1>8, <3>1, <3>2
    <3>3. CASE n # 1
      <4>1. n \in 2..total /\ n - 1 # 0
        BY <1>2, <3>3
      <4>2. flat[n - 1] \in T
        BY <2>2, <4>1
      <4>3. flat[n] = flat[n - 1] \o parts[n]
        BY <1>8, <4>1
      <4>4. flat[n - 1] \o parts[n] \in T
        BY <3>1, <4>2, ConcatProperties DEF T
      <4>5. QED
        BY <3>1, <4>3, <4>4
    <3>4. QED
      BY <3>2, <3>3
  <2>3. \A n \in 0..total : n \in S
    <3> HIDE DEF S, total
    <3>1. QED
      BY <1>2, <2>1, <2>2, CountingUp
  <2>4. QED
    BY <2>3
<1>10. flat \in [1..total -> T]
  <2>1. \A n \in 1..total : n \in 0..total /\ n # 0
    BY <1>2
  <2> HIDE DEF total
  <2>2. QED
    BY <1>8, <1>9, <2>1
<1>11. QED
  BY <1>1, <1>8, <1>10 DEF Flattens, T

(* The concatenation of texts is a text. *)
LEMMA FlattenType ==
  ASSUME NEW parts \in Seq(Seq(Characters))
  PROVE  FlattenSeq(parts) \in Seq(Characters)
<1>1. CASE Len(parts) = 0
  BY <1>1, EmptySeq DEF FlattenSeq
<1>2. CASE Len(parts) # 0
  <2>1. PICK flat : Flattens(flat, parts)
    BY <1>2, FlattenStepwise
  <2>2. Len(parts) \in 1..Len(parts)
    BY <1>2, LenProperties
  <2>3. QED
    BY <2>1, <2>2 DEF Flattens
<1>3. QED
  BY <1>1, <1>2

(* line[n] is what NFKC makes of the first n characters. *)
Normalizes(line, text) ==
  /\ line \in [0..Len(text) -> Seq(Characters)]
  /\ line[0] = <<>>
  /\ \A n \in 1..Len(text) : line[n] = line[n - 1] \o Nfkc[text[n]]
  /\ Normalized(text) = line[Len(text)]

(* A text can be normalised by going through it once. *)
LEMMA NormalizedStepwise ==
  ASSUME NEW text \in Seq(Characters)
  PROVE  \E line : Normalizes(line, text)
<1> DEFINE total == Len(text)
           parts == [i \in DOMAIN text |-> Nfkc[text[i]]]
<1>1. total \in Nat /\ DOMAIN text = 1..total /\ \A n \in 1..total : Nfkc[text[n]] \in Seq(Characters)
  BY NfkcAssumption, LenProperties
<1>2. /\ parts \in Seq(Seq(Characters)) /\ Len(parts) = total
      /\ \A n \in 1..total : parts[n] = Nfkc[text[n]]
  <2>1. parts = [n \in 1..total |-> Nfkc[text[n]]]
    BY <1>1
  <2> HIDE DEF parts, total
  <2>2. QED
    BY <1>1, <2>1
<1>3. Normalized(text) = FlattenSeq(parts)
  BY DEF Normalized
<1> HIDE DEF parts
<1>4. CASE total = 0
  <2> DEFINE line == [n \in 0..0 |-> <<>>]
  <2>1. parts = <<>>
    BY <1>2, <1>4, EmptySeq
  <2>2. FlattenSeq(parts) = <<>>
    BY <2>1 DEF FlattenSeq
  <2>3. Normalizes(line, text)
    BY <1>3, <1>4, <2>2 DEF Normalizes
  <2>4. QED
    BY <2>3
<1>5. CASE total # 0
  <2>1. PICK flat : Flattens(flat, parts)
    BY <1>2, <1>5, FlattenStepwise
  <2> HIDE DEF total
  <2> DEFINE line == [n \in 0..total |-> IF n = 0 THEN <<>> ELSE flat[n]]
  <2>2. /\ \A n \in 1..total : flat[n] \in Seq(Characters)
        /\ flat[1] = Nfkc[text[1]] /\ Nfkc[text[1]] \in Seq(Characters)
        /\ \A n \in 2..total : flat[n] = flat[n - 1] \o Nfkc[text[n]]
        /\ Normalized(text) = flat[total]
    <3>1. 1 \in 1..total /\ \A n \in 2..total : n \in 1..total
      BY <1>1, <1>5
    <3>2. /\ flat \in [1..total -> Seq(Characters)]
          /\ flat[1] = parts[1]
          /\ \A n \in 2..total : flat[n] = flat[n - 1] \o parts[n]
          /\ FlattenSeq(parts) = flat[total]
      BY <1>2, <2>1 DEF Flattens
    <3>3. QED
      BY <1>1, <1>2, <1>3, <3>1, <3>2
  <2>3. line \in [0..total -> Seq(Characters)] /\ line[0] = <<>> /\ Normalized(text) = line[total]
    BY <1>1, <1>5, <2>2
  <2>4. ASSUME NEW n \in 1..total PROVE line[n] = line[n - 1] \o Nfkc[text[n]]
    <3>1. CASE n = 1
      <4>1. line[n - 1] = <<>> /\ line[n] = flat[1] /\ Nfkc[text[n]] = Nfkc[text[1]]
        BY <1>1, <3>1
      <4>2. <<>> \o Nfkc[text[1]] = Nfkc[text[1]]
        BY <2>2, ConcatEmptySeq
      <4>3. QED
        BY <2>2, <4>1, <4>2
    <3>2. CASE n # 1
      <4>1. n \in 2..total /\ n - 1 \in 1..total /\ n - 1 # 0 /\ n # 0 /\ n \in 0..total /\ n - 1 \in 0..total
        BY <1>1, <3>2
      <4>2. line[n] = flat[n] /\ line[n - 1] = flat[n - 1]
        BY <4>1
      <4>3. flat[n] = flat[n - 1] \o Nfkc[text[n]]
        BY <2>2, <4>1
      <4>4. QED
        BY <4>2, <4>3
    <3>3. QED
      BY <3>1, <3>2
  <2> HIDE DEF line
  <2>5. Normalizes(line, text)
    BY <2>3, <2>4 DEF Normalizes, total
  <2>6. QED
    BY <2>5
<1>6. QED
  BY <1>4, <1>5

(* A normalised text is one. *)
LEMMA NormalizedType ==
  ASSUME NEW text \in Seq(Characters)
  PROVE  Normalized(text) \in Seq(Characters)
<1>1. PICK line : Normalizes(line, text)
  BY NormalizedStepwise
<1>2. Len(text) \in 0..Len(text)
  BY LenProperties
<1>3. QED
  BY <1>1, <1>2 DEF Normalizes

(* Of no text none is made. *)
LEMMA NormalizedNone == Normalized(<<>>) = <<>>
<1>1. <<>> \in Seq(Characters) /\ Len(<<>>) = 0
  OBVIOUS
<1>2. PICK none : Normalizes(none, <<>>)
  BY <1>1, NormalizedStepwise
<1>3. QED
  BY <1>1, <1>2 DEF Normalizes

(* One character after another is normalised. *)
LEMMA NormalizedAppend ==
  ASSUME NEW text \in Seq(Characters), NEW char \in Characters
  PROVE  Normalized(Append(text, char)) = Normalized(text) \o Nfkc[char]
<1> DEFINE n == Len(text)
           longer == Append(text, char)
<1>1. PICK f : Normalizes(f, text)
  BY NormalizedStepwise
<1>2. /\ n \in Nat /\ longer \in Seq(Characters) /\ Len(longer) = n + 1
      /\ longer[n + 1] = char /\ \A i \in 1..n : longer[i] = text[i]
  BY LenProperties, AppendProperties
<1> HIDE DEF longer
<1>3. PICK g : Normalizes(g, longer)
  BY <1>2, NormalizedStepwise
<1>4. /\ f[0] = <<>> /\ Normalized(text) = f[n]
      /\ \A i \in 1..n : f[i] = f[i - 1] \o Nfkc[text[i]]
  BY <1>1 DEF Normalizes
<1>5. /\ g[0] = <<>> /\ Normalized(longer) = g[n + 1]
      /\ \A i \in 1..(n + 1) : g[i] = g[i - 1] \o Nfkc[longer[i]]
  BY <1>2, <1>3 DEF Normalizes
<1> HIDE DEF n
<1> DEFINE S == {i \in 0..n : f[i] = g[i]}
<1>6. 0 \in S
  BY <1>2, <1>4, <1>5
<1>7. ASSUME NEW i \in 1..n, i - 1 \in S PROVE i \in S
  <2>1. f[i - 1] = g[i - 1] /\ i \in 0..n /\ i \in 1..(n + 1)
    BY <1>2, <1>7
  <2>2. f[i] = g[i]
    BY <1>2, <1>4, <1>5, <2>1
  <2>3. QED
    BY <2>1, <2>2
<1>8. n \in S
  <2>1. n \in 0..n
    BY <1>2
  <2> HIDE DEF S
  <2>2. QED
    BY <1>2, <1>6, <1>7, <2>1, CountingUp
<1>9. Normalized(longer) = f[n] \o Nfkc[char]
  <2>1. ASSUME NEW i, i = n + 1 PROVE g[i] = g[n] \o Nfkc[longer[i]]
    <3>1. i \in 1..(n + 1) /\ i - 1 = n
      BY <1>2, <2>1
    <3>2. g[i] = g[i - 1] \o Nfkc[longer[i]]
      BY <1>5, <3>1
    <3>3. QED
      BY <3>1, <3>2
  <2>2. f[n] = g[n]
    BY <1>8
  <2>3. g[n + 1] = g[n] \o Nfkc[longer[n + 1]]
    BY <2>1
  <2>4. QED
    BY <1>2, <1>5, <2>2, <2>3
<1>10. QED
  BY <1>4, <1>9 DEF longer

(* A cleaned text is one, and has no blank at its ends. *)
LEMMA CleanTextType ==
  ASSUME NEW text \in Seq(Characters)
  PROVE  CleanText(text) \in Seq(Characters) /\ Tight(CleanText(text))
<1>1. UnifyNewlines[Normalized(text)] \in Seq(Characters)
  BY NormalizedType, UnifyNewlinesType
<1>2. Squeeze(" ", 1)[UnifyNewlines[Normalized(text)]] \in Seq(Characters)
  BY <1>1, SqueezeType
<1>3. Squeeze("\n", 2)[Squeeze(" ", 1)[UnifyNewlines[Normalized(text)]]] \in Seq(Characters)
  BY <1>2, SqueezeType
<1>4. QED
  BY <1>3, StripType DEF CleanText
-----------------------------------------------------------------------------
Tag == [char : Characters \cup {Separator}, page : 1..MaxParts]
Segment == [text : Seq(Characters), page : 1..MaxParts]

(* A tagged text holds its characters, each with the page.                 *)
LEMMA TaggedType ==
  ASSUME NEW text \in Seq(Characters \cup {Separator}), NEW page \in 1..MaxParts
  PROVE  /\ Tagged(text, page) \in Seq(Tag)
         /\ Len(Tagged(text, page)) = Len(text)
         /\ \A i \in 1..Len(text) : Tagged(text, page)[i] = [char |-> text[i], page |-> page]
<1>1. Len(text) \in Nat /\ DOMAIN text = 1..Len(text) /\ \A i \in 1..Len(text) : text[i] \in Characters \cup {Separator}
  BY LenProperties
<1>2. Tagged(text, page) = [i \in 1..Len(text) |-> [char |-> text[i], page |-> page]]
  BY <1>1 DEF Tagged
<1>3. \A i \in 1..Len(text) : [char |-> text[i], page |-> page] \in Tag
  BY <1>1 DEF Tag
<1>4. Tagged(text, page) \in [1..Len(text) -> Tag]
  BY <1>2, <1>3
<1>5. QED
  BY <1>1, <1>2, <1>4

(* One segment after another is joined to the line. *)
Joins(line, segs) ==
  /\ line \in [0..Len(segs) -> Seq(Tag)]
  /\ line[0] = <<>>
  /\ \A n \in 1..Len(segs) :
       line[n] = (IF line[n - 1] = <<>> \/ Last(line[n - 1]).char \in {"\n", Separator} THEN line[n - 1]
                  ELSE line[n - 1] \o Tagged(<<Separator>>, segs[n].page))
                 \o Tagged(segs[n].text, segs[n].page)
  /\ Linear(segs) = line[Len(segs)]

(* The joined text can be built by going through the segments once. *)
LEMMA LinearStepwise ==
  ASSUME NEW segs \in Seq(Segment)
  PROVE  \E line : Joins(line, segs)
<1> DEFINE total == Len(segs)
           New(n, v) == (IF v = <<>> \/ Last(v).char \in {"\n", Separator} THEN v
                         ELSE v \o Tagged(<<Separator>>, segs[n].page))
                        \o Tagged(segs[n].text, segs[n].page)
           Step == [n \in 1..total |-> [v \in Seq(Tag) |-> New(n, v)]]
           Makes(line) == line = [n \in 0..total |->
                                    IF n = 0 THEN <<>>
                                    ELSE (IF line[n - 1] = <<>> \/ Last(line[n - 1]).char \in {"\n", Separator} THEN line[n - 1]
                                          ELSE line[n - 1] \o Tagged(<<Separator>>, segs[n].page))
                                         \o Tagged(segs[n].text, segs[n].page)]
<1>1. total \in Nat /\ <<>> \in Seq(Tag) /\ \A n \in 1..total : segs[n] \in Segment
  BY LenProperties
<1>2. ASSUME NEW n \in 1..total, NEW v \in Seq(Tag) PROVE New(n, v) \in Seq(Tag)
  <2>1. /\ segs[n].text \in Seq(Characters \cup {Separator}) /\ segs[n].page \in 1..MaxParts
        /\ <<Separator>> \in Seq(Characters \cup {Separator})
    BY <1>1 DEF Segment
  <2>2. /\ Tagged(segs[n].text, segs[n].page) \in Seq(Tag)
        /\ Tagged(<<Separator>>, segs[n].page) \in Seq(Tag)
    BY <2>1, TaggedType
  <2>3. v \o Tagged(<<Separator>>, segs[n].page) \in Seq(Tag)
    BY <2>2, ConcatProperties
  <2>4. QED
    BY <2>2, <2>3, ConcatProperties
<1>3. PICK g \in [0..total -> Seq(Tag)] : g[0] = <<>> /\ \A n \in 1..total : g[n] = Step[n][g[n - 1]]
  <2>1. IsRule(Step, total, Seq(Tag))
    BY <1>2 DEF IsRule
  <2> HIDE DEF Step, total
  <2>2. \E g : Follows(g, total, Seq(Tag), <<>>, Step)
    BY <1>1, <2>1, StepByStep
  <2>3. QED
    BY <2>2 DEF Follows
<1>4. ASSUME NEW n \in 1..total PROVE g[n] = New(n, g[n - 1])
  <2>1. n - 1 \in 0..total /\ g[n - 1] \in Seq(Tag)
    OBVIOUS
  <2> HIDE DEF New
  <2>2. QED
    BY <1>3, <2>1
<1>5. Makes(g)
  <2>1. ASSUME NEW n \in 0..total PROVE g[n] = IF n = 0 THEN <<>> ELSE New(n, g[n - 1])
    <3>1. CASE n = 0
      BY <1>3, <3>1
    <3>2. CASE n # 0
      <4>1. n \in 1..total
        BY <3>2
      <4> HIDE DEF New
      <4>2. QED
        BY <1>4, <3>2, <4>1
    <3>3. QED
      BY <3>1, <3>2
  <2>2. QED
    BY <2>1
<1> DEFINE line == CHOOSE h : Makes(h)
<1>6. Makes(line) /\ Linear(segs) = line[total]
  <2>1. Makes(line)
    <3> HIDE DEF Makes
    <3>1. QED
      BY <1>5
  <2>2. QED
    BY <2>1 DEF Linear
<1> HIDE DEF line
<1>7. line[0] = <<>> /\ \A n \in 1..total : line[n] = New(n, line[n - 1])
  <2> HIDE DEF total
  <2>1. \A n \in 0..total : line[n] = IF n = 0 THEN <<>> ELSE New(n, line[n - 1])
    BY <1>6
  <2>2. 0 \in 0..total /\ \A n \in 1..total : n \in 0..total /\ n # 0
    BY <1>1
  <2> HIDE DEF New
  <2>3. QED
    BY <2>1, <2>2
<1>8. \A n \in 0..total : line[n] \in Seq(Tag)
  <2> DEFINE S == {n \in 0..total : line[n] \in Seq(Tag)}
  <2> HIDE DEF New
  <2>1. 0 \in S
    <3>1. 0 \in 0..total /\ line[0] \in Seq(Tag)
      BY <1>1, <1>7
    <3>2. QED
      BY <3>1
  <2>2. ASSUME NEW n \in 1..total, n - 1 \in S PROVE n \in S
    <3>1. line[n - 1] \in Seq(Tag)
      BY <2>2
    <3>2. New(n, line[n - 1]) \in Seq(Tag)
      BY <3>1, <1>2
    <3>3. line[n] \in Seq(Tag) /\ n \in 0..total
      BY <1>7, <3>2
    <3>4. QED
      BY <3>3
  <2>3. \A n \in 0..total : n \in S
    <3> HIDE DEF S, total
    <3>1. QED
      BY <1>1, <2>1, <2>2, CountingUp
  <2>4. QED
    BY <2>3
<1>9. line \in [0..total -> Seq(Tag)]
  BY <1>6, <1>8
<1>10. QED
  BY <1>6, <1>7, <1>9 DEF Joins

(* Pages follow one another, each ends with a visible character, and       *)
(* begins with one or with a separator before one.                         *)
WellPaged(text) ==
  /\ \A i, j \in 1..Len(text) : i <= j => text[i].page <= text[j].page
  /\ \A i \in 1..Len(text) :
       i = Len(text) \/ text[i + 1].page # text[i].page => ~Blank(text[i].char)
  /\ \A i \in 1..Len(text) :
       i = 1 \/ text[i - 1].page # text[i].page =>
         \/ ~Blank(text[i].char)
         \/ i < Len(text) /\ text[i + 1].page = text[i].page /\ ~Blank(text[i + 1].char)

IsPage(text, page) ==
  /\ text \in Seq(Tag) /\ Len(text) >= 1
  /\ \A i \in 1..Len(text) : text[i].page = page
  /\ ~Blank(text[Len(text)].char)
  /\ ~Blank(text[1].char) \/ (Len(text) >= 2 /\ ~Blank(text[2].char))

(* Joining a segment of a later page keeps the line well paged. *)
LEMMA PageIsJoined ==
  ASSUME NEW s \in Seq(Tag), WellPaged(s), NEW page \in 1..MaxParts, NEW t, IsPage(t, page),
         \A i \in 1..Len(s) : s[i].page < page
  PROVE  WellPaged(s \o t)
<1> DEFINE m == Len(s)
           n == Len(t)
           st == s \o t
<1>1. /\ m \in Nat /\ n \in Nat /\ n >= 1 /\ Len(st) = m + n
      /\ \A i \in 1..(m + n) : st[i] = IF i <= m THEN s[i] ELSE t[i - m]
  BY LenProperties, ConcatProperties DEF IsPage
<1>2. \A i \in 1..m : s[i].page \in Int /\ s[i].page < page
  <2>1. \A i \in 1..m : s[i] \in Tag
    BY LenProperties
  <2>2. QED
    BY <2>1, TextsAssumption DEF Tag
<1>3. /\ page \in Int
      /\ \A i \in 1..n : t[i].page = page
      /\ ~Blank(t[n].char)
      /\ ~Blank(t[1].char) \/ (n >= 2 /\ ~Blank(t[2].char))
  BY TextsAssumption DEF IsPage
<1> HIDE DEF m, n, st
<1>4. /\ \A i \in 1..m : i \in 1..(m + n) /\ st[i] = s[i]
      /\ \A i \in 1..(m + n) : i > m => i - m \in 1..n /\ st[i] = t[i - m]
  BY <1>1
<1>5. /\ \A i, j \in 1..m : i <= j => s[i].page <= s[j].page
      /\ \A i \in 1..m : i = m \/ s[i + 1].page # s[i].page => ~Blank(s[i].char)
      /\ \A i \in 1..m : i = 1 \/ s[i - 1].page # s[i].page =>
           \/ ~Blank(s[i].char)
           \/ i < m /\ s[i + 1].page = s[i].page /\ ~Blank(s[i + 1].char)
  BY DEF WellPaged, m
<1>6. ASSUME NEW i \in 1..(m + n), NEW j \in 1..(m + n), i <= j PROVE st[i].page <= st[j].page
  <2>1. CASE j <= m
    <3>1. i \in 1..m /\ j \in 1..m
      BY <1>1, <1>6, <2>1
    <3>2. QED
      BY <1>4, <1>5, <1>6, <3>1
  <2>2. CASE j > m
    <3>1. st[j].page = page
      BY <1>3, <1>4, <2>2
    <3>2. CASE i <= m
      <4>1. i \in 1..m
        BY <1>1, <3>2
      <4>2. QED
        BY <1>2, <1>3, <1>4, <3>1, <4>1
    <3>3. CASE i > m
      BY <1>3, <1>4, <3>1, <3>3
    <3>4. QED
      BY <1>1, <3>2, <3>3
  <2>3. QED
    BY <1>1, <2>1, <2>2
<1>7. ASSUME NEW i \in 1..(m + n), i = m + n \/ st[i + 1].page # st[i].page PROVE ~Blank(st[i].char)
  <2>1. CASE i <= m
    <3>1. i \in 1..m /\ i + 1 \in 1..(m + n) /\ i # m + n
      BY <1>1, <2>1
    <3>2. i = m \/ s[i + 1].page # s[i].page
      <4>1. CASE i < m
        <5>1. i + 1 \in 1..m
          BY <1>1, <3>1, <4>1
        <5>2. QED
          BY <1>4, <1>7, <3>1, <5>1
      <4>2. QED
        BY <1>1, <3>1, <4>1
    <3>3. QED
      BY <1>4, <1>5, <3>1, <3>2
  <2>2. CASE i > m
    <3>1. i = m + n
      <4> SUFFICES ASSUME i # m + n PROVE FALSE
        OBVIOUS
      <4>1. i + 1 \in 1..(m + n) /\ i + 1 > m
        BY <1>1, <2>2
      <4>2. st[i].page = page /\ st[i + 1].page = page
        BY <1>3, <1>4, <2>2, <4>1
      <4>3. QED
        BY <1>7, <4>2
    <3>2. i - m = n
      BY <1>1, <3>1
    <3>3. QED
      BY <1>3, <1>4, <2>2, <3>2
  <2>3. QED
    BY <1>1, <2>1, <2>2
<1>8. ASSUME NEW i \in 1..(m + n), i = 1 \/ st[i - 1].page # st[i].page
      PROVE  \/ ~Blank(st[i].char)
             \/ i < m + n /\ st[i + 1].page = st[i].page /\ ~Blank(st[i + 1].char)
  <2>1. CASE i <= m
    <3>1. i \in 1..m
      BY <1>1, <2>1
    <3>2. i = 1 \/ s[i - 1].page # s[i].page
      <4>1. CASE i # 1
        <5>1. i - 1 \in 1..m
          BY <1>1, <3>1, <4>1
        <5>2. QED
          BY <1>4, <1>8, <3>1, <4>1, <5>1
      <4>2. QED
        BY <4>1
    <3>3. \/ ~Blank(s[i].char)
          \/ i < m /\ s[i + 1].page = s[i].page /\ ~Blank(s[i + 1].char)
      BY <1>5, <3>1, <3>2
    <3>4. CASE i < m /\ s[i + 1].page = s[i].page /\ ~Blank(s[i + 1].char)
      <4>1. i + 1 \in 1..m /\ i < m + n
        BY <1>1, <3>1, <3>4
      <4>2. QED
        BY <1>4, <3>1, <3>4, <4>1
    <3>5. QED
      BY <1>4, <3>1, <3>3, <3>4
  <2>2. CASE i > m
    <3>1. i = m + 1
      <4> SUFFICES ASSUME i # m + 1 PROVE FALSE
        OBVIOUS
      <4>1. i - 1 \in 1..(m + n) /\ i - 1 > m /\ i # 1
        BY <1>1, <2>2
      <4>2. st[i].page = page /\ st[i - 1].page = page
        BY <1>3, <1>4, <2>2, <4>1
      <4>3. QED
        BY <1>8, <4>1, <4>2
    <3>2. i - m = 1 /\ st[i] = t[1]
      BY <1>1, <1>4, <3>1
    <3>3. CASE n >= 2 /\ ~Blank(t[2].char)
      <4>1. i + 1 \in 1..(m + n) /\ i + 1 > m /\ (i + 1) - m = 2 /\ i < m + n
        BY <1>1, <3>1, <3>3
      <4>2. st[i + 1] = t[2] /\ 1 \in 1..n /\ 2 \in 1..n
        BY <1>1, <1>4, <3>3, <4>1
      <4>3. QED
        BY <1>3, <3>2, <3>3, <4>1, <4>2
    <3>4. QED
      BY <1>3, <3>2, <3>3
  <2>3. QED
    BY <1>1, <2>1, <2>2
<1>9. Len(s \o t) = m + n /\ s \o t = st
  BY <1>1 DEF st
<1>10. QED
  BY <1>6, <1>7, <1>8, <1>9 DEF WellPaged
-----------------------------------------------------------------------------
(* What extraction makes, and what cleaning leaves for the joining.        *)
Rising(segs) == \A i, j \in 1..Len(segs) : i < j => segs[i].page < segs[j].page

Inked(segs) == \A n \in 1..Len(segs) : segs[n].text # <<>> /\ Tight(segs[n].text)

(* A stripped segment is a page of the stream, with a separator or not.    *)
LEMMA SegmentIsPage ==
  ASSUME NEW text \in Seq(Characters), NEW page \in 1..MaxParts, text # <<>>, Tight(text)
  PROVE  /\ IsPage(Tagged(text, page), page)
         /\ IsPage(Tagged(<<Separator>>, page) \o Tagged(text, page), page)
<1> DEFINE t == Tagged(text, page)
           sep == Tagged(<<Separator>>, page)
           n == Len(text)
<1>1. n \in Nat /\ n >= 1
  BY EmptySeq
<1>2. /\ t \in Seq(Tag) /\ Len(t) = n
      /\ \A i \in 1..n : t[i] = [char |-> text[i], page |-> page]
  <2>1. text \in Seq(Characters \cup {Separator})
    BY SeqMonotonic
  <2> HIDE DEF n
  <2>2. QED
    BY <2>1, TaggedType DEF n
<1>3. sep \in Seq(Tag) /\ Len(sep) = 1 /\ sep[1] = [char |-> Separator, page |-> page]
  <2>1. <<Separator>> \in Seq(Characters \cup {Separator}) /\ Len(<<Separator>>) = 1
    OBVIOUS
  <2>2. sep \in Seq(Tag) /\ Len(sep) = Len(<<Separator>>)
        /\ \A i \in 1..Len(<<Separator>>) : sep[i] = [char |-> <<Separator>>[i], page |-> page]
    BY <2>1, TaggedType
  <2>3. QED
    BY <2>1, <2>2
<1>4. ~Blank(text[1]) /\ ~Blank(text[n])
  BY DEF Tight
<1> HIDE DEF t, sep, n
<1>5. IsPage(t, page)
  BY <1>1, <1>2, <1>4 DEF IsPage
<1>6. /\ sep \o t \in Seq(Tag) /\ Len(sep \o t) = 1 + n
      /\ \A i \in 1..(1 + n) : (sep \o t)[i] = IF i <= 1 THEN sep[i] ELSE t[i - 1]
  <2>1. /\ sep \o t \in Seq(Tag) /\ Len(sep \o t) = Len(sep) + Len(t)
        /\ \A i \in 1..(Len(sep) + Len(t)) :
             (sep \o t)[i] = IF i <= Len(sep) THEN sep[i] ELSE t[i - Len(sep)]
    BY <1>2, <1>3, ConcatProperties
  <2>2. QED
    BY <1>1, <1>2, <1>3, <2>1
<1>7. /\ \A i \in 1..(1 + n) : (sep \o t)[i].page = page
      /\ (sep \o t)[2] = t[1] /\ (sep \o t)[1 + n] = t[n]
  <2>1. \A i \in 1..(1 + n) : i <= 1 => i = 1
    BY <1>1
  <2>2. \A i \in 1..(1 + n) : i > 1 => i - 1 \in 1..n
    BY <1>1
  <2>3. 2 \in 1..(1 + n) /\ 1 + n \in 1..(1 + n) /\ 1 + n > 1 /\ 2 > 1
    BY <1>1
  <2>4. \A i \in 1..(1 + n) : (sep \o t)[i].page = page
    BY <1>1, <1>2, <1>3, <1>6, <2>1, <2>2
  <2>5. QED
    BY <1>1, <1>6, <2>3, <2>4
<1>8. IsPage(sep \o t, page)
  BY <1>1, <1>2, <1>4, <1>6, <1>7 DEF IsPage
<1>9. QED
  BY <1>5, <1>8 DEF t, sep

(* The joined text is a line of characters with pages. *)
LEMMA LinearType ==
  ASSUME NEW segs \in Seq(Segment)
  PROVE  Linear(segs) \in Seq(Tag)
<1>1. PICK line : Joins(line, segs)
  BY LinearStepwise
<1>2. Len(segs) \in 0..Len(segs) /\ line \in [0..Len(segs) -> Seq(Tag)] /\ Linear(segs) = line[Len(segs)]
  BY <1>1, LenProperties DEF Joins
<1>3. QED
  BY <1>2

(* The line that is cut into windows is well paged. *)
LEMMA LinearWellPaged ==
  ASSUME NEW segs \in Seq(Segment), Rising(segs), Inked(segs)
  PROVE  WellPaged(Linear(segs))
<1>1. PICK line : Joins(line, segs)
  BY LinearStepwise
<1> DEFINE total == Len(segs)
           S == {n \in 0..total : /\ WellPaged(line[n])
                                  /\ \A i \in 1..Len(line[n]) :
                                       n # 0 /\ line[n][i].page <= segs[n].page}
<1>2. /\ total \in Nat /\ \A n \in 1..total : segs[n] \in Segment
      /\ \A n \in 0..total : line[n] \in Seq(Tag)
      /\ line[0] = <<>>
      /\ Linear(segs) = line[total]
  BY <1>1, LenProperties DEF Joins
<1>3. 0 \in S
  BY <1>2 DEF WellPaged
<1>4. ASSUME NEW n \in 1..total, n - 1 \in S PROVE n \in S
  <2> DEFINE before == line[n - 1]
             page == segs[n].page
             sep == Tagged(<<Separator>>, page)
             t == Tagged(segs[n].text, page)
  <2>1. /\ segs[n].text \in Seq(Characters) /\ page \in 1..MaxParts /\ page \in Int
        /\ segs[n].text # <<>> /\ Tight(segs[n].text)
    BY <1>2, TextsAssumption DEF Segment, Inked
  <2>2. IsPage(t, page) /\ IsPage(sep \o t, page)
    BY <2>1, SegmentIsPage
  <2>3. /\ before \in Seq(Tag) /\ WellPaged(before)
        /\ \A i \in 1..Len(before) : n - 1 # 0 /\ before[i].page <= segs[n - 1].page
    BY <1>2, <1>4
  <2>4. \A i \in 1..Len(before) : before[i].page < page
    <3> SUFFICES ASSUME NEW i \in 1..Len(before) PROVE before[i].page < page
      OBVIOUS
    <3>1. n - 1 \in 1..total /\ before[i].page <= segs[n - 1].page
      BY <1>2, <2>3
    <3>2. segs[n - 1].page < page
      BY <3>1 DEF Rising
    <3>3. segs[n - 1].page \in Int /\ before[i].page \in Int
      <4>1. segs[n - 1] \in Segment /\ before[i] \in Tag
        BY <1>2, <2>3, <3>1, LenProperties
      <4>2. QED
        BY <4>1, TextsAssumption DEF Segment, Tag
    <3>4. QED
      BY <2>1, <3>1, <3>2, <3>3
  <2>5. PICK new : IsPage(new, page) /\ line[n] = before \o new
    <3>1. line[n] = (IF before = <<>> \/ Last(before).char \in {"\n", Separator} THEN before
                     ELSE before \o sep) \o t
      BY <1>1 DEF Joins
    <3>2. (before \o sep) \o t = before \o (sep \o t)
      <4>1. t \in Seq(Tag)
        BY <2>2 DEF IsPage
      <4>2. sep \in Seq(Tag)
        <5>1. <<Separator>> \in Seq(Characters \cup {Separator})
          OBVIOUS
        <5>2. QED
          BY <2>1, <5>1, TaggedType
      <4> HIDE DEF before, sep, t
      <4>3. QED
        BY <2>3, <4>1, <4>2, ConcatAssociative
    <3> HIDE DEF before, sep, t, page
    <3>3. CASE before = <<>> \/ Last(before).char \in {"\n", Separator}
      BY <2>2, <3>1, <3>3
    <3>4. CASE ~(before = <<>> \/ Last(before).char \in {"\n", Separator})
      BY <2>2, <3>1, <3>2, <3>4
    <3>5. QED
      BY <3>3, <3>4
  <2> HIDE DEF before, sep, t
  <2>6. WellPaged(line[n])
    <3> HIDE DEF page
    <3>1. QED
      BY <2>1, <2>3, <2>4, <2>5, PageIsJoined
  <2>7. ASSUME NEW i \in 1..Len(line[n]) PROVE line[n][i].page <= page
    <3>1. /\ new \in Seq(Tag) /\ Len(new) \in Nat /\ Len(before) \in Nat
          /\ \A k \in 1..Len(new) : new[k].page = page
      BY <2>3, <2>5, LenProperties DEF IsPage
    <3>2. /\ Len(line[n]) = Len(before) + Len(new)
          /\ line[n][i] = IF i <= Len(before) THEN before[i] ELSE new[i - Len(before)]
      <4>1. /\ Len(before \o new) = Len(before) + Len(new)
            /\ \A k \in 1..(Len(before) + Len(new)) :
                 (before \o new)[k] = IF k <= Len(before) THEN before[k] ELSE new[k - Len(before)]
        BY <2>3, <3>1, ConcatProperties
      <4>2. QED
        BY <2>5, <2>7, <4>1
    <3>3. i \in 1..(Len(before) + Len(new))
      BY <2>7, <3>2
    <3>4. CASE i <= Len(before)
      <4>1. i \in 1..Len(before) /\ line[n][i] = before[i]
        BY <3>1, <3>2, <3>3, <3>4
      <4>2. before[i].page < page /\ before[i].page \in Int
        <5>1. before[i] \in Tag
          BY <2>3, <4>1, LenProperties
        <5>2. QED
          BY <2>4, <4>1, <5>1, TextsAssumption DEF Tag
      <4>3. QED
        BY <2>1, <4>1, <4>2
    <3>5. CASE i > Len(before)
      <4>1. i - Len(before) \in 1..Len(new) /\ line[n][i] = new[i - Len(before)]
        BY <3>1, <3>2, <3>3, <3>5
      <4>2. QED
        BY <2>1, <3>1, <4>1
    <3>6. QED
      BY <3>1, <3>3, <3>4, <3>5
  <2>8. n \in 0..total /\ n # 0
    OBVIOUS
  <2>9. QED
    BY <2>6, <2>7, <2>8
<1>5. total \in S
  <2>1. total \in 0..total
    BY <1>2
  <2> HIDE DEF S, total
  <2>2. QED
    BY <1>2, <1>3, <1>4, <2>1, CountingUp
<1>6. QED
  BY <1>2, <1>5

(* Paragraph after paragraph is joined. *)
JoinsParagraphs(joined, inked) ==
  /\ joined \in [0..Len(inked) -> Seq(Characters)]
  /\ joined[0] = <<>>
  /\ \A n \in 1..Len(inked) :
       joined[n] = IF n = 1 THEN inked[1] ELSE joined[n - 1] \o <<"\n">> \o inked[n]

(* The text of a DOCX can be built by going through its paragraphs once. *)
LEMMA ParagraphsStepwise ==
  ASSUME NEW parts \in Seq(Seq(Characters))
  PROVE  \E inked, joined :
           /\ inked = Filtered(parts, HasInk) /\ inked \in Seq(Seq(Characters))
           /\ JoinsParagraphs(joined, inked)
           /\ Paragraphs(parts) = joined[Len(inked)]
<1> DEFINE inked == Filtered(parts, HasInk)
           total == Len(inked)
           T == Seq(Characters)
           New(n, v) == IF n = 1 THEN inked[1] ELSE v \o <<"\n">> \o inked[n]
           Step == [n \in 1..total |-> [v \in T |-> New(n, v)]]
           Makes(joined) == joined = [n \in 0..total |->
                                        IF n = 0 THEN <<>>
                                        ELSE IF n = 1 THEN inked[1]
                                        ELSE joined[n - 1] \o <<"\n">> \o inked[n]]
           joined == CHOOSE h : Makes(h)
<1>1. inked \in Seq(T)
  BY PickedType DEF Filtered
<1>2. Paragraphs(parts) = joined[total]
  BY DEF Paragraphs
<1> HIDE DEF inked
<1>3. total \in Nat /\ <<>> \in T /\ \A n \in 1..total : inked[n] \in T
  BY <1>1, LenProperties
<1>4. ASSUME NEW n \in 1..total, NEW v \in T PROVE New(n, v) \in T
  <2>1. <<"\n">> \in T
    <3>1. "\n" \in Characters
      BY DEF Characters
    <3>2. QED
      BY <3>1
  <2>2. inked[n] \in T
    BY <1>3
  <2> HIDE DEF T, total
  <2>3. v \o <<"\n">> \in T
    BY <2>1, ConcatProperties DEF T
  <2>4. v \o <<"\n">> \o inked[n] \in T
    BY <2>2, <2>3, ConcatProperties DEF T
  <2>5. CASE n = 1
    BY <2>2, <2>5
  <2>6. CASE n # 1
    BY <2>4, <2>6
  <2>7. QED
    BY <2>5, <2>6
<1> HIDE DEF T
<1>5. PICK g \in [0..total -> T] : g[0] = <<>> /\ \A n \in 1..total : g[n] = Step[n][g[n - 1]]
  <2>1. IsRule(Step, total, T)
    <3> HIDE DEF New
    <3>1. QED
      BY <1>4 DEF IsRule
  <2> HIDE DEF Step, total
  <2>2. \E g : Follows(g, total, T, <<>>, Step)
    BY <1>3, <2>1, StepByStep
  <2>3. QED
    BY <2>2 DEF Follows
<1>6. ASSUME NEW n \in 1..total PROVE g[n] = New(n, g[n - 1])
  <2>1. n - 1 \in 0..total /\ g[n - 1] \in T
    BY <1>3
  <2> HIDE DEF New
  <2>2. QED
    BY <1>5, <2>1
<1>7. Makes(g)
  <2>1. ASSUME NEW n \in 0..total PROVE g[n] = IF n = 0 THEN <<>> ELSE New(n, g[n - 1])
    <3>1. CASE n = 0
      BY <1>5, <3>1
    <3>2. CASE n # 0
      <4>1. n \in 1..total
        BY <3>2
      <4> HIDE DEF New
      <4>2. QED
        BY <1>6, <3>2, <4>1
    <3>3. QED
      BY <3>1, <3>2
  <2>2. QED
    BY <2>1
<1>8. Makes(joined)
  <2> HIDE DEF Makes
  <2>1. QED
    BY <1>7
<1> HIDE DEF joined
<1>9. joined[0] = <<>> /\ \A n \in 1..total : joined[n] = New(n, joined[n - 1])
  <2> HIDE DEF total
  <2>1. \A n \in 0..total : joined[n] = IF n = 0 THEN <<>> ELSE New(n, joined[n - 1])
    BY <1>8
  <2>2. 0 \in 0..total /\ \A n \in 1..total : n \in 0..total /\ n # 0
    BY <1>3
  <2> HIDE DEF New
  <2>3. QED
    BY <2>1, <2>2
<1>10. \A n \in 0..total : joined[n] \in T
  <2> DEFINE S == {n \in 0..total : joined[n] \in T}
  <2> HIDE DEF New
  <2>1. 0 \in S
    <3>1. 0 \in 0..total /\ joined[0] \in T
      BY <1>3, <1>9
    <3>2. QED
      BY <3>1
  <2>2. ASSUME NEW n \in 1..total, n - 1 \in S PROVE n \in S
    <3>1. joined[n - 1] \in T
      BY <2>2
    <3>2. New(n, joined[n - 1]) \in T
      BY <3>1, <1>4
    <3>3. joined[n] \in T /\ n \in 0..total
      BY <1>9, <3>2
    <3>4. QED
      BY <3>3
  <2>3. \A n \in 0..total : n \in S
    <3> HIDE DEF S, total
    <3>1. QED
      BY <1>3, <2>1, <2>2, CountingUp
  <2>4. QED
    BY <2>3
<1>11. joined \in [0..total -> T]
  BY <1>8, <1>10
<1>12. JoinsParagraphs(joined, inked)
  BY <1>9, <1>11 DEF JoinsParagraphs, T
<1>13. inked = Filtered(parts, HasInk) /\ inked \in Seq(Seq(Characters))
  BY <1>1 DEF inked, T
<1>14. QED
  BY <1>2, <1>12, <1>13

(* The paragraphs of a file make a text.                                   *)
LEMMA ParagraphsType ==
  ASSUME NEW parts \in Seq(Seq(Characters))
  PROVE  Paragraphs(parts) \in Seq(Characters)
<1>1. PICK inked, joined : /\ inked \in Seq(Seq(Characters))
                           /\ JoinsParagraphs(joined, inked)
                           /\ Paragraphs(parts) = joined[Len(inked)]
  BY ParagraphsStepwise
<1>2. Len(inked) \in 0..Len(inked) /\ joined \in [0..Len(inked) -> Seq(Characters)]
  BY <1>1, LenProperties DEF JoinsParagraphs
<1>3. QED
  BY <1>1, <1>2

(* What a file of the model is. *)
LEMMA FilesType ==
  ASSUME NEW f \in Files
  PROVE  /\ f.type \in {"pdf", "docx", "txt"}
         /\ f.parts \in Seq(Seq(Characters)) /\ Len(f.parts) \in 0..MaxParts
         /\ f.type = "txt" => Len(f.parts) = 1 /\ f.parts = <<f.parts[1]>>
         /\ Pages(f) \in Seq(Seq(Characters)) /\ Len(Pages(f)) = Len(f.parts)
<1>1. MaxParts \in Nat \ {0} /\ Texts \subseteq Seq(Characters)
  BY TextsAssumption
<1>2. ASSUME f.parts \in BoundedSeq(Texts, MaxParts)
      PROVE  f.parts \in Seq(Seq(Characters)) /\ Len(f.parts) \in 0..MaxParts
  <2>1. PICK n \in 0..MaxParts : f.parts \in [1..n -> Texts]
    BY <1>2 DEF BoundedSeq, SeqOf
  <2>2. n \in Nat /\ f.parts \in [1..n -> Seq(Characters)]
    BY <1>1, <2>1
  <2>3. QED
    BY <2>2
<1>3. /\ f.type \in {"pdf", "docx", "txt"}
      /\ f.parts \in Seq(Seq(Characters)) /\ Len(f.parts) \in 0..MaxParts
      /\ f.type = "txt" => Len(f.parts) = 1 /\ f.parts = <<f.parts[1]>>
  <2>1. CASE f \in [type : {"docx"}, readable : BOOLEAN, parts : BoundedSeq(Texts, MaxParts), failing : {{}}]
    BY <1>2, <2>1
  <2>2. CASE f \in PdfFiles
    <3>1. PICK parts \in BoundedSeq(Texts, MaxParts) :
            f \in [type : {"pdf"}, readable : BOOLEAN, parts : {parts}, failing : SUBSET DOMAIN parts]
      BY <2>2 DEF PdfFiles
    <3>2. f.type = "pdf" /\ f.parts = parts
      BY <3>1
    <3>3. QED
      BY <1>2, <3>2
  <2>3. CASE f \in [type : {"txt"}, readable : BOOLEAN, parts : {<<text>> : text \in Texts}, failing : {{}}]
    <3>1. f.type = "txt" /\ f.parts \in {<<text>> : text \in Texts}
      BY <2>3
    <3>2. PICK text \in Texts : f.parts = <<text>>
      BY <3>1
    <3>3. text \in Seq(Characters) /\ 1 \in 0..MaxParts
      BY <1>1
    <3>4. Len(f.parts) = 1 /\ f.parts \in Seq(Seq(Characters)) /\ f.parts[1] = text
      BY <3>2, <3>3
    <3>5. QED
      BY <3>1, <3>2, <3>3, <3>4
  <2>4. QED
    BY <2>1, <2>2, <2>3 DEF Files
<1>4. Pages(f) \in Seq(Seq(Characters)) /\ Len(Pages(f)) = Len(f.parts)
  <2> DEFINE n == Len(f.parts)
  <2>1. n \in Nat /\ DOMAIN f.parts = 1..n /\ \A i \in 1..n : f.parts[i] \in Seq(Characters)
    BY <1>3, LenProperties
  <2>2. <<>> \in Seq(Characters)
    OBVIOUS
  <2>3. Pages(f) \in [1..n -> Seq(Characters)]
    BY <2>1, <2>2 DEF Pages
  <2> HIDE DEF n
  <2>4. Pages(f) \in Seq(Seq(Characters)) /\ Len(Pages(f)) = n
    BY <2>1, <2>3
  <2>5. QED
    BY <2>4 DEF n
<1>5. QED
  BY <1>3, <1>4

(* Extraction yields segments whose pages ascend. *)
LEMMA ExtractedType ==
  ASSUME NEW f \in Files
  PROVE  Extracted(f) \in Seq(Segment) /\ Rising(Extracted(f))
<1>1. /\ f.type \in {"pdf", "docx", "txt"}
      /\ f.parts \in Seq(Seq(Characters)) /\ Len(f.parts) \in 0..MaxParts
      /\ f.type = "txt" => Len(f.parts) = 1
      /\ Pages(f) \in Seq(Seq(Characters)) /\ Len(Pages(f)) = Len(f.parts)
      /\ MaxParts \in Nat \ {0}
  BY FilesType, TextsAssumption
<1>2. ASSUME NEW text \in Seq(Characters), Extracted(f) = <<[text |-> text, page |-> 1]>>
      PROVE  Extracted(f) \in Seq(Segment) /\ Rising(Extracted(f))
  <2>1. [text |-> text, page |-> 1] \in Segment
    BY <1>1 DEF Segment
  <2> DEFINE only == [text |-> text, page |-> 1]
  <2> HIDE DEF only
  <2>2. <<only>> \in Seq(Segment) /\ Rising(<<only>>)
    BY <2>1 DEF only, Rising
  <2>3. QED
    BY <1>2, <2>2 DEF only
<1>3. CASE f.type = "txt"
  <2>1. f.parts[1] \in Seq(Characters)
    BY <1>1, <1>3
  <2>2. QED
    BY <1>2, <1>3, <2>1 DEF Extracted
<1>4. CASE f.type = "docx"
  <2>1. Paragraphs(f.parts) \in Seq(Characters)
    BY <1>1, ParagraphsType
  <2>2. QED
    BY <1>2, <1>4, <2>1 DEF Extracted
<1>5. CASE f.type = "pdf"
  <2> DEFINE n == Len(f.parts)
             pages == [i \in 1..n |-> [text |-> Pages(f)[i], page |-> i]]
  <2>1. n \in Nat /\ n <= MaxParts /\ DOMAIN f.parts = 1..n /\ \A i \in 1..n : Pages(f)[i] \in Seq(Characters)
    BY <1>1, LenProperties
  <2>2. Extracted(f) = pages
    BY <1>5, <2>1 DEF Extracted
  <2>3. \A i \in 1..n : i \in 1..MaxParts /\ pages[i].page = i /\ [text |-> Pages(f)[i], page |-> i] \in Segment
    BY <1>1, <2>1 DEF Segment
  <2>4. pages \in [1..n -> Segment]
    BY <2>3
  <2>5. pages \in Seq(Segment) /\ Len(pages) = n
    <3> HIDE DEF pages, n
    <3>1. QED
      BY <2>1, <2>4
  <2>6. Rising(pages)
    <3> HIDE DEF n
    <3>1. QED
      BY <2>1, <2>3, <2>5 DEF Rising
  <2>7. QED
    BY <2>2, <2>5, <2>6
<1>6. QED
  BY <1>1, <1>3, <1>4, <1>5

(* Cleaning keeps the pages in order and leaves no segment without ink. *)
LEMMA CleaningType ==
  ASSUME NEW segs \in Seq(Segment), Rising(segs)
  PROVE  LET cleaned == [n \in DOMAIN segs |-> [segs[n] EXCEPT !.text = CleanText(segs[n].text)]]
             left == Filtered(cleaned, LAMBDA segment : segment.text # <<>>)
         IN  left \in Seq(Segment) /\ Rising(left) /\ Inked(left)
<1> DEFINE cleaned == [n \in DOMAIN segs |-> [segs[n] EXCEPT !.text = CleanText(segs[n].text)]]
           D == {i \in DOMAIN cleaned : cleaned[i].text # <<>>}
           left == Picked(cleaned, D)
           total == Len(segs)
<1>1. total \in Nat /\ DOMAIN segs = 1..total /\ \A n \in 1..total : segs[n] \in Segment
  BY LenProperties
<1>2. ASSUME NEW n \in 1..total
      PROVE  /\ cleaned[n] \in Segment /\ cleaned[n].page = segs[n].page
             /\ Tight(cleaned[n].text)
  <2>1. segs[n].text \in Seq(Characters) /\ segs[n].page \in 1..MaxParts
    BY <1>1 DEF Segment
  <2>2. CleanText(segs[n].text) \in Seq(Characters) /\ Tight(CleanText(segs[n].text))
    BY <2>1, CleanTextType
  <2>3. cleaned[n] = [text |-> CleanText(segs[n].text), page |-> segs[n].page]
    BY <1>1 DEF Segment
  <2> HIDE DEF cleaned
  <2>4. QED
    BY <2>1, <2>2, <2>3 DEF Segment
<1>3. cleaned \in Seq(Segment) /\ Len(cleaned) = total /\ DOMAIN cleaned = 1..total
  <2>1. DOMAIN cleaned = 1..total
    BY <1>1
  <2>2. cleaned = [n \in 1..total |-> cleaned[n]]
    BY <1>1
  <2> HIDE DEF cleaned, total
  <2>3. cleaned \in [1..total -> Segment]
    BY <1>2, <2>1, <2>2
  <2>4. QED
    BY <1>1, <2>1, <2>3
<1> HIDE DEF cleaned, total
<1>4. left \in Seq(Segment)
  BY <1>3, PickedType
<1>5. PICK at, m : /\ Lists(at, m, D \cap 1..total)
                   /\ left = [k \in 1..m |-> cleaned[at[k]]]
  <2> HIDE DEF D
  <2>1. PICK at, m : PicksAt(at, m, cleaned, D)
    BY <1>3, PickedInOrder
  <2>2. QED
    BY <1>3, <2>1 DEF PicksAt
<1>6. /\ m \in Nat /\ Len(left) = m
      /\ \A k \in 1..m : at[k] \in 1..total /\ at[k] \in D /\ left[k] = cleaned[at[k]]
      /\ \A i, j \in 1..m : i < j => at[i] < at[j]
  <2> HIDE DEF left, D
  <2>1. /\ m \in Nat /\ \A k \in 1..m : at[k] \in D \cap 1..total
        /\ \A i, j \in 1..m : i < j => at[i] < at[j]
    BY <1>5 DEF Lists, Ascending
  <2>2. Len(left) = m /\ \A k \in 1..m : left[k] = cleaned[at[k]]
    BY <1>5, <2>1
  <2>3. QED
    BY <2>1, <2>2
<1>7. Rising(left)
  <2> HIDE DEF left, D
  <2>1. ASSUME NEW i \in 1..m, NEW j \in 1..m, i < j PROVE left[i].page < left[j].page
    <3>1. segs[at[i]].page < segs[at[j]].page
      BY <1>6, <2>1 DEF Rising, total
    <3>2. QED
      BY <1>2, <1>6, <3>1
  <2>2. QED
    BY <1>6, <2>1 DEF Rising
<1>8. Inked(left)
  <2>1. \A k \in 1..m : left[k].text # <<>>
    <3> HIDE DEF left
    <3>1. QED
      BY <1>6
  <2> HIDE DEF left, D
  <2>2. QED
    BY <1>2, <1>6, <2>1 DEF Inked
<1>9. Filtered(cleaned, LAMBDA segment : segment.text # <<>>) = left
  BY DEF Filtered
<1>10. QED
  BY <1>4, <1>7, <1>8, <1>9 DEF cleaned
-----------------------------------------------------------------------------
(* The page with most characters in a window with a visible character has  *)
(* one there: a page whose visible characters all lie outside takes part   *)
(* with its separator alone, at the end of the window, and comes last of   *)
(* the pages that have as many.                                            *)
LEMMA DominantPageHasInk ==
  ASSUME stream \in Seq(Tag), WellPaged(stream),
         NEW a \in Nat, NEW b \in Nat, a >= 1, b <= Len(stream), Ink(a, b) # {}
  PROVE  /\ DominantPage(a, b) \in 1..MaxParts
         /\ \E i \in Ink(a, b) : stream[i].page = DominantPage(a, b)
<1> DEFINE count(page) == Cardinality({i \in a..b : stream[i].page = page})
           most == {i \in a..b : \A j \in a..b : count(stream[j].page) <= count(stream[i].page)}
           p == Min(most)
<1>1. \A i \in a..b : stream[i] \in Tag /\ stream[i].page \in 1..MaxParts /\ stream[i].page \in Int
  <2>1. \A i \in a..b : i \in 1..Len(stream)
    BY LenProperties
  <2>2. \A i \in 1..Len(stream) : stream[i] \in Tag
    BY LenProperties
  <2>3. QED
    BY <2>1, <2>2, TextsAssumption DEF Tag
<1>2. \A page : count(page) \in Nat
  <2> SUFFICES ASSUME NEW page PROVE count(page) \in Nat
    OBVIOUS
  <2>1. IsFiniteSet(a..b)
    BY FS_Interval
  <2>2. QED
    BY <2>1, FS_Subset, FS_CardinalityType
<1>3. PICK v \in Ink(a, b) : TRUE
  OBVIOUS
<1>4. v \in a..b /\ ~Blank(stream[v].char)
  BY DEF Ink
<1>5. most # {}
  <2> DEFINE counts == {count(stream[i].page) : i \in a..b}
  <2>1. IsFiniteSet(a..b)
    BY FS_Interval
  <2>2. counts # {} /\ \A c \in counts : c \in 0..(b - a + 1)
    <3>1. \A i \in a..b : count(stream[i].page) <= b - a + 1
      <4> SUFFICES ASSUME NEW i \in a..b PROVE count(stream[i].page) <= b - a + 1
        OBVIOUS
      <4>1. Cardinality(a..b) = b - a + 1
        <5>1. a <= b /\ a \in Int /\ b \in Int
          BY <1>4
        <5>2. QED
          BY <5>1, FS_Interval
      <4>2. {k \in a..b : stream[k].page = stream[i].page} \subseteq a..b
        OBVIOUS
      <4>3. QED
        BY <2>1, <4>1, <4>2, FS_Subset
    <3>2. \A i \in a..b : count(stream[i].page) \in Nat
      <4> HIDE DEF count
      <4>1. QED
        BY <1>2
    <3>3. a <= b
      BY <1>4
    <3> HIDE DEF count
    <3>4. QED
      BY <1>4, <3>1, <3>2, <3>3
  <2> HIDE DEF counts
  <2>3. /\ Max(counts) \in counts
        /\ \A c \in counts : Max(counts) >= c
    <3>1. counts \in SUBSET (0..(b - a + 1)) /\ b - a + 1 \in Nat
      BY <1>4, <2>2
    <3>2. QED
      BY <2>2, <3>1, GreatestPosition
  <2> HIDE DEF count
  <2>4. PICK i \in a..b : Max(counts) = count(stream[i].page)
    BY <2>3 DEF counts
  <2>5. \A j \in a..b : count(stream[j].page) \in counts
    BY DEF counts
  <2>6. i \in most
    BY <2>3, <2>4, <2>5, <1>2
  <2>7. QED
    BY <2>6
<1>6. p \in most /\ \A i \in most : p <= i
  <2>1. most \in SUBSET (a..b)
    OBVIOUS
  <2> HIDE DEF most
  <2>2. QED
    BY <1>5, <2>1, LeastPosition
<1> DEFINE m == stream[p].page
<1>7. DominantPage(a, b) = m
  BY DEF DominantPage
<1>8. p \in a..b /\ m \in 1..MaxParts /\ \A j \in a..b : count(stream[j].page) <= count(m)
  BY <1>1, <1>6
<1> HIDE DEF p
<1>9. SUFFICES ASSUME \A i \in Ink(a, b) : stream[i].page # m PROVE FALSE
  <2> HIDE DEF m
  <2>1. QED
    BY <1>7, <1>8
<1>10. \A i \in a..b : stream[i].page = m => Blank(stream[i].char)
  BY <1>9 DEF Ink
<1>11. \A i, j \in a..b : i <= j => stream[i].page <= stream[j].page
  <2>1. \A i \in a..b : i \in 1..Len(stream)
    BY LenProperties
  <2>2. QED
    BY <2>1 DEF WellPaged
<1>12. \A i \in a..b : i < b => i + 1 \in a..b /\ i # Len(stream) /\ i \in 1..Len(stream)
  BY LenProperties
<1>13. \A i \in p..b : stream[i].page = m
  <2> DEFINE S == {i \in p..b : stream[i].page # m}
  <2> SUFFICES ASSUME S # {} PROVE FALSE
    OBVIOUS
  <2>1. Min(S) \in S /\ \A y \in S : Min(S) <= y
    <3>1. S \in SUBSET (p..b) /\ p \in Nat
      BY <1>8
    <3> HIDE DEF S
    <3>2. QED
      BY <3>1, LeastPosition
  <2> DEFINE k == Min(S) - 1
  <2>2. Min(S) \in p..b /\ stream[Min(S)].page # m /\ Min(S) # p
    BY <2>1 DEF m
  <2>3. k \in p..b /\ k < b /\ k + 1 = Min(S)
    BY <1>8, <2>2
  <2>4. stream[k].page = m
    <3>1. k \notin S
      <4>1. ~(Min(S) <= k)
        BY <2>3
      <4> HIDE DEF S, k
      <4>2. QED
        BY <2>1, <4>1
    <3>2. QED
      BY <2>3, <3>1
  <2>5. k \in a..b
    BY <1>8, <2>3
  <2> HIDE DEF k, S
  <2>6. ~Blank(stream[k].char)
    <3>1. stream[k + 1].page # stream[k].page /\ k \in 1..Len(stream)
      BY <1>12, <2>2, <2>3, <2>4, <2>5
    <3>2. QED
      BY <3>1 DEF WellPaged
  <2>7. QED
    BY <1>10, <2>4, <2>5, <2>6
<1>14. v < p
  <2>1. stream[v].page # m
    BY <1>4, <1>10
  <2>2. v \notin p..b
    BY <1>13, <2>1
  <2>3. QED
    BY <1>4, <1>8, <2>2
<1>15. p - 1 \in a..b /\ stream[p - 1].page # m
  <2>1. p - 1 \in a..b
    BY <1>4, <1>8, <1>14
  <2>2. ASSUME stream[p - 1].page = m PROVE FALSE
    <3>1. p - 1 \in most
      <4> HIDE DEF count
      <4>1. QED
        BY <1>8, <2>1, <2>2
    <3>2. ~(p <= p - 1)
      BY <1>8
    <3> HIDE DEF most
    <3>3. QED
      BY <1>6, <3>1, <3>2
  <2>3. QED
    BY <2>1, <2>2
<1>16. p = b
  <2> SUFFICES ASSUME p # b PROVE FALSE
    OBVIOUS
  <2>1. p < b /\ p + 1 \in a..b /\ p + 1 \in p..b /\ p \in 1..Len(stream)
    BY <1>8, <1>12
  <2>2. \/ ~Blank(stream[p].char)
        \/ stream[p + 1].page = stream[p].page /\ ~Blank(stream[p + 1].char)
    BY <1>15, <2>1 DEF WellPaged, m
  <2>3. QED
    BY <1>8, <1>10, <1>13, <2>1, <2>2 DEF m
<1>17. a \in most
  <2>1. count(m) = 1
    <3>1. {i \in a..b : stream[i].page = m} = {b}
      <4>1. ASSUME NEW i \in a..b, stream[i].page = m PROVE i = b
        <5>1. CASE i < b
          <6>1. i <= p - 1
            BY <1>16, <5>1
          <6>2. stream[i].page <= stream[p - 1].page /\ stream[p - 1].page <= stream[p].page
            BY <1>8, <1>11, <1>15, <6>1
          <6>3. QED
            BY <1>1, <1>8, <1>15, <4>1, <6>2 DEF m
        <5>2. QED
          BY <5>1
      <4>2. b \in a..b /\ stream[b].page = m
        BY <1>8, <1>16 DEF m
      <4>3. QED
        BY <4>1, <4>2
    <3>2. QED
      BY <3>1, FS_Singleton
  <2>2. a \in a..b
    BY <1>4
  <2>3. count(stream[a].page) >= 1
    <3> DEFINE A == {i \in a..b : stream[i].page = stream[a].page}
    <3>1. a \in A /\ IsFiniteSet(A)
      BY <2>2, FS_Interval, FS_Subset
    <3>2. A # {} /\ Cardinality(A) \in Nat /\ (Cardinality(A) = 0 <=> A = {})
      <4> HIDE DEF A
      <4>1. QED
        BY <3>1, FS_EmptySet, FS_CardinalityType
    <3>3. QED
      BY <3>2
  <2>4. \A j \in a..b : count(stream[j].page) <= count(stream[a].page)
    <3> HIDE DEF count, m
    <3>1. QED
      BY <1>2, <1>8, <2>1, <2>2, <2>3
  <2>5. QED
    BY <2>2, <2>4
<1>18. QED
  <2> HIDE DEF most
  <2>1. p <= a
    BY <1>6, <1>17
  <2>2. QED
    BY <1>4, <1>8, <1>14, <2>1

-----------------------------------------------------------------------------
(* The positions of the visible characters. *)
InkAt(text) == {i \in DOMAIN text : ~Blank(text[i])}

(* What is visible of a text is picked from it. *)
LEMMA VisibleIsPicked == \A text : Visible(text) = Picked(text, InkAt(text))
BY DEF Visible, Filtered, InkAt

(* What is seen of two texts in a row is seen of each in a row.            *)
LEMMA VisibleConcat ==
  ASSUME NEW X, NEW s \in Seq(X), NEW t \in Seq(X)
  PROVE  Visible(s \o t) = Visible(s) \o Visible(t)
<1>1. /\ Len(s) \in Nat /\ Len(t) \in Nat /\ DOMAIN s = 1..Len(s) /\ DOMAIN t = 1..Len(t)
      /\ s \o t \in Seq(X) /\ Len(s \o t) = Len(s) + Len(t)
      /\ \A i \in 1..(Len(s) + Len(t)) : (s \o t)[i] = IF i <= Len(s) THEN s[i] ELSE t[i - Len(s)]
  BY LenProperties, ConcatProperties
<1>2. DOMAIN (s \o t) = 1..(Len(s) + Len(t))
  BY <1>1, LenProperties
<1>3. \A i \in 1..Len(s) : i \in InkAt(s \o t) <=> i \in InkAt(s)
  BY <1>1, <1>2 DEF InkAt
<1>4. \A i \in 1..Len(t) : Len(s) + i \in InkAt(s \o t) <=> i \in InkAt(t)
  <2> SUFFICES ASSUME NEW i \in 1..Len(t) PROVE Len(s) + i \in InkAt(s \o t) <=> i \in InkAt(t)
    OBVIOUS
  <2>1. Len(s) + i \in 1..(Len(s) + Len(t)) /\ ~(Len(s) + i <= Len(s)) /\ (Len(s) + i) - Len(s) = i
    BY <1>1
  <2>2. (s \o t)[Len(s) + i] = t[i]
    BY <1>1, <2>1
  <2>3. QED
    BY <1>1, <1>2, <2>1, <2>2 DEF InkAt
<1>5. QED
  <2> DEFINE D == InkAt(s \o t)
             A == InkAt(s)
             B == InkAt(t)
  <2>1. (\A i \in 1..Len(s) : i \in D <=> i \in A) /\ (\A i \in 1..Len(t) : Len(s) + i \in D <=> i \in B)
    BY <1>3, <1>4
  <2> HIDE DEF D, A, B
  <2>2. Picked(s \o t, D) = Picked(s, A) \o Picked(t, B)
    BY <2>1, PickedConcat
  <2>3. QED
    BY <2>2, VisibleIsPicked DEF D, A, B

(* What is seen of a text is a text.                                       *)
LEMMA VisibleType ==
  ASSUME NEW X, NEW s \in Seq(X)
  PROVE  Visible(s) \in Seq(X)
BY PickedType, VisibleIsPicked

(* Nothing is seen of blanks.                                              *)
LEMMA VisibleNothing ==
  ASSUME NEW X, NEW s \in Seq(X), \A i \in 1..Len(s) : Blank(s[i])
  PROVE  Visible(s) = <<>>
<1>1. \A i \in 1..Len(s) : i \notin InkAt(s)
  BY LenProperties DEF InkAt
<1>2. QED
  BY <1>1, PickedNone, VisibleIsPicked

(* A last character is seen unless it is blank.                            *)
LEMMA VisibleAppend ==
  ASSUME NEW X, NEW s \in Seq(X), NEW c \in X
  PROVE  Visible(Append(s, c)) = IF Blank(c) THEN Visible(s) ELSE Append(Visible(s), c)
<1>1. <<c>> \in Seq(X) /\ Len(<<c>>) = 1 /\ <<c>>[1] = c /\ \A i \in 1..1 : i = 1
  OBVIOUS
<1>2. Visible(Append(s, c)) = Visible(s) \o Visible(<<c>>)
  <2>1. Append(s, c) = s \o <<c>>
    BY AppendIsConcat
  <2>2. QED
    BY <1>1, <2>1, VisibleConcat
<1>3. Visible(s) \in Seq(X)
  BY VisibleType
<1>4. CASE Blank(c)
  <2>1. Visible(<<c>>) = <<>>
    <3>1. \A i \in 1..Len(<<c>>) : Blank(<<c>>[i])
      BY <1>1, <1>4
    <3> HIDE DEF Blank
    <3>2. QED
      BY <1>1, <3>1, VisibleNothing
  <2>2. QED
    BY <1>2, <1>3, <1>4, <2>1, ConcatEmptySeq
<1>5. CASE ~Blank(c)
  <2>1. Visible(<<c>>) = <<c>>
    <3>1. \A i \in 1..Len(<<c>>) : i \in InkAt(<<c>>)
      BY <1>1, <1>5 DEF InkAt
    <3>2. QED
      BY <1>1, <3>1, PickedAll, VisibleIsPicked
  <2>2. QED
    BY <1>2, <1>3, <1>5, <2>1, AppendIsConcat
<1>6. QED
  BY <1>4, <1>5

(* Dropping blanks drops nothing visible. *)
LEMMA VisiblePicked ==
  ASSUME NEW X, NEW s \in Seq(X), NEW D, \A i \in 1..Len(s) : i \notin D => Blank(s[i])
  PROVE  Visible(Picked(s, D)) = Visible(s)
<1>1. PICK f : Leaves(f, s, D, X)
  BY PickedStepwise
<1>2. PICK g : Leaves(g, s, InkAt(s), X)
  BY PickedStepwise
<1> DEFINE n == Len(s)
           S == {i \in 0..n : Visible(f[i]) = g[i]}
<1>3. /\ n \in Nat /\ f[0] = <<>> /\ g[0] = <<>> /\ DOMAIN s = 1..n
      /\ \A i \in 1..n : f[i] = IF i \in D THEN Append(f[i - 1], s[i]) ELSE f[i - 1]
      /\ \A i \in 1..n : g[i] = IF i \in InkAt(s) THEN Append(g[i - 1], s[i]) ELSE g[i - 1]
      /\ Picked(s, D) = f[n] /\ Visible(s) = g[n]
      /\ \A i \in 0..n : f[i] \in Seq(X)
      /\ \A i \in 1..n : s[i] \in X
      /\ \A i \in 1..n : i \notin D => Blank(s[i])
  BY <1>1, <1>2, LenProperties, VisibleIsPicked DEF Leaves
<1> HIDE DEF n
<1>4. 0 \in S
  <2>1. <<>> \in Seq(X) /\ Len(<<>>) = 0 /\ 1..0 = {}
    OBVIOUS
  <2>2. Visible(<<>>) = <<>>
    BY <2>1, VisibleNothing
  <2>3. QED
    BY <1>3, <2>2
<1>5. ASSUME NEW i \in 1..n, i - 1 \in S PROVE i \in S
  <2>1. /\ Visible(f[i - 1]) = g[i - 1] /\ i \in 0..n /\ i - 1 \in 0..n
        /\ f[i - 1] \in Seq(X) /\ s[i] \in X
    BY <1>3, <1>5
  <2>2. Visible(Append(f[i - 1], s[i])) = IF Blank(s[i]) THEN Visible(f[i - 1]) ELSE Append(Visible(f[i - 1]), s[i])
    BY <2>1, VisibleAppend
  <2>3. i \in InkAt(s) <=> ~Blank(s[i])
    BY <1>3 DEF InkAt
  <2>4. Visible(f[i]) = g[i]
    <3>1. CASE i \in D
      BY <1>3, <2>1, <2>2, <2>3, <3>1
    <3>2. CASE i \notin D
      BY <1>3, <2>1, <2>3, <3>2
    <3>3. QED
      BY <3>1, <3>2
  <2>5. QED
    BY <2>1, <2>4
<1>6. n \in S
  <2>1. n \in 0..n
    BY <1>3
  <2> HIDE DEF S
  <2>2. QED
    BY <1>3, <1>4, <1>5, <2>1, CountingUp
<1>7. QED
  BY <1>3, <1>6

(* No step of the cleaning drops or moves a visible character. *)
LEMMA UnifyNewlinesKeepsInk ==
  ASSUME NEW text \in Seq(Characters)
  PROVE  Visible(UnifyNewlines[text]) = Visible(text)
<1> DEFINE D == {i \in DOMAIN text : ~(i > 1 /\ text[i] = "\n" /\ text[i - 1] = "\r")}
           kept == Picked(text, D)
           unified == UnifyNewlines[text]
<1>1. kept \in Seq(Characters)
  BY PickedType
<1>2. unified = [i \in DOMAIN kept |-> IF kept[i] = "\r" THEN "\n" ELSE kept[i]]
  BY DEF UnifyNewlines
<1>3. unified \in Seq(Characters)
  BY UnifyNewlinesType
<1>4. Visible(kept) = Visible(text)
  <2>1. \A i \in 1..Len(text) : i \notin D => Blank(text[i])
    BY LenProperties DEF Blank
  <2> HIDE DEF D
  <2>2. QED
    BY <2>1, VisiblePicked
<1> HIDE DEF kept, unified
<1>5. /\ DOMAIN kept = 1..Len(kept) /\ Len(kept) \in Nat
      /\ DOMAIN unified = 1..Len(kept) /\ DOMAIN unified = 1..Len(unified) /\ Len(unified) \in Nat
  BY <1>1, <1>2, <1>3, LenProperties
<1>6. Len(unified) = Len(kept)
  BY <1>5
<1>7. \A i \in 1..Len(unified) : (i \in InkAt(unified) <=> i \in InkAt(kept)) /\ (i \in InkAt(unified) => unified[i] = kept[i])
  BY <1>2, <1>5, <1>6 DEF InkAt, Blank
<1>8. Visible(unified) = Visible(kept)
  BY <1>1, <1>3, <1>6, <1>7, PickedSame, VisibleIsPicked
<1>9. QED
  BY <1>4, <1>8 DEF unified

(* Squeezing blanks loses nothing that is seen.                            *)
LEMMA SqueezeKeepsInk ==
  ASSUME NEW char, Blank(char), NEW n \in Nat, NEW text \in Seq(Characters)
  PROVE  Visible(Squeeze(char, n)[text]) = Visible(text)
<1> DEFINE D == {i \in DOMAIN text : ~(i > n /\ \A k \in 0..n : text[i - k] = char)}
<1>1. \A i \in 1..Len(text) : i \notin D => Blank(text[i])
  <2> SUFFICES ASSUME NEW i \in 1..Len(text), i \notin D PROVE Blank(text[i])
    OBVIOUS
  <2>1. \A k \in 0..n : text[i - k] = char
    BY LenProperties
  <2>2. 0 \in 0..n /\ i - 0 = i
    BY LenProperties
  <2>3. text[i] = char
    BY <2>1, <2>2
  <2>4. QED
    BY <2>3
<1>2. Squeeze(char, n)[text] = Picked(text, D)
  BY DEF Squeeze
<1> HIDE DEF D
<1>3. QED
  BY <1>1, <1>2, VisiblePicked

(* Nor does stripping.                                                     *)
LEMMA StripKeepsInk ==
  ASSUME NEW text \in Seq(Characters)
  PROVE  Visible(Strip[text]) = Visible(text)
<1> DEFINE ink == {i \in DOMAIN text : ~Blank(text[i])}
           a == Min(ink)
           b == Max(ink)
           n == Len(text)
<1>1. Strip[text] = IF ink = {} THEN <<>> ELSE SubSeq(text, a, b)
  BY DEF Strip
<1>2. n \in Nat /\ DOMAIN text = 1..n /\ \A i \in 1..n : text[i] \in Characters
  BY LenProperties
<1>3. CASE ink = {}
  <2>1. \A i \in 1..Len(text) : Blank(text[i])
    BY <1>2, <1>3
  <2>2. Visible(text) = <<>>
    BY <2>1, VisibleNothing
  <2>3. Visible(<<>>) = <<>>
    <3>1. <<>> \in Seq(Characters) /\ Len(<<>>) = 0 /\ 1..0 = {}
      OBVIOUS
    <3>2. QED
      BY <3>1, VisibleNothing
  <2>4. QED
    BY <1>1, <1>3, <2>2, <2>3
<1>4. CASE ink # {}
  <2>1. ink \in SUBSET (1..n)
    BY <1>2
  <2>2. a \in ink /\ b \in ink /\ \A y \in ink : a <= y /\ y <= b
    <3> HIDE DEF ink, n
    <3>1. /\ Min(ink) \in ink /\ \A y \in ink : Min(ink) <= y
          /\ Max(ink) \in ink /\ \A y \in ink : Max(ink) >= y
      BY <1>2, <1>4, <2>1, LeastPosition, GreatestPosition
    <3>2. QED
      BY <1>2, <2>1, <3>1
  <2>3. \A i \in 1..n : i < a \/ i > b => Blank(text[i])
    <3> SUFFICES ASSUME NEW i \in 1..n, i < a \/ i > b, ~Blank(text[i]) PROVE FALSE
      OBVIOUS
    <3>1. i \in ink
      BY <1>2
    <3>2. a \in 1..n /\ b \in 1..n
      BY <2>1, <2>2
    <3> HIDE DEF a, b, ink, n
    <3>3. QED
      BY <1>2, <2>2, <3>1, <3>2
  <2>4. a \in 1..n /\ b \in 1..n /\ a <= b
    BY <2>1, <2>2
  <2> HIDE DEF a, b, ink, n
  <2> DEFINE before == SubSeq(text, 1, a - 1)
             part == SubSeq(text, a, b)
             after == SubSeq(text, b + 1, n)
  <2>5. /\ before \in Seq(Characters) /\ \A i \in 1..Len(before) : Blank(before[i])
        /\ part \in Seq(Characters)
        /\ after \in Seq(Characters) /\ \A i \in 1..Len(after) : Blank(after[i])
    <3>1. /\ \A i \in 1..(a - 1) : text[i] \in Characters
          /\ \A i \in a..b : text[i] \in Characters
          /\ \A i \in (b + 1)..n : text[i] \in Characters
          /\ 1 \in Int /\ a - 1 \in Int /\ a \in Int /\ b \in Int /\ b + 1 \in Int /\ n \in Int
      BY <1>2, <2>4
    <3>2. /\ before \in Seq(Characters) /\ Len(before) = IF 1 <= a - 1 THEN a - 1 - 1 + 1 ELSE 0
          /\ \A i \in 1..(a - 1 - 1 + 1) : before[i] = text[1 + i - 1]
      BY <3>1, SubSeqProperties
    <3>3. part \in Seq(Characters)
      BY <3>1, SubSeqProperties
    <3>4. /\ after \in Seq(Characters) /\ Len(after) = IF b + 1 <= n THEN n - (b + 1) + 1 ELSE 0
          /\ \A i \in 1..(n - (b + 1) + 1) : after[i] = text[b + 1 + i - 1]
      BY <3>1, SubSeqProperties
    <3> HIDE DEF before, part, after
    <3>5. ASSUME NEW i \in 1..Len(before) PROVE Blank(before[i])
      <4>1. i \in 1..(a - 1 - 1 + 1) /\ 1 + i - 1 = i /\ i \in 1..n /\ i < a
        BY <1>2, <2>4, <3>2
      <4>2. QED
        BY <2>3, <3>2, <4>1
    <3>6. ASSUME NEW i \in 1..Len(after) PROVE Blank(after[i])
      <4>1. i \in 1..(n - (b + 1) + 1) /\ b + 1 + i - 1 \in 1..n /\ b + 1 + i - 1 > b
        BY <1>2, <2>4, <3>4
      <4>2. QED
        BY <2>3, <3>4, <4>1
    <3>7. QED
      BY <3>2, <3>3, <3>4, <3>5, <3>6
  <2>6. text = (before \o part) \o after
    <3>1. before \o part = SubSeq(text, 1, b)
      <4>1. 1 \in 1..(Len(text) + 1) /\ a - 1 \in (1 - 1)..Len(text) /\ b \in (a - 1)..Len(text) /\ a - 1 + 1 = a
        BY <1>2, <2>4 DEF n
      <4>2. SubSeq(text, 1, a - 1) \o SubSeq(text, a - 1 + 1, b) = SubSeq(text, 1, b)
        BY <4>1, ConcatAdjacentSubSeq
      <4>3. QED
        BY <4>1, <4>2
    <3>2. SubSeq(text, 1, b) \o after = SubSeq(text, 1, n)
      <4>1. 1 \in 1..(Len(text) + 1) /\ b \in (1 - 1)..Len(text) /\ n \in b..Len(text)
        BY <1>2, <2>4 DEF n
      <4>2. QED
        BY <4>1, ConcatAdjacentSubSeq
    <3>3. SubSeq(text, 1, n) = text
      BY SubSeqFull DEF n
    <3>4. QED
      BY <3>1, <3>2, <3>3
  <2> HIDE DEF before, part, after
  <2>7. before \o part \in Seq(Characters)
    BY <2>5, ConcatProperties
  <2>8. /\ Visible(text) = Visible(before \o part) \o Visible(after)
        /\ Visible(before \o part) = Visible(before) \o Visible(part)
    <3>1. Visible((before \o part) \o after) = Visible(before \o part) \o Visible(after)
      BY <2>5, <2>7, VisibleConcat
    <3>2. Visible(before \o part) = Visible(before) \o Visible(part)
      BY <2>5, VisibleConcat
    <3>3. QED
      BY <2>6, <3>1, <3>2
  <2>9. Visible(before) = <<>> /\ Visible(after) = <<>> /\ Visible(part) \in Seq(Characters)
    BY <2>5, VisibleNothing, VisibleType
  <2>10. Visible(text) = Visible(part)
    BY <2>8, <2>9, ConcatEmptySeq
  <2>11. QED
    BY <1>1, <1>4, <2>10 DEF part
<1>5. QED
  BY <1>3, <1>4

(* Nor does the cleaning as a whole lose any of the normalised text. *)
LEMMA CleanTextKeepsInk ==
  ASSUME NEW text \in Seq(Characters)
  PROVE  Visible(CleanText(text)) = Visible(Normalized(text))
<1> DEFINE unified == UnifyNewlines[Normalized(text)]
           spaced == Squeeze(" ", 1)[unified]
           lined == Squeeze("\n", 2)[spaced]
<1>1. Blank(" ") /\ Blank("\n")
  BY DEF Blank
<1>2. unified \in Seq(Characters) /\ Visible(unified) = Visible(Normalized(text))
  BY NormalizedType, UnifyNewlinesType, UnifyNewlinesKeepsInk
<1> HIDE DEF unified
<1>3. spaced \in Seq(Characters) /\ Visible(spaced) = Visible(unified)
  BY <1>1, <1>2, SqueezeType, SqueezeKeepsInk
<1> HIDE DEF spaced
<1>4. lined \in Seq(Characters) /\ Visible(lined) = Visible(spaced)
  BY <1>1, <1>3, SqueezeType, SqueezeKeepsInk
<1>5. CleanText(text) = Strip[lined]
  BY DEF CleanText, lined, spaced, unified
<1> HIDE DEF lined
<1>6. QED
  BY <1>2, <1>3, <1>4, <1>5, StripKeepsInk

(* What can be seen of a normalised text depends on what can be seen of    *)
(* the text.                                                               *)
LEMMA NormalizedInk ==
  ASSUME NEW text \in Seq(Characters)
  PROVE  Visible(Normalized(text)) = Visible(Normalized(Visible(text)))
<1> DEFINE n == Len(text)
           D == InkAt(text)
<1>1. PICK line : Normalizes(line, text)
  BY NormalizedStepwise
<1>2. PICK left : Leaves(left, text, D, Characters)
  BY PickedStepwise
<1>3. /\ n \in Nat /\ \A i \in 1..n : text[i] \in Characters /\ (i \in D <=> ~Blank(text[i]))
  BY LenProperties DEF InkAt
<1>4. /\ \A i \in 0..n : line[i] \in Seq(Characters)
      /\ line[0] = <<>> /\ Normalized(text) = line[n]
      /\ \A i \in 1..n : line[i] = line[i - 1] \o Nfkc[text[i]]
  BY <1>1 DEF Normalizes
<1>5. /\ \A i \in 0..n : left[i] \in Seq(Characters)
      /\ left[0] = <<>> /\ Visible(text) = left[n]
      /\ \A i \in 1..n : left[i] = IF i \in D THEN Append(left[i - 1], text[i]) ELSE left[i - 1]
  BY <1>2, VisibleIsPicked DEF Leaves
<1> HIDE DEF n, D
<1> DEFINE S == {i \in 0..n : Visible(line[i]) = Visible(Normalized(left[i]))}
<1>6. 0 \in S
  <2>1. QED
    BY <1>3, <1>4, <1>5, NormalizedNone
<1>7. ASSUME NEW i \in 1..n, i - 1 \in S PROVE i \in S
  <2> DEFINE before == line[i - 1]
             kept == left[i - 1]
             char == text[i]
  <2>1. /\ i \in 0..n /\ i - 1 \in 0..n /\ char \in Characters /\ Nfkc[char] \in Seq(Characters)
        /\ before \in Seq(Characters) /\ kept \in Seq(Characters) /\ Normalized(kept) \in Seq(Characters)
        /\ Visible(before) = Visible(Normalized(kept))
    BY <1>3, <1>4, <1>5, <1>7, NfkcAssumption, NormalizedType
  <2>2. line[i] = before \o Nfkc[char]
    BY <1>4
  <2> HIDE DEF before, char
  <2>3. Visible(line[i]) = Visible(before) \o Visible(Nfkc[char])
    BY <2>1, <2>2, VisibleConcat
  <2>4. CASE i \in D
    <3>1. left[i] = Append(kept, char)
      BY <1>5, <2>4 DEF char
    <3> HIDE DEF kept
    <3>2. Normalized(left[i]) = Normalized(kept) \o Nfkc[char]
      BY <2>1, <3>1, NormalizedAppend
    <3>3. Visible(Normalized(left[i])) = Visible(Normalized(kept)) \o Visible(Nfkc[char])
      BY <2>1, <3>2, VisibleConcat
    <3>4. QED
      BY <2>1, <2>3, <3>3
  <2>5. CASE i \notin D
    <3>1. left[i] = kept /\ Blank(char)
      BY <1>3, <1>5, <2>5 DEF char
    <3>2. Nfkc[char] = <<char>>
      BY <2>1, <3>1, NfkcAssumption
    <3>3. Visible(<<char>>) = <<>>
      <4>1. <<char>> \in Seq(Characters) /\ \A j \in 1..Len(<<char>>) : Blank(<<char>>[j])
        BY <2>1, <3>1
      <4>2. QED
        BY <4>1, VisibleNothing
    <3>4. Visible(before) \in Seq(Characters)
      BY <2>1, VisibleType
    <3>5. Visible(line[i]) = Visible(before)
      BY <2>3, <3>2, <3>3, <3>4, ConcatEmptySeq
    <3>6. QED
      BY <2>1, <3>1, <3>5
  <2>6. QED
    BY <2>4, <2>5
<1>8. n \in S
  <2>1. n \in 0..n
    BY <1>3
  <2> HIDE DEF S
  <2>2. QED
    BY <1>3, <1>6, <1>7, <2>1, CountingUp
<1>9. QED
  BY <1>4, <1>5, <1>8

(* Of a line of characters with pages: the characters, the positions and   *)
(* the ink of a page.                                                      *)
Chars(elements) == [n \in DOMAIN elements |-> elements[n].char]
OfPage(line, page) == {i \in DOMAIN line : line[i].page = page}
PageInk(line, page) == Visible(Chars(Picked(line, OfPage(line, page))))

(* What a line holds: characters and separators. *)
Signs == Characters \cup {Separator}

(* The characters of a line, without their pages. *)
LEMMA CharsType ==
  ASSUME NEW e \in Seq(Tag)
  PROVE  /\ Chars(e) \in Seq(Signs) /\ Len(Chars(e)) = Len(e)
         /\ \A n \in 1..Len(e) : Chars(e)[n] = e[n].char
<1>1. DOMAIN e = 1..Len(e) /\ Len(e) \in Nat /\ \A n \in 1..Len(e) : e[n] \in Tag
  BY LenProperties
<1>2. Chars(e) = [n \in 1..Len(e) |-> e[n].char] /\ \A n \in 1..Len(e) : e[n].char \in Signs
  BY <1>1 DEF Chars, Tag, Signs
<1>3. Chars(e) \in [1..Len(e) -> Signs]
  BY <1>2
<1>4. QED
  BY <1>1, <1>2, <1>3

(* The characters of two streams in a row are those of each in a row.      *)
LEMMA CharsConcat ==
  ASSUME NEW e \in Seq(Tag), NEW f \in Seq(Tag)
  PROVE  Chars(e \o f) = Chars(e) \o Chars(f)
<1>1. /\ e \o f \in Seq(Tag) /\ Len(e \o f) = Len(e) + Len(f) /\ Len(e) \in Nat /\ Len(f) \in Nat
      /\ \A i \in 1..(Len(e) + Len(f)) : (e \o f)[i] = IF i <= Len(e) THEN e[i] ELSE f[i - Len(e)]
  BY ConcatProperties, LenProperties
<1> DEFINE ef == e \o f
           ce == Chars(e)
           cf == Chars(f)
           cef == Chars(ef)
<1>2. /\ ce \in Seq(Signs) /\ Len(ce) = Len(e) /\ \A n \in 1..Len(e) : ce[n] = e[n].char
      /\ cf \in Seq(Signs) /\ Len(cf) = Len(f) /\ \A n \in 1..Len(f) : cf[n] = f[n].char
  BY CharsType
<1>3. cef \in Seq(Signs) /\ Len(cef) = Len(ef) /\ \A n \in 1..Len(ef) : cef[n] = ef[n].char
  <2> HIDE DEF ef
  <2>1. QED
    BY <1>1, CharsType DEF ef
<1> HIDE DEF ef, ce, cf, cef
<1>4. /\ ce \o cf \in Seq(Signs) /\ Len(ce \o cf) = Len(e) + Len(f)
      /\ \A i \in 1..(Len(e) + Len(f)) : (ce \o cf)[i] = IF i <= Len(e) THEN ce[i] ELSE cf[i - Len(e)]
  <2>1. /\ ce \o cf \in Seq(Signs) /\ Len(ce \o cf) = Len(ce) + Len(cf)
        /\ \A i \in 1..(Len(ce) + Len(cf)) : (ce \o cf)[i] = IF i <= Len(ce) THEN ce[i] ELSE cf[i - Len(ce)]
    <3>1. ce \in Seq(Signs) /\ cf \in Seq(Signs)
      BY <1>2
    <3>2. QED
      BY <3>1, ConcatProperties
  <2>2. QED
    BY <1>2, <2>1
<1>5. ASSUME NEW i \in 1..(Len(e) + Len(f)) PROVE cef[i] = (ce \o cf)[i]
  <2>1. CASE i <= Len(e)
    <3>1. i \in 1..Len(e)
      BY <1>1, <2>1
    <3>2. QED
      BY <1>1, <1>2, <1>3, <1>4, <2>1, <3>1 DEF ef
  <2>2. CASE ~(i <= Len(e))
    <3>1. i - Len(e) \in 1..Len(f)
      BY <1>1, <2>2
    <3>2. QED
      BY <1>1, <1>2, <1>3, <1>4, <2>2, <3>1 DEF ef
  <2>3. QED
    BY <2>1, <2>2
<1>6. Len(cef) = Len(ce \o cf) /\ \A i \in 1..Len(cef) : cef[i] = (ce \o cf)[i]
  BY <1>1, <1>3, <1>4, <1>5 DEF ef
<1>7. cef = ce \o cf
  BY <1>3, <1>4, <1>6, SeqEqual
<1>8. QED
  BY <1>7 DEF cef, ce, cf, ef

(* The ink of a page is that of the line's parts. *)
LEMMA PageInkConcat ==
  ASSUME NEW s \in Seq(Tag), NEW t \in Seq(Tag), NEW page
  PROVE  PageInk(s \o t, page) = PageInk(s, page) \o PageInk(t, page)
<1>1. /\ Len(s) \in Nat /\ Len(t) \in Nat /\ DOMAIN s = 1..Len(s) /\ DOMAIN t = 1..Len(t)
      /\ s \o t \in Seq(Tag) /\ Len(s \o t) = Len(s) + Len(t)
      /\ \A i \in 1..(Len(s) + Len(t)) : (s \o t)[i] = IF i <= Len(s) THEN s[i] ELSE t[i - Len(s)]
  BY LenProperties, ConcatProperties
<1>2. DOMAIN (s \o t) = 1..(Len(s) + Len(t))
  BY <1>1, LenProperties
<1> DEFINE D == OfPage(s \o t, page)
           A == OfPage(s, page)
           B == OfPage(t, page)
<1>3. \A i \in 1..Len(s) : i \in D <=> i \in A
  BY <1>1, <1>2 DEF OfPage
<1>4. \A i \in 1..Len(t) : Len(s) + i \in D <=> i \in B
  <2> SUFFICES ASSUME NEW i \in 1..Len(t) PROVE Len(s) + i \in D <=> i \in B
    OBVIOUS
  <2>1. Len(s) + i \in 1..(Len(s) + Len(t)) /\ ~(Len(s) + i <= Len(s)) /\ (Len(s) + i) - Len(s) = i
    BY <1>1
  <2>2. (s \o t)[Len(s) + i] = t[i]
    BY <1>1, <2>1
  <2>3. QED
    BY <1>1, <1>2, <2>1, <2>2 DEF OfPage
<1> HIDE DEF D, A, B
<1>5. Picked(s \o t, D) = Picked(s, A) \o Picked(t, B)
  BY <1>3, <1>4, PickedConcat
<1> DEFINE e == Picked(s, A)
           f == Picked(t, B)
<1>6. e \in Seq(Tag) /\ f \in Seq(Tag)
  BY PickedType
<1> HIDE DEF e, f
<1>7. Chars(e \o f) = Chars(e) \o Chars(f) /\ Chars(e) \in Seq(Signs) /\ Chars(f) \in Seq(Signs)
  BY <1>6, CharsConcat, CharsType
<1>8. Visible(Chars(e) \o Chars(f)) = Visible(Chars(e)) \o Visible(Chars(f))
  BY <1>7, VisibleConcat
<1>9. QED
  BY <1>5, <1>7, <1>8 DEF PageInk, D, A, B, e, f

(* What is seen of a page is a text.                                       *)
LEMMA PageInkType ==
  ASSUME NEW s \in Seq(Tag), NEW page
  PROVE  PageInk(s, page) \in Seq(Signs)
<1>1. Picked(s, OfPage(s, page)) \in Seq(Tag)
  BY PickedType
<1>2. Chars(Picked(s, OfPage(s, page))) \in Seq(Signs)
  BY <1>1, CharsType
<1>3. QED
  BY <1>2, VisibleType DEF PageInk

(* Nothing is seen of nothing.                                             *)
LEMMA NoInk == /\ \A page : PageInk(<<>>, page) = <<>>
               /\ Visible(<<>>) = <<>>
<1>1. <<>> \in Seq(Tag) /\ Len(<<>>) = 0 /\ 1..0 = {}
  OBVIOUS
<1>2. Visible(<<>>) = <<>>
  BY <1>1, VisibleNothing
<1>3. \A D : Picked(<<>>, D) = <<>>
  BY <1>1, PickedNone
<1>4. Chars(<<>>) = <<>>
  BY DEF Chars
<1>5. QED
  BY <1>2, <1>3, <1>4 DEF PageInk

(* A segment adds its ink to its own page only. *)
LEMMA TaggedInk ==
  ASSUME NEW text \in Seq(Signs), NEW q \in 1..MaxParts, NEW page
  PROVE  PageInk(Tagged(text, q), page) = IF page = q THEN Visible(text) ELSE <<>>
<1> DEFINE t == Tagged(text, q)
           n == Len(text)
<1>1. t \in Seq(Tag) /\ Len(t) = n /\ \A i \in 1..n : t[i] = [char |-> text[i], page |-> q]
  <2> HIDE DEF n
  <2>1. QED
    BY TaggedType DEF Signs, n
<1>2. n \in Nat /\ DOMAIN t = 1..n /\ DOMAIN text = 1..n
  BY <1>1, LenProperties
<1> HIDE DEF t, n
<1>3. CASE page = q
  <2>1. \A i \in 1..Len(t) : i \in OfPage(t, page)
    BY <1>1, <1>2, <1>3 DEF OfPage
  <2>2. Picked(t, OfPage(t, page)) = t
    BY <1>1, <2>1, PickedAll
  <2>3. Chars(t) = text
    <3>1. Chars(t) \in Seq(Signs) /\ Len(Chars(t)) = n /\ \A i \in 1..n : Chars(t)[i] = text[i]
      BY <1>1, CharsType
    <3>2. QED
      BY <3>1, SeqEqual DEF n
  <2>4. QED
    BY <1>3, <2>2, <2>3 DEF PageInk, t
<1>4. CASE page # q
  <2>1. \A i \in 1..Len(t) : i \notin OfPage(t, page)
    BY <1>1, <1>2, <1>4 DEF OfPage
  <2>2. Picked(t, OfPage(t, page)) = <<>>
    BY <1>1, <2>1, PickedNone
  <2>3. Chars(<<>>) = <<>>
    BY DEF Chars
  <2>4. QED
    BY <1>4, <2>2, <2>3, NoInk DEF PageInk, t
<1>5. QED
  BY <1>3, <1>4

(* Joining adds to the ink of a page what its segment holds. *)
LEMMA LinearInk ==
  ASSUME NEW segs \in Seq(Segment), Rising(segs)
  PROVE  /\ \A k \in 1..Len(segs) : PageInk(Linear(segs), segs[k].page) = Visible(segs[k].text)
         /\ \A page : (\A k \in 1..Len(segs) : segs[k].page # page) => PageInk(Linear(segs), page) = <<>>
<1>1. PICK line : Joins(line, segs)
  BY LinearStepwise
<1> DEFINE total == Len(segs)
           Told(n) == /\ \A k \in 1..n : PageInk(line[n], segs[k].page) = Visible(segs[k].text)
                      /\ \A page : (\A k \in 1..n : segs[k].page # page) => PageInk(line[n], page) = <<>>
           S == {n \in 0..total : Told(n)}
<1>2. /\ total \in Nat /\ \A n \in 1..total : segs[n] \in Segment
      /\ \A n \in 0..total : line[n] \in Seq(Tag)
      /\ line[0] = <<>>
      /\ Linear(segs) = line[total]
      /\ \A n \in 1..total :
           line[n] = (IF line[n - 1] = <<>> \/ Last(line[n - 1]).char \in {"\n", Separator} THEN line[n - 1]
                      ELSE line[n - 1] \o Tagged(<<Separator>>, segs[n].page))
                     \o Tagged(segs[n].text, segs[n].page)
  BY <1>1, LenProperties DEF Joins
<1>3. \A n \in 1..total : segs[n].text \in Seq(Signs) /\ segs[n].page \in 1..MaxParts /\ segs[n].page \in Int
  <2> SUFFICES ASSUME NEW n \in 1..total
               PROVE  segs[n].text \in Seq(Signs) /\ segs[n].page \in 1..MaxParts /\ segs[n].page \in Int
    OBVIOUS
  <2>1. segs[n].text \in Seq(Characters) /\ segs[n].page \in 1..MaxParts
    BY <1>2 DEF Segment
  <2>2. segs[n].text \in Seq(Signs)
    BY <2>1, SeqMonotonic DEF Signs
  <2>3. QED
    BY <2>1, <2>2, TextsAssumption
<1>4. \A i, j \in 1..total : i < j => segs[i].page < segs[j].page
  BY DEF Rising
<1> HIDE DEF total
<1>5. 0 \in S
  <2>1. Told(0)
    BY <1>2, NoInk
  <2>2. QED
    BY <1>2, <2>1
<1>6. ASSUME NEW n \in 1..total, n - 1 \in S PROVE n \in S
  <2> DEFINE before == line[n - 1]
             text == segs[n].text
             q == segs[n].page
             sep == Tagged(<<Separator>>, q)
             t == Tagged(text, q)
  <2>1. /\ before \in Seq(Tag) /\ text \in Seq(Signs) /\ q \in 1..MaxParts
        /\ n \in 0..total /\ n - 1 \in 0..total
    BY <1>2, <1>3
  <2>2. /\ <<Separator>> \in Seq(Signs) /\ Visible(<<Separator>>) = <<>>
    <3> DEFINE c == Separator
    <3>1. c \in Signs /\ Blank(c)
      BY DEF Signs, Blank
    <3> HIDE DEF c
    <3>2. <<c>> \in Seq(Signs) /\ Len(<<c>>) = 1 /\ \A i \in 1..1 : <<c>>[i] = c
      BY <3>1
    <3>3. Visible(<<c>>) = <<>>
      BY <3>1, <3>2, VisibleNothing
    <3>4. QED
      BY <3>2, <3>3 DEF c
  <2>3. sep \in Seq(Tag) /\ t \in Seq(Tag) /\ before \o sep \in Seq(Tag)
    <3>1. sep \in Seq(Tag) /\ t \in Seq(Tag)
      <4> HIDE DEF q, text
      <4>1. QED
        BY <2>1, <2>2, TaggedType DEF Signs
    <3> HIDE DEF sep, before
    <3>2. QED
      BY <2>1, <3>1, ConcatProperties
  <2>4. ASSUME NEW page
        PROVE  PageInk(line[n], page) = PageInk(before, page) \o (IF page = q THEN Visible(text) ELSE <<>>)
    <3>1. /\ PageInk(t, page) = IF page = q THEN Visible(text) ELSE <<>>
          /\ PageInk(sep, page) = <<>>
      <4> HIDE DEF q, text
      <4>1. QED
        BY <2>1, <2>2, TaggedInk
    <3>2. line[n] = (IF before = <<>> \/ Last(before).char \in {"\n", Separator} THEN before ELSE before \o sep) \o t
      BY <1>2
    <3> HIDE DEF before, sep, t, q, text
    <3>3. PageInk(before \o sep, page) = PageInk(before, page)
      <4>1. PageInk(before \o sep, page) = PageInk(before, page) \o PageInk(sep, page)
        BY <2>1, <2>3, PageInkConcat
      <4>2. PageInk(before, page) \in Seq(Signs)
        BY <2>1, PageInkType
      <4>3. QED
        BY <3>1, <4>1, <4>2, ConcatEmptySeq
    <3>4. PICK b : b \in Seq(Tag) /\ line[n] = b \o t /\ PageInk(b, page) = PageInk(before, page)
      <4>1. CASE before = <<>> \/ Last(before).char \in {"\n", Separator}
        BY <2>1, <3>2, <4>1
      <4>2. CASE ~(before = <<>> \/ Last(before).char \in {"\n", Separator})
        BY <2>3, <3>2, <3>3, <4>2
      <4>3. QED
        BY <4>1, <4>2
    <3>5. PageInk(b \o t, page) = PageInk(b, page) \o PageInk(t, page)
      BY <2>3, <3>4, PageInkConcat
    <3>6. QED
      BY <3>1, <3>4, <3>5
  <2>5. \A page : PageInk(before, page) \in Seq(Signs)
    <3> HIDE DEF before
    <3>1. QED
      BY <2>1, PageInkType
  <2>6. Visible(text) \in Seq(Signs)
    BY <2>1, VisibleType
  <2>7. Told(n - 1)
    BY <1>6
  <2>8. ASSUME NEW k \in 1..n PROVE PageInk(line[n], segs[k].page) = Visible(segs[k].text)
    <3>1. CASE k = n
      <4>1. \A l \in 1..(n - 1) : segs[l].page # q
        <5> SUFFICES ASSUME NEW l \in 1..(n - 1) PROVE segs[l].page # q
          OBVIOUS
        <5>1. l \in 1..total /\ l < n
          BY <1>2
        <5>2. segs[l].page < segs[n].page /\ segs[l].page \in Int /\ segs[n].page \in Int
          BY <1>3, <1>4, <5>1
        <5>3. QED
          BY <5>2
      <4>2. PageInk(before, q) = <<>>
        <5> HIDE DEF q
        <5>1. QED
          BY <2>7, <4>1
      <4>3. QED
        BY <2>4, <2>6, <3>1, <4>2, ConcatEmptySeq
    <3>2. CASE k # n
      <4>1. k \in 1..(n - 1) /\ k \in 1..total /\ k < n
        BY <1>2, <3>2
      <4>2. segs[k].page # q
        <5>1. segs[k].page < segs[n].page /\ segs[k].page \in Int /\ segs[n].page \in Int
          BY <1>3, <1>4, <4>1
        <5>2. QED
          BY <5>1
      <4>3. PageInk(before, segs[k].page) = Visible(segs[k].text)
        BY <2>7, <4>1
      <4>4. PageInk(line[n], segs[k].page) = PageInk(before, segs[k].page) \o <<>>
        <5> HIDE DEF before, q, text
        <5>1. QED
          BY <2>4, <4>2
      <4>5. QED
        BY <2>5, <4>3, <4>4, ConcatEmptySeq
    <3>3. QED
      BY <3>1, <3>2
  <2>9. ASSUME NEW page, \A k \in 1..n : segs[k].page # page PROVE PageInk(line[n], page) = <<>>
    <3>1. page # q /\ \A k \in 1..(n - 1) : segs[k].page # page
      <4>1. n \in 1..n /\ \A k \in 1..(n - 1) : k \in 1..n
        BY <1>2
      <4>2. QED
        BY <2>9, <4>1
    <3>2. PageInk(before, page) = <<>>
      BY <2>7, <3>1
    <3>3. PageInk(line[n], page) = PageInk(before, page) \o <<>>
      <4> HIDE DEF before, q, text
      <4>1. QED
        BY <2>4, <3>1
    <3>4. QED
      BY <3>2, <3>3
  <2>10. Told(n)
    BY <2>8, <2>9
  <2> HIDE DEF Told
  <2>11. QED
    BY <2>1, <2>10
<1>7. total \in S
  <2>1. total \in 0..total
    BY <1>2
  <2> HIDE DEF S
  <2>2. QED
    BY <1>2, <1>5, <1>6, <2>1, CountingUp
<1>8. Told(total)
  BY <1>7
<1>9. QED
  BY <1>2, <1>8 DEF total

(* Dropping the blank paragraphs and joining the others loses no ink. *)
LEMMA ParagraphsInk ==
  ASSUME NEW parts \in Seq(Seq(Characters))
  PROVE  Visible(Paragraphs(parts)) = Visible(FlattenSeq(parts))
<1> DEFINE total == Len(parts)
           D == {i \in DOMAIN parts : HasInk(parts[i])}
<1>1. PICK inked, joined : /\ inked = Filtered(parts, HasInk) /\ inked \in Seq(Seq(Characters))
                           /\ JoinsParagraphs(joined, inked)
                           /\ Paragraphs(parts) = joined[Len(inked)]
  BY ParagraphsStepwise
<1>2. inked = Picked(parts, D)
  BY <1>1 DEF Filtered
<1>3. total \in Nat /\ DOMAIN parts = 1..total /\ \A n \in 1..total : parts[n] \in Seq(Characters)
  BY LenProperties
<1>4. \A n \in 1..total : n \in D <=> HasInk(parts[n])
  BY <1>3
<1> HIDE DEF D
<1>5. PICK left : Leaves(left, parts, D, Seq(Characters))
  BY PickedStepwise
<1>6. /\ \A n \in 0..total : left[n] \in Seq(Seq(Characters)) /\ Len(left[n]) \in Nat
      /\ left[0] = <<>> /\ inked = left[total]
      /\ \A n \in 1..total : left[n] = IF n \in D THEN Append(left[n - 1], parts[n]) ELSE left[n - 1]
  BY <1>2, <1>5, LenProperties DEF Leaves
<1>7. \A n \in 0..total : /\ Len(left[n]) <= Len(inked)
                          /\ \A k \in 1..Len(left[n]) : left[n][k] = inked[k]
  BY <1>2, <1>5, PickedPrefix
<1>8. /\ Len(inked) \in Nat
      /\ \A k \in 0..Len(inked) : joined[k] \in Seq(Characters)
      /\ joined[0] = <<>>
      /\ \A k \in 1..Len(inked) : joined[k] = IF k = 1 THEN inked[1] ELSE joined[k - 1] \o <<"\n">> \o inked[k]
  BY <1>1, LenProperties DEF JoinsParagraphs
<1>9. CASE total = 0
  <2>1. FlattenSeq(parts) = parts /\ parts = <<>>
    BY <1>9, EmptySeq DEF FlattenSeq
  <2>2. Len(inked) = 0
    BY <1>6, <1>9
  <2>3. QED
    BY <1>1, <1>8, <2>1, <2>2
<1>10. CASE total # 0
  <2>1. PICK flat : Flattens(flat, parts)
    BY <1>10, FlattenStepwise
  <2>2. /\ \A n \in 1..total : flat[n] \in Seq(Characters)
        /\ flat[1] = parts[1]
        /\ \A n \in 2..total : flat[n] = flat[n - 1] \o parts[n]
        /\ FlattenSeq(parts) = flat[total]
    BY <2>1 DEF Flattens
  <2> HIDE DEF total
  <2> DEFINE Ink0(n) == IF n = 0 THEN <<>> ELSE Visible(flat[n])
             S == {n \in 0..total : Visible(joined[Len(left[n])]) = Ink0(n)}
  <2>3. Visible(<<>>) = <<>>
    BY NoInk
  <2>4. 0 \in S
    <3>1. Len(left[0]) = 0
      BY <1>6
    <3>2. 0 \in 0..total
      BY <1>3
    <3>3. QED
      BY <1>8, <2>3, <3>1, <3>2
  <2>5. ASSUME NEW n \in 1..total PROVE Ink0(n) = Ink0(n - 1) \o Visible(parts[n])
    <3>1. parts[n] \in Seq(Characters) /\ Visible(parts[n]) \in Seq(Characters)
      BY <1>3, VisibleType
    <3>2. CASE n = 1
      BY <2>2, <3>1, <3>2, ConcatEmptySeq
    <3>3. CASE n # 1
      <4>1. n \in 2..total /\ n - 1 \in 1..total /\ n # 0 /\ n - 1 # 0
        BY <1>3, <3>3
      <4>2. flat[n] = flat[n - 1] \o parts[n] /\ flat[n - 1] \in Seq(Characters)
        BY <2>2, <4>1
      <4>3. Visible(flat[n - 1] \o parts[n]) = Visible(flat[n - 1]) \o Visible(parts[n])
        BY <3>1, <4>2, VisibleConcat
      <4>4. QED
        BY <4>1, <4>2, <4>3
    <3>4. QED
      BY <3>2, <3>3
  <2>6. ASSUME NEW k \in 1..Len(inked) PROVE Visible(joined[k]) = Visible(joined[k - 1]) \o Visible(inked[k])
    <3>1. /\ inked[k] \in Seq(Characters) /\ Visible(inked[k]) \in Seq(Characters)
          /\ k - 1 \in 0..Len(inked) /\ joined[k - 1] \in Seq(Characters)
          /\ Visible(joined[k - 1]) \in Seq(Characters)
      BY <1>1, <1>8, VisibleType, LenProperties
    <3>2. CASE k = 1
      BY <1>8, <2>3, <3>1, <3>2, ConcatEmptySeq
    <3>3. CASE k # 1
      <4> DEFINE c == "\n"
      <4>1. joined[k] = joined[k - 1] \o <<c>> \o inked[k] /\ c \in Characters /\ Blank(c)
        BY <1>8, <3>3 DEF Characters, Blank
      <4> HIDE DEF c
      <4>2. joined[k - 1] \o <<c>> = Append(joined[k - 1], c) /\ Append(joined[k - 1], c) \in Seq(Characters)
        BY <3>1, <4>1, AppendIsConcat, AppendProperties
      <4>3. Visible(Append(joined[k - 1], c)) = Visible(joined[k - 1])
        BY <3>1, <4>1, VisibleAppend
      <4>4. Visible(Append(joined[k - 1], c) \o inked[k]) = Visible(Append(joined[k - 1], c)) \o Visible(inked[k])
        BY <3>1, <4>2, VisibleConcat
      <4>5. QED
        BY <4>1, <4>2, <4>3, <4>4
    <3>4. QED
      BY <3>2, <3>3
  <2> HIDE DEF Ink0
  <2>7. ASSUME NEW n \in 1..total, n - 1 \in S PROVE n \in S
    <3>1. /\ Visible(joined[Len(left[n - 1])]) = Ink0(n - 1)
          /\ n \in 0..total /\ n - 1 \in 0..total
          /\ left[n - 1] \in Seq(Seq(Characters)) /\ Len(left[n - 1]) \in Nat /\ parts[n] \in Seq(Characters)
      BY <1>3, <1>6, <2>7
    <3>2. CASE n \in D
      <4>1. left[n] = Append(left[n - 1], parts[n])
        BY <1>6, <3>2
      <4> DEFINE k == Len(left[n - 1]) + 1
      <4>2. Len(left[n]) = k /\ left[n][k] = parts[n]
        BY <3>1, <4>1, AppendProperties
      <4>3. k \in 1..Len(inked) /\ inked[k] = parts[n] /\ k - 1 = Len(left[n - 1])
        <5>1. k <= Len(inked) /\ k >= 1 /\ k \in Nat /\ k - 1 = Len(left[n - 1]) /\ k \in 1..k
          BY <1>7, <3>1, <4>2
        <5>2. left[n][k] = inked[k]
          <6> HIDE DEF k
          <6>1. QED
            BY <1>7, <3>1, <4>2, <5>1
        <5> HIDE DEF k
        <5>3. QED
          BY <1>8, <4>2, <5>1, <5>2
      <4> HIDE DEF k
      <4>4. Visible(joined[k]) = Visible(joined[k - 1]) \o Visible(parts[n])
        BY <2>6, <4>3
      <4>5. Visible(joined[Len(left[n])]) = Ink0(n)
        BY <2>5, <3>1, <4>2, <4>3, <4>4
      <4>6. QED
        BY <3>1, <4>5
    <3>3. CASE n \notin D
      <4>1. left[n] = left[n - 1] /\ ~HasInk(parts[n])
        BY <1>4, <1>6, <3>3
      <4>2. Visible(parts[n]) = <<>>
        <5>1. \A i \in 1..Len(parts[n]) : Blank(parts[n][i])
          BY <3>1, <4>1, LenProperties DEF HasInk
        <5>2. QED
          BY <3>1, <5>1, VisibleNothing
      <4>3. Ink0(n - 1) \in Seq(Characters)
        <5>1. CASE n - 1 = 0
          BY <5>1 DEF Ink0
        <5>2. CASE n - 1 # 0
          <6>1. flat[n - 1] \in Seq(Characters)
            BY <1>3, <2>2, <3>1, <5>2
          <6>2. QED
            BY <5>2, <6>1, VisibleType DEF Ink0
        <5>3. QED
          BY <5>1, <5>2
      <4>4. Ink0(n) = Ink0(n - 1)
        BY <2>5, <4>2, <4>3, ConcatEmptySeq
      <4>5. QED
        BY <3>1, <4>1, <4>4
    <3>4. QED
      BY <3>2, <3>3
  <2>8. total \in S
    <3>1. total \in 0..total
      BY <1>3
    <3> HIDE DEF S
    <3>2. QED
      BY <1>3, <2>4, <2>7, <3>1, CountingUp
  <2>9. total # 0
    BY <1>10 DEF total
  <2>10. Visible(joined[Len(left[total])]) = Visible(flat[total])
    BY <2>8, <2>9 DEF Ink0
  <2>11. QED
    BY <1>1, <1>6, <2>2, <2>10
<1>11. QED
  BY <1>9, <1>10

(* The visible characters each page of a file is cited for: of a PDF those *)
(* of the page, if it can be read, else all of them, on page 1.            *)
PageVisible(f) ==
  [p \in 1..MaxParts |->
     IF f.type = "pdf"
     THEN IF p \in DOMAIN f.parts THEN Visible(Pages(f)[p]) ELSE <<>>
     ELSE IF p = 1 THEN Visible(FlattenSeq(f.parts)) ELSE <<>>]

(* And what is left of them to be seen once they are normalised. *)
PageShown(f) == [p \in 1..MaxParts |-> Visible(Normalized(PageVisible(f)[p]))]

(* The segments hold that ink, page by page. *)
Tells(segs, ink) ==
  /\ \A k \in 1..Len(segs) : Visible(segs[k].text) = ink[segs[k].page]
  /\ \A page \in 1..MaxParts :
       (\A k \in 1..Len(segs) : segs[k].page # page) => ink[page] = <<>>

(* Extraction shows all that can be seen, on the page it stands on. *)
LEMMA ExtractedTells ==
  ASSUME NEW f \in Files
  PROVE  Tells(Extracted(f), PageVisible(f))
<1>1. /\ f.type \in {"pdf", "docx", "txt"}
      /\ f.parts \in Seq(Seq(Characters)) /\ Len(f.parts) \in 0..MaxParts
      /\ f.type = "txt" => Len(f.parts) = 1
      /\ Pages(f) \in Seq(Seq(Characters)) /\ Len(Pages(f)) = Len(f.parts)
      /\ MaxParts \in Nat \ {0}
  BY FilesType, TextsAssumption
<1>2. ASSUME NEW text, Visible(text) = Visible(FlattenSeq(f.parts)), f.type # "pdf",
             Extracted(f) = <<[text |-> text, page |-> 1]>>
      PROVE  Tells(Extracted(f), PageVisible(f))
  <2>1. /\ Len(Extracted(f)) = 1
        /\ Extracted(f)[1].text = text /\ Extracted(f)[1].page = 1
    BY <1>2
  <2>2. \A page \in 1..MaxParts : PageVisible(f)[page] = IF page = 1 THEN Visible(text) ELSE <<>>
    BY <1>2 DEF PageVisible
  <2>3. QED
    BY <1>1, <2>1, <2>2 DEF Tells
<1>3. CASE f.type = "txt"
  <2>1. FlattenSeq(f.parts) = f.parts[1]
    <3> DEFINE parts == f.parts
    <3>1. parts \in Seq(Seq(Characters)) /\ Len(parts) = 1
      BY <1>1, <1>3
    <3> HIDE DEF parts
    <3>2. PICK flat : Flattens(flat, parts)
      BY <3>1, FlattenStepwise
    <3>3. FlattenSeq(parts) = parts[1]
      BY <3>1, <3>2 DEF Flattens
    <3>4. QED
      BY <3>3 DEF parts
  <2>2. QED
    BY <1>2, <1>3, <2>1 DEF Extracted
<1>4. CASE f.type = "docx"
  BY <1>1, <1>2, <1>4, ParagraphsInk DEF Extracted
<1>5. CASE f.type = "pdf"
  <2> DEFINE n == Len(f.parts)
             pages == [i \in 1..n |-> [text |-> Pages(f)[i], page |-> i]]
  <2>1. n \in Nat /\ n <= MaxParts /\ DOMAIN f.parts = 1..n
    BY <1>1, LenProperties
  <2>2. Extracted(f) = pages
    BY <1>5, <2>1 DEF Extracted
  <2>3. /\ \A i \in 1..n : pages[i].page = i /\ pages[i].text = Pages(f)[i]
        /\ Len(pages) = n
    BY <2>1
  <2>4. \A page \in 1..MaxParts : PageVisible(f)[page] = IF page \in 1..n THEN Visible(Pages(f)[page]) ELSE <<>>
    BY <1>5, <2>1 DEF PageVisible
  <2>5. \A i \in 1..n : i \in 1..MaxParts
    BY <1>1, <2>1
  <2> HIDE DEF pages, n
  <2>6. QED
    BY <2>2, <2>3, <2>4, <2>5 DEF Tells
<1>6. QED
  BY <1>1, <1>3, <1>4, <1>5

(* Cleaning drops only segments of which nothing can be seen. *)
LEMMA CleaningTells ==
  ASSUME NEW segs \in Seq(Segment), NEW f \in Files, Tells(segs, PageVisible(f))
  PROVE  LET cleaned == [n \in DOMAIN segs |-> [segs[n] EXCEPT !.text = CleanText(segs[n].text)]]
         IN  Tells(Filtered(cleaned, LAMBDA segment : segment.text # <<>>), PageShown(f))
<1> DEFINE cleaned == [n \in DOMAIN segs |-> [segs[n] EXCEPT !.text = CleanText(segs[n].text)]]
           D == {i \in DOMAIN cleaned : cleaned[i].text # <<>>}
           left == Picked(cleaned, D)
           total == Len(segs)
<1>1. total \in Nat /\ DOMAIN segs = 1..total /\ \A n \in 1..total : segs[n] \in Segment
  BY LenProperties
<1>2. ASSUME NEW n \in 1..total
      PROVE  /\ cleaned[n] \in Segment /\ cleaned[n].page = segs[n].page
             /\ Visible(cleaned[n].text) = Visible(Normalized(Visible(segs[n].text)))
  <2>1. segs[n].text \in Seq(Characters) /\ segs[n].page \in 1..MaxParts
    BY <1>1 DEF Segment
  <2>2. CleanText(segs[n].text) \in Seq(Characters)
        /\ Visible(CleanText(segs[n].text)) = Visible(Normalized(Visible(segs[n].text)))
    BY <2>1, CleanTextType, CleanTextKeepsInk, NormalizedInk
  <2>3. cleaned[n] = [text |-> CleanText(segs[n].text), page |-> segs[n].page]
    BY <1>1 DEF Segment
  <2> HIDE DEF cleaned
  <2>4. QED
    BY <2>1, <2>2, <2>3 DEF Segment
<1>3. cleaned \in Seq(Segment) /\ Len(cleaned) = total /\ DOMAIN cleaned = 1..total
  <2>1. DOMAIN cleaned = 1..total
    BY <1>1
  <2>2. cleaned = [n \in 1..total |-> cleaned[n]]
    BY <1>1
  <2> HIDE DEF cleaned, total
  <2>3. cleaned \in [1..total -> Segment]
    BY <1>2, <2>1, <2>2
  <2>4. QED
    BY <1>1, <2>1, <2>3
<1> HIDE DEF cleaned, total
<1>4. D = {i \in 1..total : cleaned[i].text # <<>>}
  BY <1>3
<1>5. PICK at, m : /\ Lists(at, m, D \cap 1..total)
                   /\ left = [k \in 1..m |-> cleaned[at[k]]]
  <2> HIDE DEF D
  <2>1. PICK at, m : PicksAt(at, m, cleaned, D)
    BY <1>3, PickedInOrder
  <2>2. QED
    BY <1>3, <2>1 DEF PicksAt
<1> HIDE DEF left, D
<1>6. /\ m \in Nat
      /\ \A k \in 1..m : at[k] \in D \cap 1..total
      /\ \A i \in D \cap 1..total : \E k \in 1..m : at[k] = i
  BY <1>5 DEF Lists, Ascending
<1>7. Len(left) = m /\ \A k \in 1..m : left[k] = cleaned[at[k]]
  BY <1>5, <1>6
<1>8. ASSUME NEW k \in 1..Len(left)
      PROVE  Visible(left[k].text) = PageShown(f)[left[k].page]
  <2>1. k \in 1..m /\ at[k] \in 1..total /\ left[k] = cleaned[at[k]]
    BY <1>6, <1>7
  <2>2. /\ Visible(segs[at[k]].text) = PageVisible(f)[segs[at[k]].page]
        /\ segs[at[k]].page \in 1..MaxParts
    BY <1>1, <2>1 DEF Tells, Segment, total
  <2>3. /\ Visible(cleaned[at[k]].text) = Visible(Normalized(Visible(segs[at[k]].text)))
        /\ cleaned[at[k]].page = segs[at[k]].page
    BY <1>2, <2>1
  <2>4. QED
    BY <2>1, <2>2, <2>3 DEF PageShown
<1>9. ASSUME NEW page \in 1..MaxParts, \A k \in 1..Len(left) : left[k].page # page
      PROVE  PageShown(f)[page] = <<>>
  <2>1. CASE \A i \in 1..total : segs[i].page # page
    <3>1. PageVisible(f)[page] = <<>>
      BY <2>1 DEF Tells, total
    <3>2. Visible(Normalized(<<>>)) = <<>>
      BY NormalizedNone, NoInk
    <3>3. QED
      BY <3>1, <3>2 DEF PageShown
  <2>2. CASE \E i \in 1..total : segs[i].page = page
    <3>1. PICK i \in 1..total : segs[i].page = page
      BY <2>2
    <3>2. i \notin D
      <4>1. SUFFICES ASSUME i \in D PROVE FALSE
        OBVIOUS
      <4>2. PICK k \in 1..m : at[k] = i
        BY <1>6, <4>1
      <4>3. left[k] = cleaned[i] /\ k \in 1..Len(left)
        BY <1>7, <4>2
      <4>4. QED
        BY <1>2, <1>9, <3>1, <4>3
    <3>3. cleaned[i].text = <<>>
      BY <1>4, <3>2
    <3>4. Visible(Normalized(Visible(segs[i].text))) = <<>>
      BY <1>2, <3>3, NoInk
    <3>5. Visible(segs[i].text) = PageVisible(f)[page]
      BY <3>1 DEF Tells, total
    <3>6. QED
      BY <3>4, <3>5 DEF PageShown
  <2>3. QED
    BY <2>1, <2>2
<1>10. Tells(left, PageShown(f))
  BY <1>8, <1>9 DEF Tells
<1>11. Filtered(cleaned, LAMBDA segment : segment.text # <<>>) = left
  BY DEF Filtered, left, D
<1>12. QED
  BY <1>10, <1>11 DEF cleaned
=============================================================================
