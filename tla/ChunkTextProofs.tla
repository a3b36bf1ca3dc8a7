--------------------------- MODULE ChunkTextProofs ---------------------------
(***************************************************************************)
(* Proofs about chunk_text: for texts and windows of every size, no phrase *)
(* within the overlap is torn apart and no window is wasted.               *)
(***************************************************************************)
EXTENDS ChunkText, TLAPS

\* Everything before the next window's start is in some chunk, together
\* with what the overlap lets follow it.
CoveredSoFar ==
  ~done => \A k \in 0..overlap : \A p \in 0..length :
             p < start /\ p + k < length => Together(p, k)

\* Where the loop stands while it goes on: the last chunk ended `overlap`
\* characters after the next start, and before the end of the text.
LoopStands ==
  ~done =>
    /\ start + overlap < length \/ (start = 0 /\ length > 0 /\ chunks = <<>>)
    /\ chunks # <<>> => chunks[Len(chunks)].to = start + overlap

IInv == TypeOK /\ CoveredSoFar /\ LoopStands /\ PhraseKept /\ ChunksAreUseful

\* What one window adds to the chunks.
LEMMA WindowAppends ==
  ASSUME TypeOK, Window
  PROVE  /\ chunks' \in Seq(Chunk)
         /\ Len(chunks') = Len(chunks) + 1
         /\ \A i \in 1..Len(chunks) : chunks'[i] = chunks[i]
         /\ chunks'[Len(chunks) + 1] = Slice(start, start + size)
<1>1. Slice(start, start + size) \in Chunk
  BY DEF TypeOK, Slice, Chunk
<1>2. chunks \in Seq(Chunk) /\ chunks' = Append(chunks, Slice(start, start + size))
  BY DEF TypeOK, Window
<1> QED BY <1>1, <1>2

\* A pair of characters that was together in a chunk still is.
LEMMA TogetherStays ==
  ASSUME TypeOK, Window, NEW p \in Nat, NEW k \in Nat, Together(p, k)
  PROVE  Together(p, k)'
<1>1. PICK i \in 1..Len(chunks) : chunks[i].from <= p /\ p + k < chunks[i].to
  BY DEF Together
<1>2. Len(chunks) \in Nat
  BY DEF TypeOK
<1>3. i \in 1..Len(chunks') /\ chunks'[i] = chunks[i]
  BY <1>1, <1>2, WindowAppends
<1> QED BY <1>1, <1>3 DEF Together

\* The new window holds what starts in it and does not reach past it.
LEMMA TogetherInWindow ==
  ASSUME TypeOK, Window, NEW p \in Nat, NEW k \in Nat,
         start <= p, p + k < start + size, p + k < length
  PROVE  Together(p, k)'
<1>1. Len(chunks) \in Nat
  BY DEF TypeOK
<1>2. Len(chunks) + 1 \in 1..Len(chunks')
  BY <1>1, WindowAppends
<1>3. /\ chunks'[Len(chunks) + 1].from <= p
      /\ p + k < chunks'[Len(chunks) + 1].to
  BY WindowAppends DEF Slice, TypeOK
<1> QED BY <1>2, <1>3 DEF Together

LEMMA InitHolds == Init => IInv
<1> SUFFICES ASSUME Init PROVE IInv
  OBVIOUS
<1> USE ChunkAssumption
<1>1. TypeOK
  BY DEF Init, TypeOK
<1>2. /\ length \in Nat /\ size \in Nat /\ overlap \in Nat
      /\ start = 0 /\ chunks = <<>>
  BY DEF Init
<1>3. done <=> length = 0
  BY DEF Init
<1>4. CoveredSoFar
  BY <1>2 DEF CoveredSoFar
<1>5. LoopStands
  BY <1>2, <1>3 DEF LoopStands
<1>6. PhraseKept
  BY <1>2, <1>3 DEF PhraseKept
<1>7. ChunksAreUseful
  BY <1>2 DEF ChunksAreUseful
<1> QED BY <1>1, <1>4, <1>5, <1>6, <1>7 DEF IInv

LEMMA StepHolds == IInv /\ [Next]_vars => IInv'
<1> SUFFICES ASSUME IInv, [Next]_vars PROVE IInv'
  OBVIOUS
<1> USE ChunkAssumption
<1>1. CASE Window
  <2> USE <1>1
  <2>0. TypeOK /\ CoveredSoFar /\ LoopStands /\ ChunksAreUseful /\ ~done
    BY DEF IInv, Window
  <2>1. TypeOK'
    <3>1. chunks' \in Seq(Chunk)
      BY <2>0, WindowAppends
    <3>2. /\ length' = length /\ size' = size /\ overlap' = overlap
          /\ done' \in BOOLEAN /\ start' \in Nat
      BY <2>0 DEF Window, LastWindow, Step, TypeOK
    <3> QED BY <2>0, <3>1, <3>2 DEF TypeOK
  <2>2. ASSUME NEW k \in 0..overlap, NEW p \in 0..length,
               p < start, p + k < length
        PROVE  Together(p, k)'
    <3>1. Together(p, k) /\ p \in Nat /\ k \in Nat
      BY <2>0, <2>2 DEF CoveredSoFar, TypeOK
    <3> QED BY <2>0, <3>1, TogetherStays
  <2>3. CoveredSoFar'
    <3> SUFFICES ASSUME ~done', NEW k \in 0..overlap, NEW p \in 0..length,
                        p < start + Step, p + k < length
                 PROVE  Together(p, k)'
      BY <2>0 DEF CoveredSoFar, Window, TypeOK
    <3>1. CASE p < start
      BY <2>2, <3>1
    <3>2. CASE ~(p < start)
      <4>1. /\ p \in Nat /\ k \in Nat /\ start <= p
            /\ p + k < start + size
        BY <2>0, <3>2 DEF TypeOK, Step
      <4> QED BY <2>0, <4>1, TogetherInWindow
    <3> QED BY <3>1, <3>2
  <2>4. PhraseKept'
    <3> SUFFICES ASSUME done', NEW k \in 0..overlap, NEW p \in 0..length,
                        p + k < length
                 PROVE  Together(p, k)'
      BY <2>0 DEF PhraseKept, Window, TypeOK
    <3>1. CASE p < start
      BY <2>2, <3>1
    <3>2. CASE ~(p < start)
      <4>1. start + size >= length
        BY DEF Window, LastWindow
      <4>2. /\ p \in Nat /\ k \in Nat /\ start <= p
            /\ p + k < start + size
        BY <2>0, <3>2, <4>1 DEF TypeOK
      <4> QED BY <2>0, <4>2, TogetherInWindow
    <3> QED BY <3>1, <3>2
  <2>5. chunks'[Len(chunks')] = Slice(start, start + size) /\ chunks' # <<>>
    <3>1. Len(chunks') = Len(chunks) + 1 /\ Len(chunks) \in Nat
      BY <2>0, WindowAppends DEF TypeOK
    <3> QED BY <2>0, <3>1, WindowAppends
  <2>6. LoopStands'
    <3> SUFFICES ASSUME ~done' PROVE LoopStands'
      BY DEF LoopStands
    <3>0. ~(start + size >= length)
      BY DEF Window, LastWindow
    <3>1. /\ start + size < length /\ start' = start + Step
          /\ overlap' = overlap /\ length' = length
      BY <2>0, <3>0 DEF Window, LastWindow, TypeOK
    <3>2. start' + overlap' < length' /\ start' + overlap' = start + size
      BY <2>0, <3>1 DEF Step, TypeOK
    <3>3. chunks'[Len(chunks')].to = start + size
      BY <2>0, <2>5, <3>1 DEF Slice, TypeOK
    <3> QED BY <3>2, <3>3 DEF LoopStands
  <2>7. ChunksAreUseful'
    <3> DEFINE n == Len(chunks)
               new == Slice(start, start + size)
    <3>0. /\ n \in Nat /\ Len(chunks') = n + 1 /\ chunks'[n + 1] = new
          /\ \A i \in 1..n : chunks'[i] = chunks[i]
          /\ size' = size
      BY <2>0, WindowAppends DEF TypeOK, Window
    <3>1. new.from = start /\ new.to - new.from \in 1..size
      BY <2>0 DEF Slice, TypeOK, LoopStands
    <3>2. ASSUME n # 0 PROVE chunks[n].to < new.to
      <4>1. chunks # <<>>
        BY <3>2
      <4>2. chunks[n].to = start + overlap /\ start + overlap < length
        BY <2>0, <4>1 DEF LoopStands
      <4> QED BY <2>0, <4>2 DEF Slice, TypeOK
    <3>3. \A i \in 1..Len(chunks') : chunks'[i].to - chunks'[i].from \in 1..size'
      <4> SUFFICES ASSUME NEW i \in 1..(n + 1)
                   PROVE  chunks'[i].to - chunks'[i].from \in 1..size
        BY <3>0
      <4>1. CASE i = n + 1
        BY <3>0, <3>1, <4>1
      <4>2. CASE i # n + 1
        <5>1. i \in 1..n
          BY <3>0, <4>2
        <5> QED BY <2>0, <3>0, <5>1 DEF ChunksAreUseful
      <4> QED BY <4>1, <4>2
    <3>4. \A i \in 2..Len(chunks') : chunks'[i - 1].to < chunks'[i].to
      <4> SUFFICES ASSUME NEW i \in 2..(n + 1)
                   PROVE  chunks'[i - 1].to < chunks'[i].to
        BY <3>0
      <4>1. CASE i = n + 1
        <5>1. n # 0 /\ i - 1 = n /\ n \in 1..n
          BY <3>0, <4>1
        <5> QED BY <3>0, <3>2, <4>1, <5>1
      <4>2. CASE i # n + 1
        <5>1. i \in 2..n /\ i \in 1..n /\ i - 1 \in 1..n
          BY <3>0, <4>2
        <5> QED BY <2>0, <3>0, <5>1 DEF ChunksAreUseful
      <4> QED BY <4>1, <4>2
    <3> QED BY <3>3, <3>4 DEF ChunksAreUseful
  <2> QED BY <2>1, <2>3, <2>4, <2>6, <2>7 DEF IInv
<1>2. CASE UNCHANGED vars
  BY <1>2 DEF IInv, vars, TypeOK, CoveredSoFar, LoopStands, PhraseKept,
              ChunksAreUseful, Together
<1> QED BY <1>1, <1>2 DEF Next

\* Whatever the text's length and the window's size: a phrase of at most
\* overlap + 1 characters is whole in some chunk once chunk_text returns.
THEOREM PhraseIsKept == Spec => []PhraseKept
<1>1. IInv => PhraseKept
  BY DEF IInv
<1> QED BY <1>1, InitHolds, StepHolds, PTL DEF Spec

\* Every chunk is within the chunk size and brings something new.
THEOREM NoWindowIsWasted == Spec => [](TypeOK /\ ChunksAreUseful)
<1>1. IInv => TypeOK /\ ChunksAreUseful
  BY DEF IInv
<1> QED BY <1>1, InitHolds, StepHolds, PTL DEF Spec
=============================================================================
