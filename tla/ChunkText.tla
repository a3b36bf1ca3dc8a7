------------------------------ MODULE ChunkText ------------------------------
(***************************************************************************)
(* chunk_text: the sliding window that cuts a document's text into chunks  *)
(* for the index.  A character is its position in the normalized text, a   *)
(* chunk the interval from .. to-1; one action is one turn of the loop.    *)
(***************************************************************************)
EXTENDS Integers, Sequences

CONSTANTS
  MaxLength,  \* bound on the length of the normalized text
  MaxSize     \* bound on chunk_size

ASSUME ChunkAssumption == MaxLength \in Nat /\ MaxSize \in Nat \ {0}

VARIABLES
  length,   \* len(normalized)
  size,     \* chunk_size
  overlap,  \* overlap; the settings (contexthub_chunk_*) keep it below size
  start,    \* the loop's start
  chunks,   \* the result so far
  done      \* the loop was left

vars == <<length, size, overlap, start, chunks, done>>

Chunk == [from : Nat, to : Nat]

TypeOK ==
  /\ length \in 0..MaxLength
  /\ size \in 1..MaxSize
  /\ overlap \in 0..(size - 1)
  /\ start \in Nat
  /\ chunks \in Seq(Chunk)
  /\ done \in BOOLEAN

Init ==
  /\ length \in 0..MaxLength
  /\ size \in 1..MaxSize
  /\ overlap \in 0..(size - 1)
  /\ start = 0
  /\ chunks = <<>>
  /\ done = (length = 0)

\* Mutant: the next window starts after the previous one.
StepOver == size

Step == size - overlap

\* normalized[start:end]: a slice stops at the end of the text.
Slice(from, to) == [from |-> from, to |-> IF to < length THEN to ELSE length]

\* Mutant: the loop goes on until a window starts past the text.
LastWindowPast(end) == start + Step >= length

LastWindow(end) == end >= length

\* One turn of the loop.
Window ==
  LET end == start + size
  IN  /\ ~done
      /\ chunks' = Append(chunks, Slice(start, end))
      /\ done' = LastWindow(end)
      /\ start' = IF LastWindow(end) THEN start ELSE start + Step
      /\ UNCHANGED <<length, size, overlap>>

Next == Window

Spec == Init /\ [][Next]_vars

----------------------------------------------------------------------------
(* Properties.                                                             *)

\* The characters p .. p+k are together in one of the chunks.
Together(p, k) ==
  \E i \in 1..Len(chunks) : chunks[i].from <= p /\ p + k < chunks[i].to

\* A phrase that is no longer than the overlap and one character is never
\* torn apart by a window's border: some chunk holds all of it.  With k = 0
\* this says that every character of the document is indexed.
PhraseKept ==
  done => \A k \in 0..overlap : \A p \in 0..length :
            p + k < length => Together(p, k)

\* No chunk is empty or longer than asked for, and each brings characters
\* that the one before did not have: the loop ends after at most one window
\* per character.
ChunksAreUseful ==
  /\ \A i \in 1..Len(chunks) : chunks[i].to - chunks[i].from \in 1..size
  /\ \A i \in 2..Len(chunks) : chunks[i - 1].to < chunks[i].to
=============================================================================
