---------------------------- MODULE PolicyChunker ----------------------------
(***************************************************************************)
(* chunkPolicyText: the handbook's blocks -- headings and paragraphs -- cut *)
(* to a target length and packed into chunks that overlap.                 *)
(*                                                                         *)
(* A text is the sequence of its blocks' lengths; the k-th character of    *)
(* block i is <<i, k>> and a line break between blocks is Break.  A block  *)
(* of length 0 is one of blank lines between two headings.  Abstracted:    *)
(* the headings a chunk carries; the only blanks that trimming meets are   *)
(* the breaks.                                                             *)
(***************************************************************************)
EXTENDS Naturals, Sequences, FiniteSets
LOCAL INSTANCE SequencesExt

CONSTANTS Target, Overlap

ASSUME ChunkerAssumption == Overlap \in Nat \ {0} /\ Target \in Nat /\ Overlap < Target

Break == <<0, 0>>

toBlocks(text) == [i \in DOMAIN text |-> [k \in 1 .. text[i] |-> <<i, k>>]]

Slice(s, from, to) == SubSeq(s, from, IF to < Len(s) THEN to ELSE Len(s))
LastOf(s, n) == SubSeq(s, IF n < Len(s) THEN Len(s) - n + 1 ELSE 1, Len(s))

Trimmed(s) ==
    LET leading == {i \in DOMAIN s : \A j \in 1 .. i : s[j] = Break}
        trailing == {i \in DOMAIN s : \A j \in i .. Len(s) : s[j] = Break}
    IN  SubSeq(s, Cardinality(leading) + 1, Len(s) - Cardinality(trailing))

(* Mutant: the last piece is dropped unless it is a full one.              *)
hardSplitFull(block) ==
    LET stride == Target - Overlap
        pieces == IF Len(block) <= Target THEN 1 ELSE 1 + (Len(block) - Target) \div stride
    IN  [i \in 1 .. pieces |-> Slice(block, (i - 1) * stride + 1, (i - 1) * stride + Target)]

(* Pieces of the target length, each starting Overlap before the last one  *)
(* ends; the first that reaches the end is the last.                       *)
hardSplit(block) ==
    LET stride == Target - Overlap
        pieces == IF Len(block) <= Target THEN 1
                  ELSE 1 + (Len(block) - Target + stride - 1) \div stride
    IN  [i \in 1 .. pieces |-> Slice(block, (i - 1) * stride + 1, (i - 1) * stride + Target)]

flush(packed) ==
    LET text == Trimmed(packed.buffer)
    IN  [chunks |-> IF text = <<>> THEN packed.chunks ELSE Append(packed.chunks, text),
         buffer |-> <<>>]

(* A block that does not fit starts a chunk with the end of the last one.  *)
pack(packed, block) ==
    IF packed.buffer = <<>> THEN [packed EXCEPT !.buffer = block]
    ELSE IF Len(packed.buffer) + 2 + Len(block) > Target
      THEN [flush(packed) EXCEPT
              !.buffer = LastOf(packed.buffer, Overlap) \o <<Break, Break>> \o block]
      ELSE [packed EXCEPT !.buffer = packed.buffer \o <<Break, Break>> \o block]

chunkPolicyText(text) ==
    LET blocks == FlattenSeq([i \in DOMAIN text |-> hardSplit(toBlocks(text)[i])])
        packed[i \in 0 .. Len(blocks)] ==
            IF i = 0 THEN [chunks |-> <<>>, buffer |-> <<>>] ELSE pack(packed[i - 1], blocks[i])
    IN  flush(packed[Len(blocks)]).chunks
-------------------------------------------------------------------------------
(* Reference: what the packing promises of a text, whatever its blocks.    *)
Characters(text) == UNION {{<<i, k>> : k \in 1 .. text[i]} : i \in DOMAIN text}

(* Every character is in a chunk, and no chunk goes back to an earlier     *)
(* block.                                                                  *)
Whole(text) ==
    LET chunks == chunkPolicyText(text)
        solid(i) == {k \in DOMAIN chunks[i] : chunks[i][k] # Break}
    IN  /\ UNION {ToSet(chunks[i]) : i \in DOMAIN chunks} \ {Break} = Characters(text)
        /\ \A i \in DOMAIN chunks : \A a, b \in solid(i) :
             a < b => chunks[i][a][1] <= chunks[i][b][1]

(* No chunk exceeds the target by more than the overlap and one break.     *)
Bounded(text) ==
    LET chunks == chunkPolicyText(text)
    IN  \A i \in DOMAIN chunks : Len(chunks[i]) <= Target + Overlap + 2

(* Each chunk starts with the end of the last one, but for the breaks that *)
(* trimming takes; a blank block may leave nothing else to repeat.         *)
Overlapping(text) ==
    LET chunks == chunkPolicyText(text)
    IN  0 \notin ToSet(text) =>
          \A i \in DOMAIN chunks : i > 1 =>
            IsPrefix(Trimmed(LastOf(chunks[i - 1], Overlap)), chunks[i])

Sound(text) == Whole(text) /\ Bounded(text) /\ Overlapping(text)
===============================================================================
