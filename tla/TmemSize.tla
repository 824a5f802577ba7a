------------------------------ MODULE TmemSize ------------------------------
(***************************************************************************)
(* How trusted_mem/entry.c checks and adjusts the size and the alignment   *)
(* of a request before it allocates.  Sizes are unsigned words of Width    *)
(* bits, 32 in the code, and wrap round.  The loop of get_ordered_size is  *)
(* stepped, because for some sizes it has no end.                          *)
(***************************************************************************)
EXTENDS Integers

CONSTANTS Width,       \* bits of a u32
          MinChunk,    \* cfg->minimal_chunk_size
          PhysMins     \* values of cfg->phys_limit_min_alloc_size

\* The powers of two that a shift to the left multiplies with.
Pow2[n \in Nat] == IF n = 0 THEN 1 ELSE 2 * Pow2[n - 1]

Word == 0..(Pow2[Width] - 1)

ASSUME Config == Width \in Nat \ {0} /\ MinChunk \in Word \ {0} /\ PhysMins \subseteq Word

VARIABLES req,        \* the request: size, alignment, configuration flags, memory type
          size, alignment, order, pc

vars == <<req, size, alignment, order, pc>>

Requests == [size : Word, alignment : Word, mchunks : BOOLEAN, min_size_check : BOOLEAN,
             alignment_check : BOOLEAN, phys_min : PhysMins]

Init ==
  /\ req \in Requests
  /\ size = req.size /\ alignment = req.alignment
  /\ order = 0 /\ pc = "size"

\* IS_ZERO(size) is refused before the other checks.
ZeroSize ==
  /\ pc = "size" /\ size = 0
  /\ pc' = "refused" /\ UNCHANGED <<req, size, alignment, order>>

\* Mutant: the rounding adds a chunk to a size that is a multiple already.
Adjusted_NoMinusOne(s) == ((s \div MinChunk + 1) * MinChunk) % Pow2[Width]

\* The next multiple of minimal_chunk_size.
Adjusted(s) == (((s - 1) \div MinChunk + 1) * MinChunk) % Pow2[Width]

\* min_chunk_size_check: refuse, or round the size up for a type with many chunks.
MinChunkSizeCheck ==
  /\ pc = "size" /\ size # 0
  /\ LET bad == req.min_size_check /\ \/ MinChunk < req.phys_min
                                      \/ ~req.mchunks /\ size < MinChunk
     IN  pc' = IF bad THEN "refused" ELSE IF req.alignment_check THEN "align" ELSE "ok"
  /\ size' = IF req.min_size_check /\ req.mchunks /\ MinChunk >= req.phys_min
               THEN Adjusted(size) ELSE size
  /\ UNCHANGED <<req, alignment, order>>

\* alignment_adjust, its two conditions; the second with TMEM_SMALL_ALIGNMENT_AUTO_ADJUST.
AlignmentAdjust ==
  /\ pc \in {"align", "realign"}
  /\ pc' = IF \/ pc = "align" /\ (alignment = 0 \/ alignment > size)
              \/ pc = "realign" /\ alignment < size
             THEN (IF pc = "align" THEN "order" ELSE "reorder")
             ELSE (IF pc = "align" THEN "realign" ELSE "ok")
  /\ order' = 0
  /\ UNCHANGED <<req, size, alignment>>

After == IF pc = "order" THEN "realign" ELSE "ok"

\* get_ordered_size of a small size or of a type with many chunks.
OneChunk ==
  /\ pc \in {"order", "reorder"} /\ (size < MinChunk \/ req.mchunks)
  /\ alignment' = MinChunk /\ pc' = After
  /\ UNCHANGED <<req, size, order>>

\* Mutant: the block must be larger than the size.
OrderedSize_Strict ==
  /\ pc \in {"order", "reorder"} /\ size >= MinChunk /\ ~req.mchunks
  /\ LET order_size == (MinChunk * Pow2[order]) % Pow2[Width]
     IN  IF order_size > size
           THEN alignment' = order_size /\ pc' = After /\ UNCHANGED order
           ELSE order' = (order + 1) % Width /\ UNCHANGED <<alignment, pc>>
  /\ UNCHANGED <<req, size>>

\* Mutant: the order is not incremented.
OrderedSize_NoIncrement ==
  /\ pc \in {"order", "reorder"} /\ size >= MinChunk /\ ~req.mchunks
  /\ LET order_size == (MinChunk * Pow2[order]) % Pow2[Width]
     IN  IF order_size >= size
           THEN alignment' = order_size /\ pc' = After
           ELSE UNCHANGED <<alignment, pc>>
  /\ UNCHANGED <<req, size, order>>

\* One round of its loop.  A shift by the width or more is undefined in C; the
\* processor takes the shift modulo the width.
OrderedSize ==
  /\ pc \in {"order", "reorder"} /\ size >= MinChunk /\ ~req.mchunks
  /\ LET order_size == (MinChunk * Pow2[order]) % Pow2[Width]
     IN  IF order_size >= size
           THEN alignment' = order_size /\ pc' = After /\ UNCHANGED order
           ELSE order' = (order + 1) % Width /\ UNCHANGED <<alignment, pc>>
  /\ UNCHANGED <<req, size>>

Done == pc \in {"ok", "refused"} /\ UNCHANGED vars

Next == ZeroSize \/ MinChunkSizeCheck \/ AlignmentAdjust \/ OneChunk \/ OrderedSize \/ Done

Spec == Init /\ [][Next]_vars /\ WF_vars(Next)
-----------------------------------------------------------------------------
\* The blocks of minimal_chunk_size << order that the code means.
Blocks == {MinChunk * Pow2[k] : k \in 0..Width} \cap Word

\* With the alignment check on, an accepted request of a type with one chunk per
\* handle leaves with an alignment that covers its size, and it is the smallest
\* block that does unless the caller asked for exactly the size.
LeastBlock ==
  pc = "ok" /\ req.alignment_check /\ ~req.mchunks =>
    /\ alignment >= size
    /\ alignment = size \/ (alignment \in Blocks /\ \A b \in Blocks : b >= size => b >= alignment)

\* For a type with many chunks the size becomes the next multiple of
\* minimal_chunk_size or, where that multiple does not fit the word, what the
\* addition leaves of it: less than a chunk, after the only test for zero.
SizeRounded ==
  pc = "ok" /\ req.min_size_check /\ req.mchunks =>
    LET rounded == IF size >= req.size THEN size ELSE size + Pow2[Width]
    IN  rounded % MinChunk = 0 /\ rounded >= req.size /\ rounded < req.size + MinChunk

\* The requests that reach the loop of get_ordered_size with more than half of the
\* range of a word: minimal_chunk_size << order wraps to zero before it covers them.
Endless ==
  /\ req.alignment_check /\ ~req.mchunks /\ ~(req.min_size_check /\ MinChunk < req.phys_min)
  /\ req.size > Pow2[Width - 1] /\ req.alignment # req.size

\* They are neither accepted nor refused.
NeverDecided == Endless => pc \notin {"ok", "refused"}

\* The checks come to an end for all requests but these, and for none of these.
ChecksEnd == []NeverDecided /\ (~Endless ~> pc \in {"ok", "refused"})
=============================================================================
