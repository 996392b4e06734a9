------------------------------- MODULE ChunkBounds -------------------------------
(***************************************************************************)
(* How a text is cut into the chunks that the reader asks for, and how the *)
(* block manifest walks them: buildChunkBounds and getChunkByLine of       *)
(* server/services/content-service.js (the worker has the same loop) and   *)
(* the loop of buildManifest in server/services/block-manifest-service.js. *)
(*                                                                         *)
(* Of a text only its length and the places of its newlines matter; both   *)
(* stay what they are.  One turn of a loop is one action.                  *)
(***************************************************************************)
EXTENDS Naturals, Sequences, FiniteSetsExt

CONSTANTS ChunkSize,  \* CHUNK_SIZE
          Lookahead,  \* CHUNK_BOUNDARY_LOOKAHEAD, never below CHUNK_SIZE
          MaxLength   \* the length of the longest text

\* What the theorems about this module suppose of its constants.
CutAssumption ==
  ChunkSize \in Nat \ {0} /\ Lookahead \in Nat /\ Lookahead >= ChunkSize /\ MaxLength \in Nat

VARIABLES
  length, newlines,  \* the text
  pos,               \* where the next chunk starts
  chunks,            \* chunkBounds
  finished,          \* buildChunkBounds has returned
  parts              \* the chunks of the manifest

textVars == <<length, newlines>>
vars == <<textVars, pos, chunks, finished, parts>>

Places == 0..MaxLength
Ranges == [start : Places, end : Places]

TypeOK ==
  /\ length \in Places
  /\ newlines \in SUBSET (0..(length - 1))
  /\ pos \in 0..length
  /\ chunks \in Seq(Ranges)
  /\ finished \in BOOLEAN
  /\ parts \in Seq(Ranges)

Init ==
  /\ length \in Places
  /\ newlines \in SUBSET {n \in Places : n < length}
  /\ pos = 0
  /\ chunks = <<>>
  /\ finished = FALSE
  /\ parts = <<>>

-----------------------------------------------------------------------------
(* Cutting.                                                                *)

Lesser(a, b) == IF a <= b THEN a ELSE b

\* A chunk is to end here at the latest.
Boundary(target) == Lesser(length, target + Lookahead)

\* After the first newline in the look-ahead, else after the last one up to the
\* boundary, its own place included, else at the boundary.
LineEnd(target) ==
  LET next == {n \in newlines : n >= target}           \* indexOf
      back == {n \in newlines : n <= Boundary(target)} \* lastIndexOf
  IN  IF next # {} /\ Min(next) + 1 <= Boundary(target) THEN Min(next) + 1
      ELSE IF back # {} /\ Max(back) >= target THEN Max(back) + 1
      ELSE Boundary(target)

\* Where the chunk that starts at pos ends.  A place that is no progress is
\* replaced by a full chunk.
ChunkEnd ==
  LET target == Lesser(length, pos + ChunkSize)
      end == IF target < length THEN LineEnd(target) ELSE target
  IN  IF end <= pos THEN Lesser(length, pos + ChunkSize) ELSE end

\* One turn of the loop of buildChunkBounds.
Cut ==
  /\ ~finished /\ pos < length
  /\ chunks' = Append(chunks, [start |-> pos, end |-> ChunkEnd])
  /\ pos' = ChunkEnd
  /\ UNCHANGED <<textVars, finished, parts>>

\* buildChunkBounds returns: the empty text has one empty chunk.
Finish ==
  /\ ~finished /\ pos >= length
  /\ chunks' = IF chunks = <<>> THEN <<[start |-> 0, end |-> 0]>> ELSE chunks
  /\ finished' = TRUE
  /\ UNCHANGED <<textVars, pos, parts>>

-----------------------------------------------------------------------------
(* Walking.                                                                *)

\* getChunkByLine: chunk numbers start at 1 and are brought within the bounds.
ChunkByLine(n) == chunks[IF n < 1 THEN 1 ELSE Lesser(Len(chunks), n)]

\* One turn of the loop of buildManifest.
Walk ==
  /\ finished /\ Len(parts) < Len(chunks)
  /\ parts' = Append(parts, ChunkByLine(Len(parts) + 1))
  /\ UNCHANGED <<textVars, pos, chunks, finished>>

Next == Cut \/ Finish \/ Walk

Spec == Init /\ [][Next]_vars

-----------------------------------------------------------------------------
(* Properties.                                                             *)

\* The walked chunks lie end to end from the start of the text, and when all
\* are walked they end with it: no character is lost or shown twice.
PartsCoverText ==
  /\ \A i \in 1..Len(parts) :
       parts[i].start = IF i = 1 THEN 0 ELSE parts[i-1].end
  /\ finished /\ Len(parts) = Len(chunks) => parts # <<>> /\ parts[Len(parts)].end = length

\* A chunk holds ChunkSize characters at least, unless the text ends with it,
\* and one more than ChunkSize and the look-ahead at most: the newline may lie
\* on the boundary itself.
ChunksBounded ==
  \A i \in 1..Len(chunks) :
    LET c == chunks[i] IN
    /\ c.end >= c.start + ChunkSize \/ c.end = length
    /\ c.end <= c.start + ChunkSize + Lookahead + 1

\* No chunk breaks a line that ends within the look-ahead, and none runs on
\* past the end of one: it ends with the first line that ends beyond its
\* ChunkSize characters, and only where there is none with the look-ahead or
\* the text.
ChunksEndLines ==
  \A i \in 1..Len(chunks) :
    LET c == chunks[i]
        seen == {n \in newlines : n >= c.start + ChunkSize /\ n <= c.start + ChunkSize + Lookahead}
    IN  IF seen # {} THEN c.end - 1 \in seen /\ \A n \in seen : c.end - 1 <= n
        ELSE c.end = Lesser(length, c.start + ChunkSize + Lookahead)
=============================================================================
