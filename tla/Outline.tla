------------------------------ MODULE Outline -------------------------------
(***************************************************************************)
(* Chapters of a transcript (app/chapters.py) and speakers of its snippets *)
(* (app/diarization.py), as operators on sequences of intervals            *)
(* [start, end].                                                           *)
(***************************************************************************)
EXTENDS Integers, Sequences, SequencesExt

CONSTANTS
    Slack,          \* by how much a chapter may end after the video (5 s)
    MaxChapters,    \* _MAX_CHAPTERS
    Tolerance       \* by how much a turn may miss a snippet (200 ms)

ASSUME OutlineBounds == Slack \in Nat /\ MaxChapters \in Nat /\ Tolerance \in Nat

Span == [start : Int, end : Int]

(* _parse_llm_chapters, once the JSON is read and entries without a number or a
   title are gone. *)
Sound(entry) == entry.start >= 0 /\ entry.end > entry.start

Clamped(entry, duration) ==
    IF duration # 0 /\ entry.end > duration + Slack
    THEN [entry EXCEPT !.end = duration] ELSE entry

(* Mutant: an entry that starts with its predecessor is kept. *)
MonotonicWeakly(entries) ==
    FoldLeft(LAMBDA kept, e :
                IF kept = <<>> \/ Last(kept).start <= e.start THEN Append(kept, e) ELSE kept,
             <<>>, entries)

(* What does not start after all that was kept is dropped. *)
Monotonic(entries) ==
    FoldLeft(LAMBDA kept, e :
                IF kept = <<>> \/ Last(kept).start < e.start THEN Append(kept, e) ELSE kept,
             <<>>, entries)

FirstOf(s, n) == SubSeq(s, 1, IF Len(s) < n THEN Len(s) ELSE n)

Accepted(entries, duration) ==
    FoldLeft(LAMBDA kept, e : IF Sound(e) THEN Append(kept, Clamped(e, duration)) ELSE kept,
             <<>>, entries)

ParsedChapters(entries, duration) ==
    Monotonic(Accepted(FirstOf(entries, MaxChapters), duration))

-----------------------------------------------------------------------------
(* _align_speakers: how much of a turn lies in the widened snippet. *)
Overlap(s, turn) ==
    LET from == IF s.start - Tolerance > turn.start THEN s.start - Tolerance ELSE turn.start
        to   == IF s.end + Tolerance < turn.end THEN s.end + Tolerance ELSE turn.end
    IN  IF to > from THEN to - from ELSE 0

Reached(best, s, turns) == IF best = 0 THEN 0 ELSE Overlap(s, turns[best])

(* Mutant: the last turn that overlaps at all. *)
LastTurn(s, turns) ==
    FoldLeft(LAMBDA best, i : IF Overlap(s, turns[i]) > 0 THEN i ELSE best,
             0, [i \in DOMAIN turns |-> i])

(* The first of the turns that overlap most, 0 when none does. *)
BestTurn(s, turns) ==
    FoldLeft(LAMBDA best, i :
                IF Overlap(s, turns[i]) > Reached(best, s, turns) THEN i ELSE best,
             0, [i \in DOMAIN turns |-> i])
=============================================================================
