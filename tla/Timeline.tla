------------------------------ MODULE Timeline ------------------------------
(***************************************************************************)
(* The word timings of a clip (assets/reader-tts/reader-tts.js): how the   *)
(* aligner's answer is put in order and which word is active at a time.    *)
(* Times are in milliseconds; a word is its index in the part, from 1.     *)
(***************************************************************************)
EXTENDS Integers, Sequences, FiniteSetsExt

Larger(m, n) == IF m < n THEN n ELSE m

Tail750 == 750   \* a word stays active this long after its end
Lead250 == 250   \* and may be this much early
Back80 == 80     \* a jump lands this much before its word

NoWord == 0

(* The order of normalizeTimeline's sort, which keeps equals as they came.   *)
Sooner(raw, j, k) ==
    \/ raw[j].word < raw[k].word
    \/ raw[j].word = raw[k].word /\ raw[j].start < raw[k].start
    \/ raw[j].word = raw[k].word /\ raw[j].start = raw[k].start /\ j < k

(* The n-th in that order: n - 1 others go before it. (SortSeq's order is an *)
(* operator, which the proofs could not look into.)                         *)
Nth(raw, n) ==
    CHOOSE k \in DOMAIN raw : Cardinality({j \in DOMAIN raw : Sooner(raw, j, k)}) = n - 1

(* normalizeTimeline: an entry lasts at least a millisecond, and entries    *)
(* are in the order of their words.                                         *)
Lasting(e) == [e EXCEPT !.end = Larger(e.start + 1, @)]
NormalizeTimeline(raw) == [n \in 1 .. Len(raw) |-> Lasting(raw[Nth(raw, n)])]

(* The binary search: how many entries have started at a time.              *)
StartedBy(timeline, ms) ==
    LET ends == 0 .. Len(timeline)
        search[span \in ends \X ends] ==
            LET low == span[1]
                high == span[2]
                middle == (low + high) \div 2
            IN  IF low >= high THEN low
                ELSE IF timeline[middle + 1].start <= ms THEN search[<<middle + 1, high>>]
                ELSE search[<<low, middle>>]
    IN  search[<<0, Len(timeline)>>]

(* activeWordForPart.                                                       *)
ActiveWord(timeline, ms) ==
    LET low == StartedBy(timeline, ms)
    IN  IF timeline = <<>> THEN NoWord
        ELSE IF low = 0
             THEN IF ms + Tail750 >= timeline[1].start THEN timeline[1].word ELSE NoWord
        ELSE IF ms <= timeline[low].end + Tail750 THEN timeline[low].word
        ELSE IF low < Len(timeline) /\ ms + Lead250 >= timeline[low + 1].start
             THEN timeline[low + 1].word
        ELSE NoWord

\* Mutant: a word without a timing takes that of the word after
TimeOfNext(timeline, w) == {timeline[k].start : k \in {k \in DOMAIN timeline : timeline[k].word >= w}}

(* timeForWord: the timings of word w; the first is taken.                  *)
TimesOf(timeline, w) == {timeline[k].start : k \in {k \in DOMAIN timeline : timeline[k].word = w}}

(* Where a jump to a timed word lands.                                      *)
Landing(times) == Larger(0, Min(times) - Back80)
=============================================================================
