----------------------------- MODULE SpeechText -----------------------------
(***************************************************************************)
(* The text that is read and its words (assets/reader-tts/reader-tts.js):  *)
(* what a PDF's pages say once running headers and metadata pages are left *)
(* out, how it is split into parts and words, and how a word of a part and *)
(* a word on the page are matched by the words around them.                *)
(*                                                                         *)
(* A text is a sequence of printed symbols, each one unit long: terms,     *)
(* full stops and hyphens that close the term before them, and paragraph   *)
(* breaks, each the sequence of its letters. A symbol carries the place it *)
(* was printed at, which the code does not have: the properties compare    *)
(* the places, the code only the letters.                                  *)
(***************************************************************************)
EXTENDS Integers, FiniteSets, SequencesExt

CONSTANTS
    Letter,    \* the letters, and the marks below
    Long,      \* the terms of at least five letters
    Chunk,     \* CHUNK_MAX_CHARS
    None

ASSUME SpeechAssumption ==
    /\ {".", "-", "para"} \subseteq Letter /\ None \notin Seq(Letter)
    /\ Chunk \in Nat \ {0}

Stop == <<".">>
Hyphen == <<"-">>
Para == <<"para">>

Symbol(s, p, n) == [sym |-> s, page |-> p, n |-> n]
Break == Symbol(Para, 0, 0)

(* A printed symbol, for any letters.                                       *)
Printed == [sym : Seq(Letter), page : Nat, n : Nat]
PdfPage == [meta : BOOLEAN, header : {None} \cup Seq(Letter), body : Seq(Seq(Letter))]

Largest(S, default) == IF S = {} THEN default ELSE Max(S)

-----------------------------------------------------------------------------
(* The text of a PDF *)

(* A page of the document: is it a JSTOR-like cover, the header printed at  *)
(* its edge, and its body in reading order.                                 *)
Repeated(pages, header) == Cardinality({p \in DOMAIN pages : pages[p].header = header}) >= 2

Body(pages, p) == [n \in DOMAIN pages[p].body |-> Symbol(pages[p].body[n], p, n)]

(* pdfBodyLines of a page: a header that other pages repeat is left out.    *)
BodyLines(pages, p, repeated) ==
    IF pages[p].meta THEN <<>>
    ELSE (IF pages[p].header = None \/ repeated THEN <<>>
          ELSE <<Symbol(pages[p].header, p, 0)>>) \o Body(pages, p)

SpeechPage(pages, p) == BodyLines(pages, p, Repeated(pages, pages[p].header))

(* One after another. (This and what follows recurs on the length: the folds *)
(* of the library take operators, which the proofs could not look into.)     *)
Concatenated(seqs) ==
    LET upto[n \in 0 .. Len(seqs)] == IF n = 0 THEN <<>> ELSE upto[n - 1] \o seqs[n]
    IN  upto[Len(seqs)]

(* The texts there are, with a paragraph break between them.                 *)
Led(texts, n) ==
    IF texts[n] # <<>> /\ \E m \in 1 .. n - 1 : texts[m] # <<>> THEN <<Break>> \o texts[n] ELSE texts[n]
Joined(texts) == Concatenated([n \in 1 .. Len(texts) |-> Led(texts, n)])

(* normalizeForSpeech: a term broken by a hyphen at the end of its line, or *)
(* of its page, is one term.                                                *)
Term(s) == s.sym \notin {Stop, Hyphen, Para}
SpokenAfter(out, s) ==
    LET n == Len(out)
        broken == n >= 3 /\ out[n] = Break /\ out[n - 1].sym = Hyphen /\ Term(out[n - 2])
    IN  IF broken /\ Term(s)
        THEN Append(SubSeq(out, 1, n - 3), [out[n - 2] EXCEPT !.sym = @ \o s.sym])
        ELSE Append(out, s)
NormalizeForSpeech(text) ==
    LET upto[n \in 0 .. Len(text)] == IF n = 0 THEN <<>> ELSE SpokenAfter(upto[n - 1], text[n])
    IN  upto[Len(text)]

(* pdfSpeechText.                                                           *)
PdfSpeechText(pages) == Joined([p \in DOMAIN pages |-> SpeechPage(pages, p)])

-----------------------------------------------------------------------------
(* Parts and words *)

Trim(text) ==
    LET kept == {i \in DOMAIN text : text[i] # Break}
    IN  IF kept = {} THEN <<>> ELSE SubSeq(text, Min(kept), Max(kept))

(* splitTextForSpeech: the text before a cut of k symbols goes first. The   *)
(* cut is the last paragraph break that leaves a part half full, else the   *)
(* last full stop, which the text after the cut begins with, else the last  *)
(* space.                                                                   *)
Cuts(text) == 1 .. Chunk
Paragraphs(text) == {k \in Cuts(text) : text[k + 1] = Break}
Sentences(text) ==
    {k \in Cuts(text) : text[k + 1].sym = Stop /\ k + 2 <= Len(text) /\ text[k + 2] # Break}
Spaces(text) == {k \in Cuts(text) : Term(text[k + 1]) /\ text[k] # Break}

HalfFull(k) == 2 * k >= Chunk
Cut(text) ==
    LET paragraph == Largest(Paragraphs(text), 0)
        sentence  == Largest(Sentences(text), 0)
    IN  IF HalfFull(paragraph) THEN paragraph
        ELSE IF HalfFull(sentence) THEN sentence
        ELSE Largest(Spaces(text), Chunk)

\* Mutant: the separator is taken to be a space
AfterSeparator(text, k) == SubSeq(text, k + 2, Len(text))

After(text, k) == SubSeq(text, k + 1, Len(text))

(* A turn of its loop, and all of them: each leaves less.                    *)
NextChunk(s) ==
    LET k == Cut(s.rest)
        chunk == Trim(SubSeq(s.rest, 1, k))
    IN  IF Len(s.rest) <= Chunk THEN s
        ELSE [chunks |-> IF chunk = <<>> THEN s.chunks ELSE Append(s.chunks, chunk),
              rest   |-> Trim(After(s.rest, k))]
Split(text) ==
    LET upto[n \in 0 .. Len(text)] ==
            IF n = 0 THEN [chunks |-> <<>>, rest |-> Trim(text)] ELSE NextChunk(upto[n - 1])
        end == upto[Len(text)]
    IN  IF end.rest = <<>> THEN end.chunks ELSE Append(end.chunks, end.rest)

(* The elements at the places K, in their order.                             *)
Picked(seq, K) == Concatenated([i \in 1 .. Len(seq) |-> IF i \in K THEN <<seq[i]>> ELSE <<>>])

(* readAlongTokens: a word is a term with what closes it, or what closes a  *)
(* term that the part before has. Its norm is its letters.                  *)
Word(s) == [norm |-> IF Term(s) THEN s.sym ELSE None, page |-> s.page, n |-> s.n]
Opens(text, i) == text[i] # Break /\ (i = 1 \/ text[i - 1] = Break)
WordsOf(text) ==
    Picked([i \in 1 .. Len(text) |-> Word(text[i])],
           {i \in 1 .. Len(text) : Term(text[i]) \/ Opens(text, i)})

(* The words that are terms, the ones a word is matched with.                *)
Terms(words) == Picked(words, {k \in DOMAIN words : words[k].norm # None})

Norms(words) == [k \in 1 .. Len(words) |-> words[k].norm]

-----------------------------------------------------------------------------
(* Matching a word of a part with a word of the surface *)

Window == -5 .. 7

(* scoreSurfaceCandidate.                                                   *)
Available(norms, w) == {o \in Window : w + o \in DOMAIN norms /\ norms[w + o] # None}
Matching(norms, w, tokens, t) ==
    {o \in Available(norms, w) : t + o \in DOMAIN tokens /\ tokens[t + o] = norms[w + o]}
Score(norms, w, tokens, t) ==
    LET S == Matching(norms, w, tokens, t)
    IN  Cardinality(S) + (IF 0 \in S THEN 1 ELSE 0)

Enough(norms, w, tokens, t, threshold) ==
    LET available == Cardinality(Available(norms, w)) + 1
    IN  Score(norms, w, tokens, t) >= Min({threshold, available})

Threshold(norms, w) ==
    IF Cardinality(Available(norms, w)) <= 2 /\ norms[w] \in Long THEN 2 ELSE 4

\* Mutant: the words around are not looked at
FirstAlike(norms, tokens, t) ==
    LET found == {w \in DOMAIN norms : norms[w] = tokens[t]}
    IN  IF found = {} THEN None ELSE Min(found)

(* wordIndexForSurfaceToken: the first of the words that match best.        *)
WordIndexForSurfaceToken(norms, tokens, t) ==
    LET found == {w \in DOMAIN norms : /\ tokens[t] # None /\ norms[w] = tokens[t]
                                       /\ Enough(norms, w, tokens, t, Threshold(norms, w))}
        best  == {w \in found : \A v \in found :
                     Score(norms, v, tokens, t) <= Score(norms, w, tokens, t)}
    IN  IF best = {} THEN None ELSE Min(best)

Distance(m, n) == IF m < n THEN n - m ELSE m - n

\* Mutant: of two that match as well, the first is taken
FirstBest(norms, w, tokens, expected) ==
    LET found == {t \in DOMAIN tokens :
                     tokens[t] = norms[w] /\ Enough(norms, w, tokens, t, 4)}
        best  == {t \in found : \A u \in found :
                     Score(norms, w, tokens, u) <= Score(norms, w, tokens, t)}
    IN  IF best = {} THEN None ELSE Min(best)

(* matchIndexedSurfaceWord: of the tokens that match best, the first of     *)
(* those nearest to where the word is expected.                             *)
MatchIndexedSurfaceWord(norms, w, tokens, expected) ==
    LET found == {t \in DOMAIN tokens :
                     tokens[t] = norms[w] /\ Enough(norms, w, tokens, t, 4)}
        best  == {t \in found : \A u \in found :
                     \/ Score(norms, w, tokens, u) < Score(norms, w, tokens, t)
                     \/ /\ Score(norms, w, tokens, u) = Score(norms, w, tokens, t)
                        /\ Distance(t, expected) <= Distance(u, expected)}
    IN  IF best = {} THEN None ELSE Min(best)
=============================================================================
