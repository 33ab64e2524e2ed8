-------------------------- MODULE ReadAlongClaims --------------------------
(***************************************************************************)
(* What a comment of the player says of clicks that its code does not keep.*)
(***************************************************************************)
EXTENDS ReadAlong

(* reader-tts.js:1733-1734: "Match context across part boundaries too, so   *)
(* common words near a boundary do not accidentally jump to a different     *)
(* occurrence." With the whole text rendered, a click must read from a word *)
(* that has the same words around it in the text. (A text cut at a sentence *)
(* end leaves the full stop to the next part, where it is a word by itself: *)
(* the words before the boundary are then compared one place off.)          *)
Text == WordsOf(NormalizeForSpeech(cache.text))
SamePlace(v, w) == v.page = w.page /\ v.n = w.n
BoundaryKept ==
    clicked # None /\ clicked.shown = DOMAIN doc /\ Norms(SurfaceTokens(doc, DOMAIN doc)) = Norms(Text)
        => \E u \in DOMAIN Text :
              /\ SamePlace(Text[u], RunWords(parts)[clicked.word])
              /\ HasAround(Norms(Text), u, clicked.token)
=============================================================================
