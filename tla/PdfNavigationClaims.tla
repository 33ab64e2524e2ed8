------------------------ MODULE PdfNavigationClaims ------------------------
(* A statement of pdf-navigation.mjs about itself that it does not keep.   *)
EXTENDS PdfNavigation

(* "Keep successive page-button/key presses relative to the destination     *)
(* while PDF.js updates its current page from intermediate animation        *)
(* frames" (pdf-navigation.mjs:1-2): a scrollend drops the destination only *)
(* once its glide is over.                                                  *)
KeptDuringGlide ==
    [][view.ended /\ ~view'.ended /\ pending # None /\ pending' = None
          => view.native = None]_navVars
=============================================================================
