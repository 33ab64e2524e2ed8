---------------------------- MODULE MCPdfReading ----------------------------
(* Small instances of reading a PDF aloud while browsing it. *)
EXTENDS SurfaceFollowProperties
=============================================================================
