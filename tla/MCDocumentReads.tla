--------------------------- MODULE MCDocumentReads ---------------------------
(* Instances of DocumentReads for TLC. *)
EXTENDS DocumentReads

CONSTANTS passbook, first, second

=============================================================================
