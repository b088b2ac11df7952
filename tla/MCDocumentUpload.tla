--------------------------- MODULE MCDocumentUpload ---------------------------
(* Model checking of DocumentUpload: requests and workers are              *)
(* interchangeable.                                                        *)
EXTENDS DocumentUpload, TLC

Symmetry == Permutations(Client) \cup Permutations(Cleaner)
=============================================================================
