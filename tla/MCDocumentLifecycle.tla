------------------------ MODULE MCDocumentLifecycle ------------------------
(* Instances of DocumentLifecycle for TLC. *)
EXTENDS DocumentLifecycle, TLC

CONSTANTS d1, d2, d3, text, blank, garbage

(* one document with text *)
OneText == (d1 :> text)
(* a document with text beside a scanned one, which has none *)
TextAndScan == (d1 :> text) @@ (d2 :> blank)
(* two uploads of the same file beside one that no parser accepts *)
TwinsAndGarbage == (d1 :> text) @@ (d2 :> text) @@ (d3 :> garbage)

RequestSymmetry == Permutations(Requests)
=============================================================================
