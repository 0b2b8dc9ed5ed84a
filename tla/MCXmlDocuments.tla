--------------------------- MODULE MCXmlDocuments ---------------------------
(* Two calls on two documents, for TLC. *)
EXTENDS XmlDocuments

CONSTANTS c1, c2, p1, p2

TwoCalls == {c1, c2}
TwoPaths == {p1, p2}
=============================================================================
