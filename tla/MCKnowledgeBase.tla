--------------------------- MODULE MCKnowledgeBase --------------------------
(***************************************************************************)
(* Instances of KnowledgeBase for TLC: calls about the same source.        *)
(***************************************************************************)
EXTENDS KnowledgeBase, TLC

CONSTANTS long, source

MCRefOf == [c \in Calls |-> source]
MCSize == [c \in Calls |-> IF c = long THEN 2 ELSE 1]
=============================================================================
