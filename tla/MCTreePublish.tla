--------------------------- MODULE MCTreePublish ---------------------------
(* TreePublish of a tree with two ad sets, of two ads and of one.            *)
EXTENDS TreePublish

MCAds == <<2, 1>>
=============================================================================
