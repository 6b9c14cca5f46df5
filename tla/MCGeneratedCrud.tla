--------------------------- MODULE MCGeneratedCrud ---------------------------
(* Two administrators on a row of every table, three writes.               *)
EXTENDS GeneratedCrud, TLC

MCEntities == DOMAIN Catalogue
Symmetry == Permutations(Client)
=============================================================================
