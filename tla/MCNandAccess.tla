---------------------------- MODULE MCNandAccess ----------------------------
(* Four pages in two blocks behind each nand_chip; the tasks are alike.    *)
EXTENDS NandAccess, TLC

Perms == Permutations(Users)
=============================================================================
