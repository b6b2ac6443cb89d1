---------------------------- MODULE TableContract ----------------------------
(***************************************************************************)
(* What becomes of a function's writes to FUNCREF_TABLE, from the outside: *)
(* it has none, it stores the table's address and writes through it, it    *)
(* writes to the table directly, or it writes through an address that is   *)
(* no longer stored.  TableStores shows that replaceFUNCREF_TABLE does     *)
(* what is said here; Deobfuscator builds on it.                           *)
(***************************************************************************)
TableState == {"none", "unfolded", "folded", "broken"}

(* The erasure of the stores that name the table.                          *)
Cleaned(state) ==
  CASE state = "folded"   -> "none"
    [] state = "unfolded" -> "broken"
    [] OTHER              -> state
=============================================================================
