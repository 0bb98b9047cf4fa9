------------------------- MODULE MC_MetadataCache -------------------------
(* Three constructors racing for the default metadata session over two     *)
(* databases: enough for two fetches to overlap while a third caller      *)
(* arrives after the first assignment.                                     *)
EXTENDS MetadataCache, TLC

CONSTANTS t1, t2, t3, d1, d2

MCThreads == {t1, t2, t3}
MCDbs == {d1, d2}
MCSymmetry == Permutations(MCThreads) \cup Permutations(MCDbs)
=============================================================================
