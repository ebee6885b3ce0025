--------------------------- MODULE MCEntryGateway ---------------------------
(* Instances of EntryGateway for TLC.                                      *)
EXTENDS EntryGateway, TLC

CONSTANTS c1, c2, s1, s2, s3, p1, p2, p3, k1, k2

(* Clients, seals and permits are interchangeable: no guard compares them. *)
Symmetry ==
  Permutations(Clients) \cup Permutations(Seals) \cup Permutations(Permits)
    \cup Permutations(Keys)

=============================================================================
