--------------------------- MODULE MCLatchCoupling ---------------------------
(* Instances of LatchCoupling for TLC: a root with two internal nodes, one  *)
(* with two leaves and one with one.                                        *)
EXTENDS LatchCoupling

MCNodes == {"root", "left", "right", "leaf1", "leaf2", "leaf3"}

MCKids ==
    [n \in MCNodes |->
        CASE n = "root"  -> {"left", "right"}
          [] n = "left"  -> {"leaf1", "leaf2"}
          [] n = "right" -> {"leaf3"}
          [] OTHER       -> {}]

MCAbove ==
    [n \in MCNodes |->
        {n, "root"} \cup {p \in MCNodes : n \in MCKids[p]}]
=============================================================================
