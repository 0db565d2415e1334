----------------------------- MODULE MCTestSweep -----------------------------
(***************************************************************************)
(* CORE has more entries than are read of a folder, a file among them that *)
(* is no test; XTESTS has no test; FBTESTS has one.                        *)
(***************************************************************************)
EXTENDS TestSweep

CONSTANTS t1, t2, t3, t4

SmallTests == {t1, t2, t3, t4}
SmallFolder == << <<t1, Other, t2, t4>>, <<Other>>, <<t3>> >>

(* t4 is beyond the rows that are read. *)
SmallFates ==
  {f \in [SmallTests \cup {Own} -> {"passes", "fails", "stops", "rejected", "unreadable", "long"}] :
     /\ f[t1] \in {"passes", "fails", "unreadable"}
     /\ f[t2] \in {"stops", "rejected", "long"}
     /\ f[t3] = "fails" /\ f[t4] = "passes" /\ f[Own] = "passes"}
=============================================================================
