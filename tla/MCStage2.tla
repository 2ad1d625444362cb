------------------------------ MODULE MCStage2 ------------------------------
(***************************************************************************)
(* Memory maps for TLC: an empty list, as most boards have, and a list of  *)
(* two descriptors, which may overlap, start and end anywhere.             *)
(***************************************************************************)
EXTENDS Stage2

Areas(a) == {e \in [va : Pages, pa : {a}, size : 0 .. NumL2 * NumL3] :
               e.va + e.size <= NumL2 * NumL3}

MCMaps == {<< <<>>, <<e, f>> >> : e \in Areas(20), f \in Areas(40)}
=============================================================================
