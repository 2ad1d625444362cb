------------------------------ MODULE MCLoader ------------------------------
(* Three words of target code, and files with data between the functions *)
EXTENDS Loader

Line(va, text, name) == [va |-> va, text |-> text, name |-> name]
MCMaps ==
  {<<Line(0, TRUE, "start"), Line(1, FALSE, "table"), Line(1, TRUE, "panic"), Line(2, TRUE, "idle"),
     Line(4, FALSE, "data"), Line(5, TRUE, "irq"), Line(6, FALSE, "_end")>>,
   <<Line(0, FALSE, "vectors"), Line(1, TRUE, "panic"), Line(2, TRUE, "idle"), Line(4, FALSE, "_end")>>,
   <<Line(0, TRUE, "start"), Line(1, TRUE, "panic"), Line(3, FALSE, "data"), Line(5, FALSE, "_end")>>}
OneMap == {<<Line(0, FALSE, "vectors"), Line(1, TRUE, "panic"), Line(3, FALSE, "_end")>>}
=============================================================================
