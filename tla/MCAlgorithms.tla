---------------------------- MODULE MCAlgorithms ----------------------------
(* The pure algorithms on bounded inputs, for TLC.                          *)
EXTENDS MCCodes, MCKernels

Next == CodesNext \/ KernelsNext \/ Return
Spec == Init /\ [][Next]_vars
=============================================================================
