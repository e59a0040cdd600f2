----------------------------- MODULE MCInflate -----------------------------
(* Instances of Inflate for TLC.                                            *)
EXTENDS Inflate

MCRequests == {[wrap |-> {"zlib", "gzip", "check"}, wbits |-> 2], [wrap |-> {}, wbits |-> 1],
               [wrap |-> {"zlib", "gzip", "check"}, wbits |-> 0]}
MCCalls == {<<1, 6, "none">>, <<17, 1, "none">>, <<17, 6, "finish">>, <<0, 1, "trees">>}
MCGzFlags  == {Fields, {}}
MCLenCodes == {<<11, 5>>}
MCDistCodes == {<<11, 13>>}
MCSyncBytes == {<<>>, <<0>>, <<0, 0>>, <<0, 0, 255>>, <<0, 0, 255, 255>>}
=============================================================================
