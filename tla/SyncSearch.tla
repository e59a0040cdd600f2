---------------------------- MODULE SyncSearch -----------------------------
(* syncsearch() of inflate.c: the search for 0, 0, 0xff, 0xff that          *)
(* inflateSync continues from call to call.                                 *)
EXTENDS Integers, Sequences

Marker == <<0, 0, 255, 255>>

\* Mutant: a zero after a full pair of zeros restarts the search.
SyncStepRestart(got, byte) ==
  IF byte = (IF got < 2 THEN 0 ELSE 255) THEN got + 1 ELSE 0

SyncStep(got, byte) ==
  IF byte = (IF got < 2 THEN 0 ELSE 255) THEN got + 1
  ELSE IF byte # 0 THEN 0
  ELSE 4 - got

\* *have after the search of buf; the search stops at the marker
syncsearch(got, buf) ==
  LET f[i \in 0..Len(buf)] ==
        IF i = 0 THEN got ELSE IF f[i-1] = 4 THEN 4 ELSE SyncStep(f[i-1], buf[i])
  IN  f[Len(buf)]
=============================================================================
