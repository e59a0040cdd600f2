------------------------------- MODULE MCGz --------------------------------
(* A gzFile that is opened for reading or for writing, for TLC.             *)
EXTENDS GzRead, GzWrite

vars == <<gzVars, readVars, writeVars>>

(* gzopen: "G" (gzip only) is asked for where the file is gzip.            *)
Init ==
  /\ \E m \in {"read", "write"} : Open(m)
  /\ ReadInit /\ WriteInit
  /\ mode = "write" => story = CHOOSE s \in Stories : TRUE
  /\ mode = "read" /\ direct = -1 => Len(raw) > 1 /\ raw[2].t # "p"

Reading == ReadNext /\ UNCHANGED writeVars
Writing == WriteNext /\ UNCHANGED readVars
Sizing  == Buffer /\ UNCHANGED <<readVars, writeVars>>
Next == Reading \/ Writing \/ Sizing
Spec == Init /\ [][Next]_vars

(* A call, once made, is carried on by its thread.                         *)
Running == pc # "idle" /\ Next
FairSpec == Spec /\ WF_vars(Running)

(* Types, and what is buffered fits: the input, output and push-back       *)
(* buffers are never overrun, and gzvprintf finds the room it relies on.   *)
BuffersFit == GzTypeOK /\ ReadTypeOK /\ WriteTypeOK /\ InputRoom

(* gz_fetch, gz_skip, gz_read, gz_comp and gz_zero loop until they made    *)
(* progress or met the end of the file; every call returns.                *)
CallReturns == pc # "idle" ~> pc = "idle"

Item(t, v) == [t |-> t, v |-> v]
Plains(n) == [i \in 1..n |-> Item("p", <<i - 1>>)]
Magic == <<Item("m1", <<0>>), Item("m2", <<1>>)>>
Codes(a, b) == <<Item("d", Data(a, b - a + 1))>>
End == <<Item("e", <<9>>)>>
Damage == <<Item("x", <<9>>)>>
Stage(r, n, w) == [raw |-> r, content |-> Data(0, n), whole |-> w]

MCStories ==
  LET first == Magic \o Codes(0, 0) \o Codes(1, 3) \o End
      part  == Magic \o Codes(0, 1) \o Codes(2, 4)
      full  == Magic \o Codes(0, 2) \o Codes(3, 6) IN
  { <<Stage(Plains(3), 3, TRUE), Stage(Plains(6), 6, TRUE)>>,
    <<Stage(first, 4, TRUE), Stage(first \o Magic \o Codes(4, 5) \o End, 6, TRUE)>>,
    <<Stage(first \o Plains(3), 4, TRUE)>>,
    <<Stage(part, 5, FALSE), Stage(part \o End, 5, TRUE)>>,
    <<Stage(full, 7, FALSE), Stage(full \o End, 7, TRUE)>>,
    <<Stage(Magic \o Codes(0, 1) \o Damage \o End, 2, FALSE)>>,
    <<Stage(<<>>, 0, TRUE), Stage(Magic \o End \o Magic \o Codes(0, 4) \o End, 5, TRUE)>>,
    <<Stage(<<Item("m1", <<0>>)>>, 1, TRUE)>> }
MCTargets == {-1, 0, 4, 5}
=============================================================================
