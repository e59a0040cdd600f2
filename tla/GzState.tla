------------------------------ MODULE GzState ------------------------------
(***************************************************************************)
(* gz_state: what gzFile keeps for reading and for writing alike, and the  *)
(* calls of gzlib.c that do not depend on the direction.  GzRead and       *)
(* GzWrite extend it; gzopen decides once which of the two applies.        *)
(*                                                                         *)
(* A call runs in steps: pc says where it is, "idle" that the caller holds *)
(* control.  The buffer sizes are scaled: MINSIZE stands for the 8 bytes   *)
(* gzbuffer insists on.                                                    *)
(***************************************************************************)
EXTENDS Integers, Sequences

CONSTANTS
  MINSIZE,           \* the smallest buffer gzbuffer accepts
  GZBUFSIZE_MAX,     \* the largest
  Wants,             \* buffer sizes the caller asks for
  Targets            \* positions the caller seeks to

ASSUME GzAssumption ==
  /\ MINSIZE \in Nat /\ MINSIZE >= 2 /\ GZBUFSIZE_MAX \in Nat /\ GZBUFSIZE_MAX >= MINSIZE
  /\ Wants \subseteq Nat /\ Targets \subseteq Int

VARIABLES
  mode,              \* "read", "write" or "closed"
  size, want,        \* buffer size, 0 before it is allocated; size to allocate
  direct,            \* reading: 1 not known to be gzip, -1 gzip only, 0 gzip
                     \* writing: 1 transparent, 0 gzip
  pos,               \* x.pos
  skip,              \* seek still to be carried out
  err,               \* "ok", "buf" or "fatal"
  pc                 \* place in the running call

gzVars == <<mode, size, want, direct, pos, skip, err, pc>>

Lesser(a, b) == IF a < b THEN a ELSE b

(* gzopen: the direction, and what "T" and "G" ask for.                    *)
Open(m) ==
  /\ mode = m
  /\ direct \in (IF m = "read" THEN {1, -1} ELSE {0, 1})
  /\ size = 0 /\ want = MINSIZE /\ pos = 0 /\ skip = 0 /\ err = "ok" /\ pc = "idle"

(* gzbuffer: only before the buffers are allocated.                        *)
Buffer ==
  /\ pc = "idle" /\ mode # "closed" /\ size = 0
  /\ \E n \in Wants :
       IF n > GZBUFSIZE_MAX
       THEN err' = "fatal" /\ UNCHANGED want
       ELSE want' = (IF n < MINSIZE THEN MINSIZE ELSE n) /\ UNCHANGED err
  /\ UNCHANGED <<mode, size, direct, pos, skip, pc>>

(* gz_buffer_alloc: the buffers exist exactly when size is not 0.          *)
Alloc(ok) == IF ok THEN size' = want /\ UNCHANGED err ELSE err' = "fatal" /\ UNCHANGED size

GzTypeOK ==
  /\ mode \in {"read", "write", "closed"}
  /\ size \in {0, want} /\ want \in MINSIZE..GZBUFSIZE_MAX
  /\ direct \in {-1, 0, 1} /\ pos \in Nat /\ skip \in Nat
  /\ err \in {"ok", "buf", "fatal"}
=============================================================================
