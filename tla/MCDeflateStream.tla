-------------------------- MODULE MCDeflateStream --------------------------
(* Instances of DeflateStream for TLC: a gzip header with all its optional  *)
(* fields, and one whose name alone overflows pending_buf.                 *)
EXTENDS DeflateStream

MCHeads == { [set |-> TRUE, extra |-> 8, name |-> 3, comment |-> 4, hcrc |-> 2],
             [set |-> TRUE, extra |-> 0, name |-> 9, comment |-> 0, hcrc |-> 0] }
=============================================================================
