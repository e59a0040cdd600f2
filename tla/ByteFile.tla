----------------------------- MODULE ByteFile ------------------------------
(***************************************************************************)
(* What a reader of a gzip file is promised: a file of bytes with a        *)
(* position, whatever members, buffers and seeks lie behind it.  A call is *)
(* asked and, later, answered; the answer depends on what was asked.       *)
(***************************************************************************)
EXTENDS Integers, Sequences

CONSTANTS
  Newlines,          \* bytes that are newlines
  Targets            \* positions the caller seeks to

VARIABLES
  open,              \* the file is open for reading
  content,           \* the uncompressed bytes
  whole,             \* the file neither ends inside a member nor is corrupt
  at,                \* position of the next byte to read
  ahead,             \* of which a seek that is still to be carried out
  peeked,            \* the file was looked at in front of that seek
  req,               \* the call under way
  ret,               \* bytes the last call delivered
  dead               \* a call reported a fatal error

file == <<open, content, whole, dead>>
vars == <<file, at, ahead, peeked, req, ret>>

NoReq == [call |-> "none", n |-> 0]
Reads == {"read", "gets"}
Asked == [call : Reads, n : Nat \ {0}] \cup [call : {"push", "force", "direct"}, n : {0}]

Idle == open /\ ~dead /\ req = NoReq
Answered == open /\ req # NoReq /\ req' = NoReq

Init ==
  /\ open \in BOOLEAN /\ content \in Seq(Nat) /\ whole \in BOOLEAN
  /\ at = 0 /\ ahead = 0 /\ peeked = FALSE /\ req = NoReq /\ ret = <<>> /\ dead = FALSE

Ask ==
  /\ Idle /\ req' \in Asked /\ peeked' = FALSE
  /\ ahead' = (IF req'.call = "direct" THEN ahead ELSE 0)
  /\ UNCHANGED <<file, at, ret>>

(* gzread and gzgets deliver the bytes at the position: fewer than n only  *)
(* at the end of the data (of a file that is not whole: of what could be   *)
(* decoded), and gzgets stops behind a newline, only there.                *)
Deliver == \E end \in 0..Len(content), m \in 0..req.n :
  /\ Answered /\ req.call \in Reads
  /\ whole => end = Len(content)
  /\ m > 0 => at + m <= end
  /\ \/ m = req.n \/ at + m >= end
     \/ req.call = "gets" /\ m > 0 /\ content[at + m] \in Newlines
  /\ req.call = "gets" => \A i \in 1..(m - 1) : content[at + i] \notin Newlines
  /\ ret' = SubSeq(content, at + 1, at + m) /\ at' = at + m
  /\ peeked' = FALSE /\ ahead' \in Nat /\ (m > 0 => ahead' = 0)
  /\ UNCHANGED file

(* gzungetc takes the position one back, or is refused.                    *)
Unread ==
  /\ Answered /\ req.call \in {"push", "force"}
  /\ at' = at \/ (req.call = "push" /\ at > 0 /\ at' = at - 1)
  /\ ret' = <<>> /\ peeked' = FALSE /\ ahead' \in Nat /\ UNCHANGED file

(* gzdirect leaves the position alone, but may look at the file.           *)
Direct ==
  /\ Answered /\ req.call = "direct"
  /\ peeked' \in {FALSE, ahead > 0} /\ ret' = <<>> /\ UNCHANGED <<file, at, ahead>>

(* gzgetc from the buffer is asked and answered at once.                   *)
Getc ==
  /\ Idle /\ ~peeked /\ at < Len(content)
  /\ ret' = <<content[at + 1]>> /\ at' = at + 1 /\ UNCHANGED <<file, ahead, peeked, req>>

(* The exception: after gzdirect looked at a file in front of a pending    *)
(* seek, gzgetc delivers the byte the seek was to leave behind.            *)
Stray ==
  /\ Idle /\ peeked
  /\ ret' = <<content[at - ahead + 1]>> /\ at' = at + 1
  /\ peeked' \in BOOLEAN /\ UNCHANGED <<file, ahead, req>>

(* gzseek and gzrewind; a seek that fails may drop the one that is pending.*)
Seek ==
  /\ Idle /\ ret' = <<>> /\ ahead' \in 0..at'
  /\ \/ at' \in (Targets \cap Nat) \cup {0} /\ peeked' = FALSE
     \/ at' = at - ahead /\ ahead' = 0 /\ peeked' = FALSE
     \/ at' = at /\ ahead' = ahead /\ peeked' = peeked
  /\ UNCHANGED <<file, req>>

(* Another process appends to the file, which gzclearerr makes visible.    *)
Grow ==
  /\ Idle /\ Len(content') >= Len(content) /\ SubSeq(content', 1, Len(content)) = content
  /\ whole' \in BOOLEAN /\ ret' = <<>> /\ UNCHANGED <<open, dead, at, ahead, peeked, req>>

(* A fatal error delivers nothing and is the last that is heard of the     *)
(* file; gzclose is possible at any time.                                  *)
Break ==
  /\ open /\ dead' = TRUE /\ ret' = <<>> /\ req' = NoReq
  /\ at' \in Nat /\ ahead' \in Nat /\ peeked' \in BOOLEAN /\ UNCHANGED <<open, content, whole>>
Close ==
  /\ open /\ req = NoReq /\ open' = FALSE /\ ret' = <<>> /\ req' = NoReq
  /\ at' = 0 /\ ahead' = 0 /\ peeked' = FALSE /\ dead' = FALSE /\ UNCHANGED <<content, whole>>

Next == Ask \/ Deliver \/ Unread \/ Direct \/ Getc \/ Stray \/ Seek \/ Grow \/ Break \/ Close

Spec == Init /\ [][Next]_vars
=============================================================================
