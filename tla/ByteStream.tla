----------------------------- MODULE ByteStream -----------------------------
(***************************************************************************)
(* What either direction of a PTY session promises: an ordered stream of   *)
(* bytes.  The sending side appends; the receiving side obtains the next   *)
(* bytes, any number at a time, never out of order, never twice, never     *)
(* skipping one.  The stream may stop at any time; it has no other failure.*)
(***************************************************************************)
EXTENDS Integers, Sequences

VARIABLES
  sent,  \* bytes handed to the stream, in order
  got    \* bytes obtained at the other end

IsPrefixOf(s, t) == Len(s) <= Len(t) /\ s = SubSeq(t, 1, Len(s))

Init == sent = <<>> /\ got = <<>>

Send ==
  /\ Len(sent') > Len(sent) /\ IsPrefixOf(sent, sent')
  /\ UNCHANGED got

Obtain ==
  /\ Len(got') > Len(got)
  /\ IsPrefixOf(got, got') /\ IsPrefixOf(got', sent)
  /\ UNCHANGED sent

Next == Send \/ Obtain

Spec == Init /\ [][Next]_<<sent, got>>
=============================================================================
