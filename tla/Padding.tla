------------------------------- MODULE Padding -------------------------------
(***************************************************************************)
(* The padding of a message: MessageSender ends the content with one byte  *)
(* 0x80, other clients fill up with zeros after it, and MessageReceiver    *)
(* takes both off again.  Contents grow byte by byte to every content up   *)
(* to a bound.                                                             *)
(***************************************************************************)
EXTENDS Integers, Sequences, FiniteSetsExt

CONSTANTS MaxContent,  \* bound: bytes of a content
          MaxZeros     \* bound: zeros that fill up

VARIABLE content

Pad(bytes, zeros) == Append(bytes, 128) \o [i \in 1..zeros |-> 0]

\* Mutant: all marks are taken off with the zeros.
UnpadMarks(bytes) ==
  LET unpadded == Max({0} \cup {i \in DOMAIN bytes : bytes[i] \notin {0, 128}})
  IN SubSeq(bytes, 1, unpadded)

\* The zeros at the end are stripped, then one byte 0x80 if it is there.
Unpad(bytes) ==
  LET kept == Max({0} \cup {i \in DOMAIN bytes : bytes[i] # 0})
      marked == kept > 0 /\ bytes[kept] = 128
  IN SubSeq(bytes, 1, IF marked THEN kept - 1 ELSE kept)

PaddingInit == content = <<>>
PaddingNext == /\ Len(content) < MaxContent
               /\ \E b \in {0, 1, 128} : content' = Append(content, b)
PaddingSpec == PaddingInit /\ [][PaddingNext]_content

\* The receiver gets the content that was sent, also when the content itself ends
\* with zeros or with the mark, and however far the sender fills up.
PaddingComesOff ==
  \A zeros \in 0..MaxZeros : Unpad(Pad(content, zeros)) = content

=============================================================================
