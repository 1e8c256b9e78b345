---------------------------- MODULE IncrementalMac ----------------------------
(***************************************************************************)
(* Attachments that are authenticated while they are read: Incremental and *)
(* Validating of libsignal_protocol, IncrementalMacOutputStream, which     *)
(* makes the digests of what is written, and IncrementalMacInputStream,    *)
(* which hands out no byte before the chunk it is in is validated.         *)
(*                                                                         *)
(* The MAC of a text is the text: two MACs are equal only for equal texts. *)
(* What is read is another text than what was written, or the same.        *)
(***************************************************************************)
EXTENDS Integers, Sequences, SequencesExt

CONSTANTS Bytes,     \* byte values
          MaxLen,    \* bound: length of what is written, and of what is read
          MaxChunk   \* bound: chunk size

ASSUME MacAssumption == MaxLen \in Nat /\ MaxChunk \in Nat \ {0}

VARIABLES
  chunkSize,
  written,   \* what the writer has written
  writer,    \* its Incremental: [text, unused]
  digests,   \* its digestStream
  received,  \* what there is to be read
  reader,    \* Incremental of the reader's Validating
  expected,  \* the MACs it still expects
  buffer,    \* currentChunk: what was read, or what is left to hand out
  state,     \* "write"; then ReadState, "eof" or "failed"
  atEnd,     \* the reader's eof
  released   \* history: the bytes handed out

macVars == <<chunkSize, written, writer, digests, received, reader, expected,
             buffer, state, atEnd, released>>

Texts == BoundedSeq(Bytes, MaxLen)
Fresh(size) == [text |-> <<>>, unused |-> size]

-----------------------------------------------------------------------------
(* incremental_mac.rs *)

\* Incremental.update: fills the chunk that is begun, then one after another
\* (update_chunk).  Each full chunk gives a MAC; the texts they authenticate.
Update(inc, bytes) ==
  LET over == Len(bytes) - inc.unused  \* bytes for the chunks after the begun one
      full == IF over < 0 THEN 0 ELSE 1 + over \div chunkSize
  IN [inc |-> [text |-> inc.text \o bytes,
               unused |-> IF over < 0 THEN -over ELSE chunkSize - (over % chunkSize)],
      macs |-> [i \in 1..full |->
                  inc.text \o SubSeq(bytes, 1, inc.unused + (i - 1) * chunkSize)]]

\* Mutant: the MACs are popped from the wrong end.
MatchLast(macs, list) ==
  LET n == IF list # <<>> /\ macs # <<>> /\ Last(list) = Head(macs) THEN 1 ELSE 0
  IN [ok |-> n = Len(macs), expected |-> SubSeq(list, 1, Len(list) - n)]

\* Validating.update: each MAC is the next one expected, or the update fails.
Match(macs, list) ==
  LET good == {i \in 0..Len(macs) : i <= Len(list) /\ SubSeq(macs, 1, i) = SubSeq(list, 1, i)}
      n == Max(good)
  IN [ok |-> n = Len(macs), expected |-> SubSeq(list, n + 1, Len(list))]

-----------------------------------------------------------------------------
(* IncrementalMacOutputStream *)

Write(bytes) ==
  LET result == Update(writer, bytes)
  IN /\ state = "write" /\ Len(written) + Len(bytes) <= MaxLen
     /\ written' = written \o bytes
     /\ writer' = result.inc
     /\ digests' = digests \o result.macs
     /\ UNCHANGED <<chunkSize, received, reader, expected, buffer, state, atEnd, released>>

\* close(), and an input stream is opened on some text with these digests.
CloseAndOpen(text) ==
  /\ state = "write"
  /\ digests' = Append(digests, writer.text)
  /\ expected' = digests'
  /\ received' = text
  /\ state' = "READ_FROM_INPUT"
  /\ UNCHANGED <<chunkSize, written, writer, reader, buffer, atEnd, released>>

-----------------------------------------------------------------------------
(* IncrementalMacInputStream.  What was received is received, less reader.text *)
(* and buffer while it is read.                                                *)

Rest == SubSeq(received, Len(reader.text) + Len(buffer) + 1, Len(received))

\* Mutant: at the end the MAC of the whole is not compared.
FinalizeNever(inc, list) == TRUE

\* Validating.finalize: the MAC of the whole is the only one left.
Finalize(inc, list) == list = <<inc.text>>

\* validateChunk, and the bytes may be handed out.
ValidateChunk(chunk, end) ==
  LET result == Update(reader, chunk)
      match == Match(result.macs, expected)
      ok == match.ok /\ (end => Finalize(result.inc, match.expected))
  IN /\ reader' = result.inc
     /\ expected' = match.expected
     /\ buffer' = chunk
     /\ state' = IF ok THEN "RELEASE_SAFE_BYTES" ELSE "failed"

\* Mutant: what was read of a chunk is handed out before the chunk is complete.
ReadFromInputEager(n) ==
  /\ state = "READ_FROM_INPUT" /\ Rest # <<>>
  /\ n \in 1..chunkSize - Len(buffer) /\ n <= Len(Rest)
  /\ ValidateChunk(buffer \o SubSeq(Rest, 1, n), FALSE)
  /\ UNCHANGED <<chunkSize, written, writer, digests, received, atEnd, released>>

\* readFromInput with n bytes from the channel.
ReadFromInput(n) ==
  /\ state = "READ_FROM_INPUT" /\ Rest # <<>>
  /\ n \in 1..chunkSize - Len(buffer) /\ n <= Len(Rest)
  /\ LET chunk == buffer \o SubSeq(Rest, 1, n)
     IN IF Len(chunk) = chunkSize THEN ValidateChunk(chunk, FALSE)
        ELSE buffer' = chunk /\ UNCHANGED <<reader, expected, state>>
  /\ UNCHANGED <<chunkSize, written, writer, digests, received, atEnd, released>>

\* readFromInput at the end of the channel: an input without any byte ends at
\* once, any other one with its last chunk, which may be empty.
ReadEnd ==
  /\ state = "READ_FROM_INPUT" /\ Rest = <<>>
  /\ atEnd' = TRUE
  /\ IF received = <<>> THEN state' = "eof" /\ UNCHANGED <<reader, expected, buffer>>
     ELSE ValidateChunk(buffer, TRUE)
  /\ UNCHANGED <<chunkSize, written, writer, digests, received, released>>

\* releaseSafeBytes, with a caller that takes at least one byte if there is one.
ReleaseSafeBytes(n) ==
  /\ state = "RELEASE_SAFE_BYTES"
  /\ n <= Len(buffer) /\ (n = 0 => buffer = <<>>)
  /\ released' = released \o SubSeq(buffer, 1, n)
  /\ buffer' = SubSeq(buffer, n + 1, Len(buffer))
  /\ state' = IF buffer # <<>> THEN state ELSE IF atEnd THEN "eof" ELSE "READ_FROM_INPUT"
  /\ UNCHANGED <<chunkSize, written, writer, digests, received, reader, expected, atEnd>>

MacInit ==
  /\ chunkSize \in 1..MaxChunk
  /\ written = <<>> /\ writer = Fresh(chunkSize) /\ digests = <<>>
  /\ received = <<>> /\ reader = Fresh(chunkSize) /\ expected = <<>>
  /\ buffer = <<>> /\ state = "write" /\ atEnd = FALSE /\ released = <<>>

MacNext ==
  \/ \E bytes \in Texts : Write(bytes) \/ CloseAndOpen(bytes)
  \/ \E n \in 0..MaxLen : ReadFromInput(n) \/ ReleaseSafeBytes(n)
  \/ ReadEnd

MacSpec == MacInit /\ [][MacNext]_macVars

-----------------------------------------------------------------------------
\* No byte is handed out that was not written, in its place: not even from a
\* chunk that begins well.
ReleasedIsGenuine == IsPrefix(released, written)

\* The end of the stream is reported only after everything that was written; the
\* one exception is an input without any byte, which is not compared at all.
EndIsWhole == state = "eof" => released = written \/ received = <<>>

\* What was written is never refused, however reads and writes split it, also
\* when it ends with a full chunk or is empty.
GenuineIsAccepted == received = written => state # "failed"

=============================================================================
