------------------------------ MODULE Delivery ------------------------------
(***************************************************************************)
(* What a file transfer promises, without saying how: once the receiver    *)
(* has agreed, the entries of the list are copied one after the other,     *)
(* each chunk by chunk in order, each complete before the next begins;     *)
(* either side may give up at any moment; a side reports success only when *)
(* every entry is the copy of what the sender read.                        *)
(***************************************************************************)
EXTENDS Naturals, Sequences

CONSTANTS N, Dirs, Chunk

VARIABLES
  src,       \* what the sender read for each entry
  dst,       \* what the receiver has for each entry
  cursor,    \* the entry being copied, 0 before the first
  agreed,    \* the receiver has agreed to the transfer
  sOutcome,  \* running, success or failure, as the sender sees it
  rOutcome   \* the same for the receiver

vars == <<src, dst, cursor, agreed, sOutcome, rOutcome>>

Index == 1..N

Copy(i) ==
  IF i \in Dirs THEN [kind |-> "dir", data |-> <<>>]
  ELSE [kind |-> "file", data |-> src[i]]

Copied(i) == dst[i] = Copy(i)

Init ==
  /\ src = [i \in Index |-> <<>>]
  /\ dst \in [Index -> [kind : {"absent", "dir", "file"}, data : Seq(Chunk)]]
  /\ cursor = 0
  /\ agreed = FALSE
  /\ sOutcome = "running"
  /\ rOutcome = "running"

Agree ==
  /\ ~agreed
  /\ agreed' = TRUE
  /\ UNCHANGED <<src, dst, cursor, sOutcome, rOutcome>>

(* The sender reads the entry after the ones that have been copied.         *)
ReadNext ==
  /\ sOutcome = "running"
  /\ cursor + 1 \in Index \ Dirs
  /\ cursor > 0 => Copied(cursor)
  /\ src'[cursor + 1] \in Seq(Chunk)
  /\ src' = [src EXCEPT ![cursor + 1] = src'[cursor + 1]]
  /\ UNCHANGED <<dst, cursor, agreed, sOutcome, rOutcome>>

(* The receiver creates the next entry, empty.                              *)
Create ==
  /\ agreed
  /\ rOutcome = "running"
  /\ cursor < N
  /\ cursor > 0 => Copied(cursor)
  /\ cursor' = cursor + 1
  /\ dst' = [dst EXCEPT ![cursor + 1] =
               IF cursor + 1 \in Dirs THEN [kind |-> "dir", data |-> <<>>]
               ELSE [kind |-> "file", data |-> <<>>]]
  /\ UNCHANGED <<src, agreed, sOutcome, rOutcome>>

(* The receiver appends the next chunk of the entry.                        *)
Extend ==
  /\ agreed
  /\ rOutcome = "running"
  /\ cursor \in Index
  /\ LET have == dst[cursor].data IN
       /\ Len(have) < Len(src[cursor])
       /\ dst' = [dst EXCEPT ![cursor].data =
                    Append(have, src[cursor][Len(have) + 1])]
  /\ UNCHANGED <<src, cursor, agreed, sOutcome, rOutcome>>

SenderEnds ==
  /\ sOutcome = "running"
  /\ \/ sOutcome' = "failure"
     \/ sOutcome' = "success" /\ agreed /\ \A i \in Index : Copied(i)
  /\ UNCHANGED <<src, dst, cursor, agreed, rOutcome>>

ReceiverEnds ==
  /\ rOutcome = "running"
  /\ \/ rOutcome' = "failure"
     \/ rOutcome' = "success" /\ agreed /\ \A i \in Index : Copied(i)
  /\ UNCHANGED <<src, dst, cursor, agreed, sOutcome>>

Next == Agree \/ ReadNext \/ Create \/ Extend \/ SenderEnds \/ ReceiverEnds

Spec == Init /\ [][Next]_vars

=============================================================================
