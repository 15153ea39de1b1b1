-------------------------- MODULE MCClipboardSync --------------------------
(* Values for the constants of ClipboardSync.                               *)
EXTENDS ClipboardSync, TLC

CONSTANTS t1, t2, i1

MCEmpty == {NoContent}

(* How often the host's and the joiner's user copies something.             *)
MCOneWay == Host :> 2 @@ Joiner :> 0
MCEach1 == Host :> 1 @@ Joiner :> 1
MCTwoAndOne == Host :> 2 @@ Joiner :> 1

=============================================================================
