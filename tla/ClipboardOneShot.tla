-------------------------- MODULE ClipboardOneShot --------------------------
(***************************************************************************)
(* ClipboardShareSession and ClipboardReceiveSession: one clipboard, copied *)
(* once (src/crates/yoop-core/src/clipboard/session.rs).                   *)
(***************************************************************************)
EXTENDS Connection

CONSTANT MaxPings   \* bound: pings of one prompt
ASSUME PingAssumption == MaxPings \in Nat

VARIABLES
  pings,    \* pings sent during the prompt
  copied    \* the receiver holds the content, or accept() has returned it

clipVars == <<pings, copied>>
ClipInit == pings = 0 /\ copied = "nothing"
Same == UNCHANGED clipVars

Sharing == kind.host = "clip_share"
Copying == kind.client \in {"clip_code", "clip_trusted"}

-----------------------------------------------------------------------------
(* The share.  It speaks first: a Hello without id and key.                 *)

ShareStarts == Opening(<<Hello("nothing")>>, "HelloAck")

ShareTakesHelloAck ==
  /\ Sharing /\ Takes("host", "HelloAck", "HelloAck")
  /\ Replies("host", <<>>, "CodeVerify") /\ Same

(* The receiver's HMAC is compared with the host's own.                     *)
Offer == <<ClipboardMeta>>
ShareChecksCode ==
  /\ Sharing /\ Takes("host", "CodeVerify", "CodeVerify") /\ Same
  /\ IF Saying("host")
     THEN Replies("host", <<CodeVerifyAck(TRUE)>> \o Offer, "ClipboardAck")
     ELSE Ends("host", "failed", <<CodeVerifyAck(FALSE)>>)

\* Mutant: the share does not wait until the content is acknowledged.
ShareTakesAnswer_ends ==
  /\ Sharing /\ Takes("host", "ClipboardAck", "ClipboardAck") /\ Same
  /\ IF Saying("host")
     THEN Ends("host", "ok", <<ClipboardData,
                               TransferComplete>>)
     ELSE Fails("host")
ShareTakesAnswer ==
  /\ Sharing /\ Takes("host", "ClipboardAck", "ClipboardAck") /\ Same
  /\ IF Saying("host")
     THEN Replies("host", <<ClipboardData>>, "DataAck")
     ELSE Fails("host")

ShareAnswersPing ==
  /\ Sharing /\ Takes("host", "ClipboardAck", "Ping") /\ Same
  /\ Replies("host", <<Frame("Pong", "nothing")>>, "ClipboardAck")

\* wait() stops the announcement and returns Ok.
ShareTakesDataAck ==
  /\ Sharing /\ Takes("host", "DataAck", "ClipboardAck") /\ Same
  /\ IF Saying("host")
     THEN Ends("host", "ok", <<TransferComplete>>)
     ELSE Fails("host")

-----------------------------------------------------------------------------
(* The receiver, with a code or to a trusted device.                        *)

ReceiverStarts == Opening(<<>>, "Hello")
TrustedReceiverStarts == Opening(<<>>, "Greeting")

ReceiverTakesHello ==
  /\ kind.client = "clip_code" /\ Takes("client", "Hello", "Hello") /\ Same
  /\ Replies("client", <<HelloAck("nothing"), CodeVerify(creds.code)>>,
             "CodeVerifyAck")

ReceiverTakesCodeAck ==
  /\ kind.client = "clip_code" /\ Takes("client", "CodeVerifyAck", "CodeVerifyAck") /\ Same
  /\ IF Saying("client") THEN Replies("client", <<>>, "ClipboardMeta") ELSE Fails("client")

(* connect_trusted: the host's id and key are compared if it sends them.    *)
TrustedTakesHello ==
  /\ kind.client = "clip_trusted" /\ Takes("client", "Greeting", "Hello") /\ Same
  /\ IF Saying("client") = "nothing" \/ creds.expected
     THEN Replies("client", <<HelloAck("client")>>, "ClipboardMeta")
     ELSE Fails("client")
TrustedTakesTrustedHello ==
  /\ kind.client = "clip_trusted" /\ Takes("client", "Greeting", "TrustedHello") /\ Same
  /\ IF creds.expected
     THEN Replies("client", <<TrustedHelloAck("client")>>, "ClipboardMeta")
     ELSE Fails("client")

\* connect returns; if the user is asked, start_keep_alive holds the stream.
ReceiveMetadata ==
  /\ Copying /\ Takes("client", "ClipboardMeta", "ClipboardMeta") /\ Same
  /\ Replies("client", <<>>, "offered")

(* keep_alive_task: whatever frame comes is the answer to a ping; without   *)
(* one in time the task ends and drops the stream it was given.             *)
SendPing ==
  /\ Copying /\ kind.asks /\ at.client = "offered" /\ pings < MaxPings
  /\ Writes("client", <<Frame("Ping", "nothing")>>, "pinging")
  /\ pings' = pings + 1 /\ UNCHANGED copied
PingAnswered ==
  /\ at.client = "pinging" /\ inbox.client # <<>>
  /\ Replies("client", <<>>, "offered") /\ Same
PingFails ==
  /\ at.client = "pinging"
  /\ at' = [at EXCEPT !.client = "dropped"]
  /\ inbox' = [inbox EXCEPT !.client = <<>>]
  /\ UNCHANGED <<kind, creds, outcome>> /\ Same

(* The user's answer.  accept() first waits for the keep-alive task, which  *)
(* sees the request only between two pings.                                 *)
Accept ==
  /\ Copying /\ at.client = "offered" /\ Same
  /\ Writes("client", <<ClipboardAck(TRUE)>>, "ClipboardData")
AcceptAfterDrop ==
  Copying /\ at.client = "dropped" /\ Fails("client") /\ Same
Decline ==
  /\ Copying /\ kind.asks /\ at.client \in {"offered", "dropped"} /\ Same
  /\ Ends("client", "declined",
          IF at.client = "offered" THEN <<ClipboardAck(FALSE)>> ELSE <<>>)

(* The content is acknowledged before the last frame comes and before it is *)
(* in the clipboard.  Its hash is compared with the one of the metadata.    *)
ReceiverTakesData ==
  /\ Copying /\ Takes("client", "ClipboardData", "ClipboardData")
  /\ IF Saying("client") = "content"
     THEN /\ Replies("client", <<ClipboardAck(TRUE)>>, "TransferComplete")
          /\ copied' = "held" /\ UNCHANGED pings
     ELSE Ends("client", "failed", <<ClipboardAck(FALSE)>>) /\ Same

(* accept_to_clipboard may still fail: the clipboard may not take it.       *)
ReceiverCompletes ==
  /\ Copying /\ Takes("client", "TransferComplete", "TransferComplete")
  /\ copied' = "returned" /\ UNCHANGED pings
  /\ \E result \in {"ok", "failed"} : Ends("client", result, <<>>)

ClipNext ==
  \/ ShareTakesHelloAck \/ ShareChecksCode \/ ShareTakesAnswer
  \/ ShareAnswersPing \/ ShareTakesDataAck
  \/ ReceiverTakesHello \/ ReceiverTakesCodeAck
  \/ TrustedTakesHello \/ TrustedTakesTrustedHello
  \/ ReceiveMetadata \/ SendPing \/ PingAnswered \/ PingFails
  \/ Accept \/ AcceptAfterDrop \/ Decline
  \/ ReceiverTakesData \/ ReceiverCompletes
=============================================================================
