--------------------------- MODULE SyncHandshakes ---------------------------
(***************************************************************************)
(* How the two synchronising sessions begin: live clipboard sync           *)
(* (src/crates/yoop-core/src/clipboard/session.rs) and directory sync      *)
(* (src/crates/yoop-core/src/sync/session.rs), each joined with a code or  *)
(* as a trusted device.  A side that "runs" has been handed to its caller; *)
(* what it exchanges from here is modelled by ClipboardSync and            *)
(* SyncSession.                                                            *)
(***************************************************************************)
EXTENDS Connection

ClipSync == kind.host = "clip_sync"
DirSync == kind.host = "dir_sync"

Runs(p, frames) == Replies(p, frames, "runs")

-----------------------------------------------------------------------------
(* The host of a clipboard sync speaks first, with its id and key and a     *)
(* nonce it signs.  A peer that signs the nonce, or just names an id and    *)
(* key, is trusted if the host's trust store has them (verify_key); every   *)
(* other peer must show the code.                                           *)

SyncHostStarts == Opening(<<TrustedHello("host")>>, "Answer")

\* Mutant: an unknown peer that signs its answer is admitted as well.
Trusts_signed(type, says) ==
  (creds.known /\ says = "client") \/ type = "TrustedHelloAck"
Trusts(type, says) == creds.known /\ says = "client"

SyncHostTakesAnswer(type) ==
  /\ ClipSync /\ Takes("host", "Answer", type)
  /\ IF Trusts(type, Saying("host"))
     THEN Runs("host", <<>>)
     ELSE Replies("host", <<>>, "CodeVerify")

SyncHostChecksCode ==
  /\ ClipSync /\ Takes("host", "CodeVerify", "CodeVerify")
  /\ IF Saying("host")
     THEN Runs("host", <<CodeVerifyAck(TRUE)>>)
     ELSE Ends("host", "failed", <<CodeVerifyAck(FALSE)>>)

SyncClientStarts == Opening(<<>>, "Greeting")
SyncTrustedStarts == Opening(<<>>, "Greeting")

(* connect_with_options names the client's own id and key to a host that    *)
(* introduced itself, and shows the code whatever the host makes of them.   *)
SyncClientTakesHello(type) ==
  /\ kind.client = "csync_code" /\ Takes("client", "Greeting", type)
  /\ Replies("client",
             <<HelloAck(IF type = "TrustedHello" THEN "client" ELSE "nothing"),
               CodeVerify(creds.code)>>, "CodeVerifyAck")
SyncClientTakesCodeAck ==
  /\ kind.client = "csync_code" /\ Takes("client", "CodeVerifyAck", "CodeVerifyAck")
  /\ IF Saying("client") THEN Runs("client", <<>>) ELSE Fails("client")

(* connect_trusted (do_trusted_handshake_client) is established as soon as  *)
(* it has answered.                                                         *)
SyncTrustedTakesTrustedHello ==
  /\ kind.client = "csync_trusted" /\ Takes("client", "Greeting", "TrustedHello")
  /\ IF creds.expected
     THEN Runs("client", <<TrustedHelloAck("client")>>)
     ELSE Fails("client")
SyncTrustedTakesHello ==
  /\ kind.client = "csync_trusted" /\ Takes("client", "Greeting", "Hello")
  /\ IF Saying("client") = "nothing" \/ creds.expected
     THEN Runs("client", <<HelloAck("client")>>)
     ELSE Fails("client")

-----------------------------------------------------------------------------
(* Directory sync.  The host reads first, and neither side uses the session *)
(* key it derived from the code.                                            *)

Index == <<SyncIndex>>
DirHostStarts == Opening(<<>>, "Hello")
DirClientStarts == Opening(<<Hello("nothing")>>, "HelloAck")
DirTrustedStarts == Opening(<<>>, "Greeting")

DirHostTakesHello ==
  /\ DirSync /\ Takes("host", "Hello", "Hello")
  /\ Replies("host", <<HelloAck("nothing"), SyncInit>>,
             "SyncInitAck")
DirHostTakesInitAck ==
  DirSync /\ Takes("host", "SyncInitAck", "SyncInitAck") /\ Replies("host", Index, "SyncIndex")

DirClientTakesHelloAck ==
  /\ kind.client = "dsync_code" /\ Takes("client", "HelloAck", "HelloAck")
  /\ Replies("client", <<>>, "SyncInit")
\* Mutant: the client sends its index only after it has read the host's.
DirClientTakesInit_later ==
  /\ kind.client \in {"dsync_code", "dsync_trusted"} /\ Takes("client", "SyncInit", "SyncInit")
  /\ Replies("client", <<>>, "SyncIndex")
DirClientTakesInit ==
  /\ kind.client \in {"dsync_code", "dsync_trusted"} /\ Takes("client", "SyncInit", "SyncInit")
  /\ Replies("client", <<SyncInitAck>> \o Index, "SyncIndex")

\* handshake_trusted_client waits for the greeting no directory host sends.
DirTrustedTakesTrustedHello ==
  /\ kind.client = "dsync_trusted" /\ Takes("client", "Greeting", "TrustedHello")
  /\ IF creds.expected
     THEN Replies("client", <<TrustedHelloAck("client")>>, "SyncInit")
     ELSE Fails("client")
DirTrustedTakesHello ==
  /\ kind.client = "dsync_trusted" /\ Takes("client", "Greeting", "Hello")
  /\ IF Saying("client") = "nothing" \/ creds.expected
     THEN Replies("client", <<HelloAck("client")>>, "SyncInit")
     ELSE Fails("client")

\* exchange_index, on either side.
ExchangeIndex(p) ==
  \/ /\ Takes(p, "SyncIndex", "SyncIndex")
     /\ Replies(p, <<SyncIndexAck>>, "SyncIndexAck")
  \/ Takes(p, "SyncIndexAck", "SyncIndexAck") /\ Runs(p, <<>>)

-----------------------------------------------------------------------------

\* A running session ignores what is not its own, and ends with its peer.
SyncIgnores(p) ==
  /\ at[p] = "runs" /\ inbox[p] # <<>>
  /\ Replies(p, <<>>, "runs")
SyncEnds(p) ==
  /\ at[p] = "runs" /\ at[Peer(p)] \in After /\ inbox[p] = <<>>
  /\ Ends(p, "ok", <<>>)

SyncNext ==
  \/ \E type \in Answer : SyncHostTakesAnswer(type)
  \/ SyncHostChecksCode
  \/ \E type \in Greeting : SyncClientTakesHello(type)
  \/ SyncClientTakesCodeAck \/ SyncTrustedTakesTrustedHello \/ SyncTrustedTakesHello
  \/ DirHostTakesHello \/ DirHostTakesInitAck
  \/ DirClientTakesHelloAck \/ DirClientTakesInit
  \/ DirTrustedTakesTrustedHello \/ DirTrustedTakesHello
  \/ \E p \in Side : ExchangeIndex(p) \/ SyncIgnores(p) \/ SyncEnds(p)
=============================================================================
