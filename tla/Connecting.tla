----------------------------- MODULE Connecting -----------------------------
(***************************************************************************)
(* Any host met by any client, from the announcement to the end of what    *)
(* they do together, or to the start of a synchronising session.           *)
(***************************************************************************)
EXTENDS Discovery, ClipboardOneShot, SyncHandshakes, TrustedTransfer

connectingVars == <<connection, discoveryVars, clipVars, trustedVars>>

ConnectingInit ==
  /\ kind \in [host : Hosts, client : Clients, asks : BOOLEAN]
  /\ kind.asks => kind.client \in {"clip_code", "clip_trusted", "trusted_send"}
  /\ creds \in Credentials
  /\ inbox = [p \in Side |-> <<>>]
  /\ outcome = [p \in Side |-> "none"]
  /\ DiscoveryInit /\ ClipInit /\ TrustedInit
  \* What a pair does not look at need not vary.
  /\ Sending \/ tree = CHOOSE t \in Trees : TRUE

Starts(session) ==
  CASE session = "clip_share" -> ShareStarts
    [] session = "clip_sync" -> SyncHostStarts
    [] session = "dir_sync" -> DirHostStarts
    [] session = "trusted_receive" -> DeviceStarts
    [] session = "clip_code" -> ReceiverStarts
    [] session = "clip_trusted" -> TrustedReceiverStarts
    [] session = "csync_code" -> SyncClientStarts
    [] session = "csync_trusted" -> SyncTrustedStarts
    [] session = "dsync_code" -> DirClientStarts
    [] session = "dsync_trusted" -> DirTrustedStarts
    [] session = "trusted_send" -> SendStarts

Connect ==
  /\ at = [host |-> "listening", client |-> "found"]
  /\ at' = [p \in Side |-> Starts(kind[p]).reads]
  /\ inbox' = [p \in Side |-> Starts(kind[Peer(p)]).writes]
  /\ UNCHANGED <<kind, creds, outcome>>

Breaks == \E p \in Side : FramesLost(p) \/ Killed(p)
Refuses == \E p \in Side : Unexpected(p) \/ ReadFails(p)

\* What the sessions do once they are connected.
Serves ==
  \/ (Refuses \/ SyncNext) /\ Quiet /\ Same /\ NoTransfer
  \/ ClipNext /\ Quiet /\ NoTransfer
  \/ TrustedNext /\ Quiet /\ Same

ConnectingNext ==
  \/ DiscoveryNext /\ Same /\ NoTransfer
  \/ (Connect \/ Breaks) /\ Quiet /\ Same /\ NoTransfer
  \/ Serves

-----------------------------------------------------------------------------
(* A session reads what has come and notices that its peer is gone.  Nobody *)
(* has to answer a prompt, and a search may go on.                          *)

Reads(p) ==
  /\ at[p] \in Reading \cup {"pinging", "runs"}
  /\ Serves
  /\ at'[Peer(p)] = at[Peer(p)] /\ (at'[p] # at[p] \/ inbox'[p] # inbox[p])
ConnectingFairness == \A p \in Side : WF_connectingVars(Reads(p))

ConnectingSpec ==
  ConnectingInit /\ [][ConnectingNext]_connectingVars /\ ConnectingFairness

-----------------------------------------------------------------------------
(* Properties.                                                              *)

(* A host has handed out its content, or has entered a session, only with a *)
(* client that was given the code, or whose key is in the host's trust      *)
(* store: over all pairs of sessions and all orders of their frames.  A     *)
(* directory sync is left out: its handshake looks at neither.              *)
AdmittedMeansShown ==
  /\ Sharing /\ at.host \in {"ClipboardAck", "DataAck"} =>
       creds.code /\ kind.client \in CodeClients
  /\ ClipSync /\ at.host = "runs" =>
       \/ (creds.code /\ kind.client \in CodeClients)
       \/ creds.known
  /\ Receiving /\ at.host \in {"FileList", "asked", "Chunks"} => creds.known

(* Sessions that belong together never wait for each other for ever: both   *)
(* connected, both at a read, nothing on the way.  A code-carrying client   *)
(* that the sync host trusts, and a trusted client that it does not, are    *)
(* left out: there the host and the client disagree on whether a code is    *)
(* shown.                                                                   *)
Matched ==
  \/ Sharing /\ kind.client = "clip_code"
  \/ ClipSync /\ kind.client = (IF creds.known THEN "csync_trusted" ELSE "csync_code")
  \/ DirSync /\ kind.client = "dsync_code"
  \/ Receiving /\ Sending
Deaf(p) == at[p] \in Reading \cup {"runs"} /\ inbox[p] = <<>>
MatchedNeverStall ==
  Matched /\ Deaf("host") /\ Deaf("client") => \A p \in Side : at[p] = "runs"

(* Once either side of a trusted transfer reports success, the receiver has *)
(* taken every file with content whole, for its path and with the content   *)
(* it was listed for, unless some other file of the sender could be taken   *)
(* for it.  Then all of it has been written, but for the last write of the  *)
(* file that was sent last: it may not have ended or have failed, though    *)
(* not when the receiver reports success.                                   *)
SentMeansWritten ==
  Sending /\ Receiving /\ "ok" \in {outcome.host, outcome.client} =>
    /\ \A i \in 1..Len(files) :
         ~files[i].dir /\ tree.has[files[i].own] > 0 /\ Unambiguous(tree, files[i])
           => out[files[i].rel] = WholeFile(files[i].own)
    /\ flight # "none" => outcome.host # "ok" /\ writing.file = sending[1]

(* No session is left behind at a read: whatever frames were on their way   *)
(* and whatever it still has to send, it ends or is handed to its user once *)
(* the peer has gone.                                                       *)
EndsWithPeer ==
  <>[](\A p \in Side : ~(at[Peer(p)] \in After /\ at[p] \in Reading))

=============================================================================
