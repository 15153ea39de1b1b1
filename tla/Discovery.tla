----------------------------- MODULE Discovery ------------------------------
(***************************************************************************)
(* How the two programs of a connection meet: the host that listens and    *)
(* announces itself (HybridBroadcaster, BeaconBroadcaster), the client's   *)
(* search (HybridListener, BeaconListener) or the address it was given     *)
(* (src/crates/yoop-core/src/discovery/).                                  *)
(***************************************************************************)
EXTENDS Connection

VARIABLES
  registered,   \* the share is registered with the mDNS daemon of the host
  via           \* how the client comes to an address

discoveryVars == <<registered, via>>

-----------------------------------------------------------------------------
(* The ways a client may be started.  "direct" is an address the user gave, *)
(* "stored" one of the trust store, which may have none; "fallback" is a    *)
(* search, and then stored addresses.                                       *)

ClipCodeWays == {"direct", "search"}
ClipFallbackWays == {"direct", "fallback"}
ClipTrustedWays == {"stored", "none"}
SyncCodeWays == {"direct", "search"}
SyncFallbackWays == {"direct", "fallback"}
SyncTrustedWays == {"stored", "none"}
DirCodeWays == {"direct", "search"}
DirTrustedWays == {"stored", "none"}
SendWays == {"stored", "none"}

Ways(client) ==
  CASE client = "clip_code" -> ClipCodeWays \cup ClipFallbackWays
    [] client = "clip_trusted" -> ClipTrustedWays
    [] client = "csync_code" -> SyncCodeWays \cup SyncFallbackWays
    [] client = "csync_trusted" -> SyncTrustedWays
    [] client = "dsync_code" -> DirCodeWays
    [] client = "dsync_trusted" -> DirTrustedWays
    [] client = "trusted_send" -> SendWays

DiscoveryInit ==
  /\ registered = FALSE
  /\ via \in Ways(kind.client)
  /\ at = [host |-> "idle", client |-> "idle"]

Moves(p, next) == Writes(p, <<>>, next) /\ UNCHANGED via
Quiet == UNCHANGED discoveryVars

-----------------------------------------------------------------------------
(* The host.  It listens before it announces itself, so whoever hears of it *)
(* can reach it.                                                            *)

(* MdnsBroadcaster::new and register may fail; broadcasts go on without.    *)
(* Whether it is registered matters to a search only.                       *)
Searches == via \in {"search", "fallback"}
RegisterService == registered' \in IF Searches THEN BOOLEAN ELSE {FALSE}
NoService == UNCHANGED registered

ClipShareListens ==
  kind.host = "clip_share" /\ Moves("host", "listening") /\ RegisterService
ClipSyncListens ==
  kind.host = "clip_sync" /\ Moves("host", "listening") /\ RegisterService
DirSyncListens ==
  kind.host = "dir_sync" /\ Moves("host", "listening") /\ RegisterService
DeviceListens ==
  kind.host = "trusted_receive" /\ Moves("host", "listening") /\ NoService

HostListens ==
  /\ at.host = "idle"
  /\ ClipShareListens \/ ClipSyncListens \/ DirSyncListens \/ DeviceListens

(* The port is taken, the clipboard is empty, the directory cannot be read. *)
CannotListen ==
  at.host = "idle" /\ Fails("host") /\ Quiet

(* Broadcasts go on until stop(), which the sync hosts call as soon as a    *)
(* connection is there and the share at its end, or until the broadcaster   *)
(* is dropped.                                                              *)
PacketsSent ==
  /\ kind.host # "trusted_receive"
  /\ at.host = "listening" \/ (kind.host = "clip_share" /\ Connected("host"))
BeaconsSent ==
  /\ kind.host = "trusted_receive"
  /\ at.host = "listening" \/ Connected("host")

(* unregister() and the drop ask the daemon and wait half a second; a       *)
(* process that is killed does not ask.  Only a search notices.             *)
ServiceWithdrawn ==
  /\ registered /\ ~PacketsSent /\ at.client \in Before
  /\ registered' = FALSE
  /\ UNCHANGED <<via, connection>>

-----------------------------------------------------------------------------
(* The client.                                                              *)

\* set_direct_address, or the address parameter of a connect function.
UseAddress ==
  /\ at.client = "idle" /\ kind.client # "trusted_send"
  /\ via \in {"direct", "stored"}
  /\ Moves("client", "found") /\ UNCHANGED registered

\* A connect_trusted without an address.
NoAddress ==
  /\ at.client = "idle" /\ kind.client # "trusted_send"
  /\ via = "none"
  /\ Fails("client") /\ Quiet

StartSearch ==
  /\ at.client = "idle"
  /\ Searches \/ (via = "none" /\ kind.client = "trusted_send")
  /\ Moves("client", "searching") /\ UNCHANGED registered
CannotSearch ==
  /\ at.client = "idle"
  /\ Searches
  /\ Fails("client") /\ Quiet

(* Listener::find and MdnsListener::find take the first share with their    *)
(* code, find_device the first beacon with its id.  What is heard names the *)
(* port, the source of the packet the host.                                 *)
PacketMatches == creds.code
ServiceMatches == creds.code
BeaconMatches == creds.expected
CodeSearch == at.client = "searching" /\ kind.client \in CodeClients
DeviceSearch == at.client = "searching" /\ kind.client = "trusted_send"
Met == Moves("client", "found") /\ UNCHANGED registered

HearPacket == CodeSearch /\ PacketsSent /\ PacketMatches /\ Met
ResolveService == CodeSearch /\ registered /\ ServiceMatches /\ Met
HearBeacon == DeviceSearch /\ BeaconsSent /\ BeaconMatches /\ Met

(* find: the time is up, or the first of the two searches to end has failed.*)
SearchFails ==
  /\ CodeSearch /\ via # "fallback"
  /\ Fails("client") /\ Quiet
\* find_with_fallback goes on with the stored addresses.
FallsBack ==
  /\ CodeSearch /\ via = "fallback"
  /\ Moves("client", "probing") /\ UNCHANGED registered
\* find_device of `yoop send` searches for half a minute, five seconds at a time.
DeviceNotFound ==
  /\ DeviceSearch
  /\ Ends("client", "no_device", <<>>) /\ Quiet

(* try_direct_probe, and find_device of `yoop send`, open a connection to a *)
(* stored address to see whether someone is there, and drop it.  The host   *)
(* takes it for the one it waits for, and its TLS handshake fails.          *)
Probing ==
  \/ at.client = "probing"
  \/ at.client = "idle" /\ via = "stored" /\ kind.client = "trusted_send"
ProbeReaches ==
  /\ Probing /\ at.host = "listening" /\ Quiet
  /\ at' = [host |-> "over", client |-> "found"]
  /\ outcome' = [outcome EXCEPT !.host = "failed"]
  /\ UNCHANGED <<kind, creds, inbox>>
\* Only wait_for_sender can be called once more on the same session.
ProbeReachesAgain ==
  /\ Probing /\ at.host = "listening" /\ kind.host = "trusted_receive" /\ Quiet
  /\ Writes("client", <<>>, "found")
ProbeFails ==
  /\ Probing /\ at.host # "listening" /\ Quiet
  /\ IF kind.client = "trusted_send" THEN Writes("client", <<>>, "searching")
     ELSE Fails("client")

ConnectFails ==
  /\ at.client = "found" /\ at.host # "listening"
  /\ Fails("client") /\ Quiet

DiscoveryNext ==
  \/ HostListens \/ CannotListen \/ ServiceWithdrawn
  \/ UseAddress \/ NoAddress \/ StartSearch \/ CannotSearch
  \/ HearPacket \/ ResolveService \/ HearBeacon
  \/ SearchFails \/ FallsBack \/ DeviceNotFound
  \/ ProbeReaches \/ ProbeReachesAgain \/ ProbeFails \/ ConnectFails
=============================================================================
