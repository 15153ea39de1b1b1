-------------------------- MODULE ConnectionProofs --------------------------
(***************************************************************************)
(* What is proved about a connection, in every behaviour of Yoop.          *)
(***************************************************************************)
EXTENDS Yoop, SequenceTheorems, TLAPS

(* Who is admitted.  What a clipboard host concludes from a CodeVerify says *)
(* something about the client only if nobody else's frame can be taken for  *)
(* one: so the channels are followed, for the hosts that look at a code.    *)

ClipHost == Sharing \/ ClipSync
Says == {"nothing", "host", "client", "content"} \cup BOOLEAN
Types ==
  {"Hello", "HelloAck", "TrustedHello", "TrustedHelloAck", "CodeVerify", "CodeVerifyAck",
   "ClipboardMeta", "ClipboardData", "ClipboardAck", "TransferComplete", "Ping", "Pong",
   "SyncInit", "SyncInitAck", "SyncIndex", "SyncIndexAck"}
Frames == [type : Types, says : Says]
ToHost == {f \in Frames :
             f.type = "CodeVerify" => f.says = creds.code /\ kind.client \in CodeClients}
\* Such a host does not answer like a device that waits for files.
ToClient == {f \in Frames : f.type # "TrustedHelloAck"}

ClientPlace(place) == ClipHost => place \notin {"FileListAck", "ChunkAck"}
HostPlace(place) ==
  /\ Sharing /\ place \in {"ClipboardAck", "DataAck"} =>
       creds.code /\ kind.client \in CodeClients
  /\ ClipSync /\ place = "runs" =>
       \/ (creds.code /\ kind.client \in CodeClients)
       \/ creds.known
  /\ Receiving /\ place \in {"FileList", "asked", "Chunks"} => creds.known
  /\ place \in {"SyncIndex", "SyncIndexAck"} => DirSync

AdmitInv ==
  /\ kind \in [host : Hosts, client : Clients, asks : BOOLEAN]
  /\ creds \in Credentials
  /\ at = [p \in Side |-> at[p]] /\ inbox = [p \in Side |-> inbox[p]]
  /\ ClipHost => inbox["host"] \in Seq(ToHost) /\ inbox["client"] \in Seq(ToClient)
  /\ ClientPlace(at["client"]) /\ HostPlace(at["host"])

\* Frames make a sequence of frames; reading and writing leave one.
LEMMA FrameLines ==
  ASSUME NEW S
  PROVE  /\ <<>> \in Seq(S)
         /\ \A a \in S : <<a>> \in Seq(S)
         /\ \A a, b \in S : <<a, b>> \in Seq(S)
         /\ \A q \in Seq(S) : q # <<>> => Head(q) \in S /\ Tail(q) \in Seq(S)
         /\ \A q, r \in Seq(S) : q \o r \in Seq(S)
  OBVIOUS

\* A step of the client that writes only what such a host may be written.
LEMMA ClientStep ==
  ASSUME AdmitInv, UNCHANGED <<kind, creds>>, NEW next, NEW frames, NEW own,
         at' = [at EXCEPT !["client"] = next],
         inbox' = Delivered("client", frames, own),
         ClipHost => frames \in Seq(ToHost) /\ own \in Seq(ToClient),
         ClientPlace(next)
  PROVE  AdmitInv'
<1>1. /\ at'["client"] = next /\ at'["host"] = at["host"]
      /\ at' = [p \in Side |-> at'[p]] /\ inbox' = [p \in Side |-> inbox'[p]]
  BY DEF AdmitInv, Side, Delivered
<1>2. inbox'["client"] = own
      /\ inbox'["host"] \in {inbox["host"], inbox["host"] \o frames}
  BY DEF AdmitInv, Side, Delivered, Peer
<1>3. ToHost' = ToHost /\ ToClient' = ToClient /\ (ClipHost <=> ClipHost')
  BY DEF ToHost, ToClient, ClipHost, Sharing, ClipSync
<1>4. ClipHost => inbox'["host"] \in Seq(ToHost)
  <2>1. ClipHost => inbox["host"] \in Seq(ToHost)
    BY DEF AdmitInv
  <2>2. ASSUME NEW S, NEW q \in Seq(S), NEW r \in Seq(S)
        PROVE  q \o r \in Seq(S)
    OBVIOUS
  <2> QED
    BY <1>2, <2>1, <2>2
<1>5. ClientPlace(at["client"])' /\ HostPlace(at["host"])'
  BY <1>1, <1>3 DEF AdmitInv, ClientPlace, HostPlace, Sharing, ClipSync, Receiving, DirSync
<1> QED
  BY <1>1, <1>2, <1>3, <1>4, <1>5 DEF AdmitInv

\* A step of the host.
LEMMA HostStep ==
  ASSUME AdmitInv, UNCHANGED <<kind, creds>>, NEW next, NEW frames, NEW own,
         at' = [at EXCEPT !["host"] = next],
         inbox' = Delivered("host", frames, own),
         ClipHost => frames \in Seq(ToClient) /\ own \in Seq(ToHost),
         HostPlace(next)
  PROVE  AdmitInv'
<1>1. /\ at'["host"] = next /\ at'["client"] = at["client"]
      /\ at' = [p \in Side |-> at'[p]] /\ inbox' = [p \in Side |-> inbox'[p]]
  BY DEF AdmitInv, Side, Delivered
<1>2. inbox'["host"] = own
      /\ inbox'["client"] \in {inbox["client"], inbox["client"] \o frames}
  BY DEF AdmitInv, Side, Delivered, Peer
<1>3. ToHost' = ToHost /\ ToClient' = ToClient /\ (ClipHost <=> ClipHost')
  BY DEF ToHost, ToClient, ClipHost, Sharing, ClipSync
<1>4. ClipHost => inbox'["client"] \in Seq(ToClient)
  <2>1. ClipHost => inbox["client"] \in Seq(ToClient)
    BY DEF AdmitInv
  <2>2. ASSUME NEW S, NEW q \in Seq(S), NEW r \in Seq(S)
        PROVE  q \o r \in Seq(S)
    OBVIOUS
  <2> QED
    BY <1>2, <2>1, <2>2
<1>5. ClientPlace(at["client"])' /\ HostPlace(at["host"])'
  BY <1>1, <1>3 DEF AdmitInv, ClientPlace, HostPlace, Sharing, ClipSync, Receiving, DirSync
<1> QED
  BY <1>1, <1>2, <1>3, <1>4, <1>5 DEF AdmitInv

\* The forms a step has: a frame is read, is not read, or the session ends.
LEMMA ClientForms ==
  ASSUME AdmitInv, NEW next, NEW result, NEW frames,
         ClipHost => frames \in Seq(ToHost)
  PROVE  /\ Replies("client", frames, next) /\ inbox["client"] # <<>> /\ ClientPlace(next)
             => AdmitInv'
         /\ Writes("client", frames, next) /\ ClientPlace(next) => AdmitInv'
         /\ Ends("client", result, frames) => AdmitInv'
<1>1. ClipHost => /\ inbox["client"] \in Seq(ToClient) /\ <<>> \in Seq(ToClient)
                  /\ inbox["client"] # <<>> => Tail(inbox["client"]) \in Seq(ToClient)
  BY FrameLines DEF AdmitInv
<1>2. ClientPlace("over")
  BY DEF ClientPlace
<1>3. ASSUME Replies("client", frames, next), inbox["client"] # <<>>, ClientPlace(next)
      PROVE  AdmitInv'
  BY <1>1, <1>3, ClientStep DEF Replies, Goes
<1>4. ASSUME Writes("client", frames, next), ClientPlace(next)
      PROVE  AdmitInv'
  BY <1>1, <1>4, ClientStep DEF Writes, Goes
<1>5. ASSUME Ends("client", result, frames)
      PROVE  AdmitInv'
  BY <1>1, <1>2, <1>5, ClientStep DEF Ends
<1> QED
  BY <1>3, <1>4, <1>5

\* The same for the host.
LEMMA HostForms ==
  ASSUME AdmitInv, NEW next, NEW result, NEW frames,
         ClipHost => frames \in Seq(ToClient)
  PROVE  /\ Replies("host", frames, next) /\ inbox["host"] # <<>> /\ HostPlace(next)
             => AdmitInv'
         /\ Writes("host", frames, next) /\ HostPlace(next) => AdmitInv'
         /\ Ends("host", result, frames) => AdmitInv'
<1>1. ClipHost => /\ inbox["host"] \in Seq(ToHost) /\ <<>> \in Seq(ToHost)
                  /\ inbox["host"] # <<>> => Tail(inbox["host"]) \in Seq(ToHost)
  BY FrameLines DEF AdmitInv
<1>2. HostPlace("over")
  BY DEF HostPlace
<1>3. ASSUME Replies("host", frames, next), inbox["host"] # <<>>, HostPlace(next)
      PROVE  AdmitInv'
  BY <1>1, <1>3, HostStep DEF Replies, Goes
<1>4. ASSUME Writes("host", frames, next), HostPlace(next)
      PROVE  AdmitInv'
  BY <1>1, <1>4, HostStep DEF Writes, Goes
<1>5. ASSUME Ends("host", result, frames)
      PROVE  AdmitInv'
  BY <1>1, <1>2, <1>5, HostStep DEF Ends
<1> QED
  BY <1>3, <1>4, <1>5

\* A frame is made of its type and of what it says.
LEMMA FrameIs ==
  \A type \in Types, says \in Says :
    /\ Frame(type, says) \in Frames
    /\ Frame(type, says).type = type /\ Frame(type, says).says = says
  BY DEF Frame, Frames
\* What may be sent either way, by the type of the frame.
LEMMA FramesAllowed ==
  \A type \in Types, says \in Says :
    /\ type # "CodeVerify" => Frame(type, says) \in ToHost
    /\ type # "TrustedHelloAck" => Frame(type, says) \in ToClient
  BY FrameIs, Zenon DEF ToHost, ToClient

\* What a client with a code shows (ReceiverTakesHello, SyncClientTakesHello).
LEMMA CodeAllowed ==
  ASSUME kind.client \in CodeClients, creds \in Credentials
  PROVE  CodeVerify(creds.code) \in ToHost
<1>1. creds.code \in BOOLEAN
  BY DEF Credentials
<1>2. creds.code \in Says
  BY <1>1, Zenon DEF Says
<1>3. "CodeVerify" \in Types
  BY Zenon DEF Types
<1> QED
  BY <1>2, <1>3, FrameIs, Zenon DEF ToHost, CodeVerify

\* What a frame may say.
LEMMA SaysHas ==
  /\ "nothing" \in Says /\ "host" \in Says /\ "client" \in Says /\ "content" \in Says
  /\ TRUE \in Says /\ FALSE \in Says
  BY Zenon DEF Says

\* The frames clients write to a clipboard host.
LEMMA ClientFrames ==
  /\ Hello("nothing") \in ToHost /\ HelloAck("nothing") \in ToHost
  /\ HelloAck("client") \in ToHost /\ TrustedHello("client") \in ToHost
  /\ TrustedHelloAck("client") \in ToHost /\ Frame("Ping", "nothing") \in ToHost
  /\ ClipboardAck(TRUE) \in ToHost /\ ClipboardAck(FALSE) \in ToHost
  /\ SyncInitAck \in ToHost /\ SyncIndex \in ToHost /\ SyncIndexAck \in ToHost
  BY FramesAllowed, SaysHas, Zenon
     DEF Types, Hello, HelloAck, TrustedHello, TrustedHelloAck, ClipboardAck, SyncInitAck,
         SyncIndex, SyncIndexAck
\* The frames a clipboard host writes.
LEMMA HostFrames ==
  /\ Hello("nothing") \in ToClient /\ HelloAck("nothing") \in ToClient
  /\ TrustedHello("host") \in ToClient
  /\ CodeVerifyAck(TRUE) \in ToClient /\ CodeVerifyAck(FALSE) \in ToClient
  /\ ClipboardMeta \in ToClient /\ ClipboardData \in ToClient
  /\ TransferComplete \in ToClient /\ Frame("Pong", "nothing") \in ToClient
  /\ SyncInit \in ToClient /\ SyncIndex \in ToClient /\ SyncIndexAck \in ToClient
  BY FramesAllowed, SaysHas, Zenon
     DEF Types, Hello, HelloAck, TrustedHello, CodeVerifyAck, ClipboardMeta, ClipboardData,
         TransferComplete, SyncInit, SyncIndex, SyncIndexAck

\* A user starts a program (YoopInit, Discovery).
LEMMA AdmitInvInit == YoopInit => AdmitInv
<1> SUFFICES ASSUME YoopInit
             PROVE  AdmitInv
  OBVIOUS
<1>1. /\ kind \in [host : Hosts, client : Clients, asks : BOOLEAN]
      /\ creds \in Credentials
  BY DEF YoopInit, CommandInit, ConnectingInit
<1>2. /\ at = [host |-> "idle", client |-> "idle"]
      /\ inbox = [p \in Side |-> <<>>]
  BY DEF YoopInit, CommandInit, ConnectingInit, DiscoveryInit
<1>3. inbox["host"] = <<>> /\ inbox["client"] = <<>>
  BY <1>2 DEF Side
<1>4. at["host"] = "idle" /\ at["client"] = "idle" /\ at = [p \in Side |-> at[p]]
  BY <1>2 DEF Side
<1>5. ClientPlace("idle") /\ HostPlace("idle")
  BY DEF ClientPlace, HostPlace
<1> QED
  BY <1>1, <1>2, <1>3, <1>4, <1>5, FrameLines DEF AdmitInv

\* The search (discovery/): nobody writes a frame, and nobody is admitted.
LEMMA DiscoveryAdmits == AdmitInv /\ DiscoveryNext => AdmitInv'
<1> SUFFICES ASSUME AdmitInv, DiscoveryNext
             PROVE  AdmitInv'
  OBVIOUS
<1> DEFINE Idle1 == {"listening", "found", "searching", "probing"}
<1>0. ClipHost => <<>> \in Seq(ToHost) /\ <<>> \in Seq(ToClient)
  BY FrameLines
<1>1. ASSUME NEW next \in Idle1, Writes("client", <<>>, next)
      PROVE  AdmitInv'
  <2>1. ClientPlace(next)
    BY DEF ClientPlace
  <2> QED
    BY <1>0, <1>1, <2>1, ClientForms
<1>2. ASSUME NEW next \in Idle1, Writes("host", <<>>, next)
      PROVE  AdmitInv'
  <2>1. HostPlace(next)
    BY DEF HostPlace
  <2> QED
    BY <1>0, <1>2, <2>1, HostForms
<1>3. ASSUME NEW result, Ends("client", result, <<>>)
      PROVE  AdmitInv'
  BY <1>0, <1>3, ClientForms
<1>4. ASSUME NEW result, Ends("host", result, <<>>)
      PROVE  AdmitInv'
  BY <1>0, <1>4, HostForms
<1>5. ASSUME UNCHANGED connection
      PROVE  AdmitInv'
  BY <1>5 DEF connection, AdmitInv, ClientPlace, HostPlace, ClipHost, ToHost, ToClient,
              Sharing, ClipSync, Receiving, DirSync
<1>6. CASE HostListens
  BY <1>2, <1>6 DEF HostListens, ClipShareListens, ClipSyncListens, DirSyncListens,
                    DeviceListens, Moves
<1>7. CASE CannotListen \/ NoAddress \/ CannotSearch \/ SearchFails \/ DeviceNotFound
           \/ ConnectFails
  BY <1>3, <1>4, <1>7 DEF CannotListen, NoAddress, CannotSearch, SearchFails,
                          DeviceNotFound, ConnectFails, Fails
<1>8. CASE UseAddress \/ StartSearch \/ HearPacket \/ ResolveService \/ HearBeacon
           \/ FallsBack
  BY <1>1, <1>8 DEF UseAddress, StartSearch, HearPacket, ResolveService, HearBeacon,
                    FallsBack, Met, Moves
<1>9. CASE ProbeReachesAgain \/ ProbeFails
  BY <1>1, <1>3, <1>9 DEF ProbeReachesAgain, ProbeFails, Fails
<1>10. CASE ServiceWithdrawn
  BY <1>5, <1>10 DEF ServiceWithdrawn
<1>11. CASE ProbeReaches
  <2>1. ClientPlace("found") /\ HostPlace("over")
    BY DEF ClientPlace, HostPlace
  <2>2. at'["host"] = "over" /\ at'["client"] = "found" /\ at' = [p \in Side |-> at'[p]]
    BY <1>11 DEF ProbeReaches, Side
  <2> QED
    BY <1>11, <2>1, <2>2
       DEF ProbeReaches, AdmitInv, ClientPlace, HostPlace, ClipHost, ToHost, ToClient,
           Sharing, ClipSync, Receiving, DirSync
<1> QED
  BY <1>6, <1>7, <1>8, <1>9, <1>10, <1>11 DEF DiscoveryNext

\* The session on either side begins (Connecting, Starts): a greeting or nothing.
LEMMA ConnectAdmits == AdmitInv /\ Connect => AdmitInv'
<1> SUFFICES ASSUME AdmitInv, Connect
             PROVE  AdmitInv'
  OBVIOUS
<1>1. kind["host"] \in Hosts /\ kind["client"] \in Clients
  BY DEF AdmitInv
<1>2. \A s \in Hosts :
        /\ Starts(s).reads \in {"HelloAck", "Answer", "Hello", "TrustedHello"}
        /\ Starts(s).writes \in {<<>>, <<Hello("nothing")>>, <<TrustedHello("host")>>}
  BY DEF Starts, Hosts, Opening, ShareStarts, SyncHostStarts, DirHostStarts, DeviceStarts
<1>3. \A s \in Clients :
        /\ Starts(s).reads \in {"HelloAck", "Greeting", "Hello", "TrustedHelloAck"}
        /\ Starts(s).writes \in {<<>>, <<Hello("nothing")>>, <<TrustedHello("client")>>}
  BY DEF Starts, Clients, CodeClients, TrustedClients, Opening, ReceiverStarts,
         TrustedReceiverStarts, SyncClientStarts, SyncTrustedStarts, DirClientStarts,
         DirTrustedStarts, SendStarts
<1>4. /\ at'["host"] = Starts(kind["host"]).reads
      /\ at'["client"] = Starts(kind["client"]).reads
      /\ inbox'["host"] = Starts(kind["client"]).writes
      /\ inbox'["client"] = Starts(kind["host"]).writes
      /\ at' = [p \in Side |-> at'[p]] /\ inbox' = [p \in Side |-> inbox'[p]]
  BY DEF Connect, Side, Peer
<1>5. inbox'["host"] \in Seq(ToHost) /\ inbox'["client"] \in Seq(ToClient)
  <2>1. /\ <<>> \in Seq(ToClient) /\ <<Hello("nothing")>> \in Seq(ToClient)
        /\ <<TrustedHello("host")>> \in Seq(ToClient)
    BY HostFrames, FrameLines
  <2>2. /\ <<>> \in Seq(ToHost) /\ <<Hello("nothing")>> \in Seq(ToHost)
        /\ <<TrustedHello("client")>> \in Seq(ToHost)
    BY ClientFrames, FrameLines
  <2>3. Starts(kind["host"]).writes \in Seq(ToClient)
    BY <1>1, <1>2, <2>1, Zenon
  <2>4. Starts(kind["client"]).writes \in Seq(ToHost)
    BY <1>1, <1>3, <2>2, Zenon
  <2> QED
    BY <1>4, <2>3, <2>4, Zenon
<1>6. ClientPlace(at'["client"]) /\ HostPlace(at'["host"])
  BY <1>1, <1>2, <1>3, <1>4 DEF ClientPlace, HostPlace
<1> QED
  BY <1>4, <1>5, <1>6
     DEF Connect, AdmitInv, ClientPlace, HostPlace, ClipHost, ToHost, ToClient,
         Sharing, ClipSync, Receiving, DirSync

\* A session fails, by itself or at a frame it does not want; frames are lost.
LEMMA EndsAdmit ==
  ASSUME AdmitInv, NEW p \in Side
  PROVE  /\ Unexpected(p) \/ ReadFails(p) \/ Killed(p) \/ Fails(p) => AdmitInv'
         /\ FramesLost(p) => AdmitInv'
<1>0. ClipHost => <<>> \in Seq(ToHost) /\ <<>> \in Seq(ToClient)
  BY FrameLines
<1>1. Fails(p) => AdmitInv'
  BY <1>0, ClientForms, HostForms DEF Fails, Side
<1>2. ASSUME FramesLost(p)
      PROVE  AdmitInv'
  BY <1>0, <1>2
     DEF FramesLost, AdmitInv, ClientPlace, HostPlace, ClipHost, ToHost, ToClient, Side,
         Sharing, ClipSync, Receiving, DirSync
<1> QED
  BY <1>1, <1>2 DEF Unexpected, ReadFails, Killed

\* One copy of the clipboard (clipboard/session.rs): the share goes on to its
\* content only with a code that was shown.
LEMMA ClipAdmits == AdmitInv /\ ClipNext => AdmitInv'
<1> SUFFICES ASSUME AdmitInv, ClipNext
             PROVE  AdmitInv'
  OBVIOUS
<1> USE DEF Takes
<1>0. /\ "host" \in Side /\ "client" \in Side
      /\ <<>> \in Seq(ToHost) /\ <<>> \in Seq(ToClient)
  BY FrameLines DEF Side
<1>1. CASE ShareTakesHelloAck
  <2>1. HostPlace("CodeVerify")
    BY DEF HostPlace
  <2> QED
    BY <1>0, <1>1, <2>1, HostForms DEF ShareTakesHelloAck
<1>2. CASE ShareChecksCode
  <2>1. inbox["host"] # <<>> /\ Head(inbox["host"]) \in ToHost
        /\ Head(inbox["host"]).type = "CodeVerify" /\ ClipHost /\ Sharing
    BY <1>2, FrameLines DEF ShareChecksCode, AdmitInv, ClipHost
  <2>2. CASE Saying("host")
    <3>1. creds.code /\ kind.client \in CodeClients
      BY <2>1, <2>2 DEF ToHost, Saying
    <3>2. HostPlace("ClipboardAck")
      BY <2>1, <3>1 DEF HostPlace, Sharing, ClipSync, Receiving
    <3>3. <<CodeVerifyAck(TRUE)>> \o Offer \in Seq(ToClient)
      BY HostFrames, FrameLines DEF Offer
    <3> QED
      BY <1>2, <2>1, <2>2, <3>2, <3>3, HostForms DEF ShareChecksCode
  <2>3. CASE ~Saying("host")
    <3>1. <<CodeVerifyAck(FALSE)>> \in Seq(ToClient)
      BY HostFrames, FrameLines
    <3> QED
      BY <1>2, <2>3, <3>1, HostForms DEF ShareChecksCode
  <2> QED
    BY <2>2, <2>3
<1>3. CASE ShareTakesAnswer
  <2>1. HostPlace("DataAck")
    BY <1>3 DEF ShareTakesAnswer, AdmitInv, HostPlace, Sharing, ClipSync, Receiving
  <2>2. <<ClipboardData>> \in Seq(ToClient)
    BY HostFrames, FrameLines
  <2> QED
    BY <1>0, <1>3, <2>1, <2>2, HostForms, EndsAdmit DEF ShareTakesAnswer
<1>4. CASE ShareAnswersPing
  <2>1. HostPlace("ClipboardAck")
    BY <1>4 DEF ShareAnswersPing, AdmitInv
  <2>2. <<Frame("Pong", "nothing")>> \in Seq(ToClient)
    BY HostFrames, FrameLines
  <2> QED
    BY <1>4, <2>1, <2>2, HostForms DEF ShareAnswersPing
<1>5. CASE ShareTakesDataAck
  <2>1. <<TransferComplete>> \in Seq(ToClient)
    BY HostFrames, FrameLines
  <2> QED
    BY <1>0, <1>5, <2>1, HostForms, EndsAdmit DEF ShareTakesDataAck
<1> DEFINE Place == {"CodeVerifyAck", "ClipboardMeta", "offered", "pinging",
                     "ClipboardData", "TransferComplete"}
<1>6. \A place \in Place : ClientPlace(place)
  BY DEF ClientPlace
<1> HIDE DEF Place
<1>7. CASE ReceiverTakesHello
  <2>1. HelloAck("nothing") \in ToHost /\ CodeVerify(creds.code) \in ToHost
    BY <1>7, ClientFrames, CodeAllowed DEF ReceiverTakesHello, AdmitInv, CodeClients
  <2>2. <<HelloAck("nothing"), CodeVerify(creds.code)>> \in Seq(ToHost)
    BY <2>1, FrameLines
  <2> QED
    BY <1>6, <1>7, <2>2, ClientForms DEF ReceiverTakesHello, Place
<1>8. CASE ReceiverTakesCodeAck
  BY <1>0, <1>6, <1>8, ClientForms, EndsAdmit DEF ReceiverTakesCodeAck, Place
<1>9. CASE TrustedTakesHello \/ TrustedTakesTrustedHello
  <2>1. <<HelloAck("client")>> \in Seq(ToHost) /\ <<TrustedHelloAck("client")>> \in Seq(ToHost)
    BY ClientFrames, FrameLines
  <2> QED
    BY <1>0, <1>6, <1>9, <2>1, ClientForms, EndsAdmit
       DEF TrustedTakesHello, TrustedTakesTrustedHello, Place
<1>10. CASE ReceiveMetadata \/ PingAnswered
  BY <1>0, <1>6, <1>10, ClientForms DEF ReceiveMetadata, PingAnswered, Place
<1>11. CASE SendPing
  <2>1. <<Frame("Ping", "nothing")>> \in Seq(ToHost)
    BY ClientFrames, FrameLines
  <2> QED
    BY <1>6, <1>11, <2>1, ClientForms DEF SendPing, Place
<1>12. CASE PingFails
  BY <1>0, <1>12
     DEF PingFails, AdmitInv, ClientPlace, HostPlace, ClipHost, ToHost, ToClient, Side,
         Sharing, ClipSync, Receiving, DirSync
<1>13. CASE Accept \/ Decline
  <2>1. <<ClipboardAck(TRUE)>> \in Seq(ToHost) /\ <<ClipboardAck(FALSE)>> \in Seq(ToHost)
    BY ClientFrames, FrameLines
  <2> QED
    BY <1>0, <1>6, <1>13, <2>1, ClientForms DEF Accept, Decline, Place
<1>14. CASE AcceptAfterDrop
  BY <1>0, <1>14, EndsAdmit DEF AcceptAfterDrop
<1>15. CASE ReceiverTakesData
  <2>1. <<ClipboardAck(TRUE)>> \in Seq(ToHost) /\ <<ClipboardAck(FALSE)>> \in Seq(ToHost)
    BY ClientFrames, FrameLines
  <2> QED
    BY <1>6, <1>15, <2>1, ClientForms DEF ReceiverTakesData, Place
<1>16. CASE ReceiverCompletes
  BY <1>0, <1>16, ClientForms DEF ReceiverCompletes
<1> QED
  BY <1>1, <1>2, <1>3, <1>4, <1>5, <1>7, <1>8, <1>9, <1>10, <1>11, <1>12, <1>13, <1>14,
     <1>15, <1>16 DEF ClipNext

\* The handshakes of the sync sessions (clipboard/session.rs, sync/session.rs):
\* a clipboard host runs with a peer it trusts or one that showed the code.
LEMMA SyncAdmits == AdmitInv /\ SyncNext => AdmitInv'
<1> SUFFICES ASSUME AdmitInv, SyncNext
             PROVE  AdmitInv'
  OBVIOUS
<1> USE DEF Takes
<1>0. /\ "host" \in Side /\ "client" \in Side
      /\ <<>> \in Seq(ToHost) /\ <<>> \in Seq(ToClient)
  BY FrameLines DEF Side
<1>1. ASSUME NEW type \in Answer, SyncHostTakesAnswer(type)
      PROVE  AdmitInv'
  <2>1. HostPlace("CodeVerify")
    BY DEF HostPlace
  <2>2. Trusts(type, Saying("host")) => HostPlace("runs")
    BY <1>1 DEF Trusts, HostPlace, SyncHostTakesAnswer, ClipSync, Sharing, Receiving
  <2> QED
    BY <1>0, <1>1, <2>1, <2>2, HostForms DEF SyncHostTakesAnswer, Runs
<1>2. CASE SyncHostChecksCode
  <2>1. inbox["host"] # <<>> /\ Head(inbox["host"]) \in ToHost
        /\ Head(inbox["host"]).type = "CodeVerify" /\ ClipHost /\ ClipSync
    BY <1>2, FrameLines DEF SyncHostChecksCode, AdmitInv, ClipHost
  <2>2. CASE Saying("host")
    <3>1. creds.code /\ kind.client \in CodeClients
      BY <2>1, <2>2 DEF ToHost, Saying
    <3>2. HostPlace("runs")
      BY <2>1, <3>1 DEF HostPlace, Sharing, ClipSync, Receiving
    <3>3. <<CodeVerifyAck(TRUE)>> \in Seq(ToClient)
      BY HostFrames, FrameLines
    <3> QED
      BY <1>2, <2>1, <2>2, <3>2, <3>3, HostForms DEF SyncHostChecksCode, Runs
  <2>3. CASE ~Saying("host")
    <3>1. <<CodeVerifyAck(FALSE)>> \in Seq(ToClient)
      BY HostFrames, FrameLines
    <3> QED
      BY <1>2, <2>3, <3>1, HostForms DEF SyncHostChecksCode
  <2> QED
    BY <2>2, <2>3
<1> DEFINE Place == {"CodeVerifyAck", "runs", "SyncInit", "SyncIndex", "SyncIndexAck"}
<1>3. \A place \in Place : ClientPlace(place)
  BY DEF ClientPlace
<1> HIDE DEF Place
<1>4. ASSUME NEW type \in Greeting, SyncClientTakesHello(type)
      PROVE  AdmitInv'
  <2>1. CodeVerify(creds.code) \in ToHost
    BY <1>4, CodeAllowed DEF SyncClientTakesHello, AdmitInv, CodeClients
  <2>2. /\ <<HelloAck("nothing"), CodeVerify(creds.code)>> \in Seq(ToHost)
        /\ <<HelloAck("client"), CodeVerify(creds.code)>> \in Seq(ToHost)
    BY <2>1, ClientFrames, FrameLines
  <2> QED
    BY <1>3, <1>4, <2>2, ClientForms DEF SyncClientTakesHello, Place
<1>5. CASE SyncClientTakesCodeAck
  BY <1>0, <1>3, <1>5, ClientForms, EndsAdmit DEF SyncClientTakesCodeAck, Runs, Place
<1>6. <<HelloAck("client")>> \in Seq(ToHost) /\ <<TrustedHelloAck("client")>> \in Seq(ToHost)
  BY ClientFrames, FrameLines
<1>7. CASE SyncTrustedTakesTrustedHello \/ SyncTrustedTakesHello
  BY <1>0, <1>3, <1>6, <1>7, ClientForms, EndsAdmit
     DEF SyncTrustedTakesTrustedHello, SyncTrustedTakesHello, Runs, Place
<1>8. CASE DirTrustedTakesTrustedHello \/ DirTrustedTakesHello
  BY <1>0, <1>3, <1>6, <1>8, ClientForms, EndsAdmit
     DEF DirTrustedTakesTrustedHello, DirTrustedTakesHello, Place
<1>9. CASE DirHostTakesHello \/ DirHostTakesInitAck
  <2>1. ~ClipHost /\ HostPlace("SyncInitAck") /\ HostPlace("SyncIndex")
    BY <1>9 DEF DirHostTakesHello, DirHostTakesInitAck, ClipHost, HostPlace, Sharing,
                ClipSync, DirSync
  <2> QED
    BY <1>9, <2>1, HostForms DEF DirHostTakesHello, DirHostTakesInitAck
<1>10. CASE DirClientTakesHelloAck
  BY <1>0, <1>3, <1>10, ClientForms DEF DirClientTakesHelloAck, Place
<1>11. CASE DirClientTakesInit
  <2>1. <<SyncInitAck>> \o Index \in Seq(ToHost)
    BY ClientFrames, FrameLines DEF Index
  <2> QED
    BY <1>3, <1>11, <2>1, ClientForms DEF DirClientTakesInit, Place
<1>12. ASSUME ExchangeIndex("client")
       PROVE  AdmitInv'
  <2>1. <<SyncIndexAck>> \in Seq(ToHost)
    BY ClientFrames, FrameLines
  <2> QED
    BY <1>0, <1>3, <1>12, <2>1, ClientForms DEF ExchangeIndex, Runs, Place
<1>13. ASSUME ExchangeIndex("host")
       PROVE  AdmitInv'
  <2>1. DirSync
    BY <1>13 DEF ExchangeIndex, AdmitInv, HostPlace
  <2>2. ~ClipHost /\ HostPlace("SyncIndexAck") /\ HostPlace("runs")
    BY <2>1 DEF ClipHost, HostPlace, Sharing, ClipSync, DirSync, Receiving
  <2> QED
    BY <1>13, <2>2, HostForms DEF ExchangeIndex, Runs
<1>14. ASSUME SyncIgnores("client") \/ SyncEnds("client")
       PROVE  AdmitInv'
  BY <1>0, <1>3, <1>14, ClientForms DEF SyncIgnores, SyncEnds, Place
<1>15. ASSUME SyncIgnores("host") \/ SyncEnds("host")
       PROVE  AdmitInv'
  <2>1. at["host"] = "runs" /\ HostPlace(at["host"])
    BY <1>15 DEF SyncIgnores, SyncEnds, AdmitInv
  <2> QED
    BY <1>0, <1>15, <2>1, HostForms DEF SyncIgnores, SyncEnds
<1> QED
  BY <1>1, <1>2, <1>4, <1>5, <1>7, <1>8, <1>9, <1>10, <1>11, <1>12, <1>13, <1>14, <1>15
     DEF SyncNext, Side

\* A trusted transfer (transfer/trusted.rs): the sender gets nowhere with a
\* clipboard host, and the receiver nowhere with a sender it does not trust.
LEMMA TrustedAdmits == AdmitInv /\ TrustedNext => AdmitInv'
<1> SUFFICES ASSUME AdmitInv, TrustedNext
             PROVE  AdmitInv'
  OBVIOUS
<1> USE DEF Takes
<1>0. "host" \in Side /\ "client" \in Side
  BY DEF Side
<1>1. ASSUME ~ClipHost, NEW next, NEW result, NEW frames,
             \/ Replies("client", frames, next) /\ inbox["client"] # <<>>
             \/ Ends("client", result, frames)
      PROVE  AdmitInv'
  BY <1>1, ClientForms DEF ClientPlace
<1>2. CASE SenderTakesHelloAck
  <2>1. ~ClipHost
    BY <1>2, FrameLines DEF SenderTakesHelloAck, AdmitInv, ToClient
  <2> QED
    BY <1>1, <1>2, <2>1 DEF SenderTakesHelloAck
<1>3. ASSUME NEW i, SendsFrom(i), ~ClipHost, inbox["client"] # <<>>
      PROVE  AdmitInv'
  BY <1>1, <1>3 DEF SendsFrom
<1>4. CASE SenderTakesListAck \/ SenderTakesChunkAck
  <2>1. ~ClipHost /\ inbox["client"] # <<>>
    BY <1>4 DEF SenderTakesListAck, SenderTakesChunkAck, AdmitInv, ClientPlace
  <2>2. CASE SenderTakesListAck
    BY <1>1, <1>3, <2>1, <2>2 DEF SenderTakesListAck
  <2>3. CASE SenderTakesChunkAck
    BY <1>0, <1>1, <1>3, <2>1, <2>3, EndsAdmit DEF SenderTakesChunkAck
  <2> QED
    BY <1>4, <2>2, <2>3
<1>5. ASSUME Receiving
      PROVE  ~ClipHost
  BY <1>5 DEF Receiving, ClipHost, Sharing, ClipSync
<1>6. ASSUME Receiving, creds.known, NEW place \in {"FileList", "asked", "Chunks"}
      PROVE  HostPlace(place)
  BY <1>6 DEF HostPlace, Receiving, Sharing, ClipSync
<1>7. CASE ReceiverTakesTrustedHello
  BY <1>0, <1>5, <1>6, <1>7, HostForms, EndsAdmit DEF ReceiverTakesTrustedHello
<1>8. ASSUME Receiving, at["host"] \in {"FileList", "asked", "Chunks"}
      PROVE  creds.known
  BY <1>8 DEF AdmitInv, HostPlace
<1>9. CASE ReceiveFileList
  BY <1>5, <1>6, <1>8, <1>9, HostForms DEF ReceiveFileList
<1>10. CASE AcceptFiles \/ DeclineFiles
  BY <1>5, <1>6, <1>8, <1>10, HostForms DEF AcceptFiles, DeclineFiles
<1>11. CASE HandleChunkStart \/ CannotCreate
  BY <1>0, <1>5, <1>6, <1>8, <1>11, HostForms, EndsAdmit DEF HandleChunkStart, CannotCreate
<1>12. CASE HandleChunkData \/ TakesTransferComplete
  BY <1>0, <1>5, <1>6, <1>8, <1>12, HostForms, EndsAdmit
     DEF HandleChunkData, TakesTransferComplete
<1> QED
  BY <1>2, <1>4, <1>7, <1>9, <1>10, <1>11, <1>12 DEF TrustedNext

\* Every step of a connection keeps it, and the files on disk have no part in it.
LEMMA AdmitInvKept == AdmitInv /\ [YoopNext]_yoopVars => AdmitInv'
<1> SUFFICES ASSUME AdmitInv, [YoopNext]_yoopVars
             PROVE  AdmitInv'
  OBVIOUS
<1>0. "host" \in Side /\ "client" \in Side /\ <<>> \in Seq(ToHost)
  BY FrameLines DEF Side
<1>1. ASSUME UNCHANGED connection
      PROVE  AdmitInv'
  BY <1>1 DEF connection, AdmitInv, ClientPlace, HostPlace, ClipHost, ToHost, ToClient,
              Sharing, ClipSync, Receiving, DirSync
<1>2. CASE ConnectingNext
  BY <1>2, DiscoveryAdmits, ConnectAdmits, EndsAdmit, ClipAdmits, SyncAdmits, TrustedAdmits
     DEF ConnectingNext, Serves, Breaks, Refuses
<1>3. CASE ClipCannotBegin \/ DirCannotBegin \/ SendCannotBegin
  BY <1>0, <1>3, EndsAdmit DEF ClipCannotBegin, DirCannotBegin, SendCannotBegin, GivesUp
<1>4. CASE UserCancels
  BY <1>0, <1>4, ClientForms DEF UserCancels
<1>5. CASE CommandsNext
  BY <1>1, <1>2, <1>3, <1>4, <1>5 DEF CommandsNext, Tell, connectingVars
<1>6. CASE UNCHANGED commandVars
  BY <1>1, <1>6 DEF commandVars, connectingVars
<1> QED
  BY <1>5, <1>6 DEF YoopNext, yoopVars

\* Whichever two sessions meet, and in whatever order their frames come: a host
\* hands out its content or enters a session only with a client that was given
\* the code or is in its trust store (clipboard/session.rs, transfer/trusted.rs).
THEOREM AdmittedAlwaysShown == YoopSpec => []AdmittedMeansShown
<1>1. AdmitInv => AdmittedMeansShown
  BY DEF AdmitInv, HostPlace, AdmittedMeansShown
<1> QED
  BY <1>1, AdmitInvInit, AdmitInvKept, PTL DEF YoopSpec

-----------------------------------------------------------------------------
(* What two sessions that belong together say to each other.  A row is a    *)
(* moment between two reads: where host and client are, and what is on its  *)
(* way to each.  Once either side is gone nothing new is agreed on; what it *)
(* wrote before may still be read.                                          *)

Row(h, c, toHost, toClient) ==
  /\ at["host"] = h /\ at["client"] = c
  /\ inbox["host"] = toHost /\ inbox["client"] = toClient

Code == CodeVerify(creds.code)
Ping == Frame("Ping", "nothing")
Pong == Frame("Pong", "nothing")
CodeIsRight == CodeVerifyAck(TRUE)
CodeIsWrong == CodeVerifyAck(FALSE)
Taken == ClipboardAck(TRUE)
NotTaken == ClipboardAck(FALSE)
Wanted == FileListAck(TRUE)
Unwanted == FileListAck(FALSE)
ChunkIsThere == ChunkAck(TRUE)
ChunkIsLost == ChunkAck(FALSE)

CopyPair == Sharing /\ kind.client = "clip_code"
TrustedSyncPair == ClipSync /\ kind.client = "csync_trusted" /\ creds.known
CodeSyncPair == ClipSync /\ kind.client = "csync_code" /\ ~creds.known
DirPair == DirSync /\ kind.client = "dsync_code"
SendPair == Receiving /\ Sending

CopyRow ==
  \/ Row("HelloAck", "Hello", <<>>, <<Hello("nothing")>>)
  \/ Row("HelloAck", "CodeVerifyAck", <<HelloAck("nothing"), Code>>, <<>>)
  \/ Row("CodeVerify", "CodeVerifyAck", <<Code>>, <<>>)
  \/ Row("ClipboardAck", "CodeVerifyAck", <<>>, <<CodeIsRight, ClipboardMeta>>)
  \/ Row("ClipboardAck", "ClipboardMeta", <<>>, <<ClipboardMeta>>)
  \/ Row("ClipboardAck", "offered", <<>>, <<>>)
  \/ Row("ClipboardAck", "pinging", <<Ping>>, <<>>)
  \/ Row("ClipboardAck", "pinging", <<>>, <<Pong>>)
  \/ Row("ClipboardAck", "ClipboardData", <<Taken>>, <<>>)
  \/ Row("DataAck", "ClipboardData", <<>>, <<ClipboardData>>)
  \/ Row("DataAck", "TransferComplete", <<Taken>>, <<>>) /\ copied = "held"

TrustedSyncRow ==
  \/ Row("Answer", "Greeting", <<>>, <<TrustedHello("host")>>)
  \/ Row("Answer", "runs", <<TrustedHelloAck("client")>>, <<>>)
  \/ Row("runs", "runs", <<>>, <<>>)
CodeSyncRow ==
  \/ Row("Answer", "Greeting", <<>>, <<TrustedHello("host")>>)
  \/ Row("Answer", "CodeVerifyAck", <<HelloAck("client"), Code>>, <<>>)
  \/ Row("CodeVerify", "CodeVerifyAck", <<Code>>, <<>>)
  \/ Row("runs", "CodeVerifyAck", <<>>, <<CodeIsRight>>)
  \/ Row("runs", "runs", <<>>, <<>>)

DirRow ==
  \/ Row("Hello", "HelloAck", <<Hello("nothing")>>, <<>>)
  \/ Row("SyncInitAck", "HelloAck", <<>>, <<HelloAck("nothing"), SyncInit>>)
  \/ Row("SyncInitAck", "SyncInit", <<>>, <<SyncInit>>)
  \/ Row("SyncInitAck", "SyncIndex", <<SyncInitAck, SyncIndex>>, <<>>)
  \/ Row("SyncIndex", "SyncIndex", <<SyncIndex>>, <<SyncIndex>>)
  \/ Row("SyncIndexAck", "SyncIndex", <<>>, <<SyncIndex, SyncIndexAck>>)
  \/ Row("SyncIndex", "SyncIndexAck", <<SyncIndex, SyncIndexAck>>, <<>>)
  \/ Row("SyncIndexAck", "SyncIndexAck", <<SyncIndexAck>>, <<SyncIndexAck>>)
  \/ Row("runs", "SyncIndexAck", <<>>, <<SyncIndexAck>>)
  \/ Row("SyncIndexAck", "runs", <<SyncIndexAck>>, <<>>)
  \/ Row("runs", "runs", <<>>, <<>>)

\* Nobody has connected yet, or somebody has gone for good.
Apart ==
  /\ at["host"] \in {"idle", "listening"} /\ at["client"] \in Before
  /\ inbox["host"] = <<>> /\ inbox["client"] = <<>>
Gone == at["host"] = "over" \/ at["client"] = "over"

HandshakeInv ==
  /\ TrustedSyncPair => Apart \/ TrustedSyncRow \/ Gone
  /\ CodeSyncPair => Apart \/ CodeSyncRow \/ Gone
  /\ DirPair => Apart \/ DirRow \/ Gone

(* The copy.  A share that has ended well leaves a receiver that has the    *)
(* content and only waits for the last frame; a receiver that has gone      *)
(* leaves at most the answer it gave.                                       *)
NotSyncing(p) == at[p] \notin {"runs", "SyncIndex", "SyncIndexAck"}
NotComplete(q) == \A i \in 1..Len(q) : q[i].type # "TransferComplete"
CopyHostGone ==
  /\ at["host"] = "over"
  /\ IF outcome["host"] = "ok"
     THEN /\ copied # "nothing" /\ outcome["client"] # "declined"
          /\ at["client"] \in {"TransferComplete", "over"}
     ELSE outcome["client"] # "ok" /\ NotComplete(inbox["client"]) /\ NotSyncing("client")
CopyClientGone ==
  /\ at["client"] \in After /\ inbox["client"] = <<>>
  /\ outcome["client"] # "ok"
  /\ \/ at["host"] \in {"idle", "listening"} /\ inbox["host"] = <<>>
     \/ at["host"] = "HelloAck" /\ inbox["host"] \in {<<>>, <<HelloAck("nothing"), Code>>}
     \/ at["host"] = "CodeVerify" /\ inbox["host"] \in {<<>>, <<Code>>}
     \/ /\ at["host"] = "ClipboardAck"
        /\ inbox["host"] \in {<<>>, <<Ping>>, <<Taken>>, <<NotTaken>>}
     \/ /\ at["host"] = "DataAck"
        /\ \/ inbox["host"] = <<>>
           \/ /\ inbox["host"] = <<Taken>> /\ copied # "nothing"
              /\ at["client"] = "over" /\ outcome["client"] # "declined"
CopyInv ==
  CopyPair =>
    \/ /\ Apart \/ CopyRow
       /\ outcome["host"] = "none" /\ outcome["client"] = "none"
    \/ CopyHostGone
    \/ CopyClientGone /\ outcome["host"] = "none"
\* A receiver that trusts the share's device never comes to a copy: the share
\* asks for a code.
CopyRefused ==
  /\ at["host"] \in {"idle", "listening", "HelloAck", "CodeVerify", "over"}
  /\ at["host"] = "over" <=> outcome["host"] # "none"
  /\ outcome["host"] # "ok" /\ outcome["client"] # "ok"
  /\ NotComplete(inbox["client"]) /\ NotSyncing("client")
TrustedCopyPair == Sharing /\ kind.client = "clip_trusted"
TrustedCopyInv == TrustedCopyPair => CopyRefused

ToldInv ==
  \A p \in Side :
    told[p] # "nothing" => at[p] = "over" /\ told[p] = Tells(kind[p], outcome[p])

-----------------------------------------------------------------------------
(* What every step of a connection leaves: who ran what, and who is over.   *)

\* What each side is at, its frames and its result; a session that is over
\* stays so, and what a command tells is what became of it.
Shape ==
  /\ at = [p \in Side |-> at[p]] /\ inbox = [p \in Side |-> inbox[p]]
  /\ outcome = [p \in Side |-> outcome[p]] /\ told = [p \in Side |-> told[p]]
Base == Shape /\ ToldInv
StaysOver ==
  \A p \in Side : at[p] = "over" => at'[p] = "over" /\ outcome'[p] = outcome[p]
SameUsers == kind' = kind /\ creds' = creds
Stays == Shape' /\ StaysOver /\ SameUsers

\* The two sides, and who is whose peer.
LEMMA Sides ==
  /\ "host" \in Side /\ "client" \in Side /\ "host" # "client"
  /\ Peer("host") = "client" /\ Peer("client") = "host"
  /\ \A p \in Side : p = "host" \/ p = "client"
  BY DEF Side, Peer

\* Where the frames go that a step writes.
LEMMA DeliveredIs ==
  ASSUME Shape, NEW frames, NEW own, NEW p \in Side
  PROVE  /\ Delivered(p, frames, own) = [q \in Side |-> Delivered(p, frames, own)[q]]
         /\ Delivered(p, frames, own)[p] = own
         /\ Delivered(p, frames, own)[Peer(p)] =
              IF Connected(Peer(p)) THEN inbox[Peer(p)] \o frames ELSE inbox[Peer(p)]
  BY Sides DEF Shape, Delivered

\* What a step of one side that goes on leaves.
LEMMA GoesIs ==
  ASSUME Shape, NEW p \in Side, NEW next, NEW frames, NEW own, Goes(p, next, frames, own)
  PROVE  /\ at'[p] = next /\ at'[Peer(p)] = at[Peer(p)]
         /\ inbox'[p] = own
         /\ inbox'[Peer(p)] = IF Connected(Peer(p)) THEN inbox[Peer(p)] \o frames
                              ELSE inbox[Peer(p)]
         /\ outcome' = outcome /\ SameUsers
         /\ at' = [q \in Side |-> at'[q]] /\ inbox' = [q \in Side |-> inbox'[q]]
<1>1. at' = [at EXCEPT ![p] = next] /\ outcome' = outcome /\ SameUsers
      /\ inbox' = Delivered(p, frames, own)
  BY DEF Goes, SameUsers
<1>2. /\ inbox' = [q \in Side |-> inbox'[q]] /\ inbox'[p] = own
      /\ inbox'[Peer(p)] = IF Connected(Peer(p)) THEN inbox[Peer(p)] \o frames
                           ELSE inbox[Peer(p)]
  BY <1>1, DeliveredIs
<1>3. at'[p] = next /\ at'[Peer(p)] = at[Peer(p)] /\ at' = [q \in Side |-> at'[q]]
  BY <1>1, Sides DEF Shape
<1> QED BY <1>1, <1>2, <1>3

\* And one of a side that ends.
LEMMA EndsIs ==
  ASSUME Shape, NEW p \in Side, NEW result, NEW frames, Ends(p, result, frames)
  PROVE  /\ at'[p] = "over" /\ at'[Peer(p)] = at[Peer(p)]
         /\ inbox'[p] = <<>>
         /\ inbox'[Peer(p)] = IF Connected(Peer(p)) THEN inbox[Peer(p)] \o frames
                              ELSE inbox[Peer(p)]
         /\ outcome'[p] = result /\ outcome'[Peer(p)] = outcome[Peer(p)] /\ SameUsers
         /\ at' = [q \in Side |-> at'[q]] /\ inbox' = [q \in Side |-> inbox'[q]]
         /\ outcome' = [q \in Side |-> outcome'[q]]
<1>1. /\ at' = [at EXCEPT ![p] = "over"] /\ outcome' = [outcome EXCEPT ![p] = result]
      /\ SameUsers /\ inbox' = Delivered(p, frames, <<>>)
  BY DEF Ends, SameUsers
<1>2. /\ inbox' = [q \in Side |-> inbox'[q]] /\ inbox'[p] = <<>>
      /\ inbox'[Peer(p)] = IF Connected(Peer(p)) THEN inbox[Peer(p)] \o frames
                           ELSE inbox[Peer(p)]
  BY <1>1, DeliveredIs
<1>3. at'[p] = "over" /\ at'[Peer(p)] = at[Peer(p)] /\ at' = [q \in Side |-> at'[q]]
  BY <1>1, Sides DEF Shape
<1>4. /\ outcome'[p] = result /\ outcome'[Peer(p)] = outcome[Peer(p)]
      /\ outcome' = [q \in Side |-> outcome'[q]]
  BY <1>1, Sides DEF Shape
<1> QED BY <1>1, <1>2, <1>3, <1>4

(* The forms of a step keep the shape, if the side they are of is not over. *)
LEMMA FormsKeep ==
  ASSUME Shape, told' = told, NEW p \in Side, at[p] # "over"
  PROVE  /\ \A next, frames, own : Goes(p, next, frames, own) => Stays
         /\ \A next, frames : Replies(p, frames, next) \/ Writes(p, frames, next) => Stays
         /\ \A result, frames : Ends(p, result, frames) => Stays
         /\ Fails(p) => Stays
<1>0. told' = [q \in Side |-> told'[q]]
  BY DEF Shape
<1>1. ASSUME NEW next, NEW frames, NEW own, Goes(p, next, frames, own) PROVE Stays
  <2>1. /\ at'[Peer(p)] = at[Peer(p)] /\ outcome' = outcome /\ SameUsers
        /\ at' = [q \in Side |-> at'[q]] /\ inbox' = [q \in Side |-> inbox'[q]]
    BY <1>1, GoesIs
  <2>2. outcome' = [q \in Side |-> outcome'[q]]
    BY <2>1 DEF Shape
  <2>3. StaysOver
    BY <2>1, Sides DEF StaysOver
  <2> QED BY <1>0, <2>1, <2>2, <2>3 DEF Stays, Shape
<1>2. ASSUME NEW result, NEW frames, Ends(p, result, frames) PROVE Stays
  <2>1. /\ at'[Peer(p)] = at[Peer(p)] /\ outcome'[Peer(p)] = outcome[Peer(p)] /\ SameUsers
        /\ at' = [q \in Side |-> at'[q]] /\ inbox' = [q \in Side |-> inbox'[q]]
        /\ outcome' = [q \in Side |-> outcome'[q]]
    BY <1>2, EndsIs
  <2>2. StaysOver
    BY <2>1, Sides DEF StaysOver
  <2> QED BY <1>0, <2>1, <2>2 DEF Stays, Shape
<1> QED BY <1>1, <1>2 DEF Replies, Writes, Fails

\* Every step of the search is of such a form (discovery/).
LEMMA DiscoveryStays == Shape /\ told' = told /\ DiscoveryNext => Stays
<1> SUFFICES ASSUME Shape, told' = told, DiscoveryNext PROVE Stays
  OBVIOUS
<1> USE Sides, FormsKeep
<1>1. CASE HostListens \/ CannotListen
  BY <1>1 DEF HostListens, ClipShareListens, ClipSyncListens, DirSyncListens,
              DeviceListens, Moves, CannotListen
<1>2. CASE NoAddress \/ CannotSearch
  BY <1>2 DEF NoAddress, CannotSearch
<1>3. CASE SearchFails \/ DeviceNotFound \/ ConnectFails
  BY <1>3 DEF SearchFails, DeviceNotFound, ConnectFails, CodeSearch, DeviceSearch
<1>4. CASE UseAddress \/ StartSearch
  BY <1>4 DEF UseAddress, StartSearch, Moves
<1>5. CASE HearPacket \/ ResolveService \/ HearBeacon \/ FallsBack
  BY <1>5 DEF HearPacket, ResolveService, HearBeacon, FallsBack, CodeSearch, DeviceSearch,
              Met, Moves
<1>6. CASE ProbeReachesAgain \/ ProbeFails
  BY <1>6 DEF ProbeReachesAgain, ProbeFails, Probing
<1>7. CASE ServiceWithdrawn
  BY <1>7 DEF ServiceWithdrawn, connection, Stays, Shape, StaysOver, SameUsers
<1>8. CASE ProbeReaches
  <2>1. at["client"] # "over" /\ at["host"] = "listening"
    BY <1>8 DEF ProbeReaches, Probing
  <2>2. at' = [q \in Side |-> at'[q]] /\ at'["client"] = "found" /\ at'["host"] = "over"
    BY <1>8 DEF ProbeReaches, Side
  <2>3. inbox' = inbox /\ SameUsers /\ outcome' = [outcome EXCEPT !["host"] = "failed"]
    BY <1>8 DEF ProbeReaches, SameUsers
  <2>4. outcome' = [q \in Side |-> outcome'[q]] /\ outcome'["client"] = outcome["client"]
    BY <2>3 DEF Shape
  <2>5. StaysOver
    BY <2>1, <2>2, <2>4 DEF StaysOver
  <2> QED BY <2>2, <2>3, <2>4, <2>5 DEF Stays, Shape
<1> QED
  BY <1>1, <1>2, <1>3, <1>4, <1>5, <1>6, <1>7, <1>8 DEF DiscoveryNext

\* A session fails, by itself or at a frame it does not want; frames are lost.
LEMMA EndsStay ==
  ASSUME Shape, told' = told, NEW p \in Side
  PROVE  Unexpected(p) \/ ReadFails(p) \/ Killed(p) \/ FramesLost(p) => Stays
<1> USE Sides, FormsKeep
<1>1. CASE Unexpected(p) \/ ReadFails(p)
  BY <1>1 DEF Unexpected, ReadFails, Reading, Awaits
<1>2. CASE Killed(p)
  BY <1>2 DEF Killed, Connected, After
<1>3. CASE FramesLost(p)
  <2>1. /\ inbox' = [inbox EXCEPT ![p] = <<>>] /\ at' = at /\ outcome' = outcome
        /\ SameUsers
    BY <1>3 DEF FramesLost, SameUsers
  <2> QED BY <2>1 DEF Stays, Shape, StaysOver
<1> QED BY <1>1, <1>2, <1>3

\* The connection begins (Connect).
LEMMA ConnectStays == Shape /\ told' = told /\ Connect => Stays
BY Sides DEF Connect, Stays, Shape, StaysOver, SameUsers

\* The sessions.
LEMMA ClipStays == Shape /\ told' = told /\ ClipNext => Stays
<1> SUFFICES ASSUME Shape, told' = told, ClipNext PROVE Stays
  OBVIOUS
<1> USE Sides, FormsKeep DEF Takes
<1>1. CASE ShareTakesHelloAck \/ ShareChecksCode \/ ShareTakesAnswer
  BY <1>1 DEF ShareTakesHelloAck, ShareChecksCode, ShareTakesAnswer
<1>2. CASE ShareAnswersPing \/ ShareTakesDataAck
  BY <1>2 DEF ShareAnswersPing, ShareTakesDataAck
<1>3. CASE ReceiverTakesHello \/ ReceiverTakesCodeAck
  BY <1>3 DEF ReceiverTakesHello, ReceiverTakesCodeAck
<1>4. CASE TrustedTakesHello \/ TrustedTakesTrustedHello
  BY <1>4 DEF TrustedTakesHello, TrustedTakesTrustedHello
<1>5. CASE ReceiveMetadata \/ SendPing \/ PingAnswered
  BY <1>5 DEF ReceiveMetadata, SendPing, PingAnswered
<1>6. CASE PingFails
  BY <1>6 DEF PingFails, Stays, Shape, StaysOver, SameUsers
<1>7. CASE Accept \/ AcceptAfterDrop \/ Decline
  BY <1>7 DEF Accept, AcceptAfterDrop, Decline
<1>8. CASE ReceiverTakesData \/ ReceiverCompletes
  BY <1>8 DEF ReceiverTakesData, ReceiverCompletes
<1> QED
  BY <1>1, <1>2, <1>3, <1>4, <1>5, <1>6, <1>7, <1>8 DEF ClipNext

\* The steps of a synchronising session leave the users, and what is over.
LEMMA SyncStays == Shape /\ told' = told /\ SyncNext => Stays
<1> SUFFICES ASSUME Shape, told' = told, SyncNext PROVE Stays
  OBVIOUS
<1> USE Sides, FormsKeep DEF Takes, Runs
<1>1. ASSUME NEW type \in Answer, SyncHostTakesAnswer(type) PROVE Stays
  BY <1>1 DEF SyncHostTakesAnswer
<1>2. ASSUME NEW type \in Greeting, SyncClientTakesHello(type) PROVE Stays
  BY <1>2 DEF SyncClientTakesHello
<1>3. CASE SyncHostChecksCode \/ SyncClientTakesCodeAck
  BY <1>3 DEF SyncHostChecksCode, SyncClientTakesCodeAck
<1>4. CASE SyncTrustedTakesTrustedHello \/ SyncTrustedTakesHello
  BY <1>4 DEF SyncTrustedTakesTrustedHello, SyncTrustedTakesHello
<1>5. CASE DirHostTakesHello \/ DirHostTakesInitAck \/ DirClientTakesHelloAck
           \/ DirClientTakesInit
  BY <1>5 DEF DirHostTakesHello, DirHostTakesInitAck, DirClientTakesHelloAck, DirClientTakesInit
<1>6. CASE DirTrustedTakesTrustedHello \/ DirTrustedTakesHello
  BY <1>6 DEF DirTrustedTakesTrustedHello, DirTrustedTakesHello
<1>7. ASSUME NEW p \in Side, ExchangeIndex(p) \/ SyncIgnores(p) \/ SyncEnds(p) PROVE Stays
  BY <1>7 DEF ExchangeIndex, SyncIgnores, SyncEnds
<1> QED
  BY <1>1, <1>2, <1>3, <1>4, <1>5, <1>6, <1>7 DEF SyncNext

\* So do the steps of a trusted transfer.
LEMMA TrustedStays == Shape /\ told' = told /\ TrustedNext => Stays
<1> SUFFICES ASSUME Shape, told' = told, TrustedNext PROVE Stays
  OBVIOUS
<1> USE Sides, FormsKeep DEF Takes
<1>1. CASE SenderTakesHelloAck
  BY <1>1 DEF SenderTakesHelloAck
<1>2. ASSUME NEW i, SendsFrom(i), at["client"] # "over" PROVE Stays
  BY <1>2 DEF SendsFrom
<1>3. CASE SenderTakesListAck
  BY <1>2, <1>3 DEF SenderTakesListAck
<1>4. CASE SenderTakesChunkAck
  BY <1>2, <1>4 DEF SenderTakesChunkAck
<1>5. CASE ReceiverTakesTrustedHello \/ ReceiveFileList \/ AcceptFiles \/ DeclineFiles
  BY <1>5 DEF ReceiverTakesTrustedHello, ReceiveFileList, AcceptFiles, DeclineFiles
<1>6. CASE HandleChunkStart \/ CannotCreate
  BY <1>6 DEF HandleChunkStart, CannotCreate
<1>7. CASE HandleChunkData \/ TakesTransferComplete
  BY <1>7 DEF HandleChunkData, TakesTransferComplete
<1> QED
  BY <1>1, <1>3, <1>4, <1>5, <1>6, <1>7 DEF TrustedNext

\* And so does every step but what a command tells.
LEMMA StepStays == Shape /\ CommandsNext => (told' = told /\ Stays) \/ \E p \in Side : Tell(p)
<1> SUFFICES ASSUME Shape, CommandsNext, told' = told PROVE Stays \/ \E p \in Side : Tell(p)
  BY DEF CommandsNext
<1>1. CASE ConnectingNext
  BY <1>1, DiscoveryStays, ConnectStays, EndsStay, ClipStays, SyncStays, TrustedStays
     DEF ConnectingNext, Breaks, Serves, Refuses
<1>2. CASE ClipCannotBegin \/ DirCannotBegin \/ SendCannotBegin
  BY <1>2, FormsKeep, Sides
     DEF ClipCannotBegin, DirCannotBegin, SendCannotBegin, GivesUp
<1>3. CASE UserCancels
  BY <1>3, FormsKeep, Sides DEF UserCancels
<1> QED BY <1>1, <1>2, <1>3 DEF CommandsNext

(* What a command tells is what became of its session, which stays so.      *)
LEMMA BaseInit == YoopInit => Base
<1> SUFFICES ASSUME YoopInit PROVE Base
  OBVIOUS
<1>1. /\ at = [host |-> "idle", client |-> "idle"] /\ inbox = [p \in Side |-> <<>>]
      /\ outcome = [p \in Side |-> "none"] /\ told = [p \in Side |-> "nothing"]
  BY DEF YoopInit, CommandInit, ConnectingInit, DiscoveryInit
<1>2. at = [p \in Side |-> at[p]]
  BY <1>1 DEF Side
<1> QED BY <1>1, <1>2 DEF Base, Shape, ToldInv

\* Every step keeps it.
LEMMA BaseKept == Base /\ CommandsNext => Base'
<1> SUFFICES ASSUME Base, CommandsNext PROVE Base'
  OBVIOUS
<1>1. CASE told' = told /\ Stays
  BY <1>1 DEF Base, Stays, StaysOver, ToldInv, SameUsers
<1>2. ASSUME NEW p \in Side, Tell(p) PROVE Base'
  <2>1. /\ at' = at /\ inbox' = inbox /\ outcome' = outcome /\ kind' = kind
        /\ at[p] = "over" /\ told' = [told EXCEPT ![p] = Tells(kind[p], outcome[p])]
    BY <1>2 DEF Tell, connectingVars, connection
  <2>2. /\ told' = [q \in Side |-> told'[q]]
        /\ \A q \in Side : told'[q] = IF q = p THEN Tells(kind[p], outcome[p]) ELSE told[q]
    BY <2>1 DEF Base, Shape
  <2>3. Shape'
    BY <2>1, <2>2 DEF Base, Shape
  <2>4. \A q \in Side : told'[q] # "nothing" =>
          at[q] = "over" /\ told'[q] = Tells(kind[q], outcome[q])
    BY <2>1, <2>2 DEF Base, ToldInv
  <2>5. \A q \in Side : Tells(kind[q], outcome[q])' = Tells(kind[q], outcome[q])
    BY <2>1
  <2>6. ToldInv'
    BY <2>1, <2>4, <2>5 DEF ToldInv
  <2> QED BY <2>3, <2>6 DEF Base
<1> QED BY <1>1, <1>2, StepStays DEF Base

\* What a frame says.
LEMMA FrameParts ==
  \A type, says : Frame(type, says).type = type /\ Frame(type, says).says = says
  BY DEF Frame

\* Two frames written one after the other.
LEMMA TwoFrames ==
  ASSUME NEW a, NEW b
  PROVE  <<a>> \o <<b>> = <<a, b>>
<1> DEFINE S == {a, b}
           s == <<a>> \o <<b>>
           t == <<a, b>>
<1>1. <<a>> \in Seq(S) /\ <<b>> \in Seq(S) /\ <<a, b>> \in Seq(S)
  OBVIOUS
<1>2. Len(<<a>>) = 1 /\ Len(<<b>>) = 1 /\ Len(<<a, b>>) = 2
  OBVIOUS
<1>3. /\ <<a>> \o <<b>> \in Seq(S) /\ Len(<<a>> \o <<b>>) = 2
      /\ (<<a>> \o <<b>>)[1] = a /\ (<<a>> \o <<b>>)[2] = b
  BY <1>1, <1>2, ConcatProperties
<1>4. (<<a, b>>)[1] = a /\ (<<a, b>>)[2] = b
  OBVIOUS
<1>5. s \in Seq(S) /\ t \in Seq(S) /\ Len(s) = 2 /\ Len(t) = 2
  BY <1>1, <1>2, <1>3
<1>6. s[1] = t[1] /\ s[2] = t[2]
  BY <1>3, <1>4
<1> HIDE DEF S, s, t
<1>7. s = t
  BY <1>5, <1>6, SeqEqual
<1> QED BY <1>7 DEF s, t

\* Reading and writing lines of one or two frames.
LEMMA Lines ==
  /\ <<>> \o <<>> = <<>>
  /\ \A a : /\ <<a>> # <<>> /\ Head(<<a>>) = a /\ Tail(<<a>>) = <<>>
            /\ <<>> \o <<a>> = <<a>> /\ <<a>> \o <<>> = <<a>>
  /\ \A a, b : /\ <<a, b>> # <<>> /\ Head(<<a, b>>) = a /\ Tail(<<a, b>>) = <<b>>
               /\ <<a>> \o <<b>> = <<a, b>> /\ <<>> \o <<a, b>> = <<a, b>>
               /\ <<a, b>> \o <<>> = <<a, b>>
<1>1. \A a, b : <<a>> \o <<b>> = <<a, b>>
  BY TwoFrames
<1>2. \A a, b : /\ <<a, b>> # <<>> /\ Head(<<a, b>>) = a /\ Tail(<<a, b>>) = <<b>>
                /\ <<>> \o <<a, b>> = <<a, b>> /\ <<a, b>> \o <<>> = <<a, b>>
  OBVIOUS
<1>3. \A a : /\ <<a>> # <<>> /\ Head(<<a>>) = a /\ Tail(<<a>>) = <<>>
            /\ <<>> \o <<a>> = <<a>> /\ <<a>> \o <<>> = <<a>>
  OBVIOUS
<1>4. <<>> \o <<>> = <<>>
  OBVIOUS
<1> QED BY <1>1, <1>2, <1>3, <1>4

\* While both are connected, a step is of a session, or one of them fails.
LEMMA LiveStep ==
  ASSUME Connected("host"), Connected("client"), CommandsNext
  PROVE  \/ (\E p \in Side : Fails(p)) /\ Same /\ NoTransfer
         \/ ClipNext /\ NoTransfer
         \/ SyncNext /\ Same /\ NoTransfer
         \/ TrustedNext /\ Same
<1> USE Sides DEF Connected, Before, After
<1>1. ~DiscoveryNext
  BY DEF DiscoveryNext, HostListens, CannotListen, UseAddress, NoAddress, StartSearch,
         CannotSearch, HearPacket, ResolveService, HearBeacon, SearchFails, FallsBack,
         DeviceNotFound, ProbeReaches, ProbeReachesAgain, ProbeFails, ConnectFails,
         CodeSearch, DeviceSearch, Probing, ServiceWithdrawn
<1>2. ~Connect
  BY DEF Connect
<1>3. ~ClipCannotBegin /\ ~DirCannotBegin /\ ~SendCannotBegin /\ ~UserCancels
  BY DEF ClipCannotBegin, DirCannotBegin, SendCannotBegin, UserCancels, GivesUp
<1>4. \A p \in Side : ~FramesLost(p) /\ ~ReadFails(p) /\ ~Tell(p)
  BY DEF FramesLost, ReadFails, Tell
<1>5. \A p \in Side : Unexpected(p) \/ Killed(p) => Fails(p)
  BY DEF Unexpected, Killed
<1> QED
  BY <1>1, <1>2, <1>3, <1>4, <1>5 DEF CommandsNext, ConnectingNext, Breaks, Serves, Refuses

\* Nobody has connected: no session takes a step.
LEMMA NoSessionYet == Apart => ~ClipNext /\ ~SyncNext /\ ~TrustedNext
<1> SUFFICES ASSUME Apart PROVE ~ClipNext /\ ~SyncNext /\ ~TrustedNext
  OBVIOUS
<1> USE DEF Apart, Before, Takes
<1>1. ~ClipNext
  BY DEF ClipNext, ShareTakesHelloAck, ShareChecksCode, ShareTakesAnswer, ShareAnswersPing,
         ShareTakesDataAck, ReceiverTakesHello, ReceiverTakesCodeAck, TrustedTakesHello,
         TrustedTakesTrustedHello, ReceiveMetadata, SendPing, PingAnswered, PingFails,
         Accept, AcceptAfterDrop, Decline, ReceiverTakesData, ReceiverCompletes
<1>2. ~SyncNext
  BY Sides DEF SyncNext, SyncHostTakesAnswer, SyncHostChecksCode, SyncClientTakesHello,
         SyncClientTakesCodeAck, SyncTrustedTakesTrustedHello, SyncTrustedTakesHello,
         DirHostTakesHello, DirHostTakesInitAck, DirClientTakesHelloAck, DirClientTakesInit,
         DirTrustedTakesTrustedHello, DirTrustedTakesHello, ExchangeIndex, SyncIgnores,
         SyncEnds
<1>3. ~TrustedNext
  BY DEF TrustedNext, SenderTakesHelloAck, SenderTakesListAck, SenderTakesChunkAck,
         ReceiverTakesTrustedHello, ReceiveFileList, AcceptFiles, DeclineFiles,
         HandleChunkStart, CannotCreate, HandleChunkData, TakesTransferComplete
<1> QED BY <1>1, <1>2, <1>3

\* They search, one of them gives up, or they connect.
HostGaveUp ==
  /\ at'["host"] = "over" /\ at'["client"] \in Before
  /\ outcome'["host"] = "failed" /\ outcome'["client"] = outcome["client"]
ClientGaveUp ==
  /\ at'["client"] = "over" /\ at'["host"] = at["host"]
  /\ outcome'["client"] \in {"failed", "no_device", "cancelled"}
  /\ outcome'["host"] = outcome["host"]
NothingOnWay == inbox'["host"] = <<>> /\ inbox'["client"] = <<>>

\* The forms of a step before anyone has connected.
LEMMA ApartForms ==
  ASSUME Shape, Apart
  PROVE  /\ \A next \in Before : Writes("client", <<>>, next) => Apart' /\ outcome' = outcome
         /\ Writes("host", <<>>, "listening") => Apart' /\ outcome' = outcome
         /\ \A result \in {"failed", "no_device", "cancelled"} :
               Ends("client", result, <<>>) => ClientGaveUp /\ NothingOnWay
         /\ Ends("host", "failed", <<>>) => HostGaveUp /\ NothingOnWay
<1>1. ~Connected("host") /\ ~Connected("client")
  BY DEF Apart, Connected, Before
<1>2. ASSUME NEW next \in Before, Writes("client", <<>>, next)
      PROVE  Apart' /\ outcome' = outcome
  <2>1. Goes("client", next, <<>>, inbox["client"])
    BY <1>2 DEF Writes
  <2> QED BY <1>1, <2>1, GoesIs, Sides DEF Apart
<1>3. ASSUME Writes("host", <<>>, "listening")
      PROVE  Apart' /\ outcome' = outcome
  <2>1. Goes("host", "listening", <<>>, inbox["host"])
    BY <1>3 DEF Writes
  <2> QED BY <1>1, <2>1, GoesIs, Sides DEF Apart
<1>4. ASSUME NEW result \in {"failed", "no_device", "cancelled"}, Ends("client", result, <<>>)
      PROVE  ClientGaveUp /\ NothingOnWay
  BY <1>1, <1>4, EndsIs, Sides DEF Apart, ClientGaveUp, NothingOnWay
<1>5. ASSUME Ends("host", "failed", <<>>)
      PROVE  HostGaveUp /\ NothingOnWay
  BY <1>1, <1>5, EndsIs, Sides DEF Apart, HostGaveUp, NothingOnWay
<1> QED BY <1>2, <1>3, <1>4, <1>5

\* Every step before anyone has connected.
LEMMA ApartStep ==
  ASSUME Shape, Apart, CommandsNext
  PROVE  /\ Same /\ NoTransfer
         /\ \/ Apart' /\ outcome' = outcome
            \/ Connect
            \/ (HostGaveUp \/ ClientGaveUp) /\ NothingOnWay
<1>1. \A p \in Side : ~Unexpected(p) /\ ~ReadFails(p) /\ ~FramesLost(p) /\ ~Killed(p) /\ ~Tell(p)
  BY Sides DEF Apart, Before, After, Unexpected, ReadFails, FramesLost, Killed, Connected, Tell
<1>2. CASE DiscoveryNext /\ Same /\ NoTransfer
  <2> USE ApartForms DEF Before, Fails
  <2>1. CASE HostListens \/ CannotListen
    BY <1>2, <2>1 DEF HostListens, CannotListen, ClipShareListens, ClipSyncListens,
                      DirSyncListens, DeviceListens, Moves
  <2>2. CASE NoAddress \/ CannotSearch \/ SearchFails \/ DeviceNotFound \/ ConnectFails
    BY <1>2, <2>2 DEF NoAddress, CannotSearch, SearchFails, DeviceNotFound, ConnectFails
  <2>3. CASE UseAddress \/ StartSearch \/ HearPacket \/ ResolveService \/ HearBeacon
             \/ FallsBack \/ ProbeReachesAgain \/ ProbeFails
    BY <1>2, <2>3 DEF UseAddress, StartSearch, HearPacket, ResolveService, HearBeacon,
         FallsBack, ProbeReachesAgain, ProbeFails, Met, Moves
  <2>4. CASE ServiceWithdrawn
    BY <1>2, <2>4 DEF ServiceWithdrawn, connection, Apart
  <2>5. CASE ProbeReaches
    BY <1>2, <2>5, Sides DEF ProbeReaches, Apart, HostGaveUp, NothingOnWay, Shape
  <2> QED BY <1>2, <2>1, <2>2, <2>3, <2>4, <2>5 DEF DiscoveryNext
<1>3. CASE ClipCannotBegin \/ DirCannotBegin \/ SendCannotBegin \/ UserCancels
  BY <1>3, ApartForms DEF ClipCannotBegin, DirCannotBegin, SendCannotBegin, GivesUp,
                          UserCancels, Fails
<1> QED
  BY <1>1, <1>2, <1>3, NoSessionYet, Sides
     DEF CommandsNext, ConnectingNext, Breaks, Serves, Refuses

-----------------------------------------------------------------------------
(* The handshakes: from row to row.                                         *)

\* The answers that say yes and no.
LEMMA OkSays ==
  /\ CodeIsRight.says /\ CodeIsRight.type = "CodeVerifyAck"
  /\ ~CodeIsWrong.says /\ CodeIsWrong.type = "CodeVerifyAck"
  /\ Taken.says /\ Taken.type = "ClipboardAck"
  /\ ~NotTaken.says /\ NotTaken.type = "ClipboardAck"
  BY DEF CodeIsRight, CodeIsWrong, Taken, NotTaken, CodeVerifyAck, ClipboardAck, Frame

\* Who has gone stays gone.
LEMMA GoneStays == Gone /\ Stays => Gone'
  BY Sides DEF Gone, Stays, StaysOver

\* Who gives up has gone.
LEMMA GivingUpIsGone == HostGaveUp \/ ClientGaveUp => Gone'
  BY DEF HostGaveUp, ClientGaveUp, Gone

\* Who fails or ends has gone.
LEMMA FailsIsGone ==
  ASSUME Shape, NEW p \in Side, NEW result, NEW frames, Fails(p) \/ Ends(p, result, frames)
  PROVE  Gone'
  BY EndsIs, Sides DEF Fails, Gone

\* What a read, with the answer to it, makes of a line.
LEMMA RepliesIs ==
  ASSUME Shape, NEW p \in Side, NEW next, NEW frames, Replies(p, frames, next),
         Connected(Peer(p))
  PROVE  /\ at'[p] = next /\ at'[Peer(p)] = at[Peer(p)]
         /\ inbox'[p] = Tail(inbox[p]) /\ inbox'[Peer(p)] = inbox[Peer(p)] \o frames
         /\ outcome' = outcome
  BY GoesIs DEF Replies

\* While both are connected.
LEMMA Answers ==
  ASSUME Shape, Connected("host"), Connected("client")
  PROVE  /\ \A frames, next : Replies("host", frames, next) =>
               /\ at'["host"] = next /\ at'["client"] = at["client"]
               /\ inbox'["host"] = Tail(inbox["host"])
               /\ inbox'["client"] = inbox["client"] \o frames
               /\ outcome' = outcome
         /\ \A frames, next : Replies("client", frames, next) =>
               /\ at'["client"] = next /\ at'["host"] = at["host"]
               /\ inbox'["client"] = Tail(inbox["client"])
               /\ inbox'["host"] = inbox["host"] \o frames
               /\ outcome' = outcome
  BY RepliesIs, Sides

\* And what a step that goes on makes of both lines.
LEMMA GoOn ==
  ASSUME Shape, Connected("host"), Connected("client"), NEW next, NEW frames, NEW own
  PROVE  /\ Goes("host", next, frames, own) =>
               /\ at'["host"] = next /\ at'["client"] = at["client"]
               /\ inbox'["host"] = own /\ inbox'["client"] = inbox["client"] \o frames
               /\ outcome' = outcome
         /\ Goes("client", next, frames, own) =>
               /\ at'["client"] = next /\ at'["host"] = at["host"]
               /\ inbox'["client"] = own /\ inbox'["host"] = inbox["host"] \o frames
               /\ outcome' = outcome
<1>1. ASSUME NEW p \in Side, Goes(p, next, frames, own)
      PROVE  /\ at'[p] = next /\ at'[Peer(p)] = at[Peer(p)] /\ inbox'[p] = own
             /\ inbox'[Peer(p)] = inbox[Peer(p)] \o frames /\ outcome' = outcome
  <2>1. Connected(Peer(p))
    BY Sides
  <2> QED BY <1>1, <2>1, GoesIs
<1> QED BY <1>1, Sides

\* What a connection begins with: the first frames and the first reads.
LEMMA ConnectIs ==
  ASSUME Connect
  PROVE  /\ at'["host"] = Starts(kind.host).reads /\ at'["client"] = Starts(kind.client).reads
         /\ inbox'["host"] = Starts(kind.client).writes
         /\ inbox'["client"] = Starts(kind.host).writes
         /\ kind' = kind /\ creds' = creds /\ outcome' = outcome
  BY DEF Connect, Side, Peer

\* A directory sync by code: the two handshakes, and the indices that cross.
LEMMA DirLive == DirPair /\ DirRow => Connected("host") /\ Connected("client")
  BY DEF DirRow, Row, Connected, Before, After

\* Its first row.
LEMMA DirConnect == DirPair /\ Connect => DirRow'
<1> SUFFICES ASSUME DirPair, Connect PROVE DirRow'
  OBVIOUS
<1>1. kind.host = "dir_sync" /\ kind.client = "dsync_code"
  BY DEF DirPair, DirSync
<1>2. Row("Hello", "HelloAck", <<Hello("nothing")>>, <<>>)'
  BY <1>1, ConnectIs DEF Starts, Opening, DirHostStarts, DirClientStarts, Row
<1> QED BY <1>2 DEF DirRow

\* From row to row, or to the end of one side.
LEMMA DirStep ==
  ASSUME Shape, DirPair, DirRow, SyncNext
  PROVE  DirRow' \/ Gone'
<1>0. Connected("host") /\ Connected("client")
  BY DirLive
<1>1. kind.host = "dir_sync" /\ kind.client = "dsync_code"
  BY DEF DirPair, DirSync
<1>a. /\ <<SyncInitAck>> \o Index = <<SyncInitAck, SyncIndex>>
      /\ <<SyncIndex>> \o <<SyncIndexAck>> = <<SyncIndex, SyncIndexAck>>
  BY TwoFrames DEF Index
<1>b. /\ <<SyncIndexAck>> \o <<>> = <<SyncIndexAck>> /\ <<>> \o <<>> = <<>>
      /\ <<>> \o <<SyncIndexAck>> = <<SyncIndexAck>>
      /\ <<>> \o <<SyncInitAck, SyncIndex>> = <<SyncInitAck, SyncIndex>>
  BY Lines
<1> USE Sides, Answers DEF Row
<1>2. CASE DirHostTakesHello
  <2>1. Row("Hello", "HelloAck", <<Hello("nothing")>>, <<>>)
    BY <1>2 DEF DirHostTakesHello, DirRow, Takes
  <2>2. Row("SyncInitAck", "HelloAck", <<>>, <<HelloAck("nothing"), SyncInit>>)'
    BY <1>0, <1>2, <2>1 DEF DirHostTakesHello
  <2> QED BY <2>2 DEF DirRow
<1>3. CASE DirHostTakesInitAck
  <2>1. Row("SyncInitAck", "SyncIndex", <<SyncInitAck, SyncIndex>>, <<>>)
    BY <1>3 DEF DirHostTakesInitAck, DirRow, Takes
  <2>2. Row("SyncIndex", "SyncIndex", <<SyncIndex>>, <<SyncIndex>>)'
    BY <1>0, <1>3, <2>1 DEF DirHostTakesInitAck, Index
  <2> QED BY <2>2 DEF DirRow
<1>4. CASE DirClientTakesHelloAck
  <2>1. Row("SyncInitAck", "HelloAck", <<>>, <<HelloAck("nothing"), SyncInit>>)
    BY <1>4 DEF DirClientTakesHelloAck, DirRow, Takes
  <2>2. Row("SyncInitAck", "SyncInit", <<>>, <<SyncInit>>)'
    BY <1>0, <1>4, <2>1 DEF DirClientTakesHelloAck
  <2> QED BY <2>2 DEF DirRow
<1>5. CASE DirClientTakesInit
  <2>0. Replies("client", <<SyncInitAck, SyncIndex>>, "SyncIndex")
    BY <1>5, <1>a, Zenon DEF DirClientTakesInit
  <2>1. Row("SyncInitAck", "SyncInit", <<>>, <<SyncInit>>)
    BY <1>5 DEF DirClientTakesInit, DirRow, Takes
  <2>2. Row("SyncInitAck", "SyncIndex", <<SyncInitAck, SyncIndex>>, <<>>)'
    BY <1>0, <1>b, <1>5, <2>0, <2>1
  <2> QED BY <2>2 DEF DirRow
<1>6. CASE ExchangeIndex("host")
  <2>1. CASE at["host"] = "SyncIndex"
    <3>1. Replies("host", <<SyncIndexAck>>, "SyncIndexAck")
      BY <1>6, <2>1 DEF ExchangeIndex, Takes
    <3>2. \/ Row("SyncIndex", "SyncIndex", <<SyncIndex>>, <<SyncIndex>>)
          \/ Row("SyncIndex", "SyncIndexAck", <<SyncIndex, SyncIndexAck>>, <<>>)
      BY <2>1 DEF DirRow
    <3>3. CASE Row("SyncIndex", "SyncIndex", <<SyncIndex>>, <<SyncIndex>>)
      <4>1. Row("SyncIndexAck", "SyncIndex", <<>>, <<SyncIndex, SyncIndexAck>>)'
        BY <1>0, <1>a, <1>b, <3>1, <3>3
      <4> QED BY <4>1 DEF DirRow
    <3>4. CASE Row("SyncIndex", "SyncIndexAck", <<SyncIndex, SyncIndexAck>>, <<>>)
      <4>1. Row("SyncIndexAck", "SyncIndexAck", <<SyncIndexAck>>, <<SyncIndexAck>>)'
        BY <1>0, <1>a, <1>b, <3>1, <3>4
      <4> QED BY <4>1 DEF DirRow
    <3> QED BY <3>2, <3>3, <3>4
  <2>2. CASE at["host"] # "SyncIndex"
    <3>1. at["host"] = "SyncIndexAck" /\ Replies("host", <<>>, "runs") /\ inbox["host"] # <<>>
      BY <1>6, <2>2 DEF ExchangeIndex, Runs, Takes
    <3>2. \/ Row("SyncIndexAck", "SyncIndexAck", <<SyncIndexAck>>, <<SyncIndexAck>>)
          \/ Row("SyncIndexAck", "runs", <<SyncIndexAck>>, <<>>)
      BY <3>1 DEF DirRow
    <3>3. CASE Row("SyncIndexAck", "SyncIndexAck", <<SyncIndexAck>>, <<SyncIndexAck>>)
      <4>1. Row("runs", "SyncIndexAck", <<>>, <<SyncIndexAck>>)'
        BY <1>0, <1>a, <1>b, <3>1, <3>3
      <4> QED BY <4>1 DEF DirRow
    <3>4. CASE Row("SyncIndexAck", "runs", <<SyncIndexAck>>, <<>>)
      <4>1. Row("runs", "runs", <<>>, <<>>)'
        BY <1>0, <1>a, <1>b, <3>1, <3>4
      <4> QED BY <4>1 DEF DirRow
    <3> QED BY <3>2, <3>3, <3>4
  <2> QED BY <2>1, <2>2
<1>7. CASE ExchangeIndex("client")
  <2>1. CASE at["client"] = "SyncIndex"
    <3>1. /\ Replies("client", <<SyncIndexAck>>, "SyncIndexAck") /\ inbox["client"] # <<>>
      BY <1>7, <2>1 DEF ExchangeIndex, Takes
    <3>2. \/ Row("SyncIndex", "SyncIndex", <<SyncIndex>>, <<SyncIndex>>)
          \/ Row("SyncIndexAck", "SyncIndex", <<>>, <<SyncIndex, SyncIndexAck>>)
      BY <2>1, <3>1 DEF DirRow
    <3>3. CASE Row("SyncIndex", "SyncIndex", <<SyncIndex>>, <<SyncIndex>>)
      <4>1. Row("SyncIndex", "SyncIndexAck", <<SyncIndex, SyncIndexAck>>, <<>>)'
        BY <1>0, <1>a, <1>b, <3>1, <3>3
      <4> QED BY <4>1 DEF DirRow
    <3>4. CASE Row("SyncIndexAck", "SyncIndex", <<>>, <<SyncIndex, SyncIndexAck>>)
      <4>1. Row("SyncIndexAck", "SyncIndexAck", <<SyncIndexAck>>, <<SyncIndexAck>>)'
        BY <1>0, <1>a, <1>b, <3>1, <3>4
      <4> QED BY <4>1 DEF DirRow
    <3> QED BY <3>2, <3>3, <3>4
  <2>2. CASE at["client"] # "SyncIndex"
    <3>1. /\ at["client"] = "SyncIndexAck" /\ Replies("client", <<>>, "runs")
          /\ inbox["client"] # <<>>
      BY <1>7, <2>2 DEF ExchangeIndex, Runs, Takes
    <3>2. \/ Row("SyncIndexAck", "SyncIndexAck", <<SyncIndexAck>>, <<SyncIndexAck>>)
          \/ Row("runs", "SyncIndexAck", <<>>, <<SyncIndexAck>>)
      BY <3>1 DEF DirRow
    <3>3. CASE Row("SyncIndexAck", "SyncIndexAck", <<SyncIndexAck>>, <<SyncIndexAck>>)
      <4>1. Row("SyncIndexAck", "runs", <<SyncIndexAck>>, <<>>)'
        BY <1>0, <1>a, <1>b, <3>1, <3>3
      <4> QED BY <4>1 DEF DirRow
    <3>4. CASE Row("runs", "SyncIndexAck", <<>>, <<SyncIndexAck>>)
      <4>1. Row("runs", "runs", <<>>, <<>>)'
        BY <1>0, <1>a, <1>b, <3>1, <3>4
      <4> QED BY <4>1 DEF DirRow
    <3> QED BY <3>2, <3>3, <3>4
  <2> QED BY <2>1, <2>2
<1>8. \A p \in Side : ~SyncIgnores(p) /\ ~SyncEnds(p)
  <2>1. \A p \in Side : at[p] = "runs" => inbox[p] = <<>>
    BY DEF DirRow
  <2>2. \A p \in Side : at[p] \notin After
    BY <1>0 DEF Connected
  <2> QED BY <2>1, <2>2 DEF SyncIgnores, SyncEnds
<1> QED
  BY <1>1, <1>2, <1>3, <1>4, <1>5, <1>6, <1>7, <1>8
     DEF SyncNext, SyncHostTakesAnswer, SyncHostChecksCode, SyncClientTakesHello,
         SyncClientTakesCodeAck, SyncTrustedTakesTrustedHello, SyncTrustedTakesHello,
         DirTrustedTakesTrustedHello, DirTrustedTakesHello, ClipSync

\* A clipboard sync with a device the host trusts.
LEMMA TrustedSyncLive == TrustedSyncPair /\ TrustedSyncRow => Connected("host") /\ Connected("client")
  BY DEF TrustedSyncRow, Row, Connected, Before, After

\* Its first row.
LEMMA TrustedSyncConnect == TrustedSyncPair /\ Connect => TrustedSyncRow'
<1> SUFFICES ASSUME TrustedSyncPair, Connect PROVE TrustedSyncRow'
  OBVIOUS
<1>1. kind.host = "clip_sync" /\ kind.client = "csync_trusted"
  BY DEF TrustedSyncPair, ClipSync
<1>2. Row("Answer", "Greeting", <<>>, <<TrustedHello("host")>>)'
  BY <1>1, ConnectIs DEF Starts, Opening, SyncHostStarts, SyncTrustedStarts, Row
<1> QED BY <1>2 DEF TrustedSyncRow

\* From row to row, or to the end of one side.
LEMMA TrustedSyncStep ==
  ASSUME Shape, TrustedSyncPair, TrustedSyncRow, SyncNext
  PROVE  TrustedSyncRow' \/ Gone'
<1>0. Connected("host") /\ Connected("client")
  BY TrustedSyncLive
<1>1. kind.host = "clip_sync" /\ kind.client = "csync_trusted" /\ creds.known
  BY DEF TrustedSyncPair, ClipSync
<1> USE Sides, Answers DEF Row
<1>2. CASE SyncTrustedTakesTrustedHello
  <2>1. Row("Answer", "Greeting", <<>>, <<TrustedHello("host")>>)
    BY <1>2 DEF SyncTrustedTakesTrustedHello, TrustedSyncRow, Takes
  <2>2. CASE creds.expected
    <3>1. Row("Answer", "runs", <<TrustedHelloAck("client")>>, <<>>)'
      BY <1>0, <1>2, <2>1, <2>2, Lines DEF SyncTrustedTakesTrustedHello, Runs
    <3> QED BY <3>1 DEF TrustedSyncRow
  <2>3. CASE ~creds.expected
    BY <1>2, <2>3, FailsIsGone DEF SyncTrustedTakesTrustedHello
  <2> QED BY <2>2, <2>3
<1>3. ASSUME NEW type \in Answer, SyncHostTakesAnswer(type)
      PROVE  TrustedSyncRow'
  <2>1. Row("Answer", "runs", <<TrustedHelloAck("client")>>, <<>>)
    BY <1>3, FrameParts DEF SyncHostTakesAnswer, TrustedSyncRow, Takes
  <2>2. Saying("host") = "client"
    BY <2>1, Lines, FrameParts DEF Saying, TrustedHelloAck
  <2>3. Replies("host", <<>>, "runs")
    BY <1>1, <1>3, <2>2 DEF SyncHostTakesAnswer, Trusts, Runs
  <2>4. Row("runs", "runs", <<>>, <<>>)'
    BY <1>0, <2>1, <2>3, Lines
  <2> QED BY <2>4 DEF TrustedSyncRow
<1>4. ~SyncHostChecksCode /\ ~SyncTrustedTakesHello
  BY FrameParts, Lines
     DEF SyncHostChecksCode, SyncTrustedTakesHello, TrustedSyncRow, Takes, TrustedHello
<1>5. \A p \in Side : ~SyncIgnores(p) /\ ~SyncEnds(p) /\ ~ExchangeIndex(p)
  <2>1. \A p \in Side : at[p] = "runs" => inbox[p] = <<>>
    BY DEF TrustedSyncRow
  <2>2. \A p \in Side : at[p] \notin After /\ at[p] \notin {"SyncIndex", "SyncIndexAck"}
    BY <1>0 DEF Connected, TrustedSyncRow
  <2> QED BY <2>1, <2>2 DEF SyncIgnores, SyncEnds, ExchangeIndex, Takes
<1> QED
  BY <1>1, <1>2, <1>3, <1>4, <1>5
     DEF SyncNext, SyncClientTakesHello, SyncClientTakesCodeAck,
         DirHostTakesHello, DirHostTakesInitAck, DirSync, DirClientTakesHelloAck,
         DirClientTakesInit, DirTrustedTakesTrustedHello, DirTrustedTakesHello

\* And one with a client that shows the code.
LEMMA CodeSyncLive == CodeSyncPair /\ CodeSyncRow => Connected("host") /\ Connected("client")
  BY DEF CodeSyncRow, Row, Connected, Before, After

\* Its first row.
LEMMA CodeSyncConnect == CodeSyncPair /\ Connect => CodeSyncRow'
<1> SUFFICES ASSUME CodeSyncPair, Connect PROVE CodeSyncRow'
  OBVIOUS
<1>1. kind.host = "clip_sync" /\ kind.client = "csync_code"
  BY DEF CodeSyncPair, ClipSync
<1>2. Row("Answer", "Greeting", <<>>, <<TrustedHello("host")>>)'
  BY <1>1, ConnectIs DEF Starts, Opening, SyncHostStarts, SyncClientStarts, Row
<1> QED BY <1>2 DEF CodeSyncRow

\* From row to row, or to the end of one side.
LEMMA CodeSyncStep ==
  ASSUME Shape, SameUsers, CodeSyncPair, CodeSyncRow, SyncNext
  PROVE  CodeSyncRow' \/ Gone'
<1>0. Connected("host") /\ Connected("client")
  BY CodeSyncLive
<1>1. kind.host = "clip_sync" /\ kind.client = "csync_code" /\ ~creds.known
  BY DEF CodeSyncPair, ClipSync
<1>c. Code' = Code
  BY DEF SameUsers, Code, CodeVerify, Frame
<1> USE Sides, Answers DEF Row
<1>2. ASSUME NEW type \in Greeting, SyncClientTakesHello(type) PROVE CodeSyncRow'
  <2>1. Row("Answer", "Greeting", <<>>, <<TrustedHello("host")>>)
    BY <1>2 DEF SyncClientTakesHello, CodeSyncRow, Takes
  <2>2. type = "TrustedHello"
    BY <1>2, <2>1, Lines, FrameParts DEF SyncClientTakesHello, Takes, TrustedHello
  <2>3. Replies("client", <<HelloAck("client"), Code>>, "CodeVerifyAck")
    BY <1>2, <2>2 DEF SyncClientTakesHello, Code
  <2>4. Row("Answer", "CodeVerifyAck", <<HelloAck("client"), Code>>, <<>>)'
    BY <1>0, <1>c, <2>1, <2>3, Lines
  <2> QED BY <2>4 DEF CodeSyncRow
<1>3. ASSUME NEW type \in Answer, SyncHostTakesAnswer(type) PROVE CodeSyncRow'
  <2>1. Row("Answer", "CodeVerifyAck", <<HelloAck("client"), Code>>, <<>>)
    BY <1>3 DEF SyncHostTakesAnswer, CodeSyncRow, Takes
  <2>2. Replies("host", <<>>, "CodeVerify")
    BY <1>1, <1>3 DEF SyncHostTakesAnswer, Trusts
  <2>3. Row("CodeVerify", "CodeVerifyAck", <<Code>>, <<>>)'
    BY <1>0, <1>c, <2>1, <2>2, Lines
  <2> QED BY <2>3 DEF CodeSyncRow
<1>4. CASE SyncHostChecksCode
  <2>1. Row("CodeVerify", "CodeVerifyAck", <<Code>>, <<>>)
    BY <1>4 DEF SyncHostChecksCode, CodeSyncRow, Takes
  <2>2. CASE Saying("host")
    <3>1. Replies("host", <<CodeIsRight>>, "runs")
      BY <1>4, <2>2 DEF SyncHostChecksCode, Runs, CodeIsRight
    <3>2. Row("runs", "CodeVerifyAck", <<>>, <<CodeIsRight>>)'
      BY <1>0, <2>1, <3>1, Lines
    <3> QED BY <3>2 DEF CodeSyncRow
  <2>3. CASE ~Saying("host")
    BY <1>4, <2>3, FailsIsGone DEF SyncHostChecksCode
  <2> QED BY <2>2, <2>3
<1>5. CASE SyncClientTakesCodeAck
  <2>1. \/ Row("runs", "CodeVerifyAck", <<>>, <<CodeIsRight>>)
        \/ Row("Answer", "CodeVerifyAck", <<HelloAck("client"), Code>>, <<>>)
        \/ Row("CodeVerify", "CodeVerifyAck", <<Code>>, <<>>)
    BY <1>5 DEF SyncClientTakesCodeAck, CodeSyncRow, Takes
  <2>2. Row("runs", "CodeVerifyAck", <<>>, <<CodeIsRight>>)
    BY <1>5, <2>1 DEF SyncClientTakesCodeAck, Takes
  <2>3. Saying("client")
    BY <2>2, Lines, OkSays DEF Saying
  <2>4. Replies("client", <<>>, "runs")
    BY <1>5, <2>3 DEF SyncClientTakesCodeAck, Runs
  <2>5. Row("runs", "runs", <<>>, <<>>)'
    BY <1>0, <2>2, <2>4, Lines
  <2> QED BY <2>5 DEF CodeSyncRow
<1>6. \A p \in Side : ~SyncIgnores(p) /\ ~SyncEnds(p) /\ ~ExchangeIndex(p)
  <2>1. \A p \in Side : at[p] = "runs" => inbox[p] = <<>>
    BY DEF CodeSyncRow
  <2>2. \A p \in Side : at[p] \notin After /\ at[p] \notin {"SyncIndex", "SyncIndexAck"}
    BY <1>0 DEF Connected, CodeSyncRow
  <2> QED BY <2>1, <2>2 DEF SyncIgnores, SyncEnds, ExchangeIndex, Takes
<1> QED
  BY <1>1, <1>2, <1>3, <1>4, <1>5, <1>6
     DEF SyncNext, SyncTrustedTakesTrustedHello, SyncTrustedTakesHello,
         DirHostTakesHello, DirHostTakesInitAck, DirSync, DirClientTakesHelloAck,
         DirClientTakesInit, DirTrustedTakesTrustedHello, DirTrustedTakesHello

\* What a command tells changes nothing of the connection.
LEMMA TellKeeps ==
  ASSUME NEW p \in Side, Tell(p)
  PROVE  /\ UNCHANGED <<kind, creds, at, inbox, outcome, copied, pings>>
         /\ UNCHANGED <<tree, files, sending, writing, flight, out>>
  BY DEF Tell, connectingVars, connection, clipVars, trustedVars

\* The sessions of the others take no step.
LEMMA OthersClip ==
  ~Sharing /\ ~Copying /\ at["client"] # "pinging" => ~ClipNext
  BY DEF ClipNext, ShareTakesHelloAck, ShareChecksCode, ShareTakesAnswer, ShareAnswersPing,
         ShareTakesDataAck, ReceiverTakesHello, ReceiverTakesCodeAck, TrustedTakesHello,
         TrustedTakesTrustedHello, ReceiveMetadata, SendPing, PingAnswered, PingFails,
         Accept, AcceptAfterDrop, Decline, ReceiverTakesData, ReceiverCompletes, Copying

\* Without a sender and a receiver no step of a trusted transfer is taken.
LEMMA OthersTrusted == ~Sending /\ ~Receiving => ~TrustedNext
  BY DEF TrustedNext, SenderTakesHelloAck, SenderTakesListAck, SenderTakesChunkAck,
         ReceiverTakesTrustedHello, ReceiveFileList, AcceptFiles, DeclineFiles,
         HandleChunkStart, CannotCreate, HandleChunkData, TakesTransferComplete

\* Nor is one of a synchronising session, without its host and client.
LEMMA OthersSync ==
  /\ ~ClipSync /\ ~DirSync
  /\ kind.client \notin {"csync_code", "csync_trusted", "dsync_code", "dsync_trusted"}
  /\ \A p \in Side : at[p] \notin {"SyncIndex", "SyncIndexAck", "runs"}
  => ~SyncNext
  BY Sides
     DEF SyncNext, SyncHostTakesAnswer, SyncHostChecksCode, SyncClientTakesHello,
         SyncClientTakesCodeAck, SyncTrustedTakesTrustedHello, SyncTrustedTakesHello,
         DirHostTakesHello, DirHostTakesInitAck, DirClientTakesHelloAck, DirClientTakesInit,
         DirTrustedTakesTrustedHello, DirTrustedTakesHello, ExchangeIndex, SyncIgnores,
         SyncEnds, Takes

\* From before the connection: on searching, connected, or one has gone.
LEMMA ApartOn ==
  ASSUME Shape, Apart, CommandsNext
  PROVE  Apart' \/ Connect \/ Gone'
  BY ApartStep, GivingUpIsGone

\* A side that has gone has gone after every step.
LEMMA GoneOn ==
  ASSUME Shape, Gone, CommandsNext
  PROVE  Gone'
  BY StepStays, GoneStays, TellKeeps DEF Gone

\* Which sessions have met does not change.
LEMMA PairStays ==
  ASSUME Shape, CommandsNext
  PROVE  /\ DirPair' = DirPair /\ TrustedSyncPair' = TrustedSyncPair
         /\ CodeSyncPair' = CodeSyncPair /\ CopyPair' = CopyPair /\ SendPair' = SendPair
         /\ SameUsers
<1>1. SameUsers
  BY StepStays, TellKeeps DEF Stays, SameUsers
<1> QED
  BY <1>1 DEF SameUsers, DirPair, TrustedSyncPair, CodeSyncPair, CopyPair, SendPair, DirSync,
              ClipSync, Sharing, Sending, Receiving

\* The handshakes of the synchronising sessions go on, or one side has gone.
LEMMA DirKept ==
  ASSUME Shape, DirPair, Apart \/ DirRow \/ Gone, CommandsNext
  PROVE  Apart' \/ DirRow' \/ Gone'
<1>1. CASE DirRow
  <2>1. at["client"] # "pinging"
    BY <1>1 DEF DirRow, Row
  <2>2. ~ClipNext /\ ~TrustedNext
    BY <2>1, OthersClip, OthersTrusted
       DEF DirPair, DirSync, Sharing, Copying, Sending, Receiving
  <2> QED BY <1>1, <2>2, DirLive, LiveStep, DirStep, FailsIsGone
<1> QED BY <1>1, ApartOn, GoneOn, DirConnect

\* A clipboard sync with a trusted device.
LEMMA TrustedSyncKept ==
  ASSUME Shape, TrustedSyncPair, Apart \/ TrustedSyncRow \/ Gone, CommandsNext
  PROVE  Apart' \/ TrustedSyncRow' \/ Gone'
<1>1. CASE TrustedSyncRow
  <2>1. at["client"] # "pinging"
    BY <1>1 DEF TrustedSyncRow, Row
  <2>2. ~ClipNext /\ ~TrustedNext
    BY <2>1, OthersClip, OthersTrusted
       DEF TrustedSyncPair, ClipSync, Sharing, Copying, Sending, Receiving
  <2> QED BY <1>1, <2>2, TrustedSyncLive, LiveStep, TrustedSyncStep, FailsIsGone
<1> QED BY <1>1, ApartOn, GoneOn, TrustedSyncConnect

\* A clipboard sync by code.
LEMMA CodeSyncKept ==
  ASSUME Shape, CodeSyncPair, Apart \/ CodeSyncRow \/ Gone, CommandsNext
  PROVE  Apart' \/ CodeSyncRow' \/ Gone'
<1>1. CASE CodeSyncRow
  <2>1. at["client"] # "pinging"
    BY <1>1 DEF CodeSyncRow, Row
  <2>2. ~ClipNext /\ ~TrustedNext
    BY <2>1, OthersClip, OthersTrusted
       DEF CodeSyncPair, ClipSync, Sharing, Copying, Sending, Receiving
  <2> QED BY <1>1, <2>2, CodeSyncLive, LiveStep, CodeSyncStep, FailsIsGone, PairStays
<1> QED BY <1>1, ApartOn, GoneOn, CodeSyncConnect

\* All three of them.
LEMMA HandshakeKept ==
  ASSUME Shape, HandshakeInv, CommandsNext
  PROVE  HandshakeInv'
<1>1. DirPair' => Apart' \/ DirRow' \/ Gone'
  BY PairStays, DirKept DEF HandshakeInv
<1>2. TrustedSyncPair' => Apart' \/ TrustedSyncRow' \/ Gone'
  BY PairStays, TrustedSyncKept DEF HandshakeInv
<1>3. CodeSyncPair' => Apart' \/ CodeSyncRow' \/ Gone'
  BY PairStays, CodeSyncKept DEF HandshakeInv
<1> QED BY <1>1, <1>2, <1>3 DEF HandshakeInv

-----------------------------------------------------------------------------
(* The clipboard copy.                                                      *)

\* A client whose host is over reads what was written, and ends.
CopyingAlone ==
  /\ at'["host"] = "over" /\ outcome'["host"] = outcome["host"]
  /\ \/ inbox'["client"] \in {<<>>, inbox["client"]}
     \/ inbox["client"] # <<>> /\ inbox'["client"] = Tail(inbox["client"])
  /\ outcome'["client"] = "ok" =>
       \/ outcome["client"] = "ok"
       \/ inbox["client"] # <<>> /\ Head(inbox["client"]).type = "TransferComplete"
  /\ outcome'["client"] = "declined" =>
       outcome["client"] = "declined" \/ at["client"] \in {"offered", "dropped"}
  /\ at["client"] \in {"TransferComplete", "over"} =>
       at'["client"] \in {"TransferComplete", "over"}
  /\ NotSyncing("client")'
  /\ copied # "nothing" => copied' # "nothing"

\* The forms of its step.
LEMMA AloneForms ==
  ASSUME Shape, at["host"] = "over", copied' = copied \/ copied' # "nothing",
         NEW frames, NEW next, NEW result, next \notin {"runs", "SyncIndex", "SyncIndexAck"},
         at["client"] \in {"TransferComplete", "over"} => next \in {"TransferComplete", "over"}
  PROVE  /\ Writes("client", frames, next) => CopyingAlone
         /\ Replies("client", frames, next) /\ inbox["client"] # <<>> => CopyingAlone
         /\ /\ Ends("client", result, frames)
            /\ result = "ok" =>
                 inbox["client"] # <<>> /\ Head(inbox["client"]).type = "TransferComplete"
            /\ result = "declined" => at["client"] \in {"offered", "dropped"}
            => CopyingAlone
<1>1. ASSUME NEW own, Goes("client", next, frames, own),
             own = inbox["client"] \/ (inbox["client"] # <<>> /\ own = Tail(inbox["client"]))
      PROVE  CopyingAlone
  <2>1. /\ at'["client"] = next /\ at'["host"] = "over" /\ inbox'["client"] = own
        /\ outcome' = outcome
    BY <1>1, GoesIs, Sides
  <2> QED BY <1>1, <2>1 DEF CopyingAlone, NotSyncing
<1>2. ASSUME Ends("client", result, frames),
             result = "ok" =>
               inbox["client"] # <<>> /\ Head(inbox["client"]).type = "TransferComplete",
             result = "declined" => at["client"] \in {"offered", "dropped"}
      PROVE  CopyingAlone
  <2>1. /\ at'["client"] = "over" /\ at'["host"] = "over" /\ inbox'["client"] = <<>>
        /\ outcome'["client"] = result /\ outcome'["host"] = outcome["host"]
    BY <1>2, EndsIs, Sides
  <2> QED BY <1>2, <2>1 DEF CopyingAlone, NotSyncing
<1> QED BY <1>1, <1>2 DEF Writes, Replies

\* The client was still searching.
LEMMA AloneSearch ==
  ASSUME Shape, at["host"] = "over", NotSyncing("client"), Same, DiscoveryNext
  PROVE  CopyingAlone
<1>0. copied' = copied
  BY DEF Same, clipVars
<1> USE <1>0, AloneForms
<1>1. ~HostListens /\ ~CannotListen /\ ~ProbeReaches /\ ~ProbeReachesAgain
  BY DEF HostListens, CannotListen, ProbeReaches, ProbeReachesAgain
<1>2. CASE NoAddress \/ CannotSearch
  BY <1>2 DEF NoAddress, CannotSearch, Fails
<1>3. CASE SearchFails \/ DeviceNotFound \/ ConnectFails
  BY <1>3 DEF SearchFails, DeviceNotFound, ConnectFails, Fails
<1>4. CASE UseAddress \/ StartSearch
  BY <1>4 DEF UseAddress, StartSearch, Moves
<1>5. CASE HearPacket \/ ResolveService \/ HearBeacon \/ FallsBack
  BY <1>5 DEF HearPacket, ResolveService, HearBeacon, FallsBack, CodeSearch, DeviceSearch,
              Met, Moves
<1>6. CASE ProbeFails
  BY <1>6 DEF ProbeFails, Probing, Fails
<1>7. CASE ServiceWithdrawn
  BY <1>7 DEF ServiceWithdrawn, connection, CopyingAlone, NotSyncing
<1> QED
  BY <1>1, <1>2, <1>3, <1>4, <1>5, <1>6, <1>7 DEF DiscoveryNext

\* The client ends, or something breaks.
LEMMA AloneEnds ==
  ASSUME Shape, at["host"] = "over", NotSyncing("client"), Same,
         NEW p \in Side, Unexpected(p) \/ ReadFails(p) \/ Killed(p) \/ FramesLost(p)
  PROVE  CopyingAlone
<1>0. copied' = copied
  BY DEF Same, clipVars
<1>1. CASE FramesLost(p)
  <2>1. /\ inbox' = [inbox EXCEPT ![p] = <<>>] /\ at' = at /\ outcome' = outcome
    BY <1>1 DEF FramesLost
  <2>2. inbox'["client"] \in {<<>>, inbox["client"]}
    BY <2>1, Sides DEF Shape
  <2> QED BY <1>0, <2>1, <2>2 DEF CopyingAlone, NotSyncing
<1>2. CASE Fails(p) /\ at[p] # "over"
  <2>1. p = "client"
    BY <1>2, Sides
  <2> QED BY <1>0, <1>2, <2>1, AloneForms DEF Fails
<1> QED
  BY <1>1, <1>2 DEF Unexpected, ReadFails, Killed, Connected, After, Reading, Awaits

\* The client reads on in the copy.
LEMMA AloneCopies ==
  ASSUME Shape, at["host"] = "over", NotSyncing("client"), ClipNext
  PROVE  CopyingAlone
<1> USE AloneForms DEF Takes, Same, clipVars
<1>1. /\ ~ShareTakesHelloAck /\ ~ShareChecksCode /\ ~ShareTakesAnswer /\ ~ShareAnswersPing
      /\ ~ShareTakesDataAck
  BY DEF ShareTakesHelloAck, ShareChecksCode, ShareTakesAnswer, ShareAnswersPing,
         ShareTakesDataAck
<1>2. CASE ReceiverTakesHello \/ ReceiverTakesCodeAck
  BY <1>2 DEF ReceiverTakesHello, ReceiverTakesCodeAck, Fails
<1>3. CASE TrustedTakesHello \/ TrustedTakesTrustedHello
  BY <1>3 DEF TrustedTakesHello, TrustedTakesTrustedHello, Fails
<1>4. CASE ReceiveMetadata \/ SendPing \/ PingAnswered
  BY <1>4 DEF ReceiveMetadata, SendPing, PingAnswered
<1>5. CASE PingFails
  BY <1>5, Sides DEF PingFails, CopyingAlone, NotSyncing, Shape
<1>6. CASE Accept \/ AcceptAfterDrop \/ Decline
  BY <1>6 DEF Accept, AcceptAfterDrop, Decline, Fails
<1>7. CASE ReceiverTakesData
  BY <1>7 DEF ReceiverTakesData
<1>8. CASE ReceiverCompletes
  BY <1>8 DEF ReceiverCompletes
<1> QED
  BY <1>1, <1>2, <1>3, <1>4, <1>5, <1>6, <1>7, <1>8 DEF ClipNext

\* Every step of the client that is alone.
LEMMA AloneStep ==
  ASSUME Shape, Sharing, Copying, at["host"] = "over", NotSyncing("client"), CommandsNext
  PROVE  CopyingAlone
<1>1. ~SyncNext /\ ~TrustedNext /\ ~Connect
  <2>1. \A p \in Side : at[p] \notin {"SyncIndex", "SyncIndexAck", "runs"}
    BY Sides DEF NotSyncing
  <2> QED
    BY <2>1, OthersSync, OthersTrusted
       DEF Connect, ClipSync, DirSync, Sharing, Copying, Sending, Receiving
<1>2. ~UserCancels
  BY DEF UserCancels, Copying
<1>3. CASE (\E p \in Side : Tell(p))
  <2>1. UNCHANGED <<at, inbox, outcome, copied>>
    BY <1>3, TellKeeps
  <2> QED BY <2>1 DEF CopyingAlone, NotSyncing
<1>4. CASE ClipCannotBegin \/ DirCannotBegin \/ SendCannotBegin
  <2>1. Fails("client") /\ copied' = copied
    BY <1>4 DEF ClipCannotBegin, DirCannotBegin, SendCannotBegin, GivesUp, Same, clipVars
  <2> QED BY <2>1, AloneForms DEF Fails
<1> QED
  BY <1>1, <1>2, <1>3, <1>4, AloneSearch, AloneEnds, AloneCopies
     DEF CommandsNext, ConnectingNext, Serves, Breaks, Refuses

\* Reading on in a line without an end meets none.
LEMMA NotCompleteRead ==
  ASSUME NEW S, NEW q \in Seq(S), NotComplete(q), q # <<>>
  PROVE  Head(q).type # "TransferComplete" /\ NotComplete(Tail(q))
<1>1. Len(q) \in Nat /\ Len(q) > 0 /\ Head(q) = q[1]
  OBVIOUS
<1>2. Len(Tail(q)) = Len(q) - 1 /\ \A i \in 1..Len(Tail(q)) : Tail(q)[i] = q[i + 1]
  BY <1>1
<1>3. \A i \in 1..Len(Tail(q)) : i + 1 \in 1..Len(q)
  BY <1>1, <1>2
<1>4. 1 \in 1..Len(q)
  BY <1>1
<1> QED BY <1>1, <1>2, <1>3, <1>4 DEF NotComplete

\* Lines of one or two frames without an end.
LEMMA NotCompleteLines ==
  /\ NotComplete(<<>>)
  /\ \A a : a.type # "TransferComplete" => NotComplete(<<a>>)
  /\ \A a, b : a.type # "TransferComplete" /\ b.type # "TransferComplete" => NotComplete(<<a, b>>)
<1>1. NotComplete(<<>>)
  BY DEF NotComplete
<1>2. ASSUME NEW a, a.type # "TransferComplete" PROVE NotComplete(<<a>>)
  <2>1. Len(<<a>>) = 1 /\ (<<a>>)[1] = a
    OBVIOUS
  <2>2. \A i \in 1..Len(<<a>>) : i = 1
    BY <2>1
  <2> QED BY <1>2, <2>1, <2>2 DEF NotComplete
<1>3. ASSUME NEW a, NEW b, a.type # "TransferComplete", b.type # "TransferComplete"
      PROVE  NotComplete(<<a, b>>)
  <2>1. Len(<<a, b>>) = 2 /\ (<<a, b>>)[1] = a /\ (<<a, b>>)[2] = b
    OBVIOUS
  <2>2. \A i \in 1..Len(<<a, b>>) : i = 1 \/ i = 2
    BY <2>1
  <2> QED BY <1>3, <2>1, <2>2 DEF NotComplete
<1> QED BY <1>1, <1>2, <1>3

\* A side that ends and writes nothing.
LEMMA EndsQuietly ==
  ASSUME Shape, NEW result
  PROVE  /\ Ends("client", result, <<>>) =>
              inbox'["host"] = inbox["host"] \/ inbox'["host"] = inbox["host"] \o <<>>
         /\ Ends("host", result, <<>>) =>
              \/ inbox'["client"] = inbox["client"]
              \/ inbox'["client"] = inbox["client"] \o <<>>
<1>1. ASSUME NEW p \in Side, Ends(p, result, <<>>)
      PROVE  inbox'[Peer(p)] = IF Connected(Peer(p)) THEN inbox[Peer(p)] \o <<>>
                               ELSE inbox[Peer(p)]
  BY <1>1, EndsIs, Zenon
<1>2. Peer("client") = "host" /\ Peer("host") = "client" /\ "client" \in Side /\ "host" \in Side
  BY DEF Peer, Side
<1> QED BY <1>1, <1>2

\* One that writes something, while the other one is there.
LEMMA EndsWriting ==
  ASSUME Shape, Connected("host"), Connected("client"), NEW result, NEW frames
  PROVE  /\ Ends("client", result, frames) => inbox'["host"] = inbox["host"] \o frames
         /\ Ends("host", result, frames) => inbox'["client"] = inbox["client"] \o frames
<1>1. ASSUME NEW p \in Side, Ends(p, result, frames)
      PROVE  inbox'[Peer(p)] = IF Connected(Peer(p)) THEN inbox[Peer(p)] \o frames
                               ELSE inbox[Peer(p)]
  BY <1>1, EndsIs, Zenon
<1>2. Peer("client") = "host" /\ Peer("host") = "client" /\ "client" \in Side /\ "host" \in Side
  BY DEF Peer, Side
<1> QED BY <1>1, <1>2

\* The share is over: its receiver goes on alone.
LEMMA HostGoneKept ==
  ASSUME Shape, Sharing, Copying, CopyHostGone, CommandsNext,
         NEW S, inbox["client"] \in Seq(S)
  PROVE  CopyHostGone'
<1>1. at["host"] = "over" /\ NotSyncing("client")
  BY DEF CopyHostGone, NotSyncing
<1>2. CopyingAlone
  BY <1>1, AloneStep
<1>3. CASE outcome["host"] = "ok"
  BY <1>2, <1>3 DEF CopyHostGone, CopyingAlone
<1>4. CASE outcome["host"] # "ok"
  <2>1. outcome["client"] # "ok" /\ NotComplete(inbox["client"])
    BY <1>4 DEF CopyHostGone
  <2>2. inbox["client"] # <<>> =>
          /\ Head(inbox["client"]).type # "TransferComplete"
          /\ NotComplete(Tail(inbox["client"]))
    BY <2>1, NotCompleteRead
  <2>3. NotComplete(inbox'["client"])
    BY <1>2, <2>1, <2>2, NotCompleteLines DEF CopyingAlone
  <2>4. NotComplete(inbox["client"])'
    BY <2>3 DEF NotComplete
  <2> QED BY <1>2, <1>4, <2>1, <2>2, <2>4 DEF CopyHostGone, CopyingAlone
<1> QED BY <1>3, <1>4

(* The receiver is gone: the share reads what it wrote, and ends.           *)
LEMMA ClientFirst ==
  ASSUME Shape, at["client"] \in After, at["host"] # "over", NEW frames, NEW next, NEW result
  PROVE  /\ Replies("host", frames, next) =>
              /\ at'["host"] = next /\ inbox'["host"] = Tail(inbox["host"])
              /\ UNCHANGED outcome
         /\ Writes("host", frames, next) =>
              /\ at'["host"] = next /\ inbox'["host"] = inbox["host"] /\ UNCHANGED outcome
         /\ Ends("host", result, frames) =>
              /\ at'["host"] = "over" /\ outcome'["host"] = result
              /\ outcome'["client"] = outcome["client"]
         /\ (Replies("host", frames, next) \/ Writes("host", frames, next)
               \/ Ends("host", result, frames)) =>
              at'["client"] = at["client"] /\ inbox'["client"] = inbox["client"]
<1>1. ~Connected("client")
  BY DEF Connected
<1> QED BY <1>1, GoesIs, EndsIs, Sides DEF Replies, Writes

\* The end of one of them.
Left == (CopyClientGone /\ outcome["host"] = "none") \/ CopyHostGone

\* The share fails, and has left as it may.
LEMMA LeftByFailing ==
  ASSUME Shape, CopyClientGone, outcome["host"] = "none", Fails("host")
  PROVE  Left'
<1>1. at["host"] # "over" /\ at["client"] \in After /\ inbox["client"] = <<>> /\ outcome["client"] # "ok"
  BY DEF CopyClientGone
<1>2. /\ at'["host"] = "over" /\ outcome'["host"] = "failed"
      /\ outcome'["client"] = outcome["client"]
      /\ at'["client"] = at["client"] /\ inbox'["client"] = inbox["client"]
  BY <1>1, ClientFirst DEF Fails
<1>3. NotComplete(inbox["client"])'
  BY <1>1, <1>2, NotCompleteLines DEF NotComplete
<1> QED BY <1>1, <1>2, <1>3 DEF Left, CopyHostGone, NotSyncing, After

\* The share goes on or ends, and has left as it may.
LEMMA LeftByClip ==
  ASSUME Shape, Sharing, CopyPair, CopyClientGone, outcome["host"] = "none", ClipNext, SameUsers
  PROVE  Left'
<1>0. /\ at["host"] # "over" /\ at["client"] \in After /\ inbox["client"] = <<>>
      /\ outcome["client"] # "ok"
  BY DEF CopyClientGone
<1>c. Code' = Code
  BY DEF SameUsers, Code, CodeVerify, Frame
<1>1. /\ ~ReceiverTakesHello /\ ~ReceiverTakesCodeAck /\ ~TrustedTakesHello
      /\ ~TrustedTakesTrustedHello /\ ~ReceiveMetadata /\ ~SendPing /\ ~PingAnswered
      /\ ~PingFails /\ ~Accept /\ ~ReceiverTakesData /\ ~ReceiverCompletes
  BY <1>0
     DEF After, Takes, ReceiverTakesHello, ReceiverTakesCodeAck, TrustedTakesHello,
         TrustedTakesTrustedHello, ReceiveMetadata, SendPing, PingAnswered, PingFails,
         Accept, ReceiverTakesData, ReceiverCompletes
<1>2. CASE ShareTakesHelloAck
  <2>1. inbox["host"] = <<HelloAck("nothing"), Code>>
    BY <1>2 DEF ShareTakesHelloAck, Takes, CopyClientGone
  <2>2. Replies("host", <<>>, "CodeVerify")
    BY <1>2 DEF ShareTakesHelloAck
  <2>a. Tail(inbox["host"]) = <<Code>>
    BY <2>1, Lines
  <2>b. /\ at'["host"] = "CodeVerify" /\ inbox'["host"] = Tail(inbox["host"]) /\ outcome' = outcome
        /\ at'["client"] = at["client"] /\ inbox'["client"] = inbox["client"]
    BY <1>0, <2>2, ClientFirst
  <2>3. /\ at'["host"] = "CodeVerify" /\ inbox'["host"] = <<Code>> /\ outcome' = outcome
        /\ at'["client"] = at["client"] /\ inbox'["client"] = inbox["client"]
    BY <2>a, <2>b
  <2>4. CopyClientGone'
    BY <1>0, <1>c, <2>3 DEF CopyClientGone
  <2> QED BY <2>3, <2>4 DEF Left
<1>3. CASE ShareChecksCode
  <2>1. inbox["host"] = <<Code>>
    BY <1>3 DEF ShareChecksCode, Takes, CopyClientGone
  <2>2. CASE Saying("host")
    <3>1. Replies("host", <<CodeVerifyAck(TRUE)>> \o Offer, "ClipboardAck")
      BY <1>3, <2>2 DEF ShareChecksCode
    <3>2. /\ at'["host"] = "ClipboardAck" /\ inbox'["host"] = Tail(inbox["host"])
          /\ outcome' = outcome
          /\ at'["client"] = at["client"] /\ inbox'["client"] = inbox["client"]
      BY <1>0, <3>1, ClientFirst
    <3>4. inbox'["host"] = <<>>
      BY <2>1, <3>2, Lines
    <3>3. CopyClientGone'
      BY <1>0, <3>2, <3>4 DEF CopyClientGone
    <3> QED BY <3>2, <3>3 DEF Left
  <2>3. CASE ~Saying("host")
    <3>1. Ends("host", "failed", <<CodeVerifyAck(FALSE)>>)
      BY <1>3, <2>3 DEF ShareChecksCode
    <3>2. /\ at'["host"] = "over" /\ outcome'["host"] = "failed"
          /\ outcome'["client"] = outcome["client"]
          /\ at'["client"] = at["client"] /\ inbox'["client"] = inbox["client"]
      BY <1>0, <3>1, ClientFirst
    <3>3. NotComplete(inbox["client"])'
      BY <1>0, <3>2, NotCompleteLines DEF NotComplete
    <3> QED BY <1>0, <3>2, <3>3 DEF Left, CopyHostGone, NotSyncing, After
  <2> QED BY <2>2, <2>3
<1>4. CASE ShareTakesAnswer \/ ShareAnswersPing
  <2>0. at["host"] = "ClipboardAck" /\ inbox["host"] # <<>>
    BY <1>4 DEF ShareTakesAnswer, ShareAnswersPing, Takes
  <2>1. inbox["host"] \in {<<Ping>>, <<Taken>>, <<NotTaken>>}
    BY <2>0 DEF CopyClientGone
  <2>2. Tail(inbox["host"]) = <<>>
    BY <2>1, Lines
  <2>3. CASE Fails("host")
    BY <2>3, LeftByFailing
  <2>4. CASE ~Fails("host")
    <3>1. PICK frames, next : Replies("host", frames, next) /\ next \in {"DataAck", "ClipboardAck"}
      BY <1>4, <2>4 DEF ShareTakesAnswer, ShareAnswersPing
    <3>2. /\ at'["host"] = next /\ inbox'["host"] = <<>> /\ outcome' = outcome
          /\ at'["client"] = at["client"] /\ inbox'["client"] = inbox["client"]
      BY <1>0, <2>2, <3>1, ClientFirst
    <3>3. CopyClientGone'
      BY <1>0, <3>1, <3>2 DEF CopyClientGone
    <3> QED BY <3>2, <3>3 DEF Left
  <2> QED BY <2>3, <2>4
<1>5. CASE ShareTakesDataAck
  <2>1. /\ inbox["host"] = <<Taken>> /\ copied # "nothing"
        /\ at["client"] = "over" /\ outcome["client"] # "declined"
    BY <1>5 DEF ShareTakesDataAck, Takes, CopyClientGone
  <2>2. Ends("host", "ok", <<TransferComplete>>) /\ copied' = copied
    BY <1>5, <2>1, Lines, OkSays DEF ShareTakesDataAck, Saying, Same, clipVars
  <2>3. /\ at'["host"] = "over" /\ outcome'["host"] = "ok"
        /\ outcome'["client"] = outcome["client"] /\ at'["client"] = at["client"]
    BY <1>0, <2>2, ClientFirst
  <2> QED BY <2>1, <2>2, <2>3 DEF Left, CopyHostGone
<1>6. CASE AcceptAfterDrop \/ Decline
  <2>1. at["client"] = "dropped" /\ copied' = copied
    BY <1>0, <1>6 DEF AcceptAfterDrop, Decline, After, Same, clipVars
  <2>2. PICK result \in {"failed", "declined"} : Ends("client", result, <<>>)
    BY <1>6, <2>1 DEF AcceptAfterDrop, Decline, Fails
  <2>3. /\ at'["client"] = "over" /\ inbox'["client"] = <<>> /\ outcome'["client"] = result
        /\ at'["host"] = at["host"] /\ outcome'["host"] = outcome["host"]
    BY <2>2, EndsIs, Sides, Zenon
  <2>a. inbox'["host"] = inbox["host"] \/ inbox'["host"] = inbox["host"] \o <<>>
    BY <2>2, EndsQuietly
  <2>4. /\ inbox["host"] \in {<<>>, <<HelloAck("nothing"), Code>>, <<Code>>, <<Ping>>,
                              <<Taken>>, <<NotTaken>>}
        /\ at["host"] = "DataAck" => inbox["host"] = <<>>
    BY <2>1 DEF CopyClientGone
  <2>5. inbox["host"] \o <<>> = inbox["host"]
    <3>1. <<HelloAck("nothing"), Code>> \o <<>> = <<HelloAck("nothing"), Code>>
      BY Lines
    <3> QED BY <2>4, <3>1, Lines
  <2>6. inbox'["host"] = inbox["host"]
    BY <2>a, <2>5
  <2>7. CopyClientGone'
    BY <1>c, <2>2, <2>3, <2>4, <2>6 DEF CopyClientGone, After
  <2> QED BY <2>3, <2>7 DEF Left
<1> QED BY <1>1, <1>2, <1>3, <1>4, <1>5, <1>6 DEF ClipNext

\* Who is gone neither reads nor is connected.
LEMMA AfterNotReading == \A p \in Side : at[p] \in After => at[p] \notin Reading /\ ~Connected(p)
  BY DEF After, Reading, Awaits, Connected

\* The receiver has gone: every step leaves it so, or the share ends too.
LEMMA ClientGoneKept ==
  ASSUME Shape, CopyPair, CopyClientGone, outcome["host"] = "none", CommandsNext
  PROVE  Left'
<1>0. /\ at["host"] # "over" /\ at["client"] \in After /\ inbox["client"] = <<>>
      /\ at["host"] \notin {"runs", "SyncIndex", "SyncIndexAck"}
  BY DEF CopyClientGone
<1>1. ~SyncNext /\ ~TrustedNext /\ ~Connect
  <2>1. \A p \in Side : at[p] \notin {"SyncIndex", "SyncIndexAck", "runs"}
    BY <1>0, Sides DEF After
  <2> QED
    BY <1>0, <2>1, OthersSync, OthersTrusted
       DEF Connect, ClipSync, DirSync, Sharing, CopyPair, Sending, Receiving, After
<1>2. /\ ~ClipCannotBegin /\ ~DirCannotBegin /\ ~SendCannotBegin /\ ~UserCancels
  BY <1>0 DEF ClipCannotBegin, DirCannotBegin, SendCannotBegin, GivesUp, UserCancels, After
<1>3. CASE (\E p \in Side : Tell(p))
  <2>1. UNCHANGED <<at, inbox, outcome, copied, creds>>
    BY <1>3, TellKeeps
  <2>2. Code' = Code
    BY <2>1 DEF Code, CodeVerify, Frame
  <2> QED BY <2>1, <2>2 DEF Left, CopyClientGone
<1>4. CASE DiscoveryNext /\ Same
  <2>0. copied' = copied
    BY <1>4 DEF Same, clipVars
  <2>1. /\ ~UseAddress /\ ~NoAddress /\ ~StartSearch /\ ~CannotSearch /\ ~HearPacket
        /\ ~ResolveService /\ ~HearBeacon /\ ~SearchFails /\ ~FallsBack /\ ~DeviceNotFound
        /\ ~ProbeReaches /\ ~ProbeReachesAgain /\ ~ProbeFails /\ ~ConnectFails
        /\ ~ServiceWithdrawn
    BY <1>0
       DEF UseAddress, NoAddress, StartSearch, CannotSearch, HearPacket, ResolveService,
           HearBeacon, SearchFails, FallsBack, DeviceNotFound, ProbeReaches,
           ProbeReachesAgain, ProbeFails, ConnectFails, CodeSearch, DeviceSearch, Probing,
           ServiceWithdrawn, After, Before
  <2>2. CASE HostListens
    <3>1. Writes("host", <<>>, "listening") /\ at["host"] = "idle" /\ inbox["host"] = <<>>
      BY <2>2
         DEF HostListens, ClipShareListens, ClipSyncListens, DirSyncListens, DeviceListens,
             Moves, CopyClientGone
    <3>2. /\ at'["host"] = "listening" /\ inbox'["host"] = inbox["host"] /\ outcome' = outcome
          /\ at'["client"] = at["client"] /\ inbox'["client"] = inbox["client"]
      BY <1>0, <3>1, ClientFirst
    <3>3. CopyClientGone'
      BY <3>1, <3>2 DEF CopyClientGone
    <3> QED BY <3>2, <3>3 DEF Left
  <2>3. CASE CannotListen
    BY <2>3, LeftByFailing DEF CannotListen
  <2> QED BY <1>4, <2>1, <2>2, <2>3 DEF DiscoveryNext
<1>5. CASE Same /\ \E p \in Side : Unexpected(p) \/ ReadFails(p) \/ Killed(p) \/ FramesLost(p)
  <2>0. copied' = copied
    BY <1>5 DEF Same, clipVars
  <2>1. /\ ~Unexpected("client") /\ ~ReadFails("client") /\ ~Killed("client")
        /\ ~FramesLost("client")
    BY <1>0, AfterNotReading, Sides DEF Unexpected, ReadFails, Killed, FramesLost
  <2>2. CASE Fails("host")
    BY <2>2, LeftByFailing
  <2>3. CASE FramesLost("host")
    <3>1. /\ inbox'["host"] = <<>> /\ inbox'["client"] = inbox["client"]
          /\ at' = at /\ outcome' = outcome
      BY <2>3, Sides DEF FramesLost, Shape
    <3>2. CopyClientGone'
      BY <2>0, <3>1 DEF CopyClientGone
    <3> QED BY <3>1, <3>2 DEF Left
  <2> QED BY <1>5, <2>1, <2>2, <2>3, Sides DEF Unexpected, ReadFails, Killed
<1> QED
  BY <1>1, <1>2, <1>3, <1>4, <1>5, LeftByClip, PairStays
     DEF CommandsNext, ConnectingNext, Serves, Breaks, Refuses, CopyPair

\* While nothing has ended.
Copies ==
  /\ Apart \/ CopyRow
  /\ outcome["host"] = "none" /\ outcome["client"] = "none"

\* In a row of the copy both are connected.
LEMMA CopyLive == CopyRow => Connected("host") /\ Connected("client")
  BY DEF CopyRow, Row, Connected, Before, After

\* Its first row.
LEMMA CopyConnect ==
  ASSUME CopyPair, Connect, outcome["host"] = "none" /\ outcome["client"] = "none"
  PROVE  Copies'
<1>1. kind.host = "clip_share" /\ kind.client = "clip_code"
  BY DEF CopyPair, Sharing
<1>2. Row("HelloAck", "Hello", <<>>, <<Hello("nothing")>>)'
  BY <1>1, ConnectIs DEF Starts, Opening, ShareStarts, ReceiverStarts, Row
<1> QED BY <1>2, ConnectIs DEF CopyRow, Copies

\* One of them fails: what is on its way to the other one.
LEMMA CopyFrames ==
  ASSUME CopyRow
  PROVE  NotComplete(inbox["client"]) /\ inbox["client"] \o <<>> = inbox["client"]
         /\ inbox["host"] \o <<>> = inbox["host"]
<1>1. /\ Hello("nothing").type # "TransferComplete" /\ CodeIsRight.type # "TransferComplete"
      /\ ClipboardMeta.type # "TransferComplete" /\ Pong.type # "TransferComplete"
      /\ ClipboardData.type # "TransferComplete"
  BY OkSays, FrameParts DEF Hello, ClipboardMeta, Pong, ClipboardData
<1>2. \/ inbox["client"] = <<>>
      \/ \E a : inbox["client"] = <<a>> /\ a.type # "TransferComplete"
      \/ \E a, b : /\ inbox["client"] = <<a, b>> /\ a.type # "TransferComplete"
                   /\ b.type # "TransferComplete"
  BY <1>1 DEF CopyRow, Row
<1>3. \/ inbox["host"] = <<>>
      \/ \E a : inbox["host"] = <<a>>
      \/ \E a, b : inbox["host"] = <<a, b>>
  BY DEF CopyRow, Row
<1>4. inbox["client"] \o <<>> = inbox["client"] /\ inbox["host"] \o <<>> = inbox["host"]
  BY <1>2, <1>3, Lines
<1>5. NotComplete(inbox["client"])
  BY <1>2, NotCompleteLines
<1> QED BY <1>4, <1>5

\* One of the two fails in the middle of the copy.
LEMMA CopyFails ==
  ASSUME Shape, CopyRow, Copies, NEW p \in Side, Fails(p), copied' = copied, SameUsers
  PROVE  Left'
<1>0. Connected("host") /\ Connected("client")
  BY CopyLive
<1>1. CASE p = "host"
  <2>1. Ends("host", "failed", <<>>)
    BY <1>1 DEF Fails
  <2>2. /\ at'["host"] = "over" /\ outcome'["host"] = "failed"
        /\ at'["client"] = at["client"] /\ outcome'["client"] = outcome["client"]
    BY <2>1, EndsIs, Sides, Zenon
  <2>3. inbox'["client"] = inbox["client"]
    BY <2>1, EndsQuietly, CopyFrames
  <2>4. NotComplete(inbox["client"])'
    BY <2>3, CopyFrames DEF NotComplete
  <2>5. NotSyncing("client")'
    BY <2>2 DEF NotSyncing, CopyRow, Row
  <2> QED BY <2>2, <2>4, <2>5 DEF Left, CopyHostGone, Copies
<1>2. CASE p = "client"
  <2>1. Ends("client", "failed", <<>>)
    BY <1>2 DEF Fails
  <2>2. /\ at'["client"] = "over" /\ outcome'["client"] = "failed" /\ inbox'["client"] = <<>>
        /\ at'["host"] = at["host"] /\ outcome'["host"] = outcome["host"]
    BY <2>1, EndsIs, Sides, Zenon
  <2>3. inbox'["host"] = inbox["host"]
    BY <2>1, EndsQuietly, CopyFrames
  <2>c. Code' = Code
    BY DEF SameUsers, Code, CodeVerify, Frame
  <2>4. CopyClientGone'
    BY <2>2, <2>3, <2>c DEF CopyRow, Row, CopyClientGone, After
  <2> QED BY <2>2, <2>4 DEF Left, Copies
<1> QED BY <1>1, <1>2, Sides

\* From row to row, or to an end of the copy.
LEMMA CopyStep ==
  ASSUME Shape, CopyPair, CopyRow, Copies, ClipNext, SameUsers
  PROVE  Copies' \/ Left'
<1>0. Connected("host") /\ Connected("client")
  BY CopyLive
<1>1. Sharing /\ kind.client = "clip_code"
  BY DEF CopyPair
<1>c. Code' = Code
  BY DEF SameUsers, Code, CodeVerify, Frame
<1>t. /\ \A who : HelloAck(who).type = "HelloAck" /\ Hello(who).type = "Hello"
      /\ Code.type = "CodeVerify" /\ ClipboardMeta.type = "ClipboardMeta"
      /\ ClipboardData.type = "ClipboardData" /\ ClipboardData.says = "content"
      /\ Ping.type = "Ping" /\ Pong.type = "Pong"
  BY FrameParts DEF HelloAck, Hello, Code, CodeVerify, ClipboardMeta, ClipboardData, Ping, Pong
<1>n. outcome["host"] = "none" /\ outcome["client"] = "none"
  BY DEF Copies
<1>f. ASSUME NEW p \in Side, Fails(p), Same PROVE Left'
  BY <1>f, CopyFails DEF Same, clipVars
<1> USE Sides, Answers DEF Row, Takes
<1>2. CASE ReceiverTakesHello
  <2>1. Row("HelloAck", "Hello", <<>>, <<Hello("nothing")>>)
    BY <1>2 DEF ReceiverTakesHello, CopyRow
  <2>2. Replies("client", <<HelloAck("nothing"), Code>>, "CodeVerifyAck")
    BY <1>2 DEF ReceiverTakesHello, Code
  <2>3. Row("HelloAck", "CodeVerifyAck", <<HelloAck("nothing"), Code>>, <<>>)' /\ outcome' = outcome
    BY <1>0, <1>c, <2>1, <2>2, Lines
  <2> QED BY <1>n, <2>3 DEF CopyRow, Copies
<1>3. CASE ShareTakesHelloAck
  <2>1. Row("HelloAck", "CodeVerifyAck", <<HelloAck("nothing"), Code>>, <<>>)
    BY <1>3 DEF ShareTakesHelloAck, CopyRow
  <2>2. Row("CodeVerify", "CodeVerifyAck", <<Code>>, <<>>)' /\ outcome' = outcome
    BY <1>0, <1>c, <1>3, <2>1, Lines DEF ShareTakesHelloAck
  <2> QED BY <1>n, <2>2 DEF CopyRow, Copies
<1>4. CASE ShareChecksCode
  <2>1. Row("CodeVerify", "CodeVerifyAck", <<Code>>, <<>>)
    BY <1>4 DEF ShareChecksCode, CopyRow
  <2>2. CASE Saying("host")
    <3>0. <<CodeIsRight>> \o Offer = <<CodeIsRight, ClipboardMeta>>
      BY TwoFrames DEF Offer
    <3>1. Replies("host", <<CodeIsRight>> \o Offer, "ClipboardAck")
      BY <1>4, <2>2 DEF ShareChecksCode, CodeIsRight
    <3>2. Replies("host", <<CodeIsRight, ClipboardMeta>>, "ClipboardAck")
      BY <3>0, <3>1, Zenon
    <3>3. /\ Row("ClipboardAck", "CodeVerifyAck", <<>>, <<CodeIsRight, ClipboardMeta>>)'
          /\ outcome' = outcome
      BY <1>0, <2>1, <3>2, Lines
    <3> QED BY <1>n, <3>3 DEF CopyRow, Copies
  <2>3. CASE ~Saying("host")
    <3>1. Ends("host", "failed", <<CodeIsWrong>>)
      BY <1>4, <2>3 DEF ShareChecksCode, CodeIsWrong
    <3>2. /\ at'["host"] = "over" /\ outcome'["host"] = "failed"
          /\ at'["client"] = at["client"] /\ outcome'["client"] = outcome["client"]
      BY <3>1, EndsIs, Zenon
    <3>3. inbox'["client"] = <<CodeIsWrong>>
      BY <1>0, <2>1, <3>1, EndsWriting, Lines
    <3>5. NotComplete(inbox["client"])'
      BY <3>3, OkSays, NotCompleteLines DEF NotComplete
    <3> QED BY <1>n, <2>1, <3>2, <3>5 DEF Left, CopyHostGone, NotSyncing
  <2> QED BY <2>2, <2>3
<1>5. CASE ReceiverTakesCodeAck
  <2>1. Row("ClipboardAck", "CodeVerifyAck", <<>>, <<CodeIsRight, ClipboardMeta>>)
    BY <1>5 DEF ReceiverTakesCodeAck, CopyRow
  <2>2. Replies("client", <<>>, "ClipboardMeta")
    BY <1>5, <2>1, Lines, OkSays DEF ReceiverTakesCodeAck, Saying
  <2>3. Row("ClipboardAck", "ClipboardMeta", <<>>, <<ClipboardMeta>>)' /\ outcome' = outcome
    BY <1>0, <2>1, <2>2, Lines
  <2> QED BY <1>n, <2>3 DEF CopyRow, Copies
<1>6. CASE ReceiveMetadata
  <2>1. Row("ClipboardAck", "ClipboardMeta", <<>>, <<ClipboardMeta>>)
    BY <1>6 DEF ReceiveMetadata, CopyRow
  <2>2. Row("ClipboardAck", "offered", <<>>, <<>>)' /\ outcome' = outcome
    BY <1>0, <1>6, <2>1, Lines DEF ReceiveMetadata
  <2> QED BY <1>n, <2>2 DEF CopyRow, Copies
<1>7. CASE SendPing \/ Accept
  <2>1. Row("ClipboardAck", "offered", <<>>, <<>>)
    BY <1>7 DEF SendPing, Accept, CopyRow
  <2>a. SendPing => Writes("client", <<Ping>>, "pinging")
    BY DEF SendPing, Ping
  <2>b. Accept => Writes("client", <<Taken>>, "ClipboardData")
    BY DEF Accept, Taken
  <2>2. ASSUME NEW frame, NEW next, Writes("client", <<frame>>, next)
        PROVE  Row("ClipboardAck", next, <<frame>>, <<>>)' /\ outcome' = outcome
    <3>1. Goes("client", next, <<frame>>, <<>>)
      BY <2>1, <2>2 DEF Writes
    <3>2. /\ at'["client"] = next /\ at'["host"] = at["host"] /\ inbox'["client"] = <<>>
          /\ outcome' = outcome /\ inbox'["host"] = inbox["host"] \o <<frame>>
      BY <1>0, <3>1, GoOn, Zenon
    <3>4. <<>> \o <<frame>> = <<frame>>
      BY Lines
    <3> QED BY <2>1, <3>2, <3>4
  <2>3. CASE SendPing
    <3>1. Row("ClipboardAck", "pinging", <<Ping>>, <<>>)' /\ outcome' = outcome
      BY <2>2, <2>3, <2>a
    <3> QED BY <1>n, <3>1 DEF CopyRow, Copies
  <2>4. CASE Accept
    <3>1. Row("ClipboardAck", "ClipboardData", <<Taken>>, <<>>)' /\ outcome' = outcome
      BY <2>2, <2>4, <2>b
    <3> QED BY <1>n, <3>1 DEF CopyRow, Copies
  <2> QED BY <1>7, <2>3, <2>4
<1>8. CASE PingAnswered
  <2>1. Row("ClipboardAck", "pinging", <<>>, <<Pong>>)
    BY <1>8 DEF PingAnswered, CopyRow
  <2>2. Row("ClipboardAck", "offered", <<>>, <<>>)' /\ outcome' = outcome
    BY <1>0, <1>8, <2>1, Lines DEF PingAnswered
  <2> QED BY <1>n, <2>2 DEF CopyRow, Copies
<1>9. CASE PingFails
  <2>1. at["host"] = "ClipboardAck" /\ inbox["host"] \in {<<>>, <<Ping>>}
    BY <1>9 DEF PingFails, CopyRow
  <2>2. /\ at'["host"] = at["host"] /\ at'["client"] = "dropped" /\ outcome' = outcome
        /\ inbox'["client"] = <<>> /\ inbox'["host"] = inbox["host"]
    BY <1>9 DEF PingFails, Shape
  <2>3. CopyClientGone'
    BY <1>n, <2>1, <2>2 DEF CopyClientGone, After
  <2> QED BY <1>n, <2>2, <2>3 DEF Left
<1>10. CASE ShareAnswersPing
  <2>1. Row("ClipboardAck", "pinging", <<Ping>>, <<>>)
    BY <1>10, <1>t, OkSays, Lines DEF ShareAnswersPing, CopyRow
  <2>2. Replies("host", <<Pong>>, "ClipboardAck")
    BY <1>10 DEF ShareAnswersPing, Pong
  <2>3. Row("ClipboardAck", "pinging", <<>>, <<Pong>>)' /\ outcome' = outcome
    BY <1>0, <2>1, <2>2, Lines
  <2> QED BY <1>n, <2>3 DEF CopyRow, Copies
<1>11. CASE Decline
  <2>1. Row("ClipboardAck", "offered", <<>>, <<>>)
    BY <1>11 DEF Decline, CopyRow
  <2>2. Ends("client", "declined", <<NotTaken>>)
    BY <1>11, <2>1 DEF Decline, NotTaken
  <2>3. /\ at'["client"] = "over" /\ outcome'["client"] = "declined" /\ inbox'["client"] = <<>>
        /\ at'["host"] = at["host"] /\ outcome'["host"] = outcome["host"]
    BY <2>2, EndsIs, Zenon
  <2>4. inbox'["host"] = <<NotTaken>>
    BY <1>0, <2>1, <2>2, EndsWriting, Lines
  <2>5. CopyClientGone'
    BY <2>1, <2>3, <2>4 DEF CopyClientGone, After
  <2> QED BY <1>n, <2>3, <2>5 DEF Left
<1>12. CASE ShareTakesAnswer
  <2>1. Row("ClipboardAck", "ClipboardData", <<Taken>>, <<>>)
    BY <1>12, <1>t, OkSays, Lines DEF ShareTakesAnswer, CopyRow
  <2>2. Replies("host", <<ClipboardData>>, "DataAck")
    BY <1>12, <2>1, Lines, OkSays DEF ShareTakesAnswer, Saying
  <2>3. Row("DataAck", "ClipboardData", <<>>, <<ClipboardData>>)' /\ outcome' = outcome
    BY <1>0, <2>1, <2>2, Lines
  <2> QED BY <1>n, <2>3 DEF CopyRow, Copies
<1>13. CASE ReceiverTakesData
  <2>1. Row("DataAck", "ClipboardData", <<>>, <<ClipboardData>>)
    BY <1>13 DEF ReceiverTakesData, CopyRow
  <2>2. Replies("client", <<Taken>>, "TransferComplete") /\ copied' = "held"
    BY <1>13, <1>t, <2>1, Lines DEF ReceiverTakesData, Saying, Taken
  <2>3. Row("DataAck", "TransferComplete", <<Taken>>, <<>>)' /\ outcome' = outcome
    BY <1>0, <2>1, <2>2, Lines
  <2> QED BY <1>n, <2>2, <2>3 DEF CopyRow, Copies
<1>14. CASE ShareTakesDataAck
  <2>1. /\ Row("DataAck", "TransferComplete", <<Taken>>, <<>>) /\ copied = "held"
    BY <1>14 DEF ShareTakesDataAck, CopyRow
  <2>2. Ends("host", "ok", <<TransferComplete>>) /\ copied' = copied
    BY <1>14, <2>1, Lines, OkSays DEF ShareTakesDataAck, Saying, Same, clipVars
  <2>3. /\ at'["host"] = "over" /\ outcome'["host"] = "ok"
        /\ at'["client"] = at["client"] /\ outcome'["client"] = outcome["client"]
    BY <2>2, EndsIs, Zenon
  <2> QED BY <1>n, <2>1, <2>2, <2>3 DEF Left, CopyHostGone
<1>15. /\ ~TrustedTakesHello /\ ~TrustedTakesTrustedHello /\ ~AcceptAfterDrop
       /\ ~ReceiverCompletes
  <2>1. at["client"] # "dropped" /\ (at["client"] = "TransferComplete" => inbox["client"] = <<>>)
    BY DEF CopyRow
  <2> QED
    BY <1>1, <2>1
       DEF TrustedTakesHello, TrustedTakesTrustedHello, AcceptAfterDrop, ReceiverCompletes
<1> QED
  BY <1>2, <1>3, <1>4, <1>5, <1>6, <1>7, <1>8, <1>9, <1>10, <1>11, <1>12, <1>13, <1>14, <1>15
     DEF ClipNext

\* Every step of a share and a receiver with its code.
LEMMA CopyKept ==
  ASSUME Shape, AdmitInv, CopyPair, Copies \/ Left, CommandsNext
  PROVE  Copies' \/ Left'
<1>0. SameUsers
  BY PairStays
<1>1. inbox["client"] \in Seq(ToClient)
  BY DEF AdmitInv, ClipHost, CopyPair
<1>2. CASE Left
  BY <1>1, <1>2, HostGoneKept, ClientGoneKept DEF Left, CopyPair, Copying
<1>3. CASE Copies /\ CopyRow
  <2>1. ~SyncNext /\ ~TrustedNext
    <3>1. \A p \in Side : at[p] \notin {"SyncIndex", "SyncIndexAck", "runs"}
      BY <1>3, Sides DEF CopyRow, Row
    <3> QED
      BY <3>1, OthersSync, OthersTrusted
         DEF ClipSync, DirSync, Sharing, CopyPair, Sending, Receiving
  <2>2. CASE ClipNext
    BY <1>0, <1>3, <2>2, CopyStep
  <2>3. CASE Same /\ \E p \in Side : Fails(p)
    BY <1>0, <1>3, <2>3, CopyFails DEF Same, clipVars
  <2> QED BY <1>3, <2>1, <2>2, <2>3, CopyLive, LiveStep
<1>4. CASE Copies /\ Apart
  <2>1. /\ outcome["host"] = "none" /\ outcome["client"] = "none"
        /\ at["host"] \in {"idle", "listening"} /\ inbox["host"] = <<>>
    BY <1>4 DEF Copies, Apart
  <2>2. CASE Apart' /\ outcome' = outcome
    BY <2>1, <2>2 DEF Copies
  <2>3. CASE Connect
    BY <2>1, <2>3, CopyConnect
  <2>4. CASE HostGaveUp /\ NothingOnWay
    <3>1. NotComplete(inbox["client"])'
      BY <2>4, NotCompleteLines DEF NotComplete, NothingOnWay
    <3> QED
      BY <2>1, <2>4, <3>1 DEF HostGaveUp, Left, CopyHostGone, NotSyncing, Before
  <2>5. CASE ClientGaveUp /\ NothingOnWay
    BY <2>1, <2>5 DEF ClientGaveUp, NothingOnWay, Left, CopyClientGone, After
  <2> QED BY <1>4, <2>2, <2>3, <2>4, <2>5, ApartStep
<1> QED BY <1>2, <1>3, <1>4 DEF Copies

\* The forms of a step, where the share refuses its receiver.
LEMMA RefusedForms ==
  ASSUME Shape, AdmitInv, TrustedCopyPair, CopyRefused, NEW frames, NEW next, NEW result
  PROVE  /\ /\ Replies("host", <<>>, next) \/ Writes("host", <<>>, next)
            /\ next \in {"idle", "listening", "HelloAck", "CodeVerify"} /\ at["host"] # "over"
            => CopyRefused'
         /\ Fails("host") => CopyRefused'
         /\ /\ Writes("client", frames, next)
               \/ (Replies("client", frames, next) /\ inbox["client"] # <<>>)
            /\ next \notin {"runs", "SyncIndex", "SyncIndexAck"}
            => CopyRefused'
         /\ Ends("client", result, frames) /\ result # "ok" => CopyRefused'
<1>1. inbox["client"] \in Seq(ToClient) /\ inbox["client"] \o <<>> = inbox["client"]
  <2>1. inbox["client"] \in Seq(ToClient)
    BY DEF AdmitInv, ClipHost, TrustedCopyPair
  <2> QED BY <2>1, ConcatEmptySeq
<1>2. inbox["client"] # <<>> => NotComplete(Tail(inbox["client"]))
  BY <1>1, NotCompleteRead DEF CopyRefused
<1>3. \A q : NotComplete(q) /\ inbox'["client"] = q => NotComplete(inbox["client"])'
  BY DEF NotComplete
<1>4. ASSUME Replies("host", <<>>, next) \/ Writes("host", <<>>, next),
             next \in {"idle", "listening", "HelloAck", "CodeVerify"}, at["host"] # "over"
      PROVE  CopyRefused'
  <2>1. PICK own : Goes("host", next, <<>>, own)
    BY <1>4 DEF Replies, Writes
  <2>2. /\ at'["host"] = next /\ at'["client"] = at["client"] /\ outcome' = outcome
        /\ inbox'[Peer("host")] = IF Connected(Peer("host")) THEN inbox[Peer("host")] \o <<>>
                                  ELSE inbox[Peer("host")]
    BY <2>1, GoesIs, Sides, Zenon
  <2>3. inbox'["client"] = inbox["client"]
    BY <1>1, <2>2, Sides
  <2> QED BY <1>3, <1>4, <2>2, <2>3 DEF CopyRefused, NotSyncing
<1>5. ASSUME Fails("host") PROVE CopyRefused'
  <2>1. /\ at'["host"] = "over" /\ outcome'["host"] = "failed"
        /\ at'["client"] = at["client"] /\ outcome'["client"] = outcome["client"]
    BY <1>5, EndsIs, Sides, Zenon DEF Fails
  <2>2. inbox'["client"] = inbox["client"]
    BY <1>1, <1>5, EndsQuietly DEF Fails
  <2> QED BY <1>3, <2>1, <2>2 DEF CopyRefused, NotSyncing
<1>6. ASSUME \/ Writes("client", frames, next)
             \/ Replies("client", frames, next) /\ inbox["client"] # <<>>,
             next \notin {"runs", "SyncIndex", "SyncIndexAck"}
      PROVE  CopyRefused'
  <2>1. PICK own : Goes("client", next, frames, own) /\ NotComplete(own)
    BY <1>2, <1>6 DEF Replies, Writes, CopyRefused
  <2>2. /\ at'["client"] = next /\ at'["host"] = at["host"] /\ outcome' = outcome
        /\ inbox'["client"] = own
    BY <2>1, GoesIs, Sides
  <2> QED BY <1>3, <1>6, <2>1, <2>2 DEF CopyRefused, NotSyncing
<1>7. ASSUME Ends("client", result, frames), result # "ok" PROVE CopyRefused'
  <2>1. /\ at'["client"] = "over" /\ outcome'["client"] = result
        /\ at'["host"] = at["host"] /\ outcome'["host"] = outcome["host"]
        /\ inbox'["client"] = <<>>
    BY <1>7, EndsIs, Sides
  <2> QED BY <1>3, <1>7, <2>1, NotCompleteLines DEF CopyRefused, NotSyncing
<1> QED BY <1>4, <1>5, <1>6, <1>7

\* The steps of the copy that a trusted receiver comes to: none sends content.
LEMMA RefusedClip ==
  ASSUME Shape, AdmitInv, TrustedCopyPair, CopyRefused, ClipNext
  PROVE  CopyRefused'
<1>0. Sharing /\ kind.client = "clip_trusted"
  BY DEF TrustedCopyPair
<1> USE <1>0, RefusedForms DEF Takes
<1>1. CASE ShareTakesHelloAck
  BY <1>1 DEF ShareTakesHelloAck
<1>2. ~ShareChecksCode
  <2>1. inbox["host"] \in Seq(ToHost)
    BY DEF AdmitInv, ClipHost
  <2>2. inbox["host"] # <<>> => Head(inbox["host"]) \in ToHost
    BY <2>1
  <2> QED BY <2>2 DEF ShareChecksCode, ToHost, CodeClients
<1>3. ~ShareTakesAnswer /\ ~ShareAnswersPing /\ ~ShareTakesDataAck
  BY DEF CopyRefused, ShareTakesAnswer, ShareAnswersPing, ShareTakesDataAck
<1>4. ~ReceiverTakesHello /\ ~ReceiverTakesCodeAck
  BY DEF ReceiverTakesHello, ReceiverTakesCodeAck
<1>5. CASE TrustedTakesHello \/ TrustedTakesTrustedHello
  <2>1. CASE Fails("client")
    BY <2>1 DEF Fails
  <2>2. CASE ~Fails("client")
    <3>1. PICK frames : Replies("client", frames, "ClipboardMeta") /\ inbox["client"] # <<>>
      BY <1>5, <2>2 DEF TrustedTakesHello, TrustedTakesTrustedHello
    <3> QED BY <3>1
  <2> QED BY <2>1, <2>2
<1>6. CASE ReceiveMetadata \/ SendPing \/ PingAnswered
  <2>1. CASE ReceiveMetadata \/ PingAnswered
    <3>1. Replies("client", <<>>, "offered") /\ inbox["client"] # <<>>
      BY <2>1 DEF ReceiveMetadata, PingAnswered
    <3> QED BY <3>1
  <2>2. CASE SendPing
    <3>1. Writes("client", <<Ping>>, "pinging")
      BY <2>2 DEF SendPing, Ping
    <3> QED BY <3>1
  <2> QED BY <1>6, <2>1, <2>2
<1>7. CASE PingFails
  <2>1. /\ at'["client"] = "dropped" /\ at'["host"] = at["host"] /\ outcome' = outcome
        /\ inbox'["client"] = <<>>
    BY <1>7, Sides DEF PingFails, Shape
  <2>2. NotComplete(inbox["client"])'
    BY <2>1, NotCompleteLines DEF NotComplete
  <2> QED BY <2>1, <2>2 DEF CopyRefused, NotSyncing
<1>8. CASE Accept \/ AcceptAfterDrop \/ Decline
  <2>1. CASE Accept
    <3>1. Writes("client", <<Taken>>, "ClipboardData")
      BY <2>1 DEF Accept, Taken
    <3> QED BY <3>1
  <2>2. CASE AcceptAfterDrop
    BY <2>2 DEF AcceptAfterDrop, Fails
  <2>3. CASE Decline
    BY <2>3 DEF Decline
  <2> QED BY <1>8, <2>1, <2>2, <2>3
<1>9. CASE ReceiverTakesData
  <2>1. CASE Replies("client", <<Taken>>, "TransferComplete") /\ inbox["client"] # <<>>
    <3>1. "TransferComplete" \notin {"runs", "SyncIndex", "SyncIndexAck"}
      OBVIOUS
    <3> QED BY <2>1, <3>1, Zenon
  <2>2. CASE Ends("client", "failed", <<NotTaken>>)
    BY <2>2
  <2>3. CASE Saying("client") = "content"
    BY <1>9, <2>1, <2>3 DEF ReceiverTakesData, Taken
  <2>4. CASE Saying("client") # "content"
    BY <1>9, <2>2, <2>4 DEF ReceiverTakesData, NotTaken
  <2> QED BY <2>3, <2>4
<1>10. ~ReceiverCompletes
  <2>1. inbox["client"] \in Seq(ToClient)
    BY DEF AdmitInv, ClipHost
  <2>2. inbox["client"] # <<>> => Head(inbox["client"]).type # "TransferComplete"
    BY <2>1, NotCompleteRead DEF CopyRefused
  <2> QED BY <2>2 DEF ReceiverCompletes
<1> QED
  BY <1>1, <1>2, <1>3, <1>4, <1>5, <1>6, <1>7, <1>8, <1>9, <1>10 DEF ClipNext

\* The steps of its search.
LEMMA RefusedSearch ==
  ASSUME Shape, AdmitInv, TrustedCopyPair, CopyRefused, DiscoveryNext
  PROVE  CopyRefused'
<1>0. Sharing /\ kind.client = "clip_trusted"
  BY DEF TrustedCopyPair
<1> USE <1>0, RefusedForms
<1>1. CASE HostListens \/ CannotListen
  BY <1>1 DEF HostListens, ClipShareListens, ClipSyncListens, DirSyncListens,
              DeviceListens, Moves, CannotListen
<1>2. CASE NoAddress \/ CannotSearch \/ SearchFails \/ DeviceNotFound \/ ConnectFails
  BY <1>2 DEF NoAddress, CannotSearch, SearchFails, DeviceNotFound, ConnectFails, Fails
<1>3. CASE UseAddress \/ StartSearch
  BY <1>3 DEF UseAddress, StartSearch, Moves
<1>4. CASE HearPacket \/ ResolveService \/ HearBeacon \/ FallsBack
  BY <1>4 DEF HearPacket, ResolveService, HearBeacon, FallsBack, Met, Moves
<1>5. CASE ProbeReachesAgain \/ ProbeFails
  BY <1>5 DEF ProbeReachesAgain, ProbeFails, Fails
<1>6. CASE ServiceWithdrawn
  BY <1>6 DEF ServiceWithdrawn, connection, CopyRefused, NotSyncing, NotComplete
<1>7. CASE ProbeReaches
  <2>1. /\ at'["host"] = "over" /\ at'["client"] = "found" /\ outcome'["host"] = "failed"
        /\ outcome'["client"] = outcome["client"] /\ inbox' = inbox
    BY <1>7, Sides DEF ProbeReaches, Shape
  <2> QED BY <2>1 DEF CopyRefused, NotSyncing, NotComplete
<1> QED
  BY <1>1, <1>2, <1>3, <1>4, <1>5, <1>6, <1>7 DEF DiscoveryNext

\* Every step of a share and a receiver that knows no code.
LEMMA RefusedKept ==
  ASSUME Shape, AdmitInv, TrustedCopyPair, CopyRefused, CommandsNext
  PROVE  CopyRefused'
<1>0. Sharing /\ kind.client = "clip_trusted"
  BY DEF TrustedCopyPair
<1>1. ~SyncNext /\ ~TrustedNext
  <2>1. \A p \in Side : at[p] \notin {"SyncIndex", "SyncIndexAck", "runs"}
    BY Sides DEF CopyRefused, NotSyncing
  <2> QED
    BY <1>0, <2>1, OthersSync, OthersTrusted DEF ClipSync, DirSync, Sharing, Sending, Receiving
<1>2. CASE Connect
  <2>1. /\ at'["host"] = "HelloAck" /\ at'["client"] = "Greeting" /\ outcome' = outcome
        /\ inbox'["client"] = <<Hello("nothing")>>
    BY <1>0, <1>2, ConnectIs DEF Starts, Opening, ShareStarts, TrustedReceiverStarts, Sharing
  <2>2. Hello("nothing").type # "TransferComplete"
    BY FrameParts DEF Hello
  <2>3. NotComplete(inbox["client"])'
    BY <2>1, <2>2, NotCompleteLines DEF NotComplete
  <2>4. outcome["host"] = "none"
    BY <1>2 DEF Connect, CopyRefused
  <2> QED BY <2>1, <2>3, <2>4 DEF CopyRefused, NotSyncing
<1>3. CASE (\E p \in Side : Tell(p))
  <2>1. UNCHANGED <<at, inbox, outcome>>
    BY <1>3, TellKeeps
  <2> QED BY <2>1 DEF CopyRefused, NotSyncing, NotComplete
<1>4. CASE ClipCannotBegin \/ DirCannotBegin \/ SendCannotBegin \/ UserCancels
  BY <1>4, RefusedForms
     DEF ClipCannotBegin, DirCannotBegin, SendCannotBegin, GivesUp, UserCancels, Fails
<1>5. CASE \E p \in Side : Unexpected(p) \/ ReadFails(p) \/ Killed(p)
  <2>1. PICK p \in Side : Fails(p)
    BY <1>5 DEF Unexpected, ReadFails, Killed
  <2>2. CASE p = "host"
    BY <2>1, <2>2, RefusedForms
  <2>3. CASE p = "client"
    BY <2>1, <2>3, RefusedForms DEF Fails
  <2> QED BY <2>2, <2>3, Sides
<1>6. ASSUME NEW p \in Side, FramesLost(p) PROVE CopyRefused'
  <2>1. /\ at' = at /\ outcome' = outcome
        /\ inbox'["client"] \in {<<>>, inbox["client"]}
    BY <1>6, Sides DEF FramesLost, Shape
  <2>2. NotComplete(inbox["client"])'
    BY <2>1, NotCompleteLines DEF NotComplete, CopyRefused
  <2> QED BY <2>1, <2>2 DEF CopyRefused, NotSyncing
<1> QED
  BY <1>1, <1>2, <1>3, <1>4, <1>5, <1>6, RefusedClip, RefusedSearch
     DEF CommandsNext, ConnectingNext, Serves, Breaks, Refuses

CopiesInv == Shape /\ AdmitInv /\ ToldInv /\ CopyInv /\ TrustedCopyInv

\* The invariant of the copy, by the names of its parts.
LEMMA CopyInvIs == CopyInv <=> (CopyPair => Copies \/ Left)
  BY DEF CopyInv, Copies, Left

\* At first nobody has connected.
LEMMA AtFirst == YoopInit => Apart /\ outcome["host"] = "none" /\ outcome["client"] = "none"
<1> SUFFICES ASSUME YoopInit
             PROVE  Apart /\ outcome["host"] = "none" /\ outcome["client"] = "none"
  OBVIOUS
<1>1. /\ at = [host |-> "idle", client |-> "idle"] /\ inbox = [p \in Side |-> <<>>]
      /\ outcome = [p \in Side |-> "none"]
  BY DEF YoopInit, CommandInit, ConnectingInit, DiscoveryInit
<1> QED BY <1>1, Sides DEF Apart, Before

\* The invariant holds at first.
LEMMA CopiesInvInit == YoopInit => CopiesInv
<1> SUFFICES ASSUME YoopInit PROVE CopiesInv
  OBVIOUS
<1>1. CopyInv
  BY AtFirst DEF CopyInv
<1>2. TrustedCopyInv
  BY AtFirst, NotCompleteLines DEF TrustedCopyInv, CopyRefused, Apart, Before, NotSyncing
<1> QED BY <1>1, <1>2, BaseInit, AdmitInvInit DEF CopiesInv, Base

\* And every step keeps it.
LEMMA CopiesInvKept == CopiesInv /\ [YoopNext]_yoopVars => CopiesInv'
<1> SUFFICES ASSUME CopiesInv, [YoopNext]_yoopVars PROVE CopiesInv'
  OBVIOUS
<1>0. AdmitInv'
  BY AdmitInvKept DEF CopiesInv
<1>1. CASE CommandsNext
  <2>1. CopyInv'
    <3>1. CopyPair' = CopyPair
      BY <1>1, PairStays DEF CopiesInv
    <3>2. CopyPair => Copies' \/ Left'
      BY <1>1, CopyInvIs, CopyKept DEF CopiesInv
    <3>3. CopyInv' <=> (CopyPair' => Copies' \/ Left')
      BY DEF CopyInv, Copies, Left
    <3> QED BY <3>1, <3>2, <3>3
  <2>2. TrustedCopyInv'
    <3>1. TrustedCopyPair' = TrustedCopyPair
      BY <1>1, PairStays DEF CopiesInv, SameUsers, TrustedCopyPair, Sharing
    <3> QED BY <1>1, <3>1, RefusedKept DEF CopiesInv, TrustedCopyInv
  <2> QED BY <1>0, <1>1, <2>1, <2>2, BaseKept DEF CopiesInv, Base
<1>2. CASE UNCHANGED commandVars
  <2>1. UNCHANGED <<kind, creds, at, inbox, outcome, copied, told>>
    BY <1>2 DEF commandVars, connectingVars, connection, clipVars
  <2>2. Code' = Code
    BY <2>1 DEF Code, CodeVerify, Frame
  <2>3. Shape' /\ ToldInv'
    BY <2>1 DEF CopiesInv, Shape, ToldInv
  <2>4. TrustedCopyInv'
    BY <2>1 DEF CopiesInv, TrustedCopyInv, CopyRefused, TrustedCopyPair, Sharing, NotSyncing,
                NotComplete
  <2>5. CopyInv'
    <3>1. Apart' = Apart /\ CopyRow' = CopyRow
      BY <2>1, <2>2 DEF Apart, CopyRow, Row
    <3>2. CopyHostGone' = CopyHostGone /\ CopyClientGone' = CopyClientGone
      BY <2>1, <2>2 DEF CopyHostGone, CopyClientGone, NotComplete, NotSyncing
    <3> QED BY <2>1, <3>1, <3>2 DEF CopiesInv, CopyInv, CopyPair, Sharing
  <2> QED BY <1>0, <2>3, <2>4, <2>5 DEF CopiesInv
<1> QED
  BY <1>1, <1>2 DEF YoopNext, yoopVars

\* What the commands of a copy have told is what came of their sessions.
LEMMA ToldIs ==
  ASSUME ToldInv, Sharing, Copying
  PROVE  /\ told["host"] = "ok" => outcome["host"] = "ok"
         /\ told["host"] = "error" => outcome["host"] # "ok"
         /\ told["client"] = "ok" => outcome["client"] = "ok"
         /\ told["client"] = "declined" => outcome["client"] = "declined"
<1>1. /\ \A result : Tells(kind["host"], result) = OkOrError(result)
      /\ \A result : Tells(kind["client"], result) = RunReceive(result)
  BY DEF Sharing, Copying, Tells, RunShare, RunReceiveTrusted
<1>2. told["host"] # "nothing" => told["host"] = OkOrError(outcome["host"])
  BY <1>1, Sides DEF ToldInv
<1>3. told["client"] # "nothing" => told["client"] = RunReceive(outcome["client"])
  BY <1>1, Sides DEF ToldInv
<1> QED BY <1>2, <1>3 DEF OkOrError, RunReceive

\* Whatever was lost and whoever was killed on the way: the two users of a
\* clipboard copy are never told opposite things (commands/clipboard.rs).
THEOREM CopyAgreed == YoopSpec => []AgreeOnCopy
<1>1. ASSUME CopiesInv PROVE AgreeOnCopy
  <2> SUFFICES ASSUME Sharing, Copying
               PROVE  /\ told["host"] = "ok" => copied # "nothing" /\ told["client"] # "declined"
                      /\ told["client"] = "ok" => told["host"] # "error"
    BY DEF AgreeOnCopy
  <2>1. CASE kind.client = "clip_code"
    <3>1. Copies \/ Left
      BY <1>1, <2>1, CopyInvIs DEF CopiesInv, CopyPair
    <3>2. outcome["host"] = "ok" => copied # "nothing" /\ outcome["client"] # "declined"
      BY <3>1 DEF Copies, Left, CopyHostGone
    <3>3. outcome["client"] = "ok" => outcome["host"] = "ok"
      BY <3>1 DEF Copies, Left, CopyHostGone, CopyClientGone
    <3> QED BY <1>1, <3>2, <3>3, ToldIs DEF CopiesInv
  <2>2. CASE kind.client = "clip_trusted"
    <3>1. outcome["host"] # "ok" /\ outcome["client"] # "ok"
      BY <1>1, <2>2 DEF CopiesInv, TrustedCopyInv, TrustedCopyPair, CopyRefused
    <3> QED BY <1>1, <3>1, ToldIs DEF CopiesInv
  <2> QED BY <2>1, <2>2 DEF Copying
<1> QED
  BY <1>1, CopiesInvInit, CopiesInvKept, PTL DEF YoopSpec
=============================================================================
