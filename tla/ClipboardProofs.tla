--------------------------- MODULE ClipboardProofs ---------------------------
(***************************************************************************)
(* The request protocol of ClipboardSync is sound for all contents, copies *)
(* and capacities, under every fault.  TypeOK, OneRequestOutstanding and   *)
(* RequestFindsCache are inductive together.  And no clipboard ever holds  *)
(* anything but what some user has put on one.                             *)
(***************************************************************************)
EXTENDS ClipboardSync, TLAPS

IInv == TypeOK /\ OneRequestOutstanding /\ RequestFindsCache

-----------------------------------------------------------------------------
(* Peers and frames                                                         *)

(* There are two peers, each the other of the other.                        *)
LEMMA TwoPeers ==
  ASSUME NEW p \in Peer
  PROVE  /\ Other(p) \in Peer
         /\ Other(p) # p
         /\ Other(Other(p)) = p
         /\ \A q \in Peer : q = p \/ q = Other(p)
  BY PeerAssumption DEF Peer, Other

(* No content is not a content.                                             *)
LEMMA ContentFacts ==
  /\ NoContent \notin Content
  /\ \A c \in Content : c.content_type \in ContentType /\ c.data \in Bytes
  BY DEF NoContent, Content, ContentType, Bytes

(* The frames that are written are frames, with the type in their name.     *)
LEMMA FrameTypes ==
  /\ ClipboardRequest \in Frame /\ ClipboardRequest.type = "ClipboardRequest"
  /\ ClipboardAck \in Frame /\ ClipboardAck.type = "ClipboardAck"
  /\ \A c \in Content :
       /\ ClipboardChanged(c) \in Frame
       /\ ClipboardChanged(c).type = "ClipboardChanged"
       /\ ClipboardData(c) \in Frame
       /\ ClipboardData(c).type = "ClipboardData"
  BY ContentFacts
  DEF ClipboardRequest, ClipboardAck, ClipboardChanged, ClipboardData, Frame

(* What reading a frame leaves.                                             *)
LEMMA ReadLeaves ==
  ASSUME NEW w \in Seq(Frame), w # <<>>, NEW t
  PROVE  /\ Tail(w) \in Seq(Frame)
         /\ Has(Tail(w), t) => Has(w, t)
         /\ AtMostOne(w, t) => AtMostOne(Tail(w), t)
         /\ Head(w).type = t => Has(w, t)
         /\ Head(w).type = t /\ AtMostOne(w, t) => ~Has(Tail(w), t)
<1> DEFINE v == Tail(w)
<1>1. /\ v \in Seq(Frame)
      /\ Len(v) = Len(w) - 1
      /\ Len(w) \in Nat /\ Len(w) > 0
      /\ \A k \in 1..Len(v) : v[k] = w[k + 1]
      /\ Head(w) = w[1]
  OBVIOUS
<1>2. DOMAIN v = 1..Len(v) /\ DOMAIN w = 1..Len(w)
  BY <1>1
<1>3. \A k \in DOMAIN v : k + 1 \in DOMAIN w /\ k + 1 # 1 /\ v[k] = w[k + 1]
  BY <1>1, <1>2
<1>4. 1 \in DOMAIN w /\ DOMAIN v \subseteq Nat
  BY <1>1, <1>2
<1> HIDE DEF v
<1>5. Has(v, t) => Has(w, t)
  BY <1>3 DEF Has
<1>6. AtMostOne(w, t) => AtMostOne(v, t)
  BY <1>3, <1>4 DEF AtMostOne
<1>7. Head(w).type = t => Has(w, t)
  BY <1>1, <1>4 DEF Has
<1>8. Head(w).type = t /\ AtMostOne(w, t) => ~Has(v, t)
  BY <1>1, <1>3, <1>4 DEF Has, AtMostOne
<1> QED
  BY <1>1, <1>5, <1>6, <1>7, <1>8 DEF v

(* What writing a frame adds.                                               *)
LEMMA WriteAdds ==
  ASSUME NEW w \in Seq(Frame), NEW f \in Frame, NEW t
  PROVE  /\ w \o <<f>> \in Seq(Frame)
         /\ Has(w \o <<f>>, t) => Has(w, t) \/ f.type = t
         /\ AtMostOne(w, t) /\ (f.type = t => ~Has(w, t))
              => AtMostOne(w \o <<f>>, t)
<1> DEFINE v == w \o <<f>>
<1>1. /\ v \in Seq(Frame)
      /\ Len(v) = Len(w) + 1
      /\ Len(w) \in Nat
      /\ \A k \in 1..Len(w) : v[k] = w[k]
      /\ v[Len(w) + 1] = f
  OBVIOUS
<1>2. DOMAIN v = 1..Len(v) /\ DOMAIN w = 1..Len(w)
  BY <1>1
<1>3. \A k \in DOMAIN v :
        (k \in DOMAIN w /\ v[k] = w[k]) \/ (k = Len(w) + 1 /\ v[k] = f)
  BY <1>1, <1>2
<1> HIDE DEF v
<1>4. Has(v, t) => Has(w, t) \/ f.type = t
  BY <1>3 DEF Has
<1>5. AtMostOne(w, t) /\ (f.type = t => ~Has(w, t)) => AtMostOne(v, t)
  BY <1>3 DEF Has, AtMostOne
<1> QED
  BY <1>1, <1>4, <1>5 DEF v

(* What an exchange does to the two channels: p may take its next frame,    *)
(* and the frame it writes reaches the other side or is lost.               *)
LEMMA ExchangeFacts ==
  ASSUME wire \in [Peer -> Seq(Frame)], NEW p \in Peer, NEW f \in Frame,
         NEW read \in BOOLEAN, read => wire[p] # <<>>
  PROVE  LET W == Exchange(p, read, <<f>>) IN
         /\ W \in [Peer -> Seq(Frame)]
         /\ W[p] = IF read THEN Tail(wire[p]) ELSE wire[p]
         /\ \/ W[Other(p)] = wire[Other(p)]
            \/ W[Other(p)] = wire[Other(p)] \o <<f>>
<1> DEFINE W == Exchange(p, read, <<f>>)
<1>1. wire[p] \in Seq(Frame) /\ wire[Other(p)] \in Seq(Frame)
  BY TwoPeers
<1>2. read => Tail(wire[p]) \in Seq(Frame)
  BY <1>1
<1>3. wire[Other(p)] \o <<f>> \in Seq(Frame)
  BY <1>1
<1>4. W[p] = IF read THEN Tail(wire[p]) ELSE wire[p]
  BY DEF Exchange
<1>5. \/ W[Other(p)] = wire[Other(p)]
      \/ W[Other(p)] = wire[Other(p)] \o <<f>>
  BY TwoPeers DEF Exchange
<1>6. W = [q \in Peer |-> W[q]]
  BY DEF Exchange
<1>7. \A q \in Peer : W[q] \in Seq(Frame)
  BY <1>1, <1>2, <1>3, <1>4, <1>5, TwoPeers
<1>8. W \in [Peer -> Seq(Frame)]
  BY <1>6, <1>7
<1> QED
  BY <1>4, <1>5, <1>8

(* The same when nothing is written.                                        *)
LEMMA ReadFacts ==
  ASSUME wire \in [Peer -> Seq(Frame)], NEW p \in Peer, wire[p] # <<>>
  PROVE  LET W == Exchange(p, TRUE, <<>>) IN
         /\ W \in [Peer -> Seq(Frame)]
         /\ W[p] = Tail(wire[p])
         /\ W[Other(p)] = wire[Other(p)]
<1> DEFINE W == Exchange(p, TRUE, <<>>)
<1>1. wire[p] \in Seq(Frame) /\ wire[Other(p)] \in Seq(Frame)
  BY TwoPeers
<1>2. Tail(wire[p]) \in Seq(Frame) /\ wire[Other(p)] \o <<>> = wire[Other(p)]
  BY <1>1
<1>3. W[p] = Tail(wire[p])
  BY DEF Exchange
<1>4. W[Other(p)] = wire[Other(p)]
  BY <1>2, TwoPeers DEF Exchange
<1>5. W = [q \in Peer |-> W[q]]
  BY DEF Exchange
<1>6. \A q \in Peer : W[q] \in Seq(Frame)
  BY <1>1, <1>2, <1>3, <1>4, TwoPeers
<1>7. W \in [Peer -> Seq(Frame)]
  BY <1>5, <1>6
<1> QED
  BY <1>3, <1>4, <1>7

-----------------------------------------------------------------------------
(* The invariant is preserved                                               *)

(* The initial states satisfy it.                                           *)
LEMMA InitInv == Init => IInv
<1> SUFFICES ASSUME Init PROVE IInv
  OBVIOUS
<1>1. /\ NoContent.content_type = "none" /\ NoContent.data = NoHash
      /\ \A c \in Start : hash(c) \in Bytes \cup {NoHash}
  BY ContentAssumption, ContentFacts DEF NoContent, hash
<1>2. \A p \in Peer : clipboard[p] \in Start
  BY DEF Init
<1>3. TypeOK
  <2>1. last_hash \in [Peer -> Bytes \cup {NoHash}]
    BY <1>1, <1>2 DEF Init
  <2>2. clipboard \in [Peer -> Content \cup {NoContent}]
    BY ContentAssumption DEF Init
  <2>3. /\ changes \in [Peer -> Seq(Content)]
        /\ copied \in [Peer -> Seq(Content)]
        /\ wire \in [Peer -> Seq(Frame)]
    BY DEF Init
  <2>4. events \in [Peer -> 0..EventCap]
    BY BoundAssumption DEF Init
  <2>5. \A p \in Peer : watcher[p] = "sleep"
    BY DEF Init
  <2> QED
    BY <2>1, <2>2, <2>3, <2>4, <2>5 DEF Init, TypeOK, ContentType
<1>4. \A p \in Peer : \A t : ~Has(wire[p], t) /\ AtMostOne(wire[p], t)
  BY DEF Init, Has, AtMostOne
<1>5. OneRequestOutstanding /\ RequestFindsCache
  BY <1>4, TwoPeers DEF Init, OneRequestOutstanding, RequestFindsCache
<1> QED
  BY <1>3, <1>5 DEF IInv

(* The types are preserved by every step.                                   *)
LEMMA TypeStep ==
  ASSUME IInv, [Next]_vars
  PROVE  TypeOK'
<1> USE DEF IInv
<1>0. wire \in [Peer -> Seq(Frame)]
  BY DEF TypeOK
<1>1. CASE UNCHANGED vars
  BY <1>1
  DEF TypeOK, vars, hashVars, watcherVars, inboundVars, sessionVars,
      streamVars
<1>2. ASSUME NEW p \in Peer, NEW content \in Content, UserCopies(p, content)
      PROVE  TypeOK'
  BY <1>2
  DEF TypeOK, UserCopies, hashVars, watcherVars, inboundVars, sessionVars,
      streamVars
<1>3. ASSUME NEW p \in Peer, WRead(p)
     PROVE  TypeOK'
  BY <1>3
  DEF TypeOK, WRead, hashVars, watcherVars, inboundVars, sessionVars,
      streamVars
<1>4. ASSUME NEW p \in Peer, WCompare(p)
     PROVE  TypeOK'
  <2>1. hash(polled[p]) \in Bytes
    BY <1>4, ContentFacts DEF TypeOK, WCompare, hash
  <2>2. \/ /\ watcher' = [watcher EXCEPT ![p] = "sleep"]
           /\ polled' = [polled EXCEPT ![p] = NoContent]
           /\ last_hash' = last_hash
        \/ /\ watcher' = [watcher EXCEPT ![p] = "send"]
           /\ polled' = polled /\ watcher[p] = "compare"
           /\ last_hash' = [last_hash EXCEPT ![p] = hash(polled[p])]
    BY <1>4 DEF WCompare
  <2>3. /\ watcher \in [Peer -> {"sleep", "compare", "send", "ended"}]
        /\ polled \in [Peer -> Content \cup {NoContent}]
        /\ last_hash \in [Peer -> Bytes \cup {NoHash}]
        /\ \A q \in Peer :
             watcher[q] \in {"compare", "send"} => polled[q] \in Content
    BY DEF TypeOK
  <2>4. /\ watcher' \in [Peer -> {"sleep", "compare", "send", "ended"}]
        /\ polled' \in [Peer -> Content \cup {NoContent}]
        /\ \A q \in Peer :
             watcher'[q] \in {"compare", "send"} => polled'[q] \in Content
    BY <2>2, <2>3
  <2>5. last_hash' \in [Peer -> Bytes \cup {NoHash}]
    BY <2>1, <2>2, <2>3
  <2>6. UNCHANGED <<clipboard, last_remote_hash, cache, changes, outbound,
                    inbound, announced, incoming, events, running, wire, open,
                    lost, copied>>
    BY <1>4 DEF WCompare, inboundVars, sessionVars, streamVars
  <2> QED
    BY <2>2, <2>3, <2>4, <2>5, <2>6 DEF TypeOK
<1>5. ASSUME NEW p \in Peer, WSend(p)
     PROVE  TypeOK'
  <2>1. Append(changes[p], polled[p]) \in Seq(Content)
    BY <1>5 DEF TypeOK, WSend
  <2>2. changes' \in [Peer -> Seq(Content)]
    BY <1>5, <2>1 DEF TypeOK, WSend
  <2>3. watcher' \in [Peer -> {"sleep", "compare", "send", "ended"}]
    BY <1>5 DEF TypeOK, WSend
  <2>4. polled' \in [Peer -> Content \cup {NoContent}]
    BY <1>5 DEF TypeOK, WSend
  <2>5. \A q \in Peer :
          watcher'[q] \in {"compare", "send"} => polled'[q] \in Content
    BY <1>5 DEF TypeOK, WSend
  <2>6. UNCHANGED <<clipboard, last_hash, last_remote_hash, cache, outbound,
                    inbound, announced, incoming, events, running, wire, open,
                    lost, copied>>
    BY <1>5 DEF WSend, hashVars, inboundVars, sessionVars, streamVars
  <2> QED
    BY <2>2, <2>3, <2>4, <2>5, <2>6 DEF TypeOK
<1>6. ASSUME NEW p \in Peer, WEnd(p)
     PROVE  TypeOK'
  BY <1>6
  DEF TypeOK, WEnd, hashVars, watcherVars, inboundVars, sessionVars,
      streamVars
<1>7. ASSUME NEW p \in Peer, OTake(p)
     PROVE  TypeOK'
  <2>0. /\ changes \in [Peer -> Seq(Content)] /\ changes[p] # <<>>
        /\ cache \in [Peer -> Content \cup {NoContent}]
        /\ changes' = [changes EXCEPT ![p] = Tail(@)]
        /\ \/ cache' = cache
           \/ cache' = [cache EXCEPT ![p] = NextCache(p)]
    BY <1>7 DEF TypeOK, OTake
  <2>1. /\ Tail(changes[p]) \in Seq(Content)
        /\ NextCache(p) \in Content
    BY <2>0 DEF NextCache
  <2>2. changes' \in [Peer -> Seq(Content)]
    BY <2>0, <2>1
  <2>3. cache' \in [Peer -> Content \cup {NoContent}]
    BY <2>0, <2>1
  <2>4. outbound' \in [Peer -> {"recv", "notify", "event", "ended"}]
    <3>1. outbound' = outbound \/ outbound' = [outbound EXCEPT ![p] = "notify"]
      BY <1>7 DEF OTake
    <3>2. outbound \in [Peer -> {"recv", "notify", "event", "ended"}]
      BY DEF TypeOK
    <3> QED
      BY <3>1, <3>2
  <2>5. UNCHANGED <<clipboard, last_hash, last_remote_hash, watcher, polled,
                    inbound, announced, incoming, events, running, wire, open,
                    lost, copied>>
    BY <1>7 DEF OTake, hashVars, watcherVars, inboundVars, sessionVars,
       streamVars
  <2> QED
    BY <2>2, <2>3, <2>4, <2>5 DEF TypeOK
<1>8. ASSUME NEW p \in Peer, ONotify(p)
     PROVE  TypeOK'
  <2>0. cache[p] # NoContent
    BY <1>8 DEF ONotify, RequestFindsCache
  <2>1. cache[p] \in Content
    BY <2>0 DEF TypeOK
  <2> DEFINE f == ClipboardChanged(cache[p])
  <2>2. f \in Frame
    BY <2>1, FrameTypes
  <2> HIDE DEF f
  <2>3. Exchange(p, FALSE, <<f>>) \in [Peer -> Seq(Frame)]
    BY <1>0, <2>2, ExchangeFacts
  <2>4. wire' \in [Peer -> Seq(Frame)]
    BY <1>8, <2>3 DEF ONotify, f
  <2> QED
    BY <1>8, <2>4
    DEF TypeOK, ONotify, hashVars, watcherVars, inboundVars, sessionVars,
        streamVars
<1>9. ASSUME NEW p \in Peer, OEvent(p)
     PROVE  TypeOK'
  <2>1. EventSent(p) \in [Peer -> 0..EventCap]
    BY <1>9, BoundAssumption DEF TypeOK, OEvent, EventSent, EventRoom
  <2> QED
    BY <1>9, <2>1
    DEF TypeOK, OEvent, hashVars, watcherVars, inboundVars, sessionVars,
        streamVars
<1>10. ASSUME NEW p \in Peer, OEnd(p)
     PROVE  TypeOK'
  <2>1. <<>> \in Seq(Content)
    OBVIOUS
  <2> QED
    BY <1>10, <2>1
    DEF TypeOK, OEnd, hashVars, watcherVars, inboundVars, sessionVars,
        streamVars
<1>11. ASSUME NEW p \in Peer, IChanged(p)
     PROVE  TypeOK'
  <2>1. Head(wire[p]).content_type \in ContentType
    <3>1. wire[p] \in Seq(Frame) /\ wire[p] # <<>>
      BY <1>11, <1>0 DEF IChanged, Arrived
    <3>2. Head(wire[p]) \in Frame
      BY <3>1
    <3> QED
      BY <1>11, <3>2 DEF IChanged, Arrived, Frame
  <2>2. wire' \in [Peer -> Seq(Frame)]
    BY <1>11, <1>0, ExchangeFacts, FrameTypes DEF IChanged, Arrived
  <2> QED
    BY <1>11, <2>1, <2>2
    DEF TypeOK, IChanged, hashVars, watcherVars, inboundVars, sessionVars,
        streamVars
<1>12. ASSUME NEW p \in Peer, IRequest(p)
     PROVE  TypeOK'
  <2> DEFINE f == IF Answer(p) # NoContent
                    THEN ClipboardData(Answer(p)) ELSE ClipboardAck
  <2>1. f \in Frame
    BY FrameTypes DEF TypeOK, Answer
  <2> HIDE DEF f
  <2>2. Exchange(p, TRUE, <<f>>) \in [Peer -> Seq(Frame)]
    BY <1>12, <1>0, <2>1, ExchangeFacts DEF IRequest, Arrived
  <2>3. wire' \in [Peer -> Seq(Frame)]
    BY <1>12, <2>2 DEF IRequest, f
  <2> QED
    BY <1>12, <2>3
    DEF TypeOK, IRequest, hashVars, watcherVars, inboundVars, sessionVars,
        streamVars
<1>13. ASSUME NEW p \in Peer, ISkip(p)
     PROVE  TypeOK'
  <2>1. wire' \in [Peer -> Seq(Frame)]
    BY <1>13, <1>0, ReadFacts DEF ISkip
  <2> QED
    BY <1>13, <2>1
    DEF TypeOK, ISkip, hashVars, watcherVars, inboundVars, sessionVars,
        streamVars
<1>14. ASSUME NEW p \in Peer, IData(p)
     PROVE  TypeOK'
  <2> DEFINE content == from_bytes(announced[p], Head(wire[p]).data)
  <2>1. wire[p] \in Seq(Frame) /\ wire[p] # <<>>
    BY <1>14, <1>0 DEF IData, Arrived
  <2>2. Head(wire[p]) \in Frame
    BY <2>1
  <2>3. Head(wire[p]).data \in Bytes
    BY <1>14, <2>2 DEF IData, Arrived, Frame
  <2>4. announced[p] \in ContentType
    BY DEF TypeOK
  <2>5. /\ content \in Content \cup {NoContent}
                         \cup [content_type : {"ImagePng"}, data : Texts]
        /\ content # NoContent => hash(content) \in Bytes
    BY <2>3, <2>4 DEF from_bytes, Content, ContentType, Bytes, hash
  <2>6. wire' \in [Peer -> Seq(Frame)]
    BY <1>14, <1>0, <2>1, ReadFacts DEF IData
  <2> QED
    BY <1>14, <2>5, <2>6
    DEF TypeOK, IData, hashVars, watcherVars, inboundVars, sessionVars,
        streamVars, ToldWatcher
<1>15. ASSUME NEW p \in Peer, IDataInvalid(p)
     PROVE  TypeOK'
  <2>1. wire' \in [Peer -> Seq(Frame)]
    BY <1>15, <1>0, ExchangeFacts, FrameTypes DEF IDataInvalid, Arrived
  <2> QED
    BY <1>15, <2>1
    DEF TypeOK, IDataInvalid, hashVars, watcherVars, inboundVars,
        sessionVars, streamVars
<1>16. ASSUME NEW p \in Peer, IWrite(p)
     PROVE  TypeOK'
  <2>1. Decodable(incoming[p]) => incoming[p] \in Content \cup {NoContent}
    BY ContentAssumption DEF TypeOK, Decodable, NoContent
  <2> QED
    BY <1>16, <2>1
    DEF TypeOK, IWrite, hashVars, watcherVars, inboundVars, sessionVars,
        streamVars
<1>17. ASSUME NEW p \in Peer, IWriteFails(p)
     PROVE  TypeOK'
  <2>1. wire' \in [Peer -> Seq(Frame)]
    BY <1>17, <1>0, ExchangeFacts, FrameTypes DEF IWriteFails
  <2> QED
    BY <1>17, <2>1
    DEF TypeOK, IWriteFails, hashVars, watcherVars, inboundVars, sessionVars,
        streamVars
<1>18. ASSUME NEW p \in Peer, IEvent(p)
     PROVE  TypeOK'
  <2>1. wire' \in [Peer -> Seq(Frame)]
    BY <1>18, <1>0, ExchangeFacts, FrameTypes DEF IEvent
  <2>2. EventSent(p) \in [Peer -> 0..EventCap]
    BY <1>18, BoundAssumption DEF TypeOK, IEvent, EventSent, EventRoom
  <2> QED
    BY <1>18, <2>1, <2>2
    DEF TypeOK, IEvent, hashVars, watcherVars, inboundVars, sessionVars,
        streamVars
<1>19. ASSUME NEW p \in Peer, IReadFails(p)
     PROVE  TypeOK'
  BY <1>19
  DEF TypeOK, IReadFails, hashVars, watcherVars, inboundVars, sessionVars,
      streamVars
<1>20. ASSUME NEW p \in Peer, RunReturns(p)
     PROVE  TypeOK'
  BY <1>20
  DEF TypeOK, RunReturns, hashVars, watcherVars, inboundVars, sessionVars,
      streamVars
<1>21. ASSUME NEW p \in Peer, Stop(p)
     PROVE  TypeOK'
  BY <1>21
  DEF TypeOK, Stop, hashVars, watcherVars, inboundVars, sessionVars,
      streamVars
<1>22. ASSUME NEW p \in Peer, StreamDropped(p)
     PROVE  TypeOK'
  BY <1>22
  DEF TypeOK, StreamDropped, hashVars, watcherVars, inboundVars, sessionVars,
      streamVars
<1>23. ASSUME NEW p \in Peer, Exit(p)
     PROVE  TypeOK'
  BY <1>23
  DEF TypeOK, Exit, hashVars, watcherVars, inboundVars, sessionVars,
      streamVars
<1>24. CASE ConnectionLost
  BY <1>24
  DEF TypeOK, ConnectionLost, hashVars, watcherVars, inboundVars,
      sessionVars, streamVars
<1> QED
  BY <1>1, <1>2, <1>3, <1>4, <1>5, <1>6, <1>7, <1>8, <1>9, <1>10, <1>11,
      <1>12, <1>13, <1>14, <1>15, <1>16, <1>17, <1>18, <1>19, <1>20, <1>21,
          <1>22, <1>23, <1>24
  DEF Next, WatcherRuns, OutboundRuns, InboundRuns

(* A step that exchanges frames keeps requests and answers paired, and what *)
(* is announced cached, if it asks only on a notification and only from the *)
(* outer loop, answers only a request, announces only what is cached, and   *)
(* leaves the inner loop only with the answer.                              *)
LEMMA ProtocolStep ==
  ASSUME IInv, NEW p \in Peer, NEW f \in Frame, NEW read \in BOOLEAN,
         read => wire[p] # <<>>,
         wire'[p] = IF read THEN Tail(wire[p]) ELSE wire[p],
         \/ wire'[Other(p)] = wire[Other(p)]
         \/ wire'[Other(p)] = wire[Other(p)] \o <<f>>,
         inbound'[Other(p)] = inbound[Other(p)],
         cache' = cache,
         \A q \in Peer : outbound'[q] = "notify" => outbound[q] = "notify",
         f.type = "ClipboardChanged" => outbound[p] = "notify",
         f.type = "ClipboardRequest" =>
           /\ inbound[p] = "read" /\ inbound'[p] = "await"
           /\ read /\ Head(wire[p]).type = "ClipboardChanged",
         f.type = "ClipboardData" =>
           read /\ Head(wire[p]).type = "ClipboardRequest",
         \/ inbound'[p] \in {"await", "ended"}
         \/ inbound[p] \notin {"await", "ended"}
         \/ read /\ Head(wire[p]).type = "ClipboardData"
  PROVE  OneRequestOutstanding' /\ RequestFindsCache'
<1> DEFINE o == Other(p)
<1>1. /\ o \in Peer /\ o # p /\ Other(o) = p
      /\ \A q \in Peer : q = p \/ q = o
  BY TwoPeers
<1> HIDE DEF o
<1>2. wire[p] \in Seq(Frame) /\ wire[o] \in Seq(Frame)
  BY <1>1 DEF IInv, TypeOK
<1>3. \A t : /\ Has(wire'[p], t) => Has(wire[p], t)
             /\ AtMostOne(wire[p], t) => AtMostOne(wire'[p], t)
             /\ read /\ Head(wire[p]).type = t => Has(wire[p], t)
             /\ read /\ Head(wire[p]).type = t /\ AtMostOne(wire[p], t)
                  => ~Has(wire'[p], t)
  BY <1>2, ReadLeaves
<1>4. \A t : /\ Has(wire'[o], t) => Has(wire[o], t) \/ f.type = t
             /\ AtMostOne(wire[o], t) /\ (f.type = t => ~Has(wire[o], t))
                  => AtMostOne(wire'[o], t)
  <2>1. CASE wire'[o] = wire[o]
    BY <2>1
  <2>2. CASE wire'[o] = wire[o] \o <<f>>
    BY <1>2, <2>2, WriteAdds
  <2> QED
    BY <2>1, <2>2 DEF o
<1>5. /\ AtMostOne(wire[o], "ClipboardRequest")
      /\ AtMostOne(wire[p], "ClipboardData")
      /\ ~(Has(wire[o], "ClipboardRequest") /\ Has(wire[p], "ClipboardData"))
      /\ Has(wire[o], "ClipboardRequest") \/ Has(wire[p], "ClipboardData")
           => inbound[p] \in {"await", "ended"}
  BY DEF IInv, OneRequestOutstanding, o
<1>6. /\ AtMostOne(wire[p], "ClipboardRequest")
      /\ AtMostOne(wire[o], "ClipboardData")
      /\ ~(Has(wire[p], "ClipboardRequest") /\ Has(wire[o], "ClipboardData"))
      /\ Has(wire[p], "ClipboardRequest") \/ Has(wire[o], "ClipboardData")
           => inbound[o] \in {"await", "ended"}
  BY <1>1 DEF IInv, OneRequestOutstanding
<1>7. /\ AtMostOne(wire'[o], "ClipboardRequest")
      /\ AtMostOne(wire'[p], "ClipboardData")
      /\ ~(Has(wire'[o], "ClipboardRequest") /\ Has(wire'[p],
          "ClipboardData"))
      /\ Has(wire'[o], "ClipboardRequest") \/ Has(wire'[p], "ClipboardData")
           => inbound'[p] \in {"await", "ended"}
  BY <1>3, <1>4, <1>5
<1>8. /\ AtMostOne(wire'[p], "ClipboardRequest")
      /\ AtMostOne(wire'[o], "ClipboardData")
      /\ ~(Has(wire'[p], "ClipboardRequest") /\ Has(wire'[o],
          "ClipboardData"))
      /\ Has(wire'[p], "ClipboardRequest") \/ Has(wire'[o], "ClipboardData")
           => inbound'[o] \in {"await", "ended"}
  BY <1>3, <1>4, <1>6 DEF o
<1>9. OneRequestOutstanding'
  BY <1>1, <1>7, <1>8 DEF OneRequestOutstanding, o
<1>10. /\ (\/ outbound[p] = "notify"
           \/ Has(wire[o], "ClipboardChanged")
           \/ Has(wire[p], "ClipboardRequest"))
            => cache[p] # NoContent
       /\ (\/ outbound[o] = "notify"
           \/ Has(wire[p], "ClipboardChanged")
           \/ Has(wire[o], "ClipboardRequest"))
            => cache[o] # NoContent
  BY <1>1 DEF IInv, RequestFindsCache, o
<1>11. /\ (\/ outbound'[p] = "notify"
           \/ Has(wire'[o], "ClipboardChanged")
           \/ Has(wire'[p], "ClipboardRequest"))
            => cache'[p] # NoContent
       /\ (\/ outbound'[o] = "notify"
           \/ Has(wire'[p], "ClipboardChanged")
           \/ Has(wire'[o], "ClipboardRequest"))
            => cache'[o] # NoContent
  BY <1>1, <1>3, <1>4, <1>10
<1>12. RequestFindsCache'
  BY <1>1, <1>11 DEF RequestFindsCache, o
<1> QED
  BY <1>9, <1>12

(* A step that leaves the channels alone keeps them, if it caches before it *)
(* is about to announce and does not leave the inner loop.                  *)
LEMMA QuietStep ==
  ASSUME IInv, wire' = wire,
         \A q \in Peer : \/ inbound'[q] = inbound[q]
                         \/ inbound'[q] = "ended"
                         \/ inbound[q] = "write",
         \A q \in Peer :
           \/ /\ cache'[q] = cache[q]
              /\ outbound'[q] = "notify" => outbound[q] = "notify"
           \/ cache'[q] # NoContent
  PROVE  OneRequestOutstanding' /\ RequestFindsCache'
<1>1. OneRequestOutstanding'
  <2> SUFFICES ASSUME NEW q \in Peer
               PROVE  Has(wire[Other(q)], "ClipboardRequest")
                        \/ Has(wire[q], "ClipboardData")
                          => inbound'[q] \in {"await", "ended"}
    BY DEF IInv, OneRequestOutstanding
  <2> QED
    BY DEF IInv, OneRequestOutstanding
<1>2. RequestFindsCache'
  BY DEF IInv, RequestFindsCache
<1> QED
  BY <1>1, <1>2

(* Every step keeps requests and answers paired and announcements cached.   *)
LEMMA RequestStep ==
  ASSUME IInv, [Next]_vars
  PROVE  OneRequestOutstanding' /\ RequestFindsCache'
<1> DEFINE Goal == OneRequestOutstanding' /\ RequestFindsCache'
<1>0. /\ wire \in [Peer -> Seq(Frame)]
      /\ inbound \in [Peer -> {"read", "await", "write", "event", "ended"}]
      /\ outbound \in [Peer -> {"recv", "notify", "event", "ended"}]
      /\ cache \in [Peer -> Content \cup {NoContent}]
      /\ clipboard \in [Peer -> Content \cup {NoContent}]
  BY DEF IInv, TypeOK
<1>1. CASE UNCHANGED vars
  BY <1>1, QuietStep
  DEF vars, hashVars, watcherVars, inboundVars, sessionVars, streamVars
<1>2. ASSUME NEW p \in Peer, NEW content \in Content, UserCopies(p, content)
      PROVE  Goal
  BY <1>2, QuietStep DEF UserCopies, inboundVars
<1>3. ASSUME NEW p \in Peer, WRead(p)
     PROVE  Goal
  BY <1>3, <1>0, QuietStep DEF WRead, inboundVars
<1>4. ASSUME NEW p \in Peer, WCompare(p)
     PROVE  Goal
  BY <1>4, <1>0, QuietStep DEF WCompare, inboundVars
<1>5. ASSUME NEW p \in Peer, WSend(p)
     PROVE  Goal
  BY <1>5, <1>0, QuietStep DEF WSend, inboundVars
<1>6. ASSUME NEW p \in Peer, WEnd(p)
     PROVE  Goal
  BY <1>6, <1>0, QuietStep DEF WEnd, inboundVars
<1>7. ASSUME NEW p \in Peer, OTake(p)
     PROVE  Goal
  <2>1. NextCache(p) # NoContent
    BY <1>7, ContentFacts DEF IInv, TypeOK, OTake, NextCache
  <2> QED
    BY <1>7, <1>0, <2>1, QuietStep DEF OTake, inboundVars
<1>8. ASSUME NEW p \in Peer, ONotify(p)
     PROVE  Goal
  <2> DEFINE f == ClipboardChanged(cache[p])
  <2>0. cache[p] # NoContent
    BY <1>8 DEF IInv, ONotify, RequestFindsCache
  <2>1. f \in Frame /\ f.type = "ClipboardChanged"
    BY <1>0, <2>0, FrameTypes
  <2>2. wire' = Exchange(p, FALSE, <<f>>)
    BY <1>8 DEF ONotify
  <2> HIDE DEF f
  <2>4. /\ wire'[p] = wire[p]
        /\ \/ wire'[Other(p)] = wire[Other(p)]
           \/ wire'[Other(p)] = wire[Other(p)] \o <<f>>
    BY <1>0, <2>1, <2>2, ExchangeFacts
  <2>5. /\ inbound'[Other(p)] = inbound[Other(p)]
        /\ cache' = cache
        /\ \A q \in Peer : outbound'[q] = "notify" => outbound[q] = "notify"
    BY <1>8, <1>0, TwoPeers DEF ONotify, inboundVars
  <2>6. /\ outbound[p] = "notify"
        /\ inbound'[p] = inbound[p]
    BY <1>8, <1>0 DEF ONotify, inboundVars
  <2> QED
    BY <2>1, <2>4, <2>5, <2>6, ProtocolStep
<1>9. ASSUME NEW p \in Peer, OEvent(p)
     PROVE  Goal
  BY <1>9, <1>0, QuietStep DEF OEvent, inboundVars
<1>10. ASSUME NEW p \in Peer, OEnd(p)
     PROVE  Goal
  BY <1>10, <1>0, QuietStep DEF OEnd, inboundVars
<1>11. ASSUME NEW p \in Peer, IChanged(p)
     PROVE  Goal
  <2> DEFINE f == ClipboardRequest
  <2>1. f \in Frame /\ f.type = "ClipboardRequest"
    BY FrameTypes
  <2>2. wire' = Exchange(p, TRUE, <<f>>)
    BY <1>11 DEF IChanged
  <2> HIDE DEF f
  <2>3. wire[p] # <<>>
    BY <1>11 DEF IChanged, Arrived
  <2>4. /\ wire'[p] = Tail(wire[p])
        /\ \/ wire'[Other(p)] = wire[Other(p)]
           \/ wire'[Other(p)] = wire[Other(p)] \o <<f>>
    BY <1>0, <2>1, <2>2, <2>3, ExchangeFacts
  <2>5. /\ inbound'[Other(p)] = inbound[Other(p)]
        /\ cache' = cache
        /\ \A q \in Peer : outbound'[q] = "notify" => outbound[q] = "notify"
    BY <1>11, <1>0, TwoPeers DEF IChanged, inboundVars
  <2>6. /\ inbound[p] = "read" /\ inbound'[p] = "await"
        /\ Head(wire[p]).type = "ClipboardChanged"
    BY <1>11, <1>0 DEF IChanged, inboundVars, Arrived, InOuterLoop
  <2> QED
    BY <2>1, <2>3, <2>4, <2>5, <2>6, ProtocolStep
<1>12. ASSUME NEW p \in Peer, IRequest(p)
     PROVE  Goal
  <2> DEFINE f == IF Answer(p) # NoContent
                    THEN ClipboardData(Answer(p)) ELSE ClipboardAck
  <2>1. f \in Frame /\ f.type \in {"ClipboardData", "ClipboardAck"}
    BY <1>0, FrameTypes DEF Answer
  <2>2. wire' = Exchange(p, TRUE, <<f>>)
    BY <1>12 DEF IRequest
  <2> HIDE DEF f
  <2>3. wire[p] # <<>>
    BY <1>12 DEF IRequest, Arrived
  <2>4. /\ wire'[p] = Tail(wire[p])
        /\ \/ wire'[Other(p)] = wire[Other(p)]
           \/ wire'[Other(p)] = wire[Other(p)] \o <<f>>
    BY <1>0, <2>1, <2>2, <2>3, ExchangeFacts
  <2>5. /\ inbound'[Other(p)] = inbound[Other(p)]
        /\ cache' = cache
        /\ \A q \in Peer : outbound'[q] = "notify" => outbound[q] = "notify"
    BY <1>12, <1>0, TwoPeers DEF IRequest, inboundVars
  <2>6. /\ inbound[p] = "read"
        /\ Head(wire[p]).type = "ClipboardRequest"
    BY <1>12, <1>0 DEF IRequest, inboundVars, Arrived, InOuterLoop
  <2> QED
    BY <2>1, <2>3, <2>4, <2>5, <2>6, ProtocolStep
<1>13. ASSUME NEW p \in Peer, ISkip(p)
     PROVE  Goal
  <2>1. wire[p] # <<>> /\ wire' = Exchange(p, TRUE, <<>>)
    BY <1>13 DEF ISkip, Arrived
  <2>2. wire'[p] = Tail(wire[p]) /\ wire'[Other(p)] = wire[Other(p)]
    BY <1>0, <2>1, ReadFacts
  <2>3. ClipboardAck \in Frame /\ ClipboardAck.type = "ClipboardAck"
    BY FrameTypes
  <2>4. /\ inbound'[Other(p)] = inbound[Other(p)]
        /\ cache' = cache
        /\ \A q \in Peer : outbound'[q] = "notify" => outbound[q] = "notify"
    BY <1>13, <1>0, TwoPeers DEF ISkip, inboundVars
  <2>5. \/ inbound'[p] \in {"await", "ended"}
        \/ inbound[p] \notin {"await", "ended"}
    BY <1>13, <1>0 DEF ISkip, Arrived, inboundVars
  <2> QED
    BY <2>1, <2>2, <2>3, <2>4, <2>5, ProtocolStep
<1>14. ASSUME NEW p \in Peer, IData(p)
     PROVE  Goal
  <2>1. wire[p] # <<>> /\ wire' = Exchange(p, TRUE, <<>>)
    BY <1>14 DEF IData, Arrived
  <2>2. wire'[p] = Tail(wire[p]) /\ wire'[Other(p)] = wire[Other(p)]
    BY <1>0, <2>1, ReadFacts
  <2>3. ClipboardAck \in Frame /\ ClipboardAck.type = "ClipboardAck"
    BY FrameTypes
  <2>4. /\ inbound'[Other(p)] = inbound[Other(p)]
        /\ cache' = cache
        /\ \A q \in Peer : outbound'[q] = "notify" => outbound[q] = "notify"
    BY <1>14, <1>0, TwoPeers DEF IData, inboundVars
  <2>5. Head(wire[p]).type = "ClipboardData"
    BY <1>14, <1>0 DEF IData, Arrived, inboundVars
  <2> QED
    BY <2>1, <2>2, <2>3, <2>4, <2>5, ProtocolStep
<1>15. ASSUME NEW p \in Peer, IDataInvalid(p)
     PROVE  Goal
  <2> DEFINE f == ClipboardAck
  <2>1. f \in Frame /\ f.type = "ClipboardAck"
    BY FrameTypes
  <2>2. wire' = Exchange(p, TRUE, <<f>>)
    BY <1>15 DEF IDataInvalid
  <2> HIDE DEF f
  <2>3. wire[p] # <<>>
    BY <1>15 DEF IDataInvalid, Arrived
  <2>4. /\ wire'[p] = Tail(wire[p])
        /\ \/ wire'[Other(p)] = wire[Other(p)]
           \/ wire'[Other(p)] = wire[Other(p)] \o <<f>>
    BY <1>0, <2>1, <2>2, <2>3, ExchangeFacts
  <2>5. /\ inbound'[Other(p)] = inbound[Other(p)]
        /\ cache' = cache
        /\ \A q \in Peer : outbound'[q] = "notify" => outbound[q] = "notify"
    BY <1>15, <1>0, TwoPeers DEF IDataInvalid, inboundVars
  <2>6. Head(wire[p]).type = "ClipboardData"
    BY <1>15, <1>0 DEF IDataInvalid, inboundVars, Arrived
  <2> QED
    BY <2>1, <2>3, <2>4, <2>5, <2>6, ProtocolStep
<1>16. ASSUME NEW p \in Peer, IWrite(p)
     PROVE  Goal
  BY <1>16, <1>0, QuietStep DEF IWrite, inboundVars
<1>17. ASSUME NEW p \in Peer, IWriteFails(p)
     PROVE  Goal
  <2> DEFINE f == ClipboardAck
  <2>1. f \in Frame /\ f.type = "ClipboardAck"
    BY FrameTypes
  <2>2. wire' = Exchange(p, FALSE, <<f>>)
    BY <1>17 DEF IWriteFails
  <2> HIDE DEF f
  <2>4. /\ wire'[p] = wire[p]
        /\ \/ wire'[Other(p)] = wire[Other(p)]
           \/ wire'[Other(p)] = wire[Other(p)] \o <<f>>
    BY <1>0, <2>1, <2>2, ExchangeFacts
  <2>5. /\ inbound'[Other(p)] = inbound[Other(p)]
        /\ cache' = cache
        /\ \A q \in Peer : outbound'[q] = "notify" => outbound[q] = "notify"
    BY <1>17, <1>0, TwoPeers DEF IWriteFails, inboundVars
  <2>6. inbound[p] = "write"
    BY <1>17, <1>0 DEF IWriteFails, inboundVars
  <2> QED
    BY <2>1, <2>4, <2>5, <2>6, ProtocolStep
<1>18. ASSUME NEW p \in Peer, IEvent(p)
     PROVE  Goal
  <2> DEFINE f == ClipboardAck
  <2>1. f \in Frame /\ f.type = "ClipboardAck"
    BY FrameTypes
  <2>2. wire' = Exchange(p, FALSE, <<f>>)
    BY <1>18 DEF IEvent
  <2> HIDE DEF f
  <2>4. /\ wire'[p] = wire[p]
        /\ \/ wire'[Other(p)] = wire[Other(p)]
           \/ wire'[Other(p)] = wire[Other(p)] \o <<f>>
    BY <1>0, <2>1, <2>2, ExchangeFacts
  <2>5. /\ inbound'[Other(p)] = inbound[Other(p)]
        /\ cache' = cache
        /\ \A q \in Peer : outbound'[q] = "notify" => outbound[q] = "notify"
    BY <1>18, <1>0, TwoPeers DEF IEvent, inboundVars
  <2>6. inbound[p] = "event"
    BY <1>18, <1>0 DEF IEvent, inboundVars
  <2> QED
    BY <2>1, <2>4, <2>5, <2>6, ProtocolStep
<1>19. ASSUME NEW p \in Peer, IReadFails(p)
     PROVE  Goal
  BY <1>19, <1>0, QuietStep DEF IReadFails, inboundVars, Reading
<1>20. ASSUME NEW p \in Peer, RunReturns(p)
     PROVE  Goal
  BY <1>20, <1>0, QuietStep DEF RunReturns, inboundVars
<1>21. ASSUME NEW p \in Peer, Stop(p)
     PROVE  Goal
  BY <1>21, <1>0, QuietStep DEF Stop, inboundVars
<1>22. ASSUME NEW p \in Peer, StreamDropped(p)
     PROVE  Goal
  BY <1>22, <1>0, QuietStep DEF StreamDropped, inboundVars
<1>23. ASSUME NEW p \in Peer, Exit(p)
     PROVE  Goal
  BY <1>23, <1>0, QuietStep DEF Exit, inboundVars
<1>24. CASE ConnectionLost
  BY <1>24, QuietStep DEF ConnectionLost, inboundVars
<1> QED
  BY <1>1, <1>2, <1>3, <1>4, <1>5, <1>6, <1>7, <1>8, <1>9, <1>10, <1>11,
      <1>12, <1>13, <1>14, <1>15, <1>16, <1>17, <1>18, <1>19, <1>20, <1>21,
          <1>22, <1>23, <1>24
  DEF Next, WatcherRuns, OutboundRuns, InboundRuns

-----------------------------------------------------------------------------
(* No clipboard holds anything but what some user has put on one            *)

(* What the watcher has read, what is queued and what is cached come from   *)
(* the clipboard.                                                           *)
ShownPolled ==
  \A p \in Peer : polled[p] # NoContent => polled[p] \in Shown
ShownQueued ==
  \A p \in Peer : \A k \in DOMAIN changes[p] : changes[p][k] \in Shown
ShownCached ==
  \A p \in Peer : cache[p] # NoContent => cache[p] \in Shown

(* The bytes of an answer are those of a content that was copied.           *)
ShownData(frame) ==
  frame.type = "ClipboardData" =>
    \E c \in Shown : c \in Content /\ c.data = frame.data
ShownAnswered ==
  \A p \in Peer : \A k \in DOMAIN wire[p] : ShownData(wire[p][k])

(* What inbound writes was copied, unless it is no image after all.         *)
ShownIncoming ==
  \A p \in Peer :
    inbound[p] = "write" /\ Decodable(incoming[p]) => incoming[p] \in Shown

ShownInv ==
  /\ OnlyCopiedContent /\ ShownPolled /\ ShownQueued /\ ShownCached
  /\ ShownAnswered /\ ShownIncoming

(* Only the user copies.                                                    *)
LEMMA ShownSame ==
  ASSUME copied' = copied
  PROVE  Shown' = Shown
  BY DEF Shown, UserCopied

(* The bytes tell a text from an image, so they tell the content, where its *)
(* type is right.                                                           *)
LEMMA DecodedIsShown ==
  ASSUME NEW c \in Shown, c \in Content, NEW type \in ContentType,
         from_bytes(type, c.data) # NoContent,
         Decodable(from_bytes(type, c.data))
  PROVE  from_bytes(type, c.data) \in Shown
<1>1. CASE type = "PlainText"
  <2>1. c.data \notin Images
    BY <1>1 DEF from_bytes
  <2>2. c.content_type = "PlainText"
    BY <2>1 DEF Content
  <2>3. c = [content_type |-> "PlainText", data |-> c.data]
    BY <2>2 DEF Content
  <2> QED
    BY <1>1, <2>1, <2>3 DEF from_bytes
<1>2. CASE type = "ImagePng"
  <2>1. c.data \in Images
    BY <1>2 DEF from_bytes, Decodable
  <2>2. c.content_type = "ImagePng"
    BY <2>1, ContentAssumption DEF Content
  <2>3. c = [content_type |-> "ImagePng", data |-> c.data]
    BY <2>2 DEF Content
  <2> QED
    BY <1>2, <2>3 DEF from_bytes
<1> QED
  BY <1>1, <1>2 DEF ContentType

(* A frame that is left when some were read was there before.               *)
LEMMA TailFrom ==
  ASSUME NEW w \in Seq(Frame), w # <<>>, NEW i \in DOMAIN Tail(w)
  PROVE  \E j \in DOMAIN w : Tail(w)[i] = w[j]
<1>1. /\ Len(w) \in Nat /\ DOMAIN w = 1..Len(w)
      /\ Len(Tail(w)) = Len(w) - 1
      /\ DOMAIN Tail(w) = 1..Len(Tail(w))
  OBVIOUS
<1>2. i + 1 \in DOMAIN w /\ Tail(w)[i] = w[i + 1]
  BY <1>1
<1> QED
  BY <1>2

(* After an exchange every frame on the way was on the way before, or is    *)
(* the one just written.                                                    *)
LEMMA FramesFrom ==
  ASSUME wire \in [Peer -> Seq(Frame)], NEW p \in Peer, NEW f \in Frame,
         NEW read \in BOOLEAN, read => wire[p] # <<>>,
         wire' = Exchange(p, read, <<f>>),
         NEW q \in Peer, NEW k \in DOMAIN wire'[q]
  PROVE  (\E i \in DOMAIN wire[q] : wire'[q][k] = wire[q][i])
           \/ wire'[q][k] = f
<1>1. ASSUME NEW w \in Seq(Frame), NEW i \in DOMAIN (w \o <<f>>)
      PROVE  (\E j \in DOMAIN w : (w \o <<f>>)[i] = w[j])
               \/ (w \o <<f>>)[i] = f
  <2>1. /\ Len(w) \in Nat /\ DOMAIN w = 1..Len(w)
        /\ DOMAIN (w \o <<f>>) = 1..(Len(w) + 1)
    OBVIOUS
  <2>2. CASE i = Len(w) + 1
    BY <2>1, <2>2
  <2>3. CASE i \in DOMAIN w
    BY <2>1, <2>3
  <2> QED
    BY <2>1, <2>2, <2>3
<1>2. wire[q] \in Seq(Frame)
  OBVIOUS
<1>3. /\ wire'[p] = IF read THEN Tail(wire[p]) ELSE wire[p]
      /\ \/ wire'[Other(p)] = wire[Other(p)]
         \/ wire'[Other(p)] = wire[Other(p)] \o <<f>>
  BY ExchangeFacts
<1>4. \/ wire'[q] = wire[q]
      \/ wire'[q] = Tail(wire[q]) /\ wire[q] # <<>>
      \/ wire'[q] = wire[q] \o <<f>>
  BY <1>3, TwoPeers
<1>5. CASE wire'[q] = Tail(wire[q]) /\ wire[q] # <<>>
  BY <1>2, <1>5, TailFrom
<1>6. CASE wire'[q] = wire[q] \o <<f>>
  <2>1. k \in DOMAIN (wire[q] \o <<f>>)
    BY <1>6
  <2>2. \/ \E j \in DOMAIN wire[q] : (wire[q] \o <<f>>)[k] = wire[q][j]
        \/ (wire[q] \o <<f>>)[k] = f
    BY <1>1, <1>2, <2>1
  <2> QED
    BY <1>6, <2>2
<1> QED
  BY <1>4, <1>5, <1>6

(* The same when nothing is written.                                        *)
LEMMA FramesLeft ==
  ASSUME wire \in [Peer -> Seq(Frame)], NEW p \in Peer, wire[p] # <<>>,
         wire' = Exchange(p, TRUE, <<>>),
         NEW q \in Peer, NEW k \in DOMAIN wire'[q]
  PROVE  \E i \in DOMAIN wire[q] : wire'[q][k] = wire[q][i]
<1>1. wire'[p] = Tail(wire[p]) /\ wire'[Other(p)] = wire[Other(p)]
  BY ReadFacts
<1>2. wire[q] \in Seq(Frame)
  OBVIOUS
<1>3. CASE q = Other(p)
  BY <1>1, <1>3
<1>4. CASE q = p
  <2>1. k \in DOMAIN Tail(wire[q])
    BY <1>1, <1>4
  <2>2. \E i \in DOMAIN wire[q] : Tail(wire[q])[k] = wire[q][i]
    BY <1>2, <1>4, <2>1, TailFrom
  <2> QED
    BY <1>1, <1>4, <2>2
<1> QED
  BY <1>3, <1>4, TwoPeers


(* An exchange that answers with nothing but what was copied.               *)
LEMMA AnswersStay ==
  ASSUME wire \in [Peer -> Seq(Frame)], ShownAnswered, copied' = copied,
         NEW p \in Peer, NEW f \in Frame, ShownData(f),
         NEW read \in BOOLEAN, read => wire[p] # <<>>,
         \/ wire' = Exchange(p, read, <<f>>)
         \/ read /\ wire' = Exchange(p, TRUE, <<>>)
  PROVE  ShownAnswered'
<1> SUFFICES ASSUME NEW q \in Peer, NEW k \in DOMAIN wire'[q]
             PROVE  ShownData(wire[q][k])'
  BY DEF ShownAnswered
<1>1. (\E i \in DOMAIN wire[q] : wire'[q][k] = wire[q][i]) \/ wire'[q][k] = f
  BY FramesFrom, FramesLeft
<1>2. ShownData(wire'[q][k])
  BY <1>1 DEF ShownAnswered
<1> QED
  BY <1>2, ShownSame DEF ShownData

(* A user copies.                                                           *)
LEMMA UserShows ==
  ASSUME IInv, ShownInv, NEW p \in Peer, NEW content \in Content,
         UserCopies(p, content)
  PROVE  ShownInv'
<1>1. /\ copied \in [Peer -> Seq(Content)]
      /\ clipboard \in [Peer -> Content \cup {NoContent}]
  BY DEF IInv, TypeOK
<1>2. /\ copied' = [copied EXCEPT ![p] = Append(@, content)]
      /\ clipboard' = [clipboard EXCEPT ![p] = content]
  BY DEF UserCopies
<1>3. content \in Shown'
  <2>1. copied'[p] = Append(copied[p], content) /\ copied[p] \in Seq(Content)
    BY <1>1, <1>2
  <2>2. /\ Len(copied[p]) + 1 \in DOMAIN copied'[p]
        /\ copied'[p][Len(copied[p]) + 1] = content
    BY <2>1
  <2> QED
    BY <2>2 DEF Shown, UserCopied
<1>4. Shown \subseteq Shown'
  <2>1. ASSUME NEW q \in Peer, NEW k \in DOMAIN copied[q]
        PROVE  k \in DOMAIN copied'[q] /\ copied'[q][k] = copied[q][k]
    <3>1. CASE q = p
      <4>1. copied'[p] = Append(copied[p], content)
              /\ copied[p] \in Seq(Content)
        BY <1>1, <1>2
      <4> QED
        BY <3>1, <4>1
    <3>2. CASE q # p
      BY <1>1, <1>2, <3>2
    <3> QED
      BY <3>1, <3>2
  <2> QED
    BY <2>1 DEF Shown, UserCopied
<1>5. OnlyCopiedContent'
  BY <1>1, <1>2, <1>3, <1>4 DEF ShownInv, OnlyCopiedContent
<1>6. /\ polled' = polled /\ changes' = changes /\ cache' = cache
      /\ wire' = wire /\ inbound' = inbound /\ incoming' = incoming
  BY DEF UserCopies, watcherVars, inboundVars
<1>7. ShownPolled' /\ ShownQueued' /\ ShownCached'
  BY <1>4, <1>6
  DEF ShownInv, ShownPolled, ShownQueued, ShownCached
<1>8. ShownAnswered'
  BY <1>4, <1>6 DEF ShownInv, ShownAnswered, ShownData
<1>9. ShownIncoming'
  BY <1>4, <1>6 DEF ShownInv, ShownIncoming, Decodable
<1> QED
  BY <1>5, <1>7, <1>8, <1>9 DEF ShownInv

(* The watcher polls, compares and queues.                                  *)
LEMMA WatcherShows ==
  ASSUME IInv, ShownInv, NEW p \in Peer, WatcherRuns(p)
  PROVE  ShownInv'
<1>1. /\ clipboard' = clipboard /\ copied' = copied /\ cache' = cache
      /\ wire' = wire /\ inbound' = inbound /\ incoming' = incoming
  BY DEF WatcherRuns, WRead, WCompare, WSend, WEnd, inboundVars
<1>2. Shown' = Shown
  BY <1>1, ShownSame
<1>3. OnlyCopiedContent' /\ ShownCached' /\ ShownIncoming' /\ ShownAnswered'
  BY <1>1, <1>2
  DEF ShownInv, OnlyCopiedContent, ShownCached, ShownIncoming, ShownAnswered,
      ShownData, Decodable
<1>4. /\ polled \in [Peer -> Content \cup {NoContent}]
      /\ changes \in [Peer -> Seq(Content)]
      /\ watcher[p] = "send" => polled[p] \in Content
  BY DEF IInv, TypeOK
<1>5. ShownPolled'
  <2>1. \/ polled' = [polled EXCEPT ![p] = clipboard[p]]
        \/ polled' = [polled EXCEPT ![p] = NoContent]
        \/ polled' = polled
    BY DEF WatcherRuns, WRead, WCompare, WSend, WEnd
  <2> QED
    BY <1>2, <1>4, <2>1 DEF ShownInv, OnlyCopiedContent, ShownPolled
<1>6. ShownQueued'
  <2>1. CASE changes' = changes
    BY <1>2, <2>1 DEF ShownInv, ShownQueued
  <2>2. CASE WSend(p)
    <3>1. /\ changes' = [changes EXCEPT ![p] = Append(@, polled[p])]
          /\ polled[p] \in Content
      BY <1>4, <2>2 DEF WSend
    <3>2. polled[p] \in Shown
      BY <3>1, ContentFacts DEF ShownInv, ShownPolled
    <3>3. ASSUME NEW q \in Peer, NEW k \in DOMAIN changes'[q]
          PROVE  changes'[q][k] \in Shown
      <4>1. CASE q = p
        <5>1. /\ changes'[q] = Append(changes[q], polled[p])
              /\ changes[q] \in Seq(Content)
          BY <1>4, <3>1, <4>1
        <5>2. \/ k \in DOMAIN changes[q] /\ changes'[q][k] = changes[q][k]
              \/ changes'[q][k] = polled[p]
          BY <3>1, <5>1
        <5> QED
          BY <3>2, <5>2 DEF ShownInv, ShownQueued
      <4>2. CASE q # p
        BY <1>4, <3>1, <4>2 DEF ShownInv, ShownQueued
      <4> QED
        BY <4>1, <4>2
    <3> QED
      BY <1>2, <3>3 DEF ShownQueued
  <2> QED
    BY <2>1, <2>2 DEF WatcherRuns, WRead, WCompare, WEnd
<1> QED
  BY <1>3, <1>5, <1>6 DEF ShownInv

(* The outbound task takes what is queued and announces it.                 *)
LEMMA OutboundShows ==
  ASSUME IInv, ShownInv, NEW p \in Peer, OutboundRuns(p)
  PROVE  ShownInv'
<1>1. /\ clipboard' = clipboard /\ copied' = copied /\ polled' = polled
      /\ inbound' = inbound /\ incoming' = incoming
  BY DEF OutboundRuns, OTake, ONotify, OEvent, OEnd, inboundVars, watcherVars
<1>2. Shown' = Shown
  BY <1>1, ShownSame
<1>3. OnlyCopiedContent' /\ ShownPolled' /\ ShownIncoming'
  BY <1>1, <1>2
  DEF ShownInv, OnlyCopiedContent, ShownPolled, ShownIncoming, Decodable
<1>4. /\ changes \in [Peer -> Seq(Content)]
      /\ cache \in [Peer -> Content \cup {NoContent}]
      /\ wire \in [Peer -> Seq(Frame)]
  BY DEF IInv, TypeOK
<1>5. CASE OTake(p)
  <2>1. /\ changes[p] # <<>> /\ changes[p] \in Seq(Content)
        /\ changes' = [changes EXCEPT ![p] = Tail(@)]
        /\ \/ cache' = cache
           \/ cache' = [cache EXCEPT ![p] = Head(changes[p])]
        /\ wire' = wire
    BY <1>4, <1>5 DEF OTake, NextCache
  <2>2. Head(changes[p]) \in Shown
    <3>1. 1 \in DOMAIN changes[p] /\ Head(changes[p]) = changes[p][1]
      BY <2>1
    <3> QED
      BY <3>1 DEF ShownInv, ShownQueued
  <2>3. ShownCached'
    BY <1>2, <1>4, <2>1, <2>2 DEF ShownInv, ShownCached
  <2>4. ASSUME NEW q \in Peer, NEW k \in DOMAIN changes'[q]
        PROVE  changes'[q][k] \in Shown
    <3>1. CASE q = p
      <4>1. changes'[q] = Tail(changes[q])
        BY <1>4, <2>1, <3>1
      <4>2. /\ changes[q] \in Seq(Content) /\ changes[q] # <<>>
            /\ k \in DOMAIN Tail(changes[q])
        BY <2>1, <2>4, <3>1, <4>1
      <4>3. /\ k + 1 \in DOMAIN changes[q]
            /\ Tail(changes[q])[k] = changes[q][k + 1]
        BY <4>2
      <4> QED
        BY <4>1, <4>3 DEF ShownInv, ShownQueued
    <3>2. CASE q # p
      BY <1>4, <2>1, <3>2 DEF ShownInv, ShownQueued
    <3> QED
      BY <3>1, <3>2
  <2>5. ShownQueued'
    BY <1>2, <2>4 DEF ShownQueued
  <2>6. ShownAnswered'
    BY <1>2, <2>1 DEF ShownInv, ShownAnswered, ShownData
  <2> QED
    BY <1>3, <2>3, <2>5, <2>6 DEF ShownInv
<1>6. CASE ONotify(p)
  <2>1. /\ wire' = Exchange(p, FALSE, <<ClipboardChanged(cache[p])>>)
        /\ cache' = cache /\ changes' = changes /\ outbound[p] = "notify"
    BY <1>6 DEF ONotify
  <2>2. cache[p] \in Content
    BY <1>4, <2>1 DEF IInv, RequestFindsCache
  <2>3. /\ ClipboardChanged(cache[p]) \in Frame
        /\ ShownData(ClipboardChanged(cache[p]))
    BY <2>2, FrameTypes DEF ShownData
  <2>4. ShownAnswered'
    BY <1>1, <1>4, <2>1, <2>3, AnswersStay DEF ShownInv
  <2>5. ShownCached' /\ ShownQueued'
    BY <1>2, <2>1 DEF ShownInv, ShownCached, ShownQueued
  <2> QED
    BY <1>3, <2>4, <2>5 DEF ShownInv
<1>7. CASE OEvent(p) \/ OEnd(p)
  <2>1. /\ \/ changes' = changes
           \/ changes' = [changes EXCEPT ![p] = <<>>]
        /\ cache' = cache /\ wire' = wire
    BY <1>7 DEF OEvent, OEnd
  <2>2. ASSUME NEW q \in Peer
        PROVE  changes'[q] = changes[q] \/ changes'[q] = <<>>
    BY <1>4, <2>1
  <2>3. ShownQueued'
    BY <1>2, <2>2 DEF ShownInv, ShownQueued
  <2>4. ShownCached' /\ ShownAnswered'
    BY <1>2, <2>1 DEF ShownInv, ShownCached, ShownAnswered, ShownData
  <2> QED
    BY <1>3, <2>3, <2>4 DEF ShownInv
<1> QED
  BY <1>5, <1>6, <1>7 DEF OutboundRuns

(* The inbound task asks, answers, skips, decodes and writes.               *)
LEMMA InboundShows ==
  ASSUME IInv, ShownInv, NEW p \in Peer, InboundRuns(p)
  PROVE  ShownInv'
<1>1. /\ copied' = copied /\ polled' = polled
      /\ changes' = changes /\ cache' = cache
  BY DEF InboundRuns, IChanged, IRequest, ISkip, IData, IDataInvalid, IWrite,
     IWriteFails, IEvent, IReadFails, watcherVars
<1>2. Shown' = Shown
  BY <1>1, ShownSame
<1>3. ShownPolled' /\ ShownQueued' /\ ShownCached'
  BY <1>1, <1>2 DEF ShownInv, ShownPolled, ShownQueued, ShownCached
<1>4. /\ clipboard \in [Peer -> Content \cup {NoContent}]
      /\ cache \in [Peer -> Content \cup {NoContent}]
      /\ inbound \in [Peer -> {"read", "await", "write", "event", "ended"}]
      /\ announced \in [Peer -> ContentType]
      /\ incoming \in [Peer -> Content \cup {NoContent}
                              \cup [content_type : {"ImagePng"}, data : Texts]]
      /\ wire \in [Peer -> Seq(Frame)]
  BY DEF IInv, TypeOK
<1>5. OnlyCopiedContent'
  <2>1. \/ clipboard' = clipboard
        \/ /\ inbound[p] = "write" /\ Decodable(incoming[p])
           /\ clipboard' = [clipboard EXCEPT ![p] = incoming[p]]
    <3>1. CASE IWrite(p)
      <4>1. CASE Decodable(incoming[p])
        BY <3>1, <4>1 DEF IWrite
      <4>2. CASE ~Decodable(incoming[p])
        BY <1>4, <3>1, <4>2 DEF IWrite
      <4> QED
        BY <4>1, <4>2
    <3> QED
      BY <3>1
      DEF InboundRuns, IChanged, IRequest, ISkip, IData, IDataInvalid,
          IWriteFails, IEvent, IReadFails
  <2> QED
    BY <1>2, <1>4, <2>1 DEF ShownInv, OnlyCopiedContent, ShownIncoming
<1>6. ShownIncoming'
  <2>1. CASE IData(p)
    <3> DEFINE frame == Head(wire[p])
               content == from_bytes(announced[p], frame.data)
    <3>1. /\ wire[p] # <<>> /\ frame.type = "ClipboardData"
          /\ content # NoContent
          /\ incoming' = [incoming EXCEPT ![p] = content]
          /\ inbound' = [inbound EXCEPT ![p] = "write"]
      BY <2>1 DEF IData, Arrived
    <3>2. 1 \in DOMAIN wire[p] /\ frame = wire[p][1]
      BY <1>4, <3>1
    <3>3. PICK c \in Shown : c \in Content /\ c.data = frame.data
      BY <3>1, <3>2 DEF ShownInv, ShownAnswered, ShownData
    <3>4. Decodable(content) => content \in Shown
      BY <1>4, <3>1, <3>3, DecodedIsShown
    <3> HIDE DEF content, frame
    <3>5. ASSUME NEW q \in Peer, inbound'[q] = "write", Decodable(incoming'[q])
          PROVE  incoming'[q] \in Shown
      <4>1. CASE q = p
        BY <1>4, <3>1, <3>4, <3>5, <4>1
      <4>2. CASE q # p
        BY <1>4, <3>1, <3>5, <4>2 DEF ShownInv, ShownIncoming
      <4> QED
        BY <4>1, <4>2
    <3> QED
      BY <1>2, <3>5 DEF ShownIncoming, Decodable
  <2>2. CASE ~IData(p)
    <3>1. ASSUME NEW q \in Peer, inbound'[q] = "write"
          PROVE  inbound[q] = "write" /\ incoming'[q] = incoming[q]
      BY <1>4, <2>2, <3>1
      DEF InboundRuns, IChanged, IRequest, ISkip, IDataInvalid, IWrite,
          IWriteFails, IEvent, IReadFails, inboundVars
    <3> QED
      BY <1>2, <3>1 DEF ShownInv, ShownIncoming, Decodable
  <2> QED
    BY <2>1, <2>2
<1>7. ShownAnswered'
  <2>1. /\ ClipboardRequest \in Frame /\ ShownData(ClipboardRequest)
        /\ ClipboardAck \in Frame /\ ShownData(ClipboardAck)
    BY FrameTypes DEF ShownData
  <2>2. CASE IRequest(p)
    <3> DEFINE f == IF Answer(p) # NoContent
                      THEN ClipboardData(Answer(p)) ELSE ClipboardAck
    <3>1. Answer(p) # NoContent => Answer(p) \in Content
      BY <1>4 DEF Answer
    <3>2. Answer(p) # NoContent => Answer(p) \in Shown
      BY DEF Answer, ShownInv, ShownCached, OnlyCopiedContent
    <3>3. f \in Frame /\ ShownData(f)
      <4>1. CASE Answer(p) # NoContent
        <5>1. f = ClipboardData(Answer(p)) /\ f.data = Answer(p).data
          BY <4>1 DEF ClipboardData
        <5> QED
          BY <3>1, <3>2, <4>1, <5>1, FrameTypes DEF ShownData
      <4>2. CASE Answer(p) = NoContent
        BY <2>1, <4>2
      <4> QED
        BY <4>1, <4>2
    <3>4. wire[p] # <<>> /\ wire' = Exchange(p, TRUE, <<f>>)
      BY <2>2 DEF IRequest, Arrived
    <3> HIDE DEF f
    <3> QED
      BY <1>1, <1>4, <3>3, <3>4, AnswersStay DEF ShownInv
  <2>3. CASE IChanged(p)
    <3>1. wire[p] # <<>> /\ wire' = Exchange(p, TRUE, <<ClipboardRequest>>)
      BY <2>3 DEF IChanged, Arrived
    <3> QED
      BY <1>1, <1>4, <2>1, <3>1, AnswersStay DEF ShownInv
  <2>4. CASE ISkip(p) \/ IData(p)
    <3>1. wire[p] # <<>> /\ wire' = Exchange(p, TRUE, <<>>)
      BY <2>4 DEF ISkip, IData, Arrived
    <3> QED
      BY <1>1, <1>4, <2>1, <3>1, AnswersStay DEF ShownInv
  <2>5. CASE IDataInvalid(p)
    <3>1. wire[p] # <<>> /\ wire' = Exchange(p, TRUE, <<ClipboardAck>>)
      BY <2>5 DEF IDataInvalid, Arrived
    <3> QED
      BY <1>1, <1>4, <2>1, <3>1, AnswersStay DEF ShownInv
  <2>6. CASE IWriteFails(p) \/ IEvent(p)
    <3>1. wire' = Exchange(p, FALSE, <<ClipboardAck>>)
      BY <2>6 DEF IWriteFails, IEvent
    <3> QED
      BY <1>1, <1>4, <2>1, <3>1, AnswersStay DEF ShownInv
  <2>7. CASE IWrite(p) \/ IReadFails(p)
    <3>1. wire' = wire
      BY <2>7 DEF IWrite, IReadFails
    <3> QED
      BY <1>2, <3>1 DEF ShownInv, ShownAnswered, ShownData
  <2> QED
    BY <2>2, <2>3, <2>4, <2>5, <2>6, <2>7 DEF InboundRuns
<1> QED
  BY <1>3, <1>5, <1>6, <1>7 DEF ShownInv

(* run() returns, the tasks end, the connection breaks; or nothing happens. *)
LEMMA EndShows ==
  ASSUME IInv, ShownInv,
         \/ UNCHANGED vars
         \/ \E p \in Peer :
              RunReturns(p) \/ Stop(p) \/ StreamDropped(p) \/ Exit(p)
         \/ ConnectionLost
  PROVE  ShownInv'
<1>1. /\ clipboard' = clipboard /\ copied' = copied /\ polled' = polled
      /\ changes' = changes /\ cache' = cache /\ wire' = wire
      /\ incoming' = incoming
  BY DEF vars, RunReturns, Stop, StreamDropped, Exit, ConnectionLost,
     watcherVars, inboundVars
<1>2. ASSUME NEW q \in Peer, inbound'[q] = "write"
      PROVE  inbound[q] = "write"
  <2>1. inbound \in [Peer -> {"read", "await", "write", "event", "ended"}]
    BY DEF IInv, TypeOK
  <2> QED
    BY <1>2, <2>1
    DEF vars, RunReturns, Stop, StreamDropped, Exit, ConnectionLost, inboundVars
<1>3. Shown' = Shown
  BY <1>1, ShownSame
<1>4. /\ OnlyCopiedContent' /\ ShownPolled' /\ ShownQueued'
      /\ ShownCached' /\ ShownAnswered'
  BY <1>1, <1>3
  DEF ShownInv, OnlyCopiedContent, ShownPolled, ShownQueued, ShownCached,
      ShownAnswered, ShownData
<1>5. ShownIncoming'
  BY <1>1, <1>2, <1>3 DEF ShownInv, ShownIncoming, Decodable
<1> QED
  BY <1>4, <1>5 DEF ShownInv

(* Every step.                                                              *)
LEMMA ShownStep ==
  ASSUME IInv, ShownInv, [Next]_vars
  PROVE  ShownInv'
  BY UserShows, WatcherShows, OutboundShows, InboundShows, EndShows DEF Next

(* The initial states.                                                      *)
LEMMA ShownInit == Init => ShownInv
  BY DEF Init, ShownInv, OnlyCopiedContent, Shown, ShownPolled, ShownQueued,
     ShownCached, ShownAnswered, ShownIncoming

-----------------------------------------------------------------------------
(* The theorems                                                             *)

(* In every state of a clipboard session all variables have their types,    *)
(* requests and answers are paired, and what is announced is cached.        *)
THEOREM SessionInvariant == Spec => []IInv
<1>1. IInv /\ [Next]_vars => IInv'
  BY TypeStep, RequestStep DEF IInv
<1> QED
  BY InitInv, <1>1, PTL DEF Spec

(* No clipboard, cache, queue or channel ever holds anything but contents   *)
(* and frames of the right kind.                                            *)
THEOREM ClipboardTypes == Spec => []TypeOK
<1>1. IInv => TypeOK
  BY DEF IInv
<1> QED
  BY <1>1, SessionInvariant, PTL

(* Requests and answers are paired: there is never more than one of them    *)
(* under way in a direction, and only while the requester waits.            *)
THEOREM RequestsPaired == Spec => []OneRequestOutstanding
<1>1. IInv => OneRequestOutstanding
  BY DEF IInv
<1> QED
  BY <1>1, SessionInvariant, PTL

(* A request is always answered with a content.                             *)
THEOREM RequestsAnswered == Spec => []RequestFindsCache
<1>1. IInv => RequestFindsCache
  BY DEF IInv
<1> QED
  BY <1>1, SessionInvariant, PTL


(* No clipboard ever holds anything but what was on one at the start or was *)
(* copied by a user, under the type it was copied with, although inbound    *)
(* (clipboard/session.rs) decodes the bytes of an answer with the type of   *)
(* the notification before it.                                              *)
THEOREM ClipboardsHoldCopies == Spec => []OnlyCopiedContent
<1>1. ShownInv => OnlyCopiedContent
  BY DEF ShownInv
<1>2. IInv /\ ShownInv /\ [Next]_vars => ShownInv'
  BY ShownStep
<1> QED
  BY <1>1, <1>2, ShownInit, SessionInvariant, PTL DEF Spec

=============================================================================
