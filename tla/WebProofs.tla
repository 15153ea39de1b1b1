----------------------------- MODULE WebProofs -----------------------------
(***************************************************************************)
(* What is proved about WebServer: the types of its state, and the three   *)
(* invariants that a run checks.  A session is at one place at a time, a   *)
(* field or the hands of one handler or task, and is open as long as it is *)
(* at one.  So what takes a session out of a field has it alone, and what  *)
(* is dropped or refused is never the session that somebody else runs or   *)
(* has received.                                                           *)
(***************************************************************************)
EXTENDS WebServer, TLAPS

Fields == {"active_share", "pending_receive", "active_receive"}

\* Where a request has a session in its hands, and where it has run it.
Holding == {"setSharing", "setShare", "setReceiving", "setPending",
            "setTransferring", "setReceive", "wait"}
Ended == {"markOk", "markErr", "idleOk", "idleErr", "complete"}
Received == {"markOk", "idleOk", "complete"}
Fresh == {"unsent", "check", "new"}

\* The endpoint whose session a request runs.
Runs(op) == IF op = "accept_receive" THEN "start_receive" ELSE op

\* The statements of the handlers, by endpoint.
Serves(op, pc) ==
  /\ pc = "check" => op \in {"create_share", "start_receive", "cancel_share",
                             "accept_receive", "decline_receive", "get_status"}
  /\ pc = "new" => op \in {"create_share", "start_receive"}
  /\ pc \in {"setSharing", "setShare", "observe", "take"} => op = "create_share"
  /\ pc \in {"setReceiving", "setPending"} => op = "start_receive"
  /\ pc \in {"takePending", "setTransferring", "setReceive", "takeReceive", "complete"}
       => op = "accept_receive"

\* A request is where its endpoint is, with a session of the kind it runs.
Endpoints ==
  \A r \in Request :
    /\ Serves(req[r].op, req[r].pc)
    /\ req[r].pc \in Holding \cup Ended =>
         req[r].held \in Request /\ req[req[r].held].op = Runs(req[r].op)

(* An accept_receive has noted the files of what it took, once it has it;   *)
(* what it stores, and what its task then runs, some accept has noted.      *)
Noting == {"setTransferring", "setReceive", "wait"} \cup Ended
Noted == Noting \cup {"takeReceive"}
Unnoted == {"unsent", "check", "takePending"}
IsNoted(s) == \E q \in Request : req[q].files = s
Accepts ==
  /\ \A r \in Request : req[r].pc \in Unnoted => req[r].files = None
  /\ \A r \in Request : req[r].op = "accept_receive" /\ req[r].pc \in Noted =>
       req[r].files \in Request /\ req[req[r].files].op = "start_receive"
  /\ \A r \in Request : req[r].op = "accept_receive" /\ req[r].pc \in Noting =>
       IsNoted(req[r].held)
  /\ app.active_receive # None => IsNoted(app.active_receive)

Apart ==
  /\ \A r, q \in Request : req[r].pc \in Holding /\ req[q].pc \in Holding
                              => r = q \/ req[r].held # req[q].held
  /\ \A r \in Request, f \in Fields : req[r].pc \in Holding => req[r].held # app[f]
  /\ \A f, g \in Fields : app[f] = None \/ f = g \/ app[f] # app[g]

States ==
  /\ \A r \in Request : req[r].pc \in Fresh => ses[r].state = "none"
  /\ \A r \in Request : req[r].pc \in Holding => ses[req[r].held].state = "open"
  /\ \A f \in Fields : app[f] # None => ses[app[f]].state = "open"
  /\ \A r \in Request : req[r].pc \in Received => ses[req[r].held].state = "ok"

AppState ==
  [mode : {"Idle", "Sharing", "Receiving", "Transferring"},
   share_code : Asked("create_share"), active_share : Asked("create_share"),
   pending_receive : Asked("start_receive"), active_receive : Asked("start_receive"),
   completed_receive : Asked("start_receive"), progress : Published \cup {None},
   running : BOOLEAN]
SesState ==
  [state : {"none", "open", "ok", "failed", "refused", "dropped"},
   published : Published, kept : BOOLEAN]
\* A task that forwards has its session.
FwdRecord ==
  [task : {"none", "waiting", "stuck", "stopped"} \cup Published,
   source : Request \cup {None}, news : BOOLEAN, aborted : BOOLEAN]
FwdState == {f \in FwdRecord : f.task # "none" => f.source \in Request}
Forwarding == fwd \in [Request -> FwdState]

WebInv ==
  /\ TypeOK /\ Endpoints /\ Accepts /\ Apart /\ States /\ Forwarding
  /\ CompletedIsReceived /\ PendingIsKept

-----------------------------------------------------------------------------
(* Steps.                                                                   *)


RequestState ==
  [op : Endpoint \cup {None}, pc : Pc, held : Request \cup {None}, files : Request \cup {None},
   answered : BOOLEAN]

\* Request r goes from one statement to the next, with a session in its hands.
Moves(r, from, to, session) ==
  /\ req[r].pc = from
  /\ req' \in [Request -> RequestState]
  /\ req'[r].pc = to /\ req'[r].held = session
  /\ from = "takePending" \/ req'[r].files = req[r].files
  /\ \A q \in Request : req'[q].op = req[q].op
  /\ \A q \in Request \ {r} : req'[q] = req[q]

\* The record of a request after a step.
LEMMA NewState ==
  ASSUME NEW c \in RequestState, NEW to \in Pc, NEW s \in Request \cup {None}
  PROVE  /\ [c EXCEPT !.pc = to] \in RequestState
         /\ [c EXCEPT !.pc = to, !.held = s] \in RequestState
         /\ [c EXCEPT !.pc = to, !.held = s, !.files = s] \in RequestState
         /\ [c EXCEPT !.pc = to, !.answered = TRUE, !.held = s] \in RequestState
  BY DEF RequestState

\* The forms a step of the handlers takes are moves.
LEMMA StepMoves ==
  ASSUME TypeOK, NEW r \in Request, NEW from, NEW to \in Pc, Step(r, from, to)
  PROVE  Moves(r, from, to, req[r].held)
<1>1. req' = [req EXCEPT ![r].pc = to] /\ req[r].pc = from
  BY DEF Step, At
<1>2. req \in [Request -> RequestState]
  BY DEF TypeOK, RequestState
<1> QED
  BY <1>1, <1>2 DEF RequestState, Moves

LEMMA StepWithMoves ==
  ASSUME TypeOK, NEW r \in Request, NEW from, NEW to \in Pc,
         NEW s \in Request \cup {None}, StepWith(r, from, to, s)
  PROVE  Moves(r, from, to, s)
<1>1. req' = [req EXCEPT ![r].pc = to, ![r].held = s] /\ req[r].pc = from
  BY DEF StepWith, At
<1>2. req \in [Request -> RequestState]
  BY DEF TypeOK, RequestState
<1>3. [req[r] EXCEPT !.pc = to, !.held = s] \in RequestState
  BY <1>2, NewState
<1> QED
  BY <1>1, <1>2, <1>3 DEF RequestState, Moves

LEMMA AnswerMoves ==
  ASSUME TypeOK, NEW r \in Request, NEW from, NEW to \in Pc, Answer(r, from, to)
  PROVE  Moves(r, from, to, None)
<1>1. /\ req' = [req EXCEPT ![r].pc = to, ![r].answered = TRUE, ![r].held = None]
      /\ req[r].pc = from
  BY DEF Answer, At
<1>2. req \in [Request -> RequestState]
  BY DEF TypeOK, RequestState
<1>3. [req[r] EXCEPT !.pc = to, !.answered = TRUE, !.held = None] \in RequestState
  BY <1>2, NewState
<1> QED
  BY <1>1, <1>2, <1>3 DEF RequestState, Moves

LEMMA ReturnMoves ==
  ASSUME TypeOK, NEW r \in Request, NEW from, Return(r, from)
  PROVE  Moves(r, from, "done", None)
<1>1. "done" \in Pc
  BY DEF Pc
<1> QED
  BY <1>1, AnswerMoves DEF Return

-----------------------------------------------------------------------------
(* What a step leaves alone.                                                *)

LEMMA Types ==
  /\ TypeOK => /\ app \in AppState /\ req \in [Request -> RequestState]
               /\ ses \in [Request -> SesState]
  /\ (/\ app' \in AppState /\ req' \in [Request -> RequestState]
      /\ \A q \in Request : req'[q].op = req[q].op
      /\ ses' \in [Request -> SesState] /\ fwd' \in [Request -> FwdState]) => TypeOK'
<1>1. TypeOK => /\ app \in AppState /\ req \in [Request -> RequestState]
                /\ ses \in [Request -> SesState]
  BY DEF TypeOK, AppState, RequestState, SesState
<1>2. ASSUME app' \in AppState, req' \in [Request -> RequestState],
             \A q \in Request : req'[q].op = req[q].op,
             ses' \in [Request -> SesState], fwd' \in [Request -> FwdState]
      PROVE  TypeOK'
  <2>1. ASSUME NEW e PROVE {q \in Request : req'[q].op = e} = {q \in Request : req[q].op = e}
    BY <1>2
  <2> QED
    BY <1>2, <2>1 DEF TypeOK, AppState, RequestState, SesState, FwdRecord, FwdState, Asked
<1> QED
  BY <1>1, <1>2

\* What is noted stays noted.
LEMMA AcceptsStay ==
  ASSUME WebInv, NEW r \in Request, NEW from, NEW to, NEW s, Moves(r, from, to, s),
         to \in Unnoted => from \in Unnoted /\ req'[r].files = req[r].files,
         req[r].op = "accept_receive" /\ to \in Noted =>
           req'[r].files \in Request /\ req[req'[r].files].op = "start_receive",
         req[r].op = "accept_receive" /\ to \in Noting =>
           s # None /\ (IsNoted(s) \/ req'[r].files = s),
         app'.active_receive # None => IsNoted(app'.active_receive)
  PROVE  /\ Accepts'
         /\ \A q \in Request : req[q].files # None => req'[q].files = req[q].files
<1>1. /\ \A q \in Request \ {r} : req'[q] = req[q]
      /\ \A q \in Request : req'[q].op = req[q].op
      /\ req[r].pc = from /\ req'[r].pc = to /\ req'[r].held = s
      /\ from = "takePending" \/ req'[r].files = req[r].files
  BY DEF Moves
<1>2. req[r].files # None => req'[r].files = req[r].files
  BY <1>1 DEF WebInv, Accepts, Unnoted
<1>3. \A q \in Request : req[q].files # None => req'[q].files = req[q].files
  BY <1>1, <1>2
<1>4. ASSUME NEW c, c # None, IsNoted(c) PROVE \E q \in Request : req'[q].files = c
  BY <1>3, <1>4 DEF IsNoted
<1>5. \A q \in Request : req'[q].pc \in Unnoted => req'[q].files = None
  BY <1>1 DEF WebInv, Accepts
<1>6. \A q \in Request : req'[q].op = "accept_receive" /\ req'[q].pc \in Noted =>
        req'[q].files \in Request /\ req'[req'[q].files].op = "start_receive"
  BY <1>1 DEF WebInv, Accepts
<1>7. ASSUME NEW q \in Request, req'[q].op = "accept_receive", req'[q].pc \in Noting
      PROVE  \E p \in Request : req'[p].files = req'[q].held
  <2>1. CASE q = r
    BY <1>1, <1>4, <1>7, <2>1
  <2>2. CASE q # r
    <3>1. IsNoted(req[q].held) /\ req[q].held # None
      <4>1. req[q].op = "accept_receive" /\ req[q].pc \in Noting
        BY <1>1, <1>7, <2>2
      <4>2. req[q].held \in Request /\ None \notin Request
        BY <4>1, WebAssumption DEF WebInv, Endpoints, Noting, Holding
      <4> QED BY <4>1, <4>2 DEF WebInv, Accepts
    <3> QED BY <1>1, <1>4, <2>2, <3>1
  <2> QED BY <2>1, <2>2
<1>8. app'.active_receive # None => \E q \in Request : req'[q].files = app'.active_receive
  BY <1>4
<1> QED BY <1>3, <1>5, <1>6, <1>7, <1>8 DEF Accepts, IsNoted

\* A session that was received stays so, and so does what is offered.
LEMMA CompletedStays ==
  ASSUME WebInv, app.completed_receive \in Request \cup {None},
         app'.completed_receive \in {app.completed_receive, None},
         \A q \in Request : req[q].files \in Request \cup {None},
         \A q \in Request : req[q].files # None => req'[q].files = req[q].files,
         \A q \in Request : ses[q].state = "ok" => ses'[q].state = "ok"
  PROVE  CompletedIsReceived'
<1> SUFFICES ASSUME app'.completed_receive # None PROVE CompletedIsReceived'
  BY DEF CompletedIsReceived
<1> DEFINE c == app.completed_receive
<1>1. app'.completed_receive = c /\ c \in Request /\ c # None
  OBVIOUS
<1>2. CASE ses[c].state = "ok"
  BY <1>1, <1>2 DEF CompletedIsReceived
<1>3. CASE ses[c].state # "ok"
  <2>1. PICK p, q \in Request :
          /\ p # q /\ req[p].files = c
          /\ req[q].files # None /\ ses[req[q].files].state = "ok"
    BY <1>1, <1>3 DEF WebInv, CompletedIsReceived
  <2>2. /\ req'[p].files = c /\ req'[q].files = req[q].files
        /\ ses'[req[q].files].state = "ok"
    BY <1>1, <2>1
  <2> QED BY <1>1, <2>1, <2>2 DEF CompletedIsReceived
<1> QED BY <1>2, <1>3

\* A request moves on and takes along what it holds: every place keeps its
\* session, and every session its fate.
LEMMA Quiet ==
  ASSUME WebInv, NEW r \in Request, NEW from, NEW to, NEW s,
         Moves(r, from, to, s), Serves(req[r].op, to),
         from \notin Fresh => to \notin Fresh,
         to \in Holding => from \in Holding,
         to \in Ended => from \in Holding \cup Ended,
         to \in Received => from \in Received,
         to \in Holding \cup Ended => s = req[r].held,
         to \in Unnoted => from \in Unnoted, to = "takeReceive" => from = "takeReceive",
         from = "takePending" => req' = req,
         app' \in AppState, ses' \in [Request -> SesState], fwd' \in [Request -> FwdState],
         \A f \in Fields : app'[f] = app[f],
         app'.completed_receive \in {app.completed_receive, None},
         \A q \in Request : /\ ses'[q].state = ses[q].state
                            /\ ses[q].kept => ses'[q].kept,
         from = "keepAlive" /\ to # "keepAlive" /\ app.pending_receive # None
           => ses'[app.pending_receive].kept
  PROVE  WebInv'
<1>1. TypeOK'
  BY Types DEF Moves
<1>2. Endpoints'
  BY DEF WebInv, Endpoints, Moves
<1>3. Apart'
  BY DEF WebInv, Apart, Moves
<1>4. None \notin Request
  BY WebAssumption
<1>5. app.completed_receive \in Request \cup {None}
      /\ \A f \in Fields : app[f] \in Request \cup {None}
  BY Types DEF WebInv, AppState, Asked, Fields
<1>6. States'
  <2>1. \A q \in Request : req'[q].pc \in Fresh => ses'[q].state = "none"
    BY DEF WebInv, States, Moves
  <2>2. \A q \in Request : req'[q].pc \in Holding => ses'[req'[q].held].state = "open"
    BY DEF WebInv, States, Endpoints, Moves
  <2>3. \A f \in Fields : app'[f] # None => ses'[app'[f]].state = "open"
    BY <1>5 DEF WebInv, States
  <2>4. \A q \in Request : req'[q].pc \in Received => ses'[req'[q].held].state = "ok"
    BY DEF WebInv, States, Endpoints, Moves, Received, Ended
  <2> QED
    BY <2>1, <2>2, <2>3, <2>4 DEF States
<1>9. Accepts' /\ \A q \in Request : req[q].files # None => req'[q].files = req[q].files
  <2>1. req[r].pc = from /\ Serves(req[r].op, from) /\ req'[r].files = req[r].files
    BY DEF Moves, WebInv, Endpoints
  <2>2. req[r].op = "accept_receive" /\ to \in Noting => from \in Noting /\ s = req[r].held
    BY <2>1 DEF Serves, Noting, Holding, Ended
  <2>3. req[r].op = "accept_receive" /\ to \in Noted => from \in Noted
    BY <2>2 DEF Noted
  <2>4. from \in Noting => req[r].held # None
    BY <1>4, <2>1 DEF WebInv, Endpoints, Noting, Holding
  <2>5. app'.active_receive # None => IsNoted(app'.active_receive)
    BY DEF WebInv, Accepts, Fields
  <2>6. /\ req[r].op = "accept_receive" /\ to \in Noted =>
             req'[r].files \in Request /\ req[req'[r].files].op = "start_receive"
        /\ req[r].op = "accept_receive" /\ to \in Noting => s # None /\ IsNoted(s)
    BY <2>1, <2>2, <2>3, <2>4 DEF WebInv, Accepts
  <2> QED BY <2>1, <2>5, <2>6, AcceptsStay
<1>7. CompletedIsReceived'
  <2>1. \A q \in Request : req[q].files \in Request \cup {None}
    BY Types DEF WebInv, RequestState
  <2> QED BY <1>5, <1>9, <2>1, CompletedStays
<1>8. PendingIsKept'
  BY <1>4, <1>5 DEF WebInv, PendingIsKept, Moves, Fields
<1> QED
  BY <1>1, <1>2, <1>3, <1>6, <1>7, <1>8, <1>9 DEF WebInv, Forwarding

\* The fields, and who holds what, as far as the lemmas below look at them.
LEMMA Basics ==
  ASSUME WebInv
  PROVE  /\ None \notin Request /\ app \in AppState /\ req \in [Request -> RequestState]
         /\ ses \in [Request -> SesState] /\ fwd \in [Request -> FwdState]
         /\ app.completed_receive \in Request \cup {None}
         /\ \A f \in Fields : app[f] \in Request \cup {None}
         /\ \A r \in Request : req[r].pc \in Holding \cup Ended => req[r].held \in Request
         /\ \A r \in Request : req[r].files \in Request \cup {None}
<1>1. /\ app \in AppState /\ req \in [Request -> RequestState]
      /\ ses \in [Request -> SesState] /\ fwd \in [Request -> FwdState]
  BY Types DEF WebInv, Forwarding
<1>2. /\ app.completed_receive \in Request \cup {None}
      /\ \A f \in Fields : app[f] \in Request \cup {None}
  BY <1>1 DEF AppState, Asked, Fields
<1>3. \A r \in Request : req[r].files \in Request \cup {None}
  BY <1>1 DEF RequestState
<1> QED
  BY <1>1, <1>2, <1>3, WebAssumption DEF WebInv, Endpoints

\* What a request holds is stored in a field; a session that was there is lost.
LEMMA Placed ==
  ASSUME WebInv, NEW r \in Request, NEW from \in Holding, NEW to, NEW f \in Fields,
         Moves(r, from, to, None) \/ Moves(r, from, to, req[r].held),
         Serves(req[r].op, to), to \notin Holding \cup Ended \cup Fresh,
         to # "takePending", f = "pending_receive" => to = "keepAlive",
         f = "active_receive" => req[r].op = "accept_receive",
         app' = [app EXCEPT ![f] = req[r].held], app' \in AppState,
         ses' \in [Request -> SesState], fwd' = fwd,
         \A q \in Request : q # app[f] => ses'[q].state = ses[q].state,
         \A q \in Request : ses'[q].kept = ses[q].kept
  PROVE  WebInv'
<1>1. /\ req' \in [Request -> RequestState] /\ \A q \in Request : req'[q].op = req[q].op
      /\ \A q \in Request \ {r} : req'[q] = req[q]
      /\ req[r].pc = from /\ req'[r].pc = to
  BY DEF Moves
<1>2. /\ app'[f] = req[r].held /\ \A g \in Fields \ {f} : app'[g] = app[g]
      /\ app'.completed_receive = app.completed_receive
  BY Basics DEF AppState, Fields
<1>3. TypeOK'
  BY <1>1, Basics, Types
<1>4. Endpoints'
  BY <1>1 DEF WebInv, Endpoints
<1>5. Apart'
  <2>1. \A q, p \in Request : req'[q].pc \in Holding /\ req'[p].pc \in Holding
                                => q = p \/ req'[q].held # req'[p].held
    BY <1>1 DEF WebInv, Apart
  <2>2. \A q \in Request, g \in Fields : req'[q].pc \in Holding => req'[q].held # app'[g]
    BY <1>1, <1>2 DEF WebInv, Apart
  <2>3. \A g, h \in Fields : app'[g] = None \/ g = h \/ app'[g] # app'[h]
    BY <1>1, <1>2 DEF WebInv, Apart
  <2> QED
    BY <2>1, <2>2, <2>3 DEF Apart
<1>6. /\ ses'[req[r].held].state = "open" /\ req[r].held \in Request
      /\ \A q \in Request : ses[q].state # "open" => ses'[q].state = ses[q].state
  BY <1>1, Basics DEF WebInv, Apart, States
<1>7. States'
  <2>1. \A q \in Request : req'[q].pc \in Fresh => ses'[q].state = "none"
    BY <1>1, <1>6 DEF WebInv, States
  <2>2. \A q \in Request : req'[q].pc \in Holding => ses'[req'[q].held].state = "open"
    BY <1>1, Basics DEF WebInv, States, Apart
  <2>3. \A g \in Fields : app'[g] # None => ses'[app'[g]].state = "open"
    BY <1>2, <1>6, Basics DEF WebInv, States, Apart
  <2>4. \A q \in Request : req'[q].pc \in Received => ses'[req'[q].held].state = "ok"
    BY <1>1, <1>6, Basics DEF WebInv, States, Received, Ended
  <2> QED
    BY <2>1, <2>2, <2>3, <2>4 DEF States
<1>10. Accepts' /\ \A q \in Request : req[q].files # None => req'[q].files = req[q].files
  <2>1. /\ Serves(req[r].op, from) /\ req[r].held \in Request
        /\ from # "takePending"
    BY <1>1, Basics DEF WebInv, Endpoints, Holding
  <2>2. req[r].op = "accept_receive" => from \in Noting /\ IsNoted(req[r].held)
    BY <1>1, <2>1 DEF Serves, Noting, Holding, WebInv, Accepts
  <2>3. app'.active_receive # None => IsNoted(app'.active_receive)
    BY <1>2, <2>2 DEF WebInv, Accepts, Fields
  <2>4. to \notin Unnoted \cup Noting
    BY DEF Unnoted, Noting, Holding, Fresh
  <2>5. req[r].op = "accept_receive" /\ to \in Noted =>
          req'[r].files \in Request /\ req[req'[r].files].op = "start_receive"
    BY <1>1, <2>1, <2>2 DEF Moves, WebInv, Accepts, Noted
  <2> QED BY <2>3, <2>4, <2>5, AcceptsStay
<1>8. CompletedIsReceived'
  BY <1>2, <1>6, <1>10, Basics, CompletedStays
<1>9. PendingIsKept'
  BY <1>1, <1>2, Basics DEF WebInv, PendingIsKept, Fields, Holding
<1> QED
  BY <1>3, <1>4, <1>5, <1>7, <1>8, <1>9, <1>10 DEF WebInv, Forwarding

\* A session leaves its field: it is taken into the hands of the request, or
\* its fate is sealed.
LEMMA Removed ==
  ASSUME WebInv, NEW r \in Request, NEW from, NEW to, NEW s, NEW f \in Fields,
         Moves(r, from, to, s), Serves(req[r].op, to),
         from \notin Holding \cup Ended \cup {"keepAlive"}, to \notin Ended \cup Fresh,
         to \notin {"takePending", "takeReceive"},
         req[r].op = "accept_receive" /\ to \in Holding =>
           \/ from = "takePending" /\ req'[r].files = s
           \/ from = "takeReceive" /\ f = "active_receive",
         to \in Holding =>
           /\ s = app[f] /\ s # None /\ req[s].op = Runs(req[r].op)
           /\ \A q \in Request : ses'[q].state = ses[q].state,
         app' = [app EXCEPT ![f] = None],
         ses' \in [Request -> SesState], fwd' \in [Request -> FwdState],
         \A q \in Request : q # app[f] => ses'[q].state = ses[q].state,
         \A q \in Request : ses'[q].kept = ses[q].kept
  PROVE  WebInv'
<1>1. /\ req' \in [Request -> RequestState] /\ \A q \in Request : req'[q].op = req[q].op
      /\ \A q \in Request \ {r} : req'[q] = req[q]
      /\ req[r].pc = from /\ req'[r].pc = to /\ req'[r].held = s
  BY DEF Moves
<1>2. /\ app'[f] = None /\ \A g \in Fields \ {f} : app'[g] = app[g]
      /\ app'.completed_receive = app.completed_receive
  BY Basics DEF AppState, Fields
<1>3. TypeOK'
  <2>1. app' \in AppState
    BY Basics DEF AppState, Asked, Fields
  <2> QED
    BY <1>1, <2>1, Basics, Types
<1>4. Endpoints'
  BY <1>1, Basics DEF WebInv, Endpoints
<1>5. Apart'
  <2>1. \A q, p \in Request : req'[q].pc \in Holding /\ req'[p].pc \in Holding
                                => q = p \/ req'[q].held # req'[p].held
    BY <1>1 DEF WebInv, Apart
  <2>2. \A q \in Request, g \in Fields : req'[q].pc \in Holding => req'[q].held # app'[g]
    BY <1>1, <1>2, Basics DEF WebInv, Apart
  <2>3. \A g, h \in Fields : app'[g] = None \/ g = h \/ app'[g] # app'[h]
    BY <1>1, <1>2 DEF WebInv, Apart
  <2> QED
    BY <2>1, <2>2, <2>3 DEF Apart
<1>6. \A q \in Request : ses[q].state # "open" => ses'[q].state = ses[q].state
  BY <1>1, Basics DEF WebInv, Apart, States
<1>7. States'
  <2>1. \A q \in Request : req'[q].pc \in Fresh => ses'[q].state = "none"
    BY <1>1, <1>6 DEF WebInv, States
  <2>2. \A q \in Request : req'[q].pc \in Holding => ses'[req'[q].held].state = "open"
    <3>1. to \in Holding => ses'[req'[r].held].state = "open"
      BY <1>1, Basics DEF WebInv, States
    <3>2. \A q \in Request \ {r} : req[q].pc \in Holding => req[q].held \in Request \ {app[f]}
      BY Basics DEF WebInv, Apart
    <3> QED
      BY <1>1, <3>1, <3>2 DEF WebInv, States
  <2>3. \A g \in Fields : app'[g] # None => ses'[app'[g]].state = "open"
    BY <1>2, Basics DEF WebInv, States, Apart
  <2>4. \A q \in Request : req'[q].pc \in Received => ses'[req'[q].held].state = "ok"
    <3>1. Received \subseteq Ended
      BY DEF Received, Ended
    <3>2. \A q \in Request : req[q].pc \in Received =>
            req[q].held \in Request /\ ses[req[q].held].state = "ok"
      BY <3>1, Basics DEF WebInv, States
    <3>3. req'[r].pc \notin Received
      BY <1>1, <3>1
    <3> QED
      BY <1>1, <1>6, <3>2, <3>3
  <2> QED
    BY <2>1, <2>2, <2>3, <2>4 DEF States
<1>10. Accepts' /\ \A q \in Request : req[q].files # None => req'[q].files = req[q].files
  <2>1. to \notin Unnoted /\ (to \in Noted => to \in Noting /\ to \in Holding)
    BY DEF Unnoted, Noted, Noting, Holding, Fresh
  <2>2. app'.active_receive # None => IsNoted(app'.active_receive)
    BY <1>2 DEF WebInv, Accepts, Fields
  <2>3. req[r].op = "accept_receive" /\ to \in Noted =>
          req'[r].files \in Request /\ req[req'[r].files].op = "start_receive"
    <3>1. req[r].op = "accept_receive" /\ to \in Noted =>
            /\ s = app[f] /\ s # None /\ req[s].op = "start_receive" /\ s \in Request
            /\ \/ req'[r].files = s
               \/ from = "takeReceive" /\ req'[r].files = req[r].files
      BY <2>1, Basics DEF Runs, Moves
    <3> QED BY <1>1, <3>1 DEF WebInv, Accepts, Noted
  <2>4. req[r].op = "accept_receive" /\ to \in Noting =>
          s # None /\ (IsNoted(s) \/ req'[r].files = s)
    BY <2>1 DEF WebInv, Accepts, Noted
  <2> QED BY <2>1, <2>2, <2>3, <2>4, AcceptsStay
<1>8. CompletedIsReceived'
  BY <1>2, <1>6, <1>10, Basics, CompletedStays
<1>9. PendingIsKept'
  BY <1>1, <1>2, Basics DEF WebInv, PendingIsKept, Fields
<1> QED
  BY <1>3, <1>4, <1>5, <1>7, <1>8, <1>9, <1>10 DEF WebInv, Forwarding

-----------------------------------------------------------------------------
(* The steps, handler by handler.                                           *)

\* The record of a forwarder after a step.
LEMMA ForwardRecords ==
  ASSUME NEW c \in FwdState
  PROVE  /\ \A b \in BOOLEAN : [c EXCEPT !.news = b] \in FwdState
         /\ [c EXCEPT !.aborted = TRUE] \in FwdState
         /\ \A s \in Request, b \in BOOLEAN :
              [c EXCEPT !.task = "waiting", !.source = s, !.news = b] \in FwdState
         /\ c.task # "none" => \A t \in Published \cup {"waiting", "stuck", "stopped"} :
              [c EXCEPT !.task = t] \in FwdState /\ [c EXCEPT !.task = t, !.news = FALSE] \in FwdState
<1>1. c \in FwdRecord /\ (c.task # "none" => c.source \in Request)
  BY DEF FwdState
<1>2. \A b \in BOOLEAN : [c EXCEPT !.news = b] \in FwdState
  BY <1>1 DEF FwdState, FwdRecord
<1>3. [c EXCEPT !.aborted = TRUE] \in FwdState
  BY <1>1 DEF FwdState, FwdRecord
<1>4. ASSUME NEW s \in Request, NEW b \in BOOLEAN
      PROVE  [c EXCEPT !.task = "waiting", !.source = s, !.news = b] \in FwdState
  BY <1>1 DEF FwdState, FwdRecord
<1>5. ASSUME c.task # "none", NEW t \in Published \cup {"waiting", "stuck", "stopped"}
      PROVE  [c EXCEPT !.task = t] \in FwdState /\ [c EXCEPT !.task = t, !.news = FALSE] \in FwdState
  BY <1>1, <1>5 DEF FwdState, FwdRecord
<1> QED
  BY <1>2, <1>3, <1>4, <1>5

\* Publishing a session's state (wait(), accept(), cancel(), decline()).
LEMMA Publishes ==
  ASSUME WebInv, NEW s \in Request, NEW state \in Published,
         NEW fate \in {"none", "open", "ok", "failed", "refused", "dropped"},
         Publish(s, state, fate)
  PROVE  /\ ses' \in [Request -> SesState] /\ fwd' \in [Request -> FwdState]
         /\ ses'[s].state = fate
         /\ \A q \in Request : q # s => ses'[q] = ses[q]
         /\ \A q \in Request : ses'[q].kept = ses[q].kept
<1>1. ses' = [ses EXCEPT ![s].published = state, ![s].state = fate]
  BY DEF Publish
<1>2. [ses[s] EXCEPT !.published = state, !.state = fate] \in SesState
  BY Basics DEF SesState
<1>3. ses' \in [Request -> SesState] /\ \A q \in Request : q # s => ses'[q] = ses[q]
  BY <1>1, <1>2, Basics
<1>4. ses'[s].state = fate /\ ses'[s].kept = ses[s].kept
  BY <1>1, Basics DEF SesState
<1>5. fwd' \in [Request -> FwdState]
  <2>1. fwd' = [r \in Request |-> [fwd[r] EXCEPT !.news = fwd[r].news \/ fwd[r].source = s]]
    BY DEF Publish
  <2>2. \A r \in Request : fwd[r] \in FwdState /\ (fwd[r].news \/ fwd[r].source = s) \in BOOLEAN
    BY Basics DEF FwdState, FwdRecord
  <2> QED
    BY <2>1, <2>2, ForwardRecords
<1> QED
  BY <1>3, <1>4, <1>5

\* A forwarder gets its session, and the event streams get news.
LEMMA ForwardTypes ==
  ASSUME WebInv
  PROVE  /\ \A g \in [Request -> FwdState] : StreamsHaveNews(g) \in [Request -> FwdState]
         /\ \A r, s \in Request : Forward(r, s) => fwd' \in [Request -> FwdState]
<1>1. \A g \in [Request -> FwdState] : StreamsHaveNews(g) \in [Request -> FwdState]
  <2>1. ASSUME NEW g \in [Request -> FwdState], NEW r \in Request
        PROVE  [g[r] EXCEPT !.news = g[r].news \/ req[r].op = "progress_sse"] \in FwdState
    <3>1. (g[r].news \/ req[r].op = "progress_sse") \in BOOLEAN
      BY DEF FwdState, FwdRecord
    <3> QED
      BY <3>1, ForwardRecords
  <2> QED
    BY <2>1 DEF StreamsHaveNews
<1>2. ASSUME NEW r \in Request, NEW s \in Request, Forward(r, s)
      PROVE  fwd' \in [Request -> FwdState]
  <2>1. [fwd[r] EXCEPT !.task = "waiting", !.source = s,
                       !.news = ses[s].published # "Preparing"] \in FwdState
    BY ForwardRecords, Basics
  <2>2. fwd' = [fwd EXCEPT ![r] = [fwd[r] EXCEPT !.task = "waiting", !.source = s,
                                          !.news = ses[s].published # "Preparing"]]
    BY <1>2 DEF Forward
  <2> QED
    BY <2>1, <2>2, Basics
<1> QED
  BY <1>1, <1>2

\* Overwriting a field that holds sessions, and one that does not.
LEMMA Overwrites ==
  ASSUME WebInv, NEW f, NEW v, Overwrite(f, v)
  PROVE  /\ app' = [app EXCEPT ![f] = v]
         /\ ses' \in [Request -> SesState]
         /\ \A q \in Request : ses'[q].kept = ses[q].kept
         /\ \A q \in Request : f \notin Fields \/ q # app[f] => ses'[q].state = ses[q].state
  BY Basics DEF Overwrite, SesState, Fields

\* A client sends its request.
LEMMA SendKeeps ==
  ASSUME WebInv, NEW r \in Request, SendRequest(r)
  PROVE  WebInv'
<1> DEFINE to == CASE req[r].op \in {"get_share_code", "download_received"} -> "look"
                   [] req[r].op = "progress_sse" -> "stream"
                   [] req[r].op = "ctrl_c" -> "stop"
                   [] OTHER -> "check"
<1>1. /\ req' = [req EXCEPT ![r].pc = to] /\ req[r].pc = "unsent" /\ req[r].op # None
      /\ UNCHANGED <<app, ses, fwd>>
  BY DEF SendRequest
<1>2. req[r].op \in Endpoint
  BY <1>1, Basics DEF RequestState
<1>3. to \in Pc /\ to \in {"look", "stream", "stop", "check"} /\ Serves(req[r].op, to)
  BY <1>2 DEF Pc, Serves, Endpoint
<1> HIDE DEF to
<1>4. Moves(r, "unsent", to, req[r].held)
  BY <1>1, <1>3, Basics DEF Moves, RequestState
<1> QED
  BY <1>1, <1>3, <1>4, Quiet, Basics DEF Fresh, Holding, Ended, Received, Unnoted

\* The handlers look at the mode first, and go on as their endpoint says.
LEMMA CheckKeeps ==
  ASSUME WebInv, NEW r \in Request, CheckMode(r)
  PROVE  WebInv'
<1>1. UNCHANGED <<app, ses, fwd>> /\ TypeOK
  BY DEF CheckMode, WebInv
<1>2. CASE Return(r, "check")
  <2>1. Moves(r, "check", "done", None) /\ Serves(req[r].op, "done")
    BY <1>1, <1>2, ReturnMoves DEF Serves
  <2> QED
    BY <1>1, <2>1, Quiet, Basics DEF Fresh, Holding, Ended, Received, Unnoted
<1>3. CASE Step(r, "check", First(req[r].op))
  <2>1. req[r].op \in {"create_share", "start_receive", "cancel_share",
                       "accept_receive", "decline_receive", "get_status"}
    BY <1>3 DEF WebInv, Endpoints, Serves, Step, At
  <2>2. /\ First(req[r].op) \in Pc /\ Serves(req[r].op, First(req[r].op))
        /\ First(req[r].op) \in {"new", "refuse", "takePending", "look"}
    BY <2>1 DEF First, Pc, Serves
  <2>3. Moves(r, "check", First(req[r].op), req[r].held)
    BY <1>1, <1>3, <2>2, StepMoves
  <2> QED
    BY <1>1, <2>2, <2>3, Quiet, Basics DEF Fresh, Holding, Ended, Received, Unnoted
<1> QED
  BY <1>2, <1>3 DEF CheckMode

\* Handlers that only look or return.
LEMMA ReturnKeeps ==
  ASSUME WebInv, NEW r \in Request, NEW from \in {"look", "new", "stop", "stream"},
         Return(r, from),
         app' \in {app, [app EXCEPT !.completed_receive = None],
                   [app EXCEPT !.running = FALSE]},
         UNCHANGED <<ses, fwd>>
  PROVE  WebInv'
<1>1. Moves(r, from, "done", None) /\ Serves(req[r].op, "done")
  BY ReturnMoves DEF Serves, WebInv
<1>2. /\ app' \in AppState
      /\ \A f \in Fields : app'[f] = app[f]
      /\ app'.completed_receive \in {app.completed_receive, None}
  BY Basics DEF AppState, Asked, Fields
<1> QED
  BY <1>1, <1>2, Quiet, Basics DEF Fresh, Holding, Ended, Received, Unnoted

\* A session is made and is in the hands of the request that asked for it.
LEMMA NewKeeps ==
  ASSUME WebInv, NEW r \in Request, NewSession(r)
  PROVE  WebInv'
<1>1. CASE Return(r, "new") /\ UNCHANGED <<app, ses, fwd>>
  BY <1>1, ReturnKeeps
<1>2. CASE /\ StepWith(r, "new", IF req[r].op = "create_share" THEN "setSharing"
                                 ELSE "setReceiving", r)
           /\ app' = [app EXCEPT !.share_code = CodeAfter(r)]
           /\ ses' = [ses EXCEPT ![r].state = "open"] /\ fwd' = fwd
  <2> DEFINE to == IF req[r].op = "create_share" THEN "setSharing" ELSE "setReceiving"
  <2>1. req[r].pc = "new" /\ req[r].op \in {"create_share", "start_receive"}
    BY <1>2 DEF StepWith, At, WebInv, Endpoints, Serves
  <2>2. to \in Pc /\ to \in Holding \ Fresh /\ to \notin Received /\ Serves(req[r].op, to)
        /\ to # "keepAlive"
    BY <2>1 DEF Pc, Serves, Holding, Fresh, Received
  <2>3. Moves(r, "new", to, r)
    BY <1>2, <2>2, StepWithMoves DEF WebInv
  <2> HIDE DEF to
  <2>4. /\ req' \in [Request -> RequestState] /\ \A q \in Request : req'[q].op = req[q].op
        /\ \A q \in Request \ {r} : req'[q] = req[q]
        /\ req'[r].pc = to /\ req'[r].held = r
    BY <2>3 DEF Moves
  <2>5. /\ app' \in AppState /\ \A f \in Fields : app'[f] = app[f]
        /\ app'.completed_receive = app.completed_receive
    BY <1>2, Basics DEF AppState, Asked, Fields, CodeAfter
  <2>6. /\ ses' \in [Request -> SesState] /\ ses'[r].state = "open"
        /\ \A q \in Request \ {r} : ses'[q] = ses[q]
        /\ \A q \in Request : ses'[q].kept = ses[q].kept
    BY <1>2, Basics DEF SesState
  <2>7. ses[r].state = "none"
    BY <2>1 DEF WebInv, States, Fresh
  <2>8. /\ \A q \in Request : req[q].pc \in Holding \cup Received => req[q].held # r
        /\ \A f \in Fields : app[f] # r
    BY <2>7, Basics DEF WebInv, States
  <2>9. TypeOK'
    BY <1>2, <2>4, <2>5, <2>6, Types, Basics
  <2>10. Endpoints'
    BY <2>1, <2>2, <2>4 DEF WebInv, Endpoints, Runs
  <2>11. Apart'
    BY <2>4, <2>5, <2>8 DEF WebInv, Apart
  <2>12. States'
    <3>1. \A q \in Request : req'[q].pc \in Fresh => ses'[q].state = "none"
      BY <2>2, <2>4, <2>6 DEF WebInv, States
    <3>2. \A q \in Request : req'[q].pc \in Holding => ses'[req'[q].held].state = "open"
      <4>1. \A q \in Request : req[q].pc \in Holding =>
              req[q].held \in Request \ {r} /\ ses[req[q].held].state = "open"
        BY <2>8, Basics DEF WebInv, States
      <4> QED
        BY <2>4, <2>6, <4>1
    <3>3. \A f \in Fields : app'[f] # None => ses'[app'[f]].state = "open"
      BY <2>5, <2>6, Basics DEF WebInv, States
    <3>4. \A q \in Request : req'[q].pc \in Received => ses'[req'[q].held].state = "ok"
      <4>1. Received \subseteq Ended
        BY DEF Received, Ended
      <4>2. \A q \in Request : req[q].pc \in Received =>
              req[q].held \in Request \ {r} /\ ses[req[q].held].state = "ok"
        BY <2>8, <4>1, Basics DEF WebInv, States
      <4> QED
        BY <2>2, <2>4, <2>6, <4>2
    <3> QED
      BY <3>1, <3>2, <3>3, <3>4 DEF States
  <2>15. Accepts' /\ \A q \in Request : req[q].files # None => req'[q].files = req[q].files
    <3>1. to \notin Unnoted
      BY <2>2 DEF Unnoted, Fresh, Holding
    <3>2. app'.active_receive # None => IsNoted(app'.active_receive)
      BY <2>5 DEF WebInv, Accepts, Fields
    <3> QED BY <2>1, <2>3, <3>1, <3>2, AcceptsStay
  <2>13. CompletedIsReceived'
    BY <2>5, <2>6, <2>7, <2>15, Basics, CompletedStays
  <2>14. PendingIsKept'
    BY <2>1, <2>4, <2>5, <2>6 DEF WebInv, PendingIsKept, Fields
  <2> QED
    BY <1>2, <2>9, <2>10, <2>11, <2>12, <2>13, <2>14, <2>15 DEF WebInv, Forwarding
<1> QED
  BY <1>1, <1>2 DEF NewSession

\* The mode is set while the session is in somebody's hands.
LEMMA SetModeKeeps ==
  ASSUME WebInv, NEW r \in Request,
         \/ SetMode(r, "setSharing", "Sharing", "setShare")
         \/ SetMode(r, "setReceiving", "Receiving", "setPending")
         \/ SetMode(r, "setTransferring", "Transferring", "setReceive")
  PROVE  WebInv'
<1>1. ASSUME NEW from \in {"setSharing", "setReceiving", "setTransferring"},
             NEW to \in {"setShare", "setPending", "setReceive"},
             NEW mode \in {"Sharing", "Receiving", "Transferring"},
             Serves(req[r].op, from) => Serves(req[r].op, to), SetMode(r, from, mode, to)
      PROVE  WebInv'
  <2>1. Step(r, from, to) /\ app' = [app EXCEPT !.mode = mode] /\ UNCHANGED <<ses, fwd>>
    BY <1>1 DEF SetMode
  <2>2. Serves(req[r].op, to) /\ to \in Pc
    BY <1>1, <2>1 DEF Step, At, WebInv, Endpoints, Pc
  <2>3. Moves(r, from, to, req[r].held)
    BY <2>1, <2>2, StepMoves DEF WebInv
  <2>4. /\ app' \in AppState /\ \A f \in Fields : app'[f] = app[f]
        /\ app'.completed_receive = app.completed_receive
    BY <2>1, Basics DEF AppState, Asked, Fields
  <2> QED
    BY <2>1, <2>2, <2>3, <2>4, Quiet, Basics DEF Fresh, Holding, Ended, Received, Unnoted
<1> QED
  BY <1>1 DEF Serves

\* The session is put into its field (handlers.rs, state.rs).
LEMMA StoreKeeps ==
  ASSUME WebInv, NEW r \in Request, StoreShare(r) \/ StorePending(r) \/ StoreReceive(r)
  PROVE  WebInv'
<1>1. ASSUME NEW from \in {"setShare", "setPending", "setReceive"},
             NEW to \in {"observe", "keepAlive", "takeReceive"}, NEW f \in Fields,
             Moves(r, from, to, None), Overwrite(f, req[r].held), fwd' = fwd,
             f = "pending_receive" => to = "keepAlive",
             f = "active_receive" => req[r].op = "accept_receive",
             Serves(req[r].op, to),
             req[r].held \in Asked(IF f = "active_share" THEN "create_share"
                                   ELSE "start_receive")
      PROVE  WebInv'
  <2>1. app' \in AppState
    <3>1. app' = [app EXCEPT ![f] = req[r].held]
      BY <1>1, Overwrites
    <3> QED
      BY <1>1, <3>1, Basics DEF AppState, Fields
  <2>2. from \in Holding /\ to \notin Holding \cup Ended \cup Fresh
    BY <1>1 DEF Holding, Ended, Fresh
  <2>3. /\ app' = [app EXCEPT ![f] = req[r].held] /\ ses' \in [Request -> SesState]
        /\ \A q \in Request : ses'[q].kept = ses[q].kept
        /\ \A q \in Request : q # app[f] => ses'[q].state = ses[q].state
    BY <1>1, Overwrites
  <2> QED
    BY <1>1, <2>1, <2>2, <2>3, Placed
<1>2. \A pc \in Holding : req[r].pc = pc =>
        /\ Serves(req[r].op, pc)
        /\ req[r].held \in Request /\ req[req[r].held].op = Runs(req[r].op)
  BY DEF WebInv, Endpoints
<1>3. CASE StoreShare(r)
  <2>1. Moves(r, "setShare", "observe", None) /\ Overwrite("active_share", req[r].held)
        /\ fwd' = fwd
    BY <1>3, AnswerMoves DEF StoreShare, WebInv, Pc
  <2>2. req[r].op = "create_share" /\ req[r].held \in Asked("create_share")
    BY <1>2, <2>1 DEF Moves, Serves, Holding, Runs, Asked
  <2> QED
    BY <1>1, <2>1, <2>2 DEF Serves, Fields
<1>4. CASE StorePending(r)
  <2>1. Moves(r, "setPending", "keepAlive", None) /\ Overwrite("pending_receive", req[r].held)
        /\ fwd' = fwd
    BY <1>4, StepWithMoves DEF StorePending, WebInv, Pc
  <2>2. req[r].op = "start_receive" /\ req[r].held \in Asked("start_receive")
    BY <1>2, <2>1 DEF Moves, Serves, Holding, Runs, Asked
  <2> QED
    BY <1>1, <2>1, <2>2 DEF Serves, Fields
<1>5. CASE StoreReceive(r)
  <2>1. Moves(r, "setReceive", "takeReceive", None) /\ Overwrite("active_receive", req[r].held)
        /\ fwd' = fwd
    BY <1>5, AnswerMoves DEF StoreReceive, WebInv, Pc
  <2>2. req[r].op = "accept_receive" /\ req[r].held \in Asked("start_receive")
    BY <1>2, <2>1 DEF Moves, Serves, Holding, Runs, Asked
  <2> QED
    BY <1>1, <2>1, <2>2 DEF Serves, Fields
<1> QED
  BY <1>3, <1>4, <1>5

\* start_receive's second visit to the field.
LEMMA KeepAliveKeeps ==
  ASSUME WebInv, NEW r \in Request, StartKeepAlive(r)
  PROVE  WebInv'
<1>1. /\ Moves(r, "keepAlive", "done", None) /\ UNCHANGED <<app, fwd>>
      /\ ses' = [s \in Request |-> [ses[s] EXCEPT !.kept = @ \/ s = app.pending_receive]]
  BY ReturnMoves DEF StartKeepAlive, WebInv, KeptBy
<1>2. /\ ses' \in [Request -> SesState]
      /\ \A q \in Request : /\ ses'[q].state = ses[q].state
                            /\ ses[q].kept => ses'[q].kept
                            /\ q = app.pending_receive => ses'[q].kept
  BY <1>1, Basics DEF SesState
<1>3. app.pending_receive \in Request \cup {None} /\ Serves(req[r].op, "done")
  BY Basics DEF Serves, Fields
<1> QED
  BY <1>1, <1>2, <1>3, Quiet, Basics DEF Fresh, Holding, Ended, Received, Unnoted

\* A session is taken out of its field, by accept_receive or by a task.
LEMMA TakeKeeps ==
  ASSUME WebInv, NEW r \in Request, TakePending(r) \/ TakeShare(r) \/ TakeReceive(r)
  PROVE  WebInv'
<1>1. ASSUME NEW from \in {"takePending", "take", "takeReceive"},
             NEW to \in {"done", "abort", "setTransferring", "wait"},
             NEW f \in Fields, NEW s, Moves(r, from, to, s),
             Serves(req[r].op, to),
             to \in {"setTransferring", "wait"} =>
               s = app[f] /\ s # None /\ req[s].op = Runs(req[r].op),
             req[r].op = "accept_receive" /\ to \in {"setTransferring", "wait"} =>
               \/ from = "takePending" /\ req'[r].files = s
               \/ from = "takeReceive" /\ f = "active_receive",
             app' = [app EXCEPT ![f] = None],
             ses' \in [Request -> SesState], fwd' \in [Request -> FwdState],
             \A q \in Request : /\ ses'[q].state = ses[q].state
                                /\ ses'[q].kept = ses[q].kept
      PROVE  WebInv'
  <2>1. /\ from \notin Holding \cup Ended \cup {"keepAlive"} /\ to \notin Ended \cup Fresh
        /\ to \in Holding => to \in {"setTransferring", "wait"}
    BY DEF Holding, Ended, Fresh
  <2> QED
    BY <1>1, <2>1, Removed
<1>2. \A pc : req[r].pc = pc => Serves(req[r].op, pc)
  BY DEF WebInv, Endpoints
<1>3. CASE TakePending(r)
  <2> DEFINE s == app.pending_receive
  <2>1. s \in Request \cup {None} /\ (s # None => req[s].op = "start_receive")
    BY Basics DEF AppState, Asked
  <2>2. app' = [app EXCEPT !.pending_receive = None] /\ UNCHANGED <<ses, fwd>>
    BY <1>3 DEF TakePending, Taken
  <2>3. CASE s = None
    <3>1. Moves(r, "takePending", "done", None)
      BY <1>3, <2>3, ReturnMoves DEF TakePending, WebInv
    <3> QED
      BY <1>1, <2>2, <3>1, Basics DEF Serves, Fields
  <2>4. CASE s # None
    <3>1. Moves(r, "takePending", "setTransferring", s) /\ req'[r].files = s
      <4>1. /\ req[r].pc = "takePending"
            /\ req' = [req EXCEPT ![r].pc = "setTransferring", ![r].held = s, ![r].files = s]
        BY <1>3, <2>4 DEF TakePending, At
      <4>2. [req[r] EXCEPT !.pc = "setTransferring", !.held = s, !.files = s] \in RequestState
        BY <2>1, NewState, Basics DEF Pc
      <4> HIDE DEF s
      <4> QED BY <4>1, <4>2, Basics DEF RequestState, Moves
    <3>2. req[r].op = "accept_receive"
      BY <1>2, <3>1 DEF Moves, Serves
    <3> QED
      BY <1>1, <2>1, <2>2, <2>4, <3>1, <3>2, Basics DEF Serves, Fields, Runs
  <2> QED
    BY <2>3, <2>4
<1>4. CASE TakeShare(r)
  <2> DEFINE s == app.active_share
  <2>1. s \in Request \cup {None} /\ (s # None => req[s].op = "create_share")
    BY Basics DEF AppState, Asked
  <2>2. app' = [app EXCEPT !.active_share = None]
    BY <1>4 DEF TakeShare, Taken
  <2>3. Moves(r, "take", AfterTake(s), s)
    BY <1>4, <2>1, StepWithMoves DEF TakeShare, WebInv, Pc, AfterTake
  <2>4. req[r].op = "create_share"
    BY <1>2, <2>3 DEF Moves, Serves
  <2>5. CASE s = None
    <3>1. UNCHANGED <<ses, fwd>>
      BY <1>4, <2>5 DEF TakeShare
    <3> QED
      BY <1>1, <2>2, <2>3, <2>5, <3>1, Basics DEF Serves, Fields, AfterTake
  <2>6. CASE s # None
    <3>1. /\ ses' \in [Request -> SesState] /\ fwd' \in [Request -> FwdState]
          /\ \A q \in Request : /\ ses'[q].state = ses[q].state
                                /\ ses'[q].kept = ses[q].kept
      <4>1. Publish(s, "Active", ses[s].state) /\ s \in Request
        BY <1>4, <2>1, <2>6 DEF TakeShare
      <4>2. "Active" \in Published
            /\ ses[s].state \in {"none", "open", "ok", "failed", "refused", "dropped"}
        BY <4>1, Basics DEF Published, SesState
      <4> HIDE DEF s
      <4> QED
        BY <4>1, <4>2, Publishes
    <3> QED
      BY <1>1, <2>1, <2>2, <2>3, <2>4, <2>6, <3>1 DEF Serves, Fields, AfterTake, Runs
  <2> QED
    BY <2>5, <2>6
<1>5. CASE TakeReceive(r)
  <2> DEFINE s == app.active_receive
             to == IF s = None THEN "done" ELSE "wait"
  <2>1. s \in Request \cup {None} /\ (s # None => req[s].op = "start_receive")
    BY Basics DEF AppState, Asked
  <2>2. app' = [app EXCEPT !.active_receive = None] /\ ses' = ses
    BY <1>5 DEF TakeReceive, Taken
  <2>3. Moves(r, "takeReceive", to, s)
    BY <1>5, <2>1, StepWithMoves DEF TakeReceive, WebInv, Pc
  <2>4. req[r].op = "accept_receive"
    BY <1>2, <2>3 DEF Moves, Serves
  <2>5. fwd' \in [Request -> FwdState]
    BY <1>5, <2>1, ForwardTypes, Basics DEF TakeReceive
  <2> QED
    BY <1>1, <2>1, <2>2, <2>3, <2>4, <2>5, Basics DEF Serves, Fields, Runs
<1> QED
  BY <1>3, <1>4, <1>5

\* cancel_share and decline_receive end the session they find.
LEMMA RefuseKeeps ==
  ASSUME WebInv, NEW r \in Request, Refuse(r)
  PROVE  WebInv'
<1> DEFINE f == IF req[r].op = "cancel_share" THEN "active_share" ELSE "pending_receive"
<1>1. /\ Step(r, "refuse", ResetSteps[1]) /\ app' = [app EXCEPT ![f] = None]
      /\ IF app[f] # None THEN Publish(app[f], "Cancelled", "refused")
         ELSE UNCHANGED <<ses, fwd>>
  BY DEF Refuse, Taken
<1>2. f \in Fields /\ ResetSteps[1] = "mode"
  BY DEF Fields, ResetSteps
<1>3. app[f] \in Request \cup {None}
  BY <1>2, Basics
<1> HIDE DEF f
<1>4. "mode" \in Pc /\ Serves(req[r].op, "mode")
  BY <1>2 DEF Pc, ResetSteps, Serves
<1>5. Moves(r, "refuse", "mode", req[r].held)
  BY <1>1, <1>2, <1>4, StepMoves DEF WebInv
<1>6. /\ ses' \in [Request -> SesState] /\ fwd' \in [Request -> FwdState]
      /\ \A q \in Request : q # app[f] => ses'[q].state = ses[q].state
      /\ \A q \in Request : ses'[q].kept = ses[q].kept
  <2>1. CASE app[f] = None
    BY <1>1, <2>1, Basics
  <2>2. CASE app[f] # None
    <3>1. Publish(app[f], "Cancelled", "refused") /\ app[f] \in Request /\ "Cancelled" \in Published
      BY <1>1, <1>3, <2>2 DEF Published
    <3> QED
      BY <3>1, Publishes
  <2> QED
    BY <2>1, <2>2
<1> QED
  BY <1>1, <1>2, <1>4, <1>5, <1>6, Removed DEF Fresh, Holding, Ended

\* reset_to_idle clears the fields, with whatever they hold by then.
LEMMA ResetKeeps ==
  ASSUME WebInv, NEW r \in Request, ResetField(r)
  PROVE  WebInv'
<1>1. PICK i \in 1 .. 5 :
        /\ Step(r, ResetSteps[i], ResetSteps[i + 1])
        /\ Overwrite(ResetSteps[i], IF ResetSteps[i] = "mode" THEN "Idle" ELSE None)
  BY DEF ResetField
<1>2. fwd' = fwd
  BY DEF ResetField
<1>3. /\ ResetSteps[i] \in {"mode", "share_code", "active_share", "pending_receive",
                            "active_receive"}
      /\ ResetSteps[i + 1] \in {"share_code", "active_share", "pending_receive",
                                "active_receive", "progress"}
      /\ ResetSteps[i + 1] \in Pc
  BY DEF ResetSteps, Pc
<1> DEFINE from == ResetSteps[i]
           to == ResetSteps[i + 1]
<1>4. Moves(r, from, to, req[r].held) /\ Serves(req[r].op, to)
  BY <1>1, <1>3, StepMoves DEF WebInv, Serves
<1>5. /\ app' = [app EXCEPT ![from] = IF from = "mode" THEN "Idle" ELSE None]
      /\ ses' \in [Request -> SesState]
      /\ \A q \in Request : ses'[q].kept = ses[q].kept
      /\ \A q \in Request : from \notin Fields \/ q # app[from] => ses'[q].state = ses[q].state
  BY <1>1, Overwrites
<1> HIDE DEF from, to
<1>6. CASE from \in Fields
  <2>1. app' = [app EXCEPT ![from] = None]
    BY <1>5, <1>6 DEF Fields
  <2>2. /\ from \notin Holding \cup Ended \cup {"keepAlive"}
        /\ to \notin Holding \cup Ended \cup Fresh \cup {"takePending", "takeReceive"}
    BY <1>3, <1>6 DEF from, to, Fields, Holding, Ended, Fresh
  <2> QED
    <3>1. fwd' \in [Request -> FwdState]
      BY <1>2, Basics
    <3>2. \A q \in Request : q # app[from] => ses'[q].state = ses[q].state
      BY <1>5, <1>6
    <3> QED
      BY <1>4, <1>5, <1>6, <2>1, <2>2, <3>1, <3>2, Removed
<1>7. CASE from \notin Fields
  <2>1. from \in {"mode", "share_code"}
    BY <1>3, <1>7 DEF from, Fields
  <2>2. /\ app' \in AppState /\ \A f \in Fields : app'[f] = app[f]
        /\ app'.completed_receive = app.completed_receive
    BY <1>5, <2>1, Basics DEF AppState, Asked, Fields
  <2>3. /\ from \notin Fresh \cup {"keepAlive", "takePending"}
        /\ to \notin Holding \cup Ended \cup Fresh \cup Received
        /\ to \notin Unnoted \cup {"takeReceive"}
    BY <1>3, <2>1 DEF to, Holding, Ended, Fresh, Received, Unnoted
  <2>4. /\ app'.completed_receive \in {app.completed_receive, None}
        /\ \A q \in Request : /\ ses'[q].state = ses[q].state
                              /\ ses[q].kept => ses'[q].kept
        /\ fwd' \in [Request -> FwdState]
    BY <1>2, <1>5, <1>7, <2>2, Basics
  <2> QED
    BY <1>4, <1>5, <2>2, <2>3, <2>4, Quiet
<1> QED
  BY <1>6, <1>7

\* The last statement of reset_to_idle.
LEMMA ResetProgressKeeps ==
  ASSUME WebInv, NEW r \in Request, ResetProgress(r)
  PROVE  WebInv'
<1>1. PICK to \in {"done", "stuck"}, s \in Request \cup {None} : Moves(r, "progress", to, s)
  <2>1. CASE Return(r, "progress")
    BY <2>1, ReturnMoves DEF WebInv
  <2>2. CASE Step(r, "progress", "stuck")
    <3>1. Moves(r, "progress", "stuck", req[r].held) /\ req[r].held \in Request \cup {None}
      BY <2>2, StepMoves, Basics DEF WebInv, Pc, RequestState
    <3> QED
      BY <3>1
  <2> QED
    BY <2>1, <2>2 DEF ResetProgress
<1>2. /\ Serves(req[r].op, to) /\ to \notin Holding \cup Ended \cup Fresh \cup Received
      /\ to \notin Unnoted
  BY DEF Serves, Holding, Ended, Fresh, Received, Unnoted
<1>3. ses' = ses /\ (app' = app \/ app' = [app EXCEPT !.progress = None])
  BY DEF ResetProgress, SendProgress
<1>4. /\ app' \in AppState /\ \A f \in Fields : app'[f] = app[f]
      /\ app'.completed_receive = app.completed_receive
  BY <1>3, Basics DEF AppState, Asked, Fields
<1>5. fwd' \in [Request -> FwdState]
  BY ForwardTypes, Basics DEF ResetProgress
<1> QED
  BY <1>1, <1>2, <1>3, <1>4, <1>5, Quiet, Basics

\* share_wait_task looks at the field, and any task ends its forwarder.
LEMMA TaskKeeps ==
  ASSUME WebInv, NEW r \in Request, ObserveShare(r) \/ AbortForwarder(r) \/ StreamEvent(r)
  PROVE  WebInv'
<1>1. \/ Step(r, "observe", "done") \/ Step(r, "observe", "take")
      \/ Step(r, "abort", "done") \/ Step(r, "abort", "mode")
      \/ Step(r, "stream", "stuck") \/ Step(r, "stream", "stream")
  BY DEF ObserveShare, AbortForwarder, StreamEvent, ResetSteps
<1>2. app' = app /\ ses' = ses
  BY DEF ObserveShare, AbortForwarder, StreamEvent
<1>3. PICK from \in {"observe", "abort", "stream"},
           to \in {"done", "take", "stuck", "stream", "mode"} :
             Step(r, from, to) /\ (to = "take" => from = "observe")
  BY <1>1
<1>4. /\ to \in Pc /\ Serves(req[r].op, to) /\ to \notin Unnoted
      /\ to \notin Holding \cup Ended \cup Fresh \cup Received
  <2>1. to = "take" => req[r].op = "create_share"
    <3>1. to = "take" => req[r].pc = "observe"
      BY <1>3 DEF Step, At
    <3> QED
      BY <3>1 DEF WebInv, Endpoints, Serves
  <2> QED
    BY <2>1 DEF Pc, ResetSteps, Serves, Holding, Ended, Fresh, Received, Unnoted
<1>5. Moves(r, from, to, req[r].held)
  BY <1>3, <1>4, StepMoves DEF WebInv
<1>6. fwd' \in [Request -> FwdState]
  <2>1. \A c \in FwdState : /\ [c EXCEPT !.aborted = TRUE] \in FwdState
                            /\ [c EXCEPT !.news = FALSE] \in FwdState
    BY ForwardRecords
  <2>2. app.active_share \in Request \cup {None}
    BY Basics DEF Fields
  <2>3. CASE ObserveShare(r)
    <3>1. fwd' = fwd \/ (app.active_share \in Request /\ Forward(r, app.active_share))
      BY <2>2, <2>3 DEF ObserveShare
    <3> QED
      BY <3>1, ForwardTypes, Basics
  <2>4. CASE AbortForwarder(r)
    <3>1. fwd' = [fwd EXCEPT ![r] = [fwd[r] EXCEPT !.aborted = TRUE]]
      BY <2>4 DEF AbortForwarder
    <3> QED
      BY <2>1, <3>1, Basics
  <2>5. CASE StreamEvent(r)
    <3>1. fwd' = [fwd EXCEPT ![r] = [fwd[r] EXCEPT !.news = FALSE]]
      BY <2>5 DEF StreamEvent
    <3> QED
      BY <2>1, <3>1, Basics
  <2> QED
    BY <2>3, <2>4, <2>5
<1> QED
  BY <1>2, <1>4, <1>5, <1>6, Quiet, Basics

\* The session runs and publishes its progress.
LEMMA RunsKeep ==
  ASSUME WebInv, NEW r \in Request, SessionRuns(r)
  PROVE  WebInv'
<1>1. req[r].pc = "wait" /\ UNCHANGED <<app, req>> /\ req[r].held \in Request
  BY Basics DEF SessionRuns, At, Holding
<1>2. Publish(req[r].held, "Active", ses[req[r].held].state) /\ "Active" \in Published
      /\ ses[req[r].held].state \in {"none", "open", "ok", "failed", "refused", "dropped"}
  BY <1>1, Basics DEF SessionRuns, Published, SesState
<1>3. /\ ses' \in [Request -> SesState] /\ fwd' \in [Request -> FwdState]
      /\ \A q \in Request : ses'[q].state = ses[q].state /\ ses'[q].kept = ses[q].kept
  BY <1>1, <1>2, Publishes
<1>4. Moves(r, "wait", "wait", req[r].held)
  BY <1>1, Basics DEF Moves
<1> QED
  BY <1>1, <1>3, <1>4, Quiet, Basics DEF Serves, Fresh, Received

\* The session ends, well or not: it was the only one its task had.
LEMMA EndsKeep ==
  ASSUME WebInv, NEW r \in Request, SessionCompletes(r) \/ SessionFails(r)
  PROVE  WebInv'
<1> DEFINE s == req[r].held
<1>1. req[r].pc = "wait" /\ s \in Request /\ app' = app
  BY Basics DEF SessionCompletes, SessionFails, Step, At, Holding
<1>2. /\ fwd' \in [Request -> FwdState] /\ ses' \in [Request -> SesState]
      /\ \A q \in Request : q # s => ses'[q] = ses[q]
      /\ \A q \in Request : ses'[q].kept = ses[q].kept
      /\ SessionCompletes(r) => ses'[s].state = "ok"
  <2>1. CASE SessionCompletes(r)
    <3>1. Publish(s, "Completed", "ok") /\ "Completed" \in Published
      BY <2>1 DEF SessionCompletes, Published
    <3> QED
      BY <1>1, <3>1, Publishes
  <2>2. CASE Publish(s, "Cancelled", "failed") /\ ~SessionCompletes(r)
    <3>1. "Cancelled" \in Published
      BY DEF Published
    <3> QED
      BY <1>1, <2>2, <3>1, Publishes
  <2>3. CASE ses' = [ses EXCEPT ![s].state = "failed"] /\ fwd' = fwd /\ ~SessionCompletes(r)
    BY <1>1, <2>3, Basics DEF SesState
  <2> QED
    BY <2>1, <2>2, <2>3 DEF SessionFails
<1>3. PICK to \in {"markOk", "markErr"} :
        /\ Moves(r, "wait", to, s)
        /\ to = "markOk" => ses'[s].state = "ok"
  <2>1. CASE SessionCompletes(r)
    BY <1>2, <2>1, StepMoves DEF SessionCompletes, WebInv, Pc
  <2>2. CASE SessionFails(r)
    BY <2>2, StepMoves DEF SessionFails, WebInv, Pc
  <2> QED
    BY <2>1, <2>2
<1>4. /\ req' \in [Request -> RequestState] /\ \A q \in Request : req'[q].op = req[q].op
      /\ \A q \in Request \ {r} : req'[q] = req[q]
      /\ req'[r].pc = to /\ req'[r].held = s
  BY <1>3 DEF Moves
<1>5. to \notin Holding \cup Fresh /\ Serves(req[r].op, to) /\ (to \in Received => to = "markOk")
  BY DEF Holding, Fresh, Serves, Received
<1>6. /\ \A q \in Request \ {r} : req[q].pc \in Holding => req[q].held # s
      /\ \A f \in Fields : app[f] # s
      /\ ses[s].state = "open"
  BY <1>1 DEF WebInv, Apart, States, Holding
<1> HIDE DEF s
<1>7. TypeOK'
  BY <1>1, <1>2, <1>4, Types, Basics
<1>8. Endpoints'
  BY <1>1, <1>4, <1>5 DEF s, WebInv, Endpoints, Holding
<1>9. Apart'
  BY <1>1, <1>4, <1>5 DEF WebInv, Apart
<1>10. States'
  <2>1. \A q \in Request : req'[q].pc \in Fresh => ses'[q].state = "none"
    BY <1>2, <1>4, <1>5, <1>6 DEF WebInv, States
  <2>2. \A q \in Request : req'[q].pc \in Holding => ses'[req'[q].held].state = "open"
    BY <1>2, <1>4, <1>5, <1>6, Basics DEF WebInv, States
  <2>3. \A f \in Fields : app'[f] # None => ses'[app'[f]].state = "open"
    BY <1>1, <1>2, <1>6, Basics DEF WebInv, States
  <2>4. \A q \in Request : req'[q].pc \in Received => ses'[req'[q].held].state = "ok"
    <3>1. req'[r].pc \in Received => ses'[req'[r].held].state = "ok"
      BY <1>3, <1>4, <1>5
    <3>2. \A q \in Request \ {r} : req[q].pc \in Received => req[q].held \in Request \ {s}
      BY <1>6, Basics DEF WebInv, States, Received, Ended
    <3> QED
      BY <1>2, <1>4, <3>1, <3>2 DEF WebInv, States
  <2> QED
    BY <2>1, <2>2, <2>3, <2>4 DEF States
<1>13. Accepts' /\ \A q \in Request : req[q].files # None => req'[q].files = req[q].files
  <2>1. to \in Noted \ Unnoted /\ "wait" \in Noted \cap Noting
    BY DEF Noted, Noting, Unnoted, Ended
  <2>2. req'[r].files = req[r].files /\ req[r].pc = "wait" /\ s # None
    BY <1>1, <1>3, Basics DEF Moves
  <2>3. req[r].op = "accept_receive" =>
          /\ req'[r].files \in Request /\ req[req'[r].files].op = "start_receive"
          /\ IsNoted(s)
    BY <2>1, <2>2 DEF s, WebInv, Accepts
  <2>4. app'.active_receive # None => IsNoted(app'.active_receive)
    BY <1>1 DEF WebInv, Accepts
  <2> QED BY <1>3, <2>1, <2>2, <2>3, <2>4, AcceptsStay
<1>11. CompletedIsReceived'
  BY <1>1, <1>2, <1>6, <1>13, Basics, CompletedStays
<1>12. PendingIsKept'
  BY <1>1, <1>2, <1>4, Basics DEF WebInv, PendingIsKept, Fields
<1> QED
  BY <1>2, <1>7, <1>8, <1>9, <1>10, <1>11, <1>12, <1>13 DEF WebInv, Forwarding

\* mark_complete, mark_failed, and the mode after them.
LEMMA MarkKeeps ==
  ASSUME WebInv, NEW r \in Request, Mark(r) \/ MarkIdle(r)
  PROVE  WebInv'
<1>1. \/ \E to \in {"stuck", "idleOk"} : Step(r, "markOk", to)
      \/ \E to \in {"stuck", "idleErr"} : Step(r, "markErr", to)
      \/ \E to \in {"complete", "abort"} :
           Step(r, "idleOk", to) /\ (to = "complete" => req[r].op = "accept_receive")
      \/ Step(r, "idleErr", "abort")
  BY DEF Mark, MarkIdle, Stored
<1>2. PICK from \in Ended, to \in {"stuck", "idleOk", "idleErr", "complete", "abort"} :
        /\ Step(r, from, to)
        /\ to = "complete" => req[r].op = "accept_receive"
        /\ to \in Received => from \in Received
  BY <1>1 DEF Ended, Received
<1>3. /\ to \in Pc /\ Serves(req[r].op, to) /\ to \notin Holding \cup Fresh
      /\ to \notin Unnoted
  BY <1>2 DEF Pc, Serves, Holding, Fresh, Unnoted
<1>4. Moves(r, from, to, req[r].held) /\ from \notin {"keepAlive", "takePending"}
  BY <1>2, <1>3, StepMoves DEF WebInv, Ended
<1>5. UNCHANGED <<ses, fwd>> /\ app' \in {app, [app EXCEPT !.mode = "Idle"]}
  BY DEF Mark, MarkIdle
<1>6. /\ app' \in AppState /\ \A f \in Fields : app'[f] = app[f]
      /\ app'.completed_receive = app.completed_receive
  BY <1>5, Basics DEF AppState, Asked, Fields
<1> QED
  BY <1>2, <1>3, <1>4, <1>5, <1>6, Quiet, Basics

\* What was received is offered for download.
LEMMA CompleteKeeps ==
  ASSUME WebInv, NEW r \in Request, StoreCompleted(r)
  PROVE  WebInv'
<1>1. /\ Moves(r, "complete", "abort", req[r].held) /\ UNCHANGED <<ses, fwd>>
      /\ app' = [app EXCEPT !.completed_receive = req[r].files]
  BY StepMoves DEF StoreCompleted, WebInv, Pc
<1>2. /\ req[r].held \in Request /\ ses[req[r].held].state = "ok" /\ IsNoted(req[r].held)
      /\ req[r].files \in Request /\ req[req[r].files].op = "start_receive"
  <2>1. req[r].pc = "complete" /\ req[r].op = "accept_receive"
    BY <1>1 DEF WebInv, Endpoints, Moves, Serves
  <2> QED
    BY <2>1 DEF WebInv, Endpoints, States, Accepts, Noting, Noted, Ended, Received
<1>3. /\ app' \in AppState /\ \A f \in Fields : app'[f] = app[f]
      /\ app'.completed_receive = req[r].files
  BY <1>1, <1>2, Basics DEF AppState, Asked, Fields
<1>4. /\ req' \in [Request -> RequestState] /\ \A q \in Request : req'[q].op = req[q].op
      /\ \A q \in Request \ {r} : req'[q] = req[q]
      /\ req[r].pc = "complete" /\ req'[r].pc = "abort"
  BY <1>1 DEF Moves
<1>5. TypeOK'
  BY <1>1, <1>3, <1>4, Types, Basics
<1>6. Endpoints' /\ Apart'
  BY <1>3, <1>4 DEF WebInv, Endpoints, Apart, Serves, Holding, Ended
<1>7. States'
  BY <1>1, <1>3, <1>4, Basics DEF WebInv, States, Fresh, Holding, Received
<1>10. Accepts' /\ \A q \in Request : req[q].files # None => req'[q].files = req[q].files
  <2>1. "abort" \notin Unnoted \cup Noted \cup Noting
    BY DEF Unnoted, Noted, Noting, Ended
  <2>2. app'.active_receive # None => IsNoted(app'.active_receive)
    BY <1>3 DEF WebInv, Accepts, Fields
  <2> QED BY <1>1, <2>1, <2>2, AcceptsStay
<1>8. CompletedIsReceived'
  <2>1. PICK q \in Request : req[q].files = req[r].held
    BY <1>2 DEF IsNoted
  <2>2. /\ req'[r].files = req[r].files /\ req'[q].files = req[r].held /\ ses' = ses
        /\ req[r].held # None
    BY <1>1, <1>2, <1>10, <2>1, Basics
  <2>3. CASE q = r
    BY <1>2, <1>3, <2>1, <2>2, <2>3 DEF CompletedIsReceived
  <2>4. CASE q # r
    BY <1>2, <1>3, <2>2, <2>4 DEF CompletedIsReceived
  <2> QED BY <2>3, <2>4
<1>9. PendingIsKept'
  BY <1>1, <1>3, <1>4 DEF WebInv, PendingIsKept, Fields
<1> QED
  BY <1>1, <1>5, <1>6, <1>7, <1>8, <1>9, <1>10 DEF WebInv, Forwarding

\* A forwarder reads, sends or stops: no request and no session takes part.
LEMMA ForwarderKeeps ==
  ASSUME WebInv, NEW r \in Request, FwdRead(r) \/ FwdSend(r) \/ FwdStop(r)
  PROVE  WebInv'
<1>1. UNCHANGED <<req, ses>>
  BY DEF FwdRead, FwdSend, FwdStop
<1>2. fwd[r] \in FwdState /\ fwd[r].task # "none"
  BY Basics DEF FwdRead, FwdSend, FwdStop, Published
<1>3. fwd' \in [Request -> FwdState] /\ app' \in {app, [app EXCEPT !.progress = fwd[r].task]}
  <2>1. CASE FwdRead(r)
    <3>1. ses[fwd[r].source].published \in Published
      BY <1>2, Basics DEF FwdState, SesState
    <3>2. /\ fwd' = [fwd EXCEPT ![r] = [fwd[r] EXCEPT !.task = ses[fwd[r].source].published,
                                                      !.news = FALSE]]
          /\ app' = app
      BY <2>1 DEF FwdRead
    <3> QED
      BY <1>2, <3>1, <3>2, ForwardRecords, Basics
  <2>2. CASE FwdSend(r)
    <3>1. /\ [fwd EXCEPT ![r].task = "waiting"] \in [Request -> FwdState]
          /\ [fwd EXCEPT ![r].task = "stuck"] \in [Request -> FwdState]
      BY <1>2, ForwardRecords, Basics
    <3> QED
      BY <2>2, <3>1, ForwardTypes DEF FwdSend, SendProgress
  <2>3. CASE FwdStop(r)
    BY <1>2, <2>3, ForwardRecords, Basics DEF FwdStop
  <2> QED
    BY <2>1, <2>2, <2>3
<1>4. FwdSend(r) => fwd[r].task \in Published
  BY DEF FwdSend
<1>5. /\ app' \in AppState /\ \A f \in Fields : app'[f] = app[f]
      /\ app'.completed_receive = app.completed_receive
  BY <1>3, <1>4, Basics DEF AppState, Asked, Fields, FwdRead, FwdSend, FwdStop
<1>6. Moves(r, req[r].pc, req[r].pc, req[r].held) /\ Serves(req[r].op, req[r].pc)
  BY <1>1, Basics DEF Moves, WebInv, Endpoints
<1> QED
  BY <1>1, <1>3, <1>5, <1>6, Quiet, Basics

-----------------------------------------------------------------------------
(* The invariant and what follows from it.                                  *)

LEMMA WebInvInit ==
  ASSUME Init
  PROVE  WebInv
<1>1. PICK script \in [Request -> Endpoint \cup {None}] :
        req = [r \in Request |-> [op |-> script[r], pc |-> "unsent",
                                  held |-> None, files |-> None, answered |-> FALSE]]
  BY WebAssumption DEF Init
<1>2. \A r \in Request : /\ req[r].pc = "unsent" /\ req[r].op \in Endpoint \cup {None}
                         /\ req[r].files = None
  BY <1>1
<1>3. TypeOK /\ Forwarding
  BY <1>1 DEF Init, TypeOK, Asked, Pc, Published, Forwarding, FwdState, FwdRecord
<1>4. Endpoints /\ Apart /\ States
  BY <1>2 DEF Init, Endpoints, Apart, States, Serves, Holding, Ended, Received, Fresh, Fields
<1>5. CompletedIsReceived /\ PendingIsKept
  BY WebAssumption DEF Init, CompletedIsReceived, PendingIsKept
<1>6. Accepts
  BY <1>2 DEF Init, Accepts, Noted, Noting, Ended, Unnoted
<1> QED
  BY <1>3, <1>4, <1>5, <1>6 DEF WebInv

LEMMA HandlerKeeps ==
  ASSUME WebInv, NEW r \in Request, Handler(r)
  PROVE  WebInv'
<1>1. CASE CheckMode(r)
  BY <1>1, CheckKeeps
<1>2. CASE Look(r)
  BY <1>2, ReturnKeeps DEF Look
<1>3. CASE download_received(r)
  BY <1>3, ReturnKeeps DEF download_received
<1>5. CASE \/ SetMode(r, "setSharing", "Sharing", "setShare")
           \/ SetMode(r, "setReceiving", "Receiving", "setPending")
           \/ SetMode(r, "setTransferring", "Transferring", "setReceive")
  BY <1>5, SetModeKeeps
<1>6. CASE StoreShare(r) \/ StorePending(r) \/ StoreReceive(r)
  BY <1>6, StoreKeeps
<1>7. CASE StartKeepAlive(r)
  BY <1>7, KeepAliveKeeps
<1>8. CASE TakePending(r)
  BY <1>8, TakeKeeps
<1>9. CASE Refuse(r)
  BY <1>9, RefuseKeeps
<1>10. CASE ResetField(r)
  BY <1>10, ResetKeeps
<1>11. CASE ResetProgress(r)
  BY <1>11, ResetProgressKeeps
<1>12. CASE StreamEvent(r)
  BY <1>12, TaskKeeps
<1>13. CASE ServerReturns(r)
  BY <1>13, ReturnKeeps DEF ServerReturns
<1> QED
  BY <1>1, <1>2, <1>3, <1>5, <1>6, <1>7, <1>8, <1>9, <1>10, <1>11, <1>12, <1>13 DEF Handler

LEMMA BackgroundKeeps ==
  ASSUME WebInv, NEW r \in Request,
         Task(r) \/ SessionRuns(r) \/ SessionCompletes(r) \/ SessionFails(r)
  PROVE  WebInv'
<1>1. CASE ObserveShare(r) \/ AbortForwarder(r)
  BY <1>1, TaskKeeps
<1>2. CASE TakeShare(r) \/ TakeReceive(r)
  BY <1>2, TakeKeeps
<1>3. CASE Mark(r) \/ MarkIdle(r)
  BY <1>3, MarkKeeps
<1>4. CASE StoreCompleted(r)
  BY <1>4, CompleteKeeps
<1>5. CASE FwdRead(r) \/ FwdSend(r) \/ FwdStop(r)
  BY <1>5, ForwarderKeeps
<1>6. CASE SessionRuns(r)
  BY <1>6, RunsKeep
<1>7. CASE SessionCompletes(r) \/ SessionFails(r)
  BY <1>7, EndsKeep
<1> QED
  BY <1>1, <1>2, <1>3, <1>4, <1>5, <1>6, <1>7 DEF Task

LEMMA WebInvKept ==
  ASSUME WebInv, [Next]_vars
  PROVE  WebInv'
<1>1. CASE Next
  <2>1. PICK r \in Request :
          \/ SendRequest(r) \/ StreamClose(r) \/ NewSession(r) \/ Handler(r) \/ Task(r)
          \/ SessionRuns(r) \/ SessionCompletes(r) \/ SessionFails(r)
    BY <1>1 DEF Next
  <2>2. CASE SendRequest(r)
    BY <2>2, SendKeeps
  <2>3. CASE StreamClose(r)
    BY <2>3, ReturnKeeps DEF StreamClose
  <2>4. CASE NewSession(r)
    BY <2>4, NewKeeps
  <2> QED
    BY <2>1, <2>2, <2>3, <2>4, HandlerKeeps, BackgroundKeeps
<1>2. CASE UNCHANGED vars
  BY <1>2 DEF vars, WebInv, TypeOK, Asked, Endpoints, Accepts, IsNoted, Apart, States, Forwarding,
              CompletedIsReceived, PendingIsKept
<1> QED
  BY <1>1, <1>2

\* The inductive invariant holds in every state of every behaviour.
THEOREM WebInvariant == Spec => []WebInv
<1>1. Init => WebInv
  BY WebInvInit
<1>2. WebInv /\ [Next]_vars => WebInv'
  BY WebInvKept
<1> QED
  BY <1>1, <1>2, PTL DEF Spec

\* The fields of AppState hold sessions of their own kind, a request is at a
\* statement of its handler or task, and a forwarder is in a state it can be in.
THEOREM WebTypes == Spec => []TypeOK
<1>1. WebInv => TypeOK
  BY DEF WebInv
<1> QED
  BY <1>1, WebInvariant, PTL

\* handlers.rs: two handlers or tasks that take a session under the lock of its
\* field never run the same one, and nobody finds a running session in a field.
THEOREM WebRunByOne == Spec => []SessionRunByOne
<1>1. WebInv => SessionRunByOne
  BY DEF WebInv, Apart, SessionRunByOne, Holding, Fields
<1> QED
  BY <1>1, WebInvariant, PTL

\* receive_transfer_task: what download_received offers was received completely,
\* however handlers and tasks interleave between the mode and the fields, or the
\* task has received the session of another accept_receive instead.
THEOREM WebCompleted == Spec => []CompletedIsReceived
<1>1. WebInv => CompletedIsReceived
  BY DEF WebInv
<1> QED
  BY <1>1, WebInvariant, PTL

\* start_receive: the session in pending_receive is kept alive once no handler is
\* between storing it and starting the keep-alive.
THEOREM WebPending == Spec => []PendingIsKept
<1>1. WebInv => PendingIsKept
  BY DEF WebInv
<1> QED
  BY <1>1, WebInvariant, PTL

=============================================================================
