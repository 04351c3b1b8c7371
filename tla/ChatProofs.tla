----------------------------- MODULE ChatProofs -----------------------------
(***************************************************************************)
(* What a caller of stream_turn is told, what the turn's row records and   *)
(* where the session is left bound, for every number of turns, routes and  *)
(* gateway sessions.  Each invariant is inductive given the types, and is  *)
(* shown to be so one action at a time.                                    *)
(***************************************************************************)
EXTENDS Chat, TLAPS

(* A buffering first attempt keeps its output from the caller.             *)
ShownInv == \A t \in Turn :
    /\ t \in shown => t \in committed
    /\ attempt[t] = 2 => t \notin shown

(* What a stream has told its caller at each point, and what its row says. *)
ToldBefore(t) ==
    pc[t] \in {"none", "opened", "request"} =>
        told[t] = {} /\ t \notin failed /\ t \notin held
ToldDriving(t) ==
    pc[t] = "drive" =>
        /\ told[t] \in {{}, {"error"}}
        /\ t \in failed <=> told[t] = {"error"} \/ t \in held
        /\ t \in held => t \notin committed /\ told[t] = {}
        /\ told[t] # {} => t \in committed
ToldEnding(t) ==
    /\ pc[t] = "finalize" => told[t] = IF t \in failed THEN {"error"} ELSE {}
    /\ pc[t] = "fetch" => told[t] = {} /\ turn[t] \in {"completed", "cancelled"}
RowFollows(t) ==
    /\ pc[t] = "none" => turn[t] = "none"
    /\ Live(t) /\ pc[t] # "fetch" => turn[t] \in {"running", "cancelled"}
    /\ pc[t] = "ended" =>
          /\ turn[t] \in Terminal
          /\ told[t] = IF turn[t] = "failed" THEN {"error"} ELSE {"completed"}
Told(t) == ToldBefore(t) /\ ToldDriving(t) /\ ToldEnding(t) /\ RowFollows(t)
ToldInv == \A t \in Turn : Told(t)

(* Streams that share a route were all noted as overlapping.               *)
BindInv ==
    /\ BindingFollowsStream
    /\ \A t, u \in Turn :
          t # u /\ Live(t) /\ Live(u) /\ route[t] = route[u] => t \in overlap

(* A user's title is news only to the streams noted in raced.              *)
RaceInv == ~deleted /\ title = "user" =>
    \A t \in Turn : FoundUntitled(t) => t \in raced

-----------------------------------------------------------------------------
(* No step leaves the declared ranges.                                     *)
LEMMA TypeStep == TypeOK /\ [Next]_vars => TypeOK'
<1> SUFFICES ASSUME TypeOK, [Next]_vars PROVE TypeOK'
    OBVIOUS
<1> USE DEF Terminal, Over, Point, Binding
<1>1. CASE RenameSession
    BY <1>1 DEF RenameSession, SetTitle, outcome, buffer, start, TypeOK
<1>2. CASE DeleteSession
    BY <1>2 DEF DeleteSession, MarkDeleted, outcome, buffer, start, history, TypeOK
<1>3. ASSUME NEW t \in Turn, CancelTurn(t) PROVE TypeOK'
    BY <1>3 DEF CancelTurn, GetTurnOwner, Cancellable, session, outcome, buffer, start,
       history, TypeOK
<1>4. ASSUME NEW t \in Turn, StreamTurn(t) PROVE TypeOK'
    BY <1>4 DEF StreamTurn, CreateTurn, AcpRoute, Goto, session, outcome, TypeOK
<1>5. ASSUME NEW t \in Turn, DriveAcpTurn(t) PROVE TypeOK'
    BY <1>5 DEF DriveAcpTurn, ReadTitle, HasTitle, Goto, session, outcome,
       buffer, start, TypeOK
<1>6. ASSUME NEW t \in Turn, GatewayAccepts(t) PROVE TypeOK'
    BY <1>6 DEF GatewayAccepts, Goto, session, outcome, buffer, start,
       history, TypeOK
<1>7. ASSUME NEW t \in Turn, GatewayRefuses(t) PROVE TypeOK'
    BY <1>7 DEF GatewayRefuses, FinalizeTurn, Leave, Goto, Tell, session, TypeOK
<1>8. ASSUME NEW t \in Turn, NEW id \in AcpSession, GatewaySession(t, id) PROVE TypeOK'
    BY <1>8 DEF GatewaySession, Bind, outcome, buffer, start, history, TypeOK
<1>9. ASSUME NEW t \in Turn, GatewayOutput(t) PROVE TypeOK'
    BY <1>9 DEF GatewayOutput, Yield, session, outcome, start, history, TypeOK
<1>10. ASSUME NEW t \in Turn, GatewayPermission(t) PROVE TypeOK'
    BY <1>10 DEF GatewayPermission, Yield, session, outcome, start, history,
       TypeOK
<1>11. ASSUME NEW t \in Turn, GatewayError(t) PROVE TypeOK'
    BY <1>11 DEF GatewayError, Yield, session, start, history, TypeOK
<1>12. ASSUME NEW t \in Turn, NEW reason \in Reason, GatewayDone(t, reason) PROVE TypeOK'
    BY <1>12 DEF GatewayDone, session, buffer, start, history, TypeOK
<1>13. ASSUME NEW t \in Turn, GatewayTitle(t) PROVE TypeOK'
    BY <1>13 DEF GatewayTitle, Yield, SetTitle, outcome, start, history,
       TypeOK
<1>14. ASSUME NEW t \in Turn, Retry(t) PROVE TypeOK'
    BY <1>14 DEF Retry, GivenUp, Bind, ReadTitle, HasTitle, Goto, TypeOK
<1>15. ASSUME NEW t \in Turn, GatewayEnds(t) PROVE TypeOK'
    BY <1>15 DEF GatewayEnds, Goto, Tell, session, start, history, TypeOK
<1>16. ASSUME NEW t \in Turn, Finalize(t) PROVE TypeOK'
  <2>1. CASE t \notin failed /\ ~HasTitle /\ bound[t] # NoSession
    BY <1>16, <2>1 DEF Finalize, FinalizeTurn, Goto, StatusOf, session, outcome, buffer, start, TypeOK
  <2>2. CASE ~(t \notin failed /\ ~HasTitle /\ bound[t] # NoSession)
    <3>1. Leave(t, "ended") /\ (UNCHANGED told \/ Tell(t, "completed"))
      BY <1>16, <2>2 DEF Finalize, FinalizeTurn
    <3>2. turn' \in [Turn -> {"none", "running"} \cup Terminal]
      BY <1>16 DEF Finalize, FinalizeTurn, StatusOf, TypeOK
    <3> QED BY <1>16, <3>1, <3>2 DEF Finalize, FinalizeTurn, Leave, Goto, Tell, session, TypeOK
  <2> QED BY <2>1, <2>2
<1>17. ASSUME NEW t \in Turn, FetchAcpTitle(t) PROVE TypeOK'
    BY <1>17 DEF FetchAcpTitle, ReconcileTitle, Leave, Goto, Tell, SetTitle, TypeOK
<1>18. ASSUME NEW t \in Turn, Disconnect(t) PROVE TypeOK'
    BY <1>18 DEF Disconnect, FinalizeTurn, Leave, Goto, StatusOf, session, TypeOK
<1>19. ASSUME NEW t \in Turn, Drop(t) PROVE TypeOK'
    BY <1>19 DEF Drop, Leave, Goto, Live, session, TypeOK
<1>20. CASE UNCHANGED vars
    BY <1>20 DEF vars, session, outcome, buffer, start, history, TypeOK
<1> QED BY <1>1, <1>2, <1>3, <1>4, <1>5, <1>6, <1>7, <1>8, <1>9, <1>10, <1>11,
   <1>12, <1>13, <1>14, <1>15, <1>16, <1>17, <1>18, <1>19, <1>20 DEF Next,
   StreamStep, GatewayEvent

(* Output of a first attempt reaches the caller only once it is committed, *)
(* and a committed attempt is never given up.                              *)
LEMMA ShownStep == TypeOK /\ ShownInv /\ [Next]_vars => ShownInv'
<1> SUFFICES ASSUME TypeOK, ShownInv, [Next]_vars PROVE ShownInv'
    OBVIOUS
<1>1. CASE RenameSession
    BY <1>1 DEF RenameSession, SetTitle, outcome, buffer, start, TypeOK,
       ShownInv
<1>2. CASE DeleteSession
    BY <1>2 DEF DeleteSession, MarkDeleted, outcome, buffer, start, history, TypeOK,
       ShownInv
<1>3. ASSUME NEW t \in Turn, CancelTurn(t) PROVE ShownInv'
    BY <1>3 DEF CancelTurn, GetTurnOwner, Cancellable, session, outcome, buffer, start,
       history, TypeOK, ShownInv
<1>4. ASSUME NEW t \in Turn, StreamTurn(t) PROVE ShownInv'
    BY <1>4 DEF StreamTurn, CreateTurn, AcpRoute, Goto, session, outcome, TypeOK, ShownInv
<1>5. ASSUME NEW t \in Turn, DriveAcpTurn(t) PROVE ShownInv'
    BY <1>5 DEF DriveAcpTurn, ReadTitle, HasTitle, Goto, session, outcome,
       buffer, start, TypeOK, ShownInv
<1>6. ASSUME NEW t \in Turn, GatewayAccepts(t) PROVE ShownInv'
    BY <1>6 DEF GatewayAccepts, Goto, session, outcome, buffer, start,
       history, TypeOK, ShownInv
<1>7. ASSUME NEW t \in Turn, GatewayRefuses(t) PROVE ShownInv'
    BY <1>7 DEF GatewayRefuses, FinalizeTurn, Leave, Goto, Tell, session, TypeOK, ShownInv
<1>8. ASSUME NEW t \in Turn, NEW id \in AcpSession, GatewaySession(t, id) PROVE ShownInv'
    BY <1>8 DEF GatewaySession, Bind, outcome, buffer, start, history, TypeOK,
       ShownInv
<1>9. ASSUME NEW t \in Turn, GatewayOutput(t) PROVE ShownInv'
    BY <1>9 DEF GatewayOutput, Yield, session, outcome, start, history,
       TypeOK, ShownInv
<1>10. ASSUME NEW t \in Turn, GatewayPermission(t) PROVE ShownInv'
    BY <1>10 DEF GatewayPermission, Yield, session, outcome, start, history,
       TypeOK, ShownInv
<1>11. ASSUME NEW t \in Turn, GatewayError(t) PROVE ShownInv'
    BY <1>11 DEF GatewayError, Yield, session, start, history, TypeOK,
       ShownInv
<1>12. ASSUME NEW t \in Turn, NEW reason \in Reason, GatewayDone(t, reason) PROVE ShownInv'
    BY <1>12 DEF GatewayDone, session, buffer, start, history, TypeOK,
       ShownInv
<1>13. ASSUME NEW t \in Turn, GatewayTitle(t) PROVE ShownInv'
    BY <1>13 DEF GatewayTitle, Yield, SetTitle, outcome, start, history,
       TypeOK, ShownInv
<1>14. ASSUME NEW t \in Turn, Retry(t) PROVE ShownInv'
    BY <1>14 DEF Retry, GivenUp, Bind, ReadTitle, HasTitle, Goto, TypeOK,
       ShownInv
<1>15. ASSUME NEW t \in Turn, GatewayEnds(t) PROVE ShownInv'
    BY <1>15 DEF GatewayEnds, Goto, Tell, session, start, history, TypeOK,
       ShownInv
<1>16. ASSUME NEW t \in Turn, Finalize(t) PROVE ShownInv'
    BY <1>16 DEF Finalize, FinalizeTurn, Leave, Goto, Tell, StatusOf, HasTitle, session,
       outcome, buffer, start, TypeOK, ShownInv
<1>17. ASSUME NEW t \in Turn, FetchAcpTitle(t) PROVE ShownInv'
    BY <1>17 DEF FetchAcpTitle, ReconcileTitle, Leave, Goto, Tell, SetTitle, TypeOK, ShownInv
<1>18. ASSUME NEW t \in Turn, Disconnect(t) PROVE ShownInv'
    BY <1>18 DEF Disconnect, FinalizeTurn, Leave, Goto, StatusOf, session, TypeOK, ShownInv
<1>19. ASSUME NEW t \in Turn, Drop(t) PROVE ShownInv'
    BY <1>19 DEF Drop, Leave, Goto, Live, session, TypeOK, ShownInv
<1>20. CASE UNCHANGED vars
    BY <1>20 DEF vars, session, outcome, buffer, start, history, TypeOK,
       ShownInv
<1> QED BY <1>1, <1>2, <1>3, <1>4, <1>5, <1>6, <1>7, <1>8, <1>9, <1>10, <1>11,
   <1>12, <1>13, <1>14, <1>15, <1>16, <1>17, <1>18, <1>19, <1>20 DEF Next,
   StreamStep, GatewayEvent

(* An error is held or told as it is noted, told once the stream has ended, *)
(* and the row is settled as the caller is told.                           *)
LEMMA ToldStep == TypeOK /\ ToldInv /\ [Next]_vars => ToldInv'
<1> SUFFICES ASSUME TypeOK, ToldInv, [Next]_vars PROVE ToldInv'
    OBVIOUS
<1> USE DEF Told, ToldBefore, ToldDriving, ToldEnding, RowFollows, Live,
   Terminal, Over
<1>1. CASE RenameSession
    BY <1>1 DEF RenameSession, SetTitle, outcome, buffer, start, TypeOK,
       ToldInv, Point, Binding
<1>2. CASE DeleteSession
    BY <1>2 DEF DeleteSession, MarkDeleted, outcome, buffer, start, history, TypeOK,
       ToldInv, Point, Binding
<1>3. ASSUME NEW t \in Turn, CancelTurn(t) PROVE ToldInv'
    BY <1>3 DEF CancelTurn, GetTurnOwner, Cancellable, session, outcome, buffer, start,
       history, TypeOK, ToldInv, Point, Binding
<1>4. ASSUME NEW t \in Turn, StreamTurn(t) PROVE ToldInv'
    BY <1>4 DEF StreamTurn, CreateTurn, AcpRoute, Goto, session, outcome, TypeOK, ToldInv, Point,
       Binding
<1>5. ASSUME NEW t \in Turn, DriveAcpTurn(t) PROVE ToldInv'
    BY <1>5 DEF DriveAcpTurn, ReadTitle, HasTitle, Goto, session, outcome,
       buffer, start, TypeOK, ToldInv, Point, Binding
<1>6. ASSUME NEW t \in Turn, GatewayAccepts(t) PROVE ToldInv'
    BY <1>6 DEF GatewayAccepts, Goto, session, outcome, buffer, start,
       history, TypeOK, ToldInv, Point, Binding
<1>7. ASSUME NEW t \in Turn, GatewayRefuses(t) PROVE ToldInv'
  <2>1. ASSUME NEW u \in Turn, u # t PROVE Told(u)'
    <3>1. pc'[u] = pc[u] /\ turn'[u] = turn[u] /\ told'[u] = told[u]
      BY <1>7, <2>1 DEF GatewayRefuses, FinalizeTurn, Leave, Goto, Tell, TypeOK
    <3>2. /\ u \in failed' <=> u \in failed
          /\ u \in held' <=> u \in held
          /\ u \in committed' <=> u \in committed
      BY <1>7, <2>1 DEF GatewayRefuses, FinalizeTurn, Leave, Goto, Tell
    <3> QED BY <3>1, <3>2 DEF ToldInv
  <2>2. Told(t)'
    <3>1. CASE attempt[t] = 1
      BY <1>7, <3>1 DEF GatewayRefuses, FinalizeTurn, Leave, Goto, Tell, session, TypeOK,
         ToldInv
    <3>2. CASE attempt[t] = 2
      BY <1>7, <3>2 DEF GatewayRefuses, FinalizeTurn, Leave, Goto, Tell, session, TypeOK,
         ToldInv
    <3> QED BY <3>1, <3>2 DEF TypeOK
  <2> QED BY <2>1, <2>2 DEF ToldInv
<1>8. ASSUME NEW t \in Turn, NEW id \in AcpSession, GatewaySession(t, id) PROVE ToldInv'
    BY <1>8 DEF GatewaySession, Bind, outcome, buffer, start, history, TypeOK,
       ToldInv, Point, Binding
<1>9. ASSUME NEW t \in Turn, GatewayOutput(t) PROVE ToldInv'
  <2>1. ASSUME NEW u \in Turn, u # t PROVE Told(u)'
    <3>1. pc'[u] = pc[u] /\ turn'[u] = turn[u] /\ told'[u] = told[u]
      BY <1>9, <2>1 DEF GatewayOutput, Yield, TypeOK
    <3>2. /\ u \in failed' <=> u \in failed
          /\ u \in held' <=> u \in held
          /\ u \in committed' <=> u \in committed
      BY <1>9, <2>1 DEF GatewayOutput, Yield, outcome
    <3> QED BY <3>1, <3>2 DEF ToldInv
  <2>2. Told(t)'
      BY <1>9 DEF GatewayOutput, Yield, session, outcome, start, history,
         TypeOK, ToldInv
  <2> QED BY <2>1, <2>2 DEF ToldInv
<1>10. ASSUME NEW t \in Turn, GatewayPermission(t) PROVE ToldInv'
  <2>1. ASSUME NEW u \in Turn, u # t PROVE Told(u)'
    <3>1. pc'[u] = pc[u] /\ turn'[u] = turn[u] /\ told'[u] = told[u]
      BY <1>10, <2>1 DEF GatewayPermission, Yield, TypeOK
    <3>2. /\ u \in failed' <=> u \in failed
          /\ u \in held' <=> u \in held
          /\ u \in committed' <=> u \in committed
      BY <1>10, <2>1 DEF GatewayPermission, Yield, outcome
    <3> QED BY <3>1, <3>2 DEF ToldInv
  <2>2. Told(t)'
      BY <1>10 DEF GatewayPermission, Yield, session, outcome, start, history,
         TypeOK, ToldInv
  <2> QED BY <2>1, <2>2 DEF ToldInv
<1>11. ASSUME NEW t \in Turn, GatewayError(t) PROVE ToldInv'
  <2>1. ASSUME NEW u \in Turn, u # t PROVE Told(u)'
    <3>1. pc'[u] = pc[u] /\ turn'[u] = turn[u] /\ told'[u] = told[u]
      BY <1>11, <2>1 DEF GatewayError, Yield, TypeOK
    <3>2. /\ u \in failed' <=> u \in failed
          /\ u \in held' <=> u \in held
          /\ u \in committed' <=> u \in committed
      BY <1>11, <2>1 DEF GatewayError, Yield
    <3> QED BY <3>1, <3>2 DEF ToldInv
  <2>2. Told(t)'
      BY <1>11 DEF GatewayError, Yield, session, start, history, TypeOK, ToldInv
  <2> QED BY <2>1, <2>2 DEF ToldInv
<1>12. ASSUME NEW t \in Turn, NEW reason \in Reason, GatewayDone(t, reason) PROVE ToldInv'
    BY <1>12 DEF GatewayDone, session, buffer, start, history, TypeOK,
       ToldInv, Point, Binding
<1>13. ASSUME NEW t \in Turn, GatewayTitle(t) PROVE ToldInv'
  <2>1. ASSUME NEW u \in Turn, u # t PROVE Told(u)'
    <3>1. pc'[u] = pc[u] /\ turn'[u] = turn[u] /\ told'[u] = told[u]
      BY <1>13, <2>1 DEF GatewayTitle, Yield, SetTitle, TypeOK
    <3>2. /\ u \in failed' <=> u \in failed
          /\ u \in held' <=> u \in held
          /\ u \in committed' <=> u \in committed
      BY <1>13, <2>1 DEF GatewayTitle, Yield, SetTitle, outcome
    <3> QED BY <3>1, <3>2 DEF ToldInv
  <2>2. Told(t)'
      BY <1>13 DEF GatewayTitle, Yield, SetTitle, outcome, start, history,
         TypeOK, ToldInv
  <2> QED BY <2>1, <2>2 DEF ToldInv
<1>14. ASSUME NEW t \in Turn, Retry(t) PROVE ToldInv'
    BY <1>14 DEF Retry, GivenUp, Bind, ReadTitle, HasTitle, Goto, TypeOK,
       ToldInv, Point, Binding
<1>15. ASSUME NEW t \in Turn, GatewayEnds(t) PROVE ToldInv'
  <2>1. ASSUME NEW u \in Turn, u # t PROVE Told(u)'
    <3>1. pc'[u] = pc[u] /\ turn'[u] = turn[u] /\ told'[u] = told[u]
      BY <1>15, <2>1 DEF GatewayEnds, Goto, Tell, TypeOK
    <3>2. /\ u \in failed' <=> u \in failed
          /\ u \in held' <=> u \in held
          /\ u \in committed' <=> u \in committed
      BY <1>15, <2>1 DEF GatewayEnds, Goto, Tell
    <3> QED BY <3>1, <3>2 DEF ToldInv
  <2>2. Told(t)'
    <3>1. CASE t \in held
      BY <1>15, <3>1 DEF GatewayEnds, Goto, Tell, session, start, history,
         TypeOK, ToldInv
    <3>2. CASE t \notin held /\ t \in failed
      BY <1>15, <3>2 DEF GatewayEnds, Goto, Tell, session, start, history,
         TypeOK, ToldInv
    <3>3. CASE t \notin held /\ t \notin failed /\ stop[t] = "open"
      BY <1>15, <3>3 DEF GatewayEnds, Goto, Tell, session, start, history,
         TypeOK, ToldInv
    <3>4. CASE t \notin held /\ t \notin failed /\ stop[t] # "open"
      BY <1>15, <3>4 DEF GatewayEnds, Goto, Tell, session, start, history,
         TypeOK, ToldInv
    <3> QED BY <3>1, <3>2, <3>3, <3>4 DEF TypeOK
  <2> QED BY <2>1, <2>2 DEF ToldInv
<1>16. ASSUME NEW t \in Turn, Finalize(t) PROVE ToldInv'
  <2>1. ASSUME NEW u \in Turn, u # t PROVE Told(u)'
    <3>1. pc'[u] = pc[u] /\ turn'[u] = turn[u] /\ told'[u] = told[u]
      BY <1>16, <2>1 DEF Finalize, FinalizeTurn, Leave, Goto, Tell, StatusOf, HasTitle, buffer,
         TypeOK
    <3>2. /\ u \in failed' <=> u \in failed
          /\ u \in held' <=> u \in held
          /\ u \in committed' <=> u \in committed
      BY <1>16, <2>1 DEF Finalize, FinalizeTurn, Leave, Goto, Tell, StatusOf, HasTitle,
         outcome, buffer
    <3> QED BY <3>1, <3>2 DEF ToldInv
  <2>2. Told(t)'
    <3>1. CASE t \in failed
      BY <1>16, <3>1 DEF Finalize, FinalizeTurn, Leave, Goto, Tell, StatusOf, HasTitle,
         session, outcome, buffer, start, TypeOK, ToldInv
    <3>2. CASE t \notin failed /\ ~HasTitle /\ bound[t] # NoSession
      BY <1>16, <3>2 DEF Finalize, FinalizeTurn, Leave, Goto, Tell, StatusOf, HasTitle,
         session, outcome, buffer, start, TypeOK, ToldInv
    <3>3. CASE t \notin failed /\ (HasTitle \/ bound[t] = NoSession)
      BY <1>16, <3>3 DEF Finalize, FinalizeTurn, Leave, Goto, Tell, StatusOf, HasTitle,
         session, outcome, buffer, start, TypeOK, ToldInv
    <3> QED BY <3>1, <3>2, <3>3 DEF TypeOK
  <2> QED BY <2>1, <2>2 DEF ToldInv
<1>17. ASSUME NEW t \in Turn, FetchAcpTitle(t) PROVE ToldInv'
  <2>1. ASSUME NEW u \in Turn, u # t PROVE Told(u)'
    <3>1. pc'[u] = pc[u] /\ turn'[u] = turn[u] /\ told'[u] = told[u]
      BY <1>17, <2>1 DEF FetchAcpTitle, ReconcileTitle, Leave, Goto, Tell, SetTitle, TypeOK
    <3>2. /\ u \in failed' <=> u \in failed
          /\ u \in held' <=> u \in held
          /\ u \in committed' <=> u \in committed
      BY <1>17, <2>1 DEF FetchAcpTitle, ReconcileTitle, Leave, Goto, Tell, SetTitle
    <3> QED BY <3>1, <3>2 DEF ToldInv
  <2>2. Told(t)'
    <3>1. CASE Tell(t, "completed") /\ Leave(t, "ended")
      BY <1>17, <3>1 DEF FetchAcpTitle, ReconcileTitle, Leave, Goto, Tell, SetTitle, TypeOK,
         ToldInv
    <3>2. CASE UNCHANGED told /\ Leave(t, "cut")
      BY <1>17, <3>2 DEF FetchAcpTitle, ReconcileTitle, Leave, Goto, Tell, SetTitle, TypeOK,
         ToldInv
    <3> QED BY <1>17, <3>1, <3>2 DEF FetchAcpTitle, ReconcileTitle
  <2> QED BY <2>1, <2>2 DEF ToldInv
<1>18. ASSUME NEW t \in Turn, Disconnect(t) PROVE ToldInv'
    BY <1>18 DEF Disconnect, FinalizeTurn, Leave, Goto, StatusOf, session, TypeOK, ToldInv,
       Point, Binding
<1>19. ASSUME NEW t \in Turn, Drop(t) PROVE ToldInv'
    BY <1>19 DEF Drop, Leave, Goto, Live, session, TypeOK, ToldInv, Point,
       Binding
<1>20. CASE UNCHANGED vars
    BY <1>20 DEF vars, session, outcome, buffer, start, history, TypeOK,
       ToldInv, Point, Binding
<1> QED BY <1>1, <1>2, <1>3, <1>4, <1>5, <1>6, <1>7, <1>8, <1>9, <1>10, <1>11,
   <1>12, <1>13, <1>14, <1>15, <1>16, <1>17, <1>18, <1>19, <1>20 DEF Next,
   StreamStep, GatewayEvent

(* Only the stream that is alone on its route moves the route's binding.   *)
LEMMA BindStep == TypeOK /\ BindInv /\ [Next]_vars => BindInv'
<1> SUFFICES ASSUME TypeOK, BindInv, [Next]_vars PROVE BindInv'
    OBVIOUS
<1> USE DEF BindingFollowsStream, Live, Over, Point, Binding
<1>1. CASE RenameSession
    BY <1>1 DEF RenameSession, SetTitle, outcome, buffer, start, TypeOK,
       BindInv
<1>2. CASE DeleteSession
    BY <1>2 DEF DeleteSession, MarkDeleted, outcome, buffer, start, history, TypeOK,
       BindInv
<1>3. ASSUME NEW t \in Turn, CancelTurn(t) PROVE BindInv'
    BY <1>3 DEF CancelTurn, GetTurnOwner, Cancellable, session, outcome, buffer, start,
       history, TypeOK, BindInv
<1>4. ASSUME NEW t \in Turn, StreamTurn(t) PROVE BindInv'
    BY <1>4 DEF StreamTurn, CreateTurn, AcpRoute, Goto, session, outcome, TypeOK, BindInv
<1>5. ASSUME NEW t \in Turn, DriveAcpTurn(t) PROVE BindInv'
    BY <1>5 DEF DriveAcpTurn, ReadTitle, HasTitle, Goto, session, outcome,
       buffer, start, TypeOK, BindInv
<1>6. ASSUME NEW t \in Turn, GatewayAccepts(t) PROVE BindInv'
    BY <1>6 DEF GatewayAccepts, Goto, session, outcome, buffer, start,
       history, TypeOK, BindInv
<1>7. ASSUME NEW t \in Turn, GatewayRefuses(t) PROVE BindInv'
    BY <1>7 DEF GatewayRefuses, FinalizeTurn, Leave, Goto, Tell, session, TypeOK, BindInv
<1>8. ASSUME NEW t \in Turn, NEW id \in AcpSession, GatewaySession(t, id) PROVE BindInv'
    BY <1>8 DEF GatewaySession, Bind, outcome, buffer, start, history, TypeOK,
       BindInv
<1>9. ASSUME NEW t \in Turn, GatewayOutput(t) PROVE BindInv'
    BY <1>9 DEF GatewayOutput, Yield, session, outcome, start, history,
       TypeOK, BindInv
<1>10. ASSUME NEW t \in Turn, GatewayPermission(t) PROVE BindInv'
    BY <1>10 DEF GatewayPermission, Yield, session, outcome, start, history,
       TypeOK, BindInv
<1>11. ASSUME NEW t \in Turn, GatewayError(t) PROVE BindInv'
    BY <1>11 DEF GatewayError, Yield, session, start, history, TypeOK, BindInv
<1>12. ASSUME NEW t \in Turn, NEW reason \in Reason, GatewayDone(t, reason) PROVE BindInv'
    BY <1>12 DEF GatewayDone, session, buffer, start, history, TypeOK, BindInv
<1>13. ASSUME NEW t \in Turn, GatewayTitle(t) PROVE BindInv'
    BY <1>13 DEF GatewayTitle, Yield, SetTitle, outcome, start, history,
       TypeOK, BindInv
<1>14. ASSUME NEW t \in Turn, Retry(t) PROVE BindInv'
    BY <1>14 DEF Retry, GivenUp, Bind, ReadTitle, HasTitle, Goto, TypeOK,
       BindInv
<1>15. ASSUME NEW t \in Turn, GatewayEnds(t) PROVE BindInv'
    BY <1>15 DEF GatewayEnds, Goto, Tell, session, start, history, TypeOK,
       BindInv
<1>16. ASSUME NEW t \in Turn, Finalize(t) PROVE BindInv'
    BY <1>16 DEF Finalize, FinalizeTurn, Leave, Goto, Tell, StatusOf, HasTitle, session,
       outcome, buffer, start, TypeOK, BindInv
<1>17. ASSUME NEW t \in Turn, FetchAcpTitle(t) PROVE BindInv'
    BY <1>17 DEF FetchAcpTitle, ReconcileTitle, Leave, Goto, Tell, SetTitle, TypeOK, BindInv
<1>18. ASSUME NEW t \in Turn, Disconnect(t) PROVE BindInv'
    BY <1>18 DEF Disconnect, FinalizeTurn, Leave, Goto, StatusOf, session, TypeOK, BindInv
<1>19. ASSUME NEW t \in Turn, Drop(t) PROVE BindInv'
    BY <1>19 DEF Drop, Leave, Goto, Live, session, TypeOK, BindInv
<1>20. CASE UNCHANGED vars
    BY <1>20 DEF vars, session, outcome, buffer, start, history, TypeOK,
       BindInv
<1> QED BY <1>1, <1>2, <1>3, <1>4, <1>5, <1>6, <1>7, <1>8, <1>9, <1>10, <1>11,
   <1>12, <1>13, <1>14, <1>15, <1>16, <1>17, <1>18, <1>19, <1>20 DEF Next,
   StreamStep, GatewayEvent

(* A stream that reads the title after the rename finds it.                *)
LEMMA RaceStep == TypeOK /\ RaceInv /\ [Next]_vars => RaceInv'
<1> SUFFICES ASSUME TypeOK, RaceInv, [Next]_vars PROVE RaceInv'
    OBVIOUS
<1> USE DEF FoundUntitled, Live, Over, Point, Binding
<1>1. CASE RenameSession
    BY <1>1 DEF RenameSession, SetTitle, outcome, buffer, start, TypeOK,
       RaceInv
<1>2. CASE DeleteSession
    BY <1>2 DEF DeleteSession, MarkDeleted, outcome, buffer, start, history, TypeOK,
       RaceInv
<1>3. ASSUME NEW t \in Turn, CancelTurn(t) PROVE RaceInv'
    BY <1>3 DEF CancelTurn, GetTurnOwner, Cancellable, session, outcome, buffer, start,
       history, TypeOK, RaceInv
<1>4. ASSUME NEW t \in Turn, StreamTurn(t) PROVE RaceInv'
    BY <1>4 DEF StreamTurn, CreateTurn, AcpRoute, Goto, session, outcome, TypeOK, RaceInv
<1>5. ASSUME NEW t \in Turn, DriveAcpTurn(t) PROVE RaceInv'
    BY <1>5 DEF DriveAcpTurn, ReadTitle, HasTitle, Goto, session, outcome,
       buffer, start, TypeOK, RaceInv
<1>6. ASSUME NEW t \in Turn, GatewayAccepts(t) PROVE RaceInv'
    BY <1>6 DEF GatewayAccepts, Goto, session, outcome, buffer, start,
       history, TypeOK, RaceInv
<1>7. ASSUME NEW t \in Turn, GatewayRefuses(t) PROVE RaceInv'
    BY <1>7 DEF GatewayRefuses, FinalizeTurn, Leave, Goto, Tell, session, TypeOK, RaceInv
<1>8. ASSUME NEW t \in Turn, NEW id \in AcpSession, GatewaySession(t, id) PROVE RaceInv'
    BY <1>8 DEF GatewaySession, Bind, outcome, buffer, start, history, TypeOK,
       RaceInv
<1>9. ASSUME NEW t \in Turn, GatewayOutput(t) PROVE RaceInv'
    BY <1>9 DEF GatewayOutput, Yield, session, outcome, start, history,
       TypeOK, RaceInv
<1>10. ASSUME NEW t \in Turn, GatewayPermission(t) PROVE RaceInv'
    BY <1>10 DEF GatewayPermission, Yield, session, outcome, start, history,
       TypeOK, RaceInv
<1>11. ASSUME NEW t \in Turn, GatewayError(t) PROVE RaceInv'
    BY <1>11 DEF GatewayError, Yield, session, start, history, TypeOK, RaceInv
<1>12. ASSUME NEW t \in Turn, NEW reason \in Reason, GatewayDone(t, reason) PROVE RaceInv'
    BY <1>12 DEF GatewayDone, session, buffer, start, history, TypeOK, RaceInv
<1>13. ASSUME NEW t \in Turn, GatewayTitle(t) PROVE RaceInv'
    BY <1>13 DEF GatewayTitle, Yield, SetTitle, outcome, start, history,
       TypeOK, RaceInv
<1>14. ASSUME NEW t \in Turn, Retry(t) PROVE RaceInv'
    BY <1>14 DEF Retry, GivenUp, Bind, ReadTitle, HasTitle, Goto, TypeOK,
       RaceInv
<1>15. ASSUME NEW t \in Turn, GatewayEnds(t) PROVE RaceInv'
    BY <1>15 DEF GatewayEnds, Goto, Tell, session, start, history, TypeOK,
       RaceInv
<1>16. ASSUME NEW t \in Turn, Finalize(t) PROVE RaceInv'
    BY <1>16 DEF Finalize, FinalizeTurn, Leave, Goto, Tell, StatusOf, HasTitle, session,
       outcome, buffer, start, TypeOK, RaceInv
<1>17. ASSUME NEW t \in Turn, FetchAcpTitle(t) PROVE RaceInv'
    BY <1>17 DEF FetchAcpTitle, ReconcileTitle, Leave, Goto, Tell, SetTitle, TypeOK, RaceInv
<1>18. ASSUME NEW t \in Turn, Disconnect(t) PROVE RaceInv'
    BY <1>18 DEF Disconnect, FinalizeTurn, Leave, Goto, StatusOf, session, TypeOK, RaceInv
<1>19. ASSUME NEW t \in Turn, Drop(t) PROVE RaceInv'
    BY <1>19 DEF Drop, Leave, Goto, Live, session, TypeOK, RaceInv
<1>20. CASE UNCHANGED vars
    BY <1>20 DEF vars, session, outcome, buffer, start, history, TypeOK,
       RaceInv
<1> QED BY <1>1, <1>2, <1>3, <1>4, <1>5, <1>6, <1>7, <1>8, <1>9, <1>10, <1>11,
   <1>12, <1>13, <1>14, <1>15, <1>16, <1>17, <1>18, <1>19, <1>20 DEF Next,
   StreamStep, GatewayEvent
-----------------------------------------------------------------------------
(* Every variable stays in its declared range.                             *)
THEOREM TypeCorrect == Spec => []TypeOK
<1>1. Init => TypeOK
  <2> SUFFICES ASSUME Init PROVE TypeOK
    OBVIOUS
  <2>1. /\ pc \in [Turn -> Point] /\ attempt \in [Turn -> {1, 2}]
        /\ initial \in [Turn -> Binding] /\ bound \in [Turn -> Binding]
        /\ turn \in [Turn -> {"none", "running"} \cup Terminal]
    BY DEF Init, Point, Binding
  <2>2. stop \in [Turn -> {"open"} \cup Reason]
    BY DEF Init
  <2>3. told \in [Turn -> SUBSET {"error", "completed"}]
    BY DEF Init
  <2>4. \A set \in {titled, committed, held, failed, shown, raced, overlap} : set \subseteq Turn
    BY DEF Init
  <2> QED BY <2>1, <2>2, <2>3, <2>4 DEF Init, TypeOK
<1> QED BY <1>1, TypeStep, PTL DEF Spec

(* A resume is given up only before the caller has seen anything of it, so *)
(* what a caller is streamed is of one attempt.                            *)
THEOREM OneAttempt == Spec => []OneAttemptShown
<1>1. Init => ShownInv
    BY DEF Init, ShownInv
<1>2. ShownInv => OneAttemptShown
    BY DEF ShownInv, OneAttemptShown
<1> QED BY <1>1, <1>2, TypeCorrect, ShownStep, PTL DEF Spec

(* A stream read to its end tells the caller an error exactly if the       *)
(* turn's row says failed, and turn_completed otherwise.                   *)
THEOREM TellsWhatItRecords == Spec => []RecordMatchesStream
<1>1. Init => ToldInv
    BY DEF Init, ToldInv, Told, ToldBefore, ToldDriving, ToldEnding, RowFollows, Live, Over
<1>2. ToldInv => RecordMatchesStream
    BY DEF ToldInv, Told, RowFollows, RecordMatchesStream, Replay
<1> QED BY <1>1, <1>2, TypeCorrect, ToldStep, PTL DEF Spec

(* While a stream is alone on its route, the session is bound there to the *)
(* gateway session that stream is on.                                      *)
THEOREM BindingIsCurrent == Spec => []BindingFollowsStream
<1>1. Init => BindInv
    BY DEF Init, BindInv, BindingFollowsStream, Live, Over
<1>2. BindInv => BindingFollowsStream
    BY DEF BindInv
<1> QED BY <1>1, <1>2, TypeCorrect, BindStep, PTL DEF Spec

(* A user's title is lost to the agent's only through a stream that had    *)
(* found no title before the rename.                                       *)
THEOREM RenameOutlivesStreams == Spec => RenameOutlivesNewStreams
<1>1. Init => RaceInv
    BY DEF Init, RaceInv, FoundUntitled
<1>2. TypeOK /\ RaceInv /\ [Next]_vars => [TitleTaken]_vars
  <2> SUFFICES ASSUME TypeOK, RaceInv, Next, title = "user", title' = "agent"
               PROVE  \E t \in raced : Live(t) /\ (pc'[t] # pc[t] \/ t \in titled' \ titled)
    BY DEF TitleTaken, vars, session
  <2>1. PICK t \in Turn : GatewayTitle(t) \/ FetchAcpTitle(t)
    BY DEF Next, StreamStep, GatewayEvent, RenameSession, SetTitle, DeleteSession, MarkDeleted, CancelTurn, GetTurnOwner,
       StreamTurn, CreateTurn, AcpRoute, DriveAcpTurn, GatewayAccepts, GatewayRefuses, FinalizeTurn, GatewaySession,
       GatewayOutput, GatewayPermission, GatewayError, GatewayDone, GatewayEnds,
       Retry, Finalize, FinalizeTurn, Disconnect, Drop, session
  <2>2. ~deleted
    BY <2>1 DEF GatewayTitle, FetchAcpTitle, ReconcileTitle, SetTitle
  <2>3. CASE GatewayTitle(t)
    BY <2>2, <2>3 DEF GatewayTitle, RaceInv, FoundUntitled, Live, Over
  <2>4. CASE FetchAcpTitle(t)
    <3>1. t \in raced /\ Live(t)
      BY <2>2, <2>4 DEF FetchAcpTitle, ReconcileTitle, RaceInv, FoundUntitled, Live, Over
    <3>2. pc'[t] # pc[t]
      BY <2>4 DEF FetchAcpTitle, ReconcileTitle, Leave, Goto, TypeOK
    <3> QED BY <3>1, <3>2
  <2> QED BY <2>1, <2>3, <2>4
<1> QED BY <1>1, <1>2, TypeCorrect, RaceStep, PTL DEF Spec, RenameOutlivesNewStreams

(* A turn recorded as completed or failed stays so; one recorded as        *)
(* cancelled changes only while its stream is under way.                   *)
THEOREM RecordsSettleOnce == Spec => RecordsSettle
<1>1. Init => ToldInv
    BY DEF Init, ToldInv, Told, ToldBefore, ToldDriving, ToldEnding, RowFollows, Live, Over
<1>2. TypeOK /\ ToldInv /\ [Next]_vars => [RecordSettled]_vars
  <2> SUFFICES ASSUME TypeOK, ToldInv, Next, NEW t \in Turn,
                      turn[t] \in Terminal, turn'[t] # turn[t]
               PROVE  turn[t] = "cancelled" /\ Live(t)
    BY DEF RecordSettled
  <2>1. \/ CancelTurn(t) \/ StreamTurn(t) \/ GatewayRefuses(t)
        \/ Finalize(t) \/ Disconnect(t)
    BY DEF TypeOK, Next, StreamStep, GatewayEvent, RenameSession, DeleteSession, MarkDeleted, CancelTurn, GetTurnOwner,
       StreamTurn, CreateTurn, AcpRoute, DriveAcpTurn, GatewayAccepts, GatewayRefuses, FinalizeTurn, GatewaySession,
       GatewayOutput, GatewayPermission, GatewayError, GatewayDone, GatewayTitle,
       GatewayEnds, Retry, Finalize, FinalizeTurn, FetchAcpTitle, ReconcileTitle, Disconnect, Drop
  <2>2. ~CancelTurn(t)
    BY DEF CancelTurn, GetTurnOwner, Cancellable, Terminal
  <2>3. ~StreamTurn(t)
    BY DEF StreamTurn, CreateTurn, AcpRoute, ToldInv, Told, RowFollows, Terminal
  <2>4. Live(t) /\ pc[t] # "fetch"
    BY <2>1, <2>2, <2>3 DEF GatewayRefuses, FinalizeTurn, Finalize, Disconnect, Live, Over
  <2> QED BY <2>4 DEF ToldInv, Told, RowFollows, Terminal
<1> QED BY <1>1, <1>2, TypeCorrect, ToldStep, PTL DEF Spec, RecordsSettle

-----------------------------------------------------------------------------
(* What the comment in _drive_acp_turn says of titles is true but for that *)
(* race: if a rename waited for the streams that had found no title (or    *)
(* they read it again as they write), a user's title would never be lost.  *)
RenamesWait == [][RenameSession => \A t \in Turn : ~FoundUntitled(t)]_vars

(* Nothing but a rename notes a stream.                                    *)
LEMMA NotedByRename ==
    ASSUME Next, raced = {}
    PROVE  raced' = {} \/ RenameSession
<1> USE DEF history
<1>1. CASE DeleteSession
    BY <1>1 DEF DeleteSession
<1>2. ASSUME NEW t \in Turn, CancelTurn(t) PROVE raced' = {}
    BY <1>2 DEF CancelTurn
<1>3. ASSUME NEW t \in Turn, GatewayEvent(t) PROVE raced' = {}
    BY <1>3 DEF GatewayEvent, GatewaySession, GatewayOutput, GatewayPermission,
       GatewayError, GatewayDone, GatewayTitle
<1>4. ASSUME NEW t \in Turn, \/ StreamTurn(t) \/ DriveAcpTurn(t) \/ GatewayAccepts(t)
                             \/ Retry(t) \/ GatewayEnds(t)
      PROVE  raced' = {}
    BY <1>4 DEF StreamTurn, DriveAcpTurn, GatewayAccepts, Retry, GatewayEnds, ReadTitle
<1>5. ASSUME NEW t \in Turn, \/ GatewayRefuses(t) \/ Finalize(t) \/ FetchAcpTitle(t)
                             \/ Disconnect(t) \/ Drop(t)
      PROVE  raced' = {}
    BY <1>5 DEF GatewayRefuses, Finalize, FetchAcpTitle, Disconnect, Drop, Leave
<1> QED BY <1>1, <1>2, <1>3, <1>4, <1>5 DEF Next, StreamStep

(* A title is only ever replaced by the user's or the agent's.             *)
LEMMA TitlesSet ==
    ASSUME Next
    PROVE  title' \in {title, "user", "agent"}
<1> USE DEF session, SetTitle
<1>1. CASE RenameSession \/ DeleteSession
    BY <1>1 DEF RenameSession, DeleteSession
<1>2. ASSUME NEW t \in Turn, CancelTurn(t) PROVE title' = title
    BY <1>2 DEF CancelTurn
<1>3. ASSUME NEW t \in Turn, GatewayEvent(t) PROVE title' \in {title, "agent"}
    BY <1>3 DEF GatewayEvent, GatewaySession, GatewayOutput, GatewayPermission,
       GatewayError, GatewayDone, GatewayTitle
<1>4. ASSUME NEW t \in Turn, \/ StreamTurn(t) \/ DriveAcpTurn(t) \/ GatewayAccepts(t)
                             \/ Retry(t) \/ GatewayEnds(t)
      PROVE  title' = title
    BY <1>4 DEF StreamTurn, DriveAcpTurn, GatewayAccepts, Retry, GatewayEnds
<1>5. ASSUME NEW t \in Turn, \/ GatewayRefuses(t) \/ Finalize(t) \/ FetchAcpTitle(t)
                             \/ Disconnect(t) \/ Drop(t)
      PROVE  title' \in {title, "agent"}
    BY <1>5 DEF GatewayRefuses, Finalize, FetchAcpTitle, ReconcileTitle, Disconnect, Drop
<1> QED BY <1>1, <1>2, <1>3, <1>4, <1>5 DEF Next, StreamStep

(* Under that condition the claim that the run chat_title refutes holds.   *)
THEOREM ClaimHoldsIfRenamesWait == Spec /\ RenamesWait => RenameNeverClobbered
<1> DEFINE Waits == RenameSession => \A t \in Turn : ~FoundUntitled(t)
           Unraced == raced = {}
           Kept == title = "user" => title' = "user"
<1>1. Init => Unraced
    BY DEF Init
<1>2. Unraced /\ [Next]_vars /\ [Waits]_vars => Unraced'
    <2> SUFFICES ASSUME raced = {}, [Next]_vars, [Waits]_vars PROVE raced' = {}
        OBVIOUS
    <2>1. CASE UNCHANGED vars
        BY <2>1 DEF vars, history
    <2>2. CASE Next /\ Waits
        <3>1. CASE RenameSession
            BY <2>2, <3>1 DEF RenameSession
        <3> QED BY <2>2, <3>1, NotedByRename
    <2> QED BY <2>1, <2>2
<1>3. Unraced /\ [Next]_vars /\ [TitleTaken]_vars => [Kept]_vars
    BY TitlesSet DEF TitleTaken
<1>4. RenamesWait => [][Waits]_vars
    BY DEF RenamesWait
<1>5. RenameOutlivesNewStreams => [][TitleTaken]_vars
    BY DEF RenameOutlivesNewStreams
<1>6. [][Kept]_vars => RenameNeverClobbered
    BY DEF RenameNeverClobbered
<1> HIDE DEF Waits, Unraced, Kept
<1> QED BY <1>1, <1>2, <1>3, <1>4, <1>5, <1>6, RenameOutlivesStreams, PTL DEF Spec
=============================================================================
