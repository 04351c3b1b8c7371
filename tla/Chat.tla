-------------------------------- MODULE Chat --------------------------------
(***************************************************************************)
(* One chat session and the turns streamed in it (chat_service.py and      *)
(* chat_repository.py).                                                    *)
(*                                                                         *)
(* A turn is a generator that reads server-sent events from the agent      *)
(* gateway and yields translated ones to the caller.  It gives way at every*)
(* await and every yield, and other requests may run there: renames,       *)
(* deletions, cancels, other turns of the session.  An action is what the  *)
(* generator does from one such point to the next.                         *)
(*                                                                         *)
(* A turn on a session the gateway already knows first tries to resume it: *)
(* what it yields is buffered until the attempt shows a sign of life, and  *)
(* an attempt that only failed is replaced by a second, fresh one.         *)
(* Smoothing of the text into chunks is left out: text is yielded as it    *)
(* comes.                                                                  *)
(***************************************************************************)
EXTENDS Naturals

CONSTANTS
    Turn,       \* turn ids
    Route,      \* gateway routes: with and without web search
    AcpSession, \* session ids the gateway may assign
    NoSession,
    Reason      \* stop reasons of done events, "null" for none

ASSUME NoSessionAssumption == NoSession \notin AcpSession
ASSUME ReasonAssumption == Reason \subseteq {"null", "end", "cancelled"}

VARIABLES
    title, deleted, binding,  \* the chat_sessions row
    turn,       \* chat_turns rows: their status
    route,      \* the route each turn asks for
    pc,         \* where each stream is
    attempt,    \* 1, or 2 once the resume was given up
    initial,    \* acp_session_id as read when the turn began
    bound,      \* result.bound_session_id
    titled,     \* streams whose local_title is not empty
    committed,  \* streams that yield live, their buffer gone
    held,       \* streams holding an error event in the buffer
    failed,     \* streams with an error_message
    stop,       \* result.stop_reason, "open" until done is seen
    shown,      \* streams whose first attempt sent the caller output
    told,       \* terminal events the caller has received
    raced,      \* history: streams that found no title before a rename
    overlap     \* history: streams that overlapped another on their route

session == <<title, deleted, binding>>
outcome == <<failed, stop>>
buffer == <<committed, held, shown, told>>
start == <<route, attempt, initial>>
history == <<raced, overlap>>
vars == <<session, turn, pc, start, bound, titled, outcome, buffer, history>>

Terminal == {"completed", "failed", "cancelled"}
Over == {"ended", "cut"}
Point == {"none", "opened", "request", "drive", "finalize", "fetch"}
         \cup Over
Binding == AcpSession \cup {NoSession}

TypeOK ==
    /\ title \in {"empty", "agent", "user"}
    /\ deleted \in BOOLEAN
    /\ binding \in [Route -> Binding]
    /\ turn \in [Turn -> {"none", "running"} \cup Terminal]
    /\ route \in [Turn -> Route]
    /\ pc \in [Turn -> Point]
    /\ attempt \in [Turn -> {1, 2}]
    /\ initial \in [Turn -> Binding]
    /\ bound \in [Turn -> Binding]
    /\ stop \in [Turn -> {"open"} \cup Reason]
    /\ told \in [Turn -> SUBSET {"error", "completed"}]
    /\ \A set \in {titled, committed, held, failed, shown, raced, overlap} :
          set \subseteq Turn

(* create_session has run, with a title or without; earlier turns may have *)
(* bound the session on either route.                                      *)
Init ==
    /\ title \in {"empty", "user"}
    /\ deleted = FALSE
    /\ binding \in [Route -> Binding]
    /\ turn = [t \in Turn |-> "none"]
    /\ route \in [Turn -> Route]
    /\ pc = [t \in Turn |-> "none"]
    /\ attempt = [t \in Turn |-> 1]
    /\ initial = [t \in Turn |-> NoSession]
    /\ bound = [t \in Turn |-> NoSession]
    /\ stop = [t \in Turn |-> "open"]
    /\ told = [t \in Turn |-> {}]
    /\ titled = {} /\ committed = {} /\ held = {} /\ failed = {} /\ shown = {}
    /\ raced = {} /\ overlap = {}

Live(t) == pc[t] \notin {"none"} \cup Over
Goto(t, point) == pc' = [pc EXCEPT ![t] = point]
Tell(t, event) == told' = [told EXCEPT ![t] = @ \cup {event}]

(* The generator returns: its locals, and what was noted of it, are gone.  *)
Leave(t, point) ==
    /\ Goto(t, point)
    /\ attempt' = [attempt EXCEPT ![t] = 1]
    /\ initial' = [initial EXCEPT ![t] = NoSession]
    /\ bound' = [bound EXCEPT ![t] = NoSession]
    /\ stop' = [stop EXCEPT ![t] = "open"]
    /\ titled' = titled \ {t}
    /\ committed' = committed \ {t}
    /\ held' = held \ {t}
    /\ failed' = failed \ {t}
    /\ shown' = shown \ {t}
    /\ raced' = raced \ {t}
    /\ overlap' = overlap \ {t}

(* The repository: what its statements find and write.                     *)
CreateTurn(t) == turn' = [turn EXCEPT ![t] = "running"]
FinalizeTurn(t, status) == turn' = [turn EXCEPT ![t] = status]
GetTurnOwner(t) == ~deleted /\ turn[t] # "none"
MarkDeleted == deleted' = TRUE

HasTitle == ~deleted /\ title # "empty"

(* update_session_title: not on a deleted session.                         *)
SetTitle(by) == title' = IF deleted THEN title ELSE by

FaultyBind(r, id) == binding' = binding
Bind(r, id) == binding' = [binding EXCEPT ![r] = id]

-----------------------------------------------------------------------------
(* Requests on the session and on its turns.                               *)

(* Streams that have read an empty title and may yet write one.            *)
FoundUntitled(t) ==
    \/ pc[t] \in {"request", "drive"} /\ t \notin titled
    \/ pc[t] = "fetch"

RenameSession ==
    /\ ~deleted
    /\ SetTitle("user")
    /\ raced' = raced \cup {t \in Turn : FoundUntitled(t)}
    /\ UNCHANGED <<deleted, binding, turn, pc, start, bound, titled, outcome, buffer, overlap>>

DeleteSession ==
    /\ ~deleted
    /\ MarkDeleted
    /\ UNCHANGED <<title, binding, turn, pc, start, bound, titled, outcome, buffer, history>>

(* cancel_turn marks a turn that is still running; the stream is not told. *)
FaultyCancellable(t) == turn[t] # "none"
Cancellable(t) == turn[t] = "running"

CancelTurn(t) ==
    /\ GetTurnOwner(t)
    /\ Cancellable(t)
    /\ turn' = [turn EXCEPT ![t] = "cancelled"]
    /\ UNCHANGED <<session, pc, start, bound, titled, outcome, buffer, history>>

-----------------------------------------------------------------------------
(* The stream.                                                             *)

(* _acp_route: the gateway session bound on the column of the route.       *)
AcpRoute(t) == binding[route[t]]

(* The session row is read, the turn inserted, turn_started yielded.  With *)
(* nothing to resume there is nothing to buffer for.                       *)
StreamTurn(t) ==
    LET others == {u \in Turn \ {t} : Live(u) /\ route[u] = route[t]} IN
    /\ ~deleted
    /\ pc[t] = "none"
    /\ CreateTurn(t)
    /\ initial' = [initial EXCEPT ![t] = AcpRoute(t)]
    /\ bound' = [bound EXCEPT ![t] = AcpRoute(t)]
    /\ committed' = IF AcpRoute(t) = NoSession THEN committed \cup {t} ELSE committed
    /\ overlap' = IF others = {} THEN overlap ELSE overlap \cup others \cup {t}
    /\ Goto(t, "opened")
    /\ UNCHANGED <<session, route, attempt, titled, outcome, held, shown, told, raced>>

(* An attempt begins: local_title is read, then the gateway is called.     *)
FaultyReadTitle(t) == UNCHANGED <<titled, raced>>
ReadTitle(t) ==
    /\ titled' = IF HasTitle THEN titled \cup {t} ELSE titled \ {t}
    /\ raced' = raced \ {t}

DriveAcpTurn(t) ==
    /\ pc[t] = "opened"
    /\ ReadTitle(t)
    /\ Goto(t, "request")
    /\ UNCHANGED <<session, turn, start, bound, outcome, buffer, overlap>>

GatewayAccepts(t) ==
    /\ pc[t] = "request"
    /\ Goto(t, "drive")
    /\ UNCHANGED <<session, turn, start, bound, titled, outcome, buffer, history>>

(* ApiError from the client.  In the first attempt the turn is recorded as *)
(* failed and the caller told; the second attempt runs outside the try.    *)
GatewayRefuses(t) ==
    /\ pc[t] = "request"
    /\ IF attempt[t] = 1
       THEN /\ FinalizeTurn(t, "failed")
            /\ Tell(t, "error")
            /\ Leave(t, "ended")
       ELSE /\ Leave(t, "cut")
            /\ UNCHANGED <<turn, told>>
    /\ UNCHANGED <<session, route>>

(* An event is yielded by the attempt.  A stream that is not yet committed *)
(* holds it, and commits at the first sign of life, flushing what it held. *)
Yield(t, event) ==
    LET life == \/ t \in committed
                \/ stop[t] # "open"
                \/ bound[t] # initial[t]
                \/ event \in {"output", "permission"}
        error == event = "error" \/ t \in held
    IN  /\ committed' = IF life THEN committed \cup {t} ELSE committed
        /\ held' = IF error /\ ~life THEN held \cup {t} ELSE held \ {t}
        /\ told' = IF error /\ life THEN [told EXCEPT ![t] = @ \cup {"error"}] ELSE told
        /\ shown' = IF attempt[t] = 1 /\ event \in {"output", "permission"}
                    THEN shown \cup {t} ELSE shown

(* session: the id the agent assigned is stored on the turn's route.       *)
GatewaySession(t, id) ==
    /\ pc[t] = "drive"
    /\ id # bound[t]
    /\ bound' = [bound EXCEPT ![t] = id]
    /\ Bind(route[t], id)
    /\ UNCHANGED <<title, deleted, turn, pc, start, titled, outcome, buffer, history>>

(* delta, reasoning, tool_call.                                            *)
GatewayOutput(t) ==
    /\ pc[t] = "drive"
    /\ Yield(t, "output")
    /\ UNCHANGED <<session, turn, pc, start, bound, titled, outcome, history>>

GatewayPermission(t) ==
    /\ pc[t] = "drive"
    /\ Yield(t, "permission")
    /\ UNCHANGED <<session, turn, pc, start, bound, titled, outcome, history>>

GatewayError(t) ==
    /\ pc[t] = "drive"
    /\ failed' = failed \cup {t}
    /\ Yield(t, "error")
    /\ UNCHANGED <<session, turn, pc, start, bound, titled, stop, history>>

GatewayDone(t, reason) ==
    /\ pc[t] = "drive"
    /\ stop' = [stop EXCEPT ![t] = reason]
    /\ UNCHANGED <<session, turn, pc, start, bound, titled, failed, buffer, history>>

(* session_info: the agent's title is stored if local_title is empty.      *)
GatewayTitle(t) ==
    /\ pc[t] = "drive"
    /\ t \notin titled
    /\ SetTitle("agent")
    /\ titled' = titled \cup {t}
    /\ Yield(t, "title")
    /\ UNCHANGED <<deleted, binding, turn, pc, start, bound, outcome, history>>

(* The gateway's stream is over.  A resume that produced nothing and erred *)
(* is retried once: the binding is dropped and a fresh attempt begins.     *)
FaultyGivenUp(t) == attempt[t] = 1 /\ t \in failed
GivenUp(t) ==
    /\ attempt[t] = 1
    /\ t \in failed
    /\ initial[t] # NoSession
    /\ t \notin committed
    /\ bound[t] = initial[t]

Retry(t) ==
    /\ pc[t] = "drive"
    /\ GivenUp(t)
    /\ Bind(route[t], NoSession)
    /\ bound' = [bound EXCEPT ![t] = NoSession]
    /\ attempt' = [attempt EXCEPT ![t] = 2]
    /\ committed' = committed \cup {t}
    /\ held' = held \ {t}
    /\ failed' = failed \ {t}
    /\ stop' = [stop EXCEPT ![t] = "open"]
    /\ ReadTitle(t)
    /\ Goto(t, "request")
    /\ UNCHANGED <<title, deleted, turn, route, initial, shown, told, overlap>>

(* Otherwise what is still held is yielded, and a stream that ended        *)
(* without done is an error, yielded too.                                  *)
GatewayEnds(t) ==
    /\ pc[t] = "drive"
    /\ ~GivenUp(t)
    /\ failed' = IF stop[t] = "open" THEN failed \cup {t} ELSE failed
    /\ IF t \in held \/ (t \notin failed /\ stop[t] = "open")
       THEN Tell(t, "error")
       ELSE UNCHANGED told
    /\ held' = held \ {t}
    /\ Goto(t, "finalize")
    /\ UNCHANGED <<session, turn, start, bound, titled, stop, committed, shown, history>>

(* _finalize: the status is written whatever the row says now.             *)
FaultyStatusOf(t, reason) == IF t \in failed THEN "failed" ELSE reason
StatusOf(t, reason) ==
    IF t \in failed THEN "failed"
    ELSE IF reason = "cancelled" THEN "cancelled"
    ELSE "completed"

(* ... then, unless the turn failed, the title is read again to see if the *)
(* agent's is needed; if not, turn_completed is yielded.                   *)
Finalize(t) ==
    /\ pc[t] = "finalize"
    /\ FinalizeTurn(t, StatusOf(t, stop[t]))
    /\ IF t \notin failed /\ ~HasTitle /\ bound[t] # NoSession
       THEN /\ Goto(t, "fetch")
            /\ raced' = raced \ {t}
            /\ UNCHANGED <<start, bound, titled, outcome, buffer, overlap>>
       ELSE /\ Leave(t, "ended")
            /\ IF t \in failed THEN UNCHANGED told ELSE Tell(t, "completed")
    /\ UNCHANGED <<session, route>>

(* _fetch_acp_title awaits the gateway's session list, page after page; it *)
(* may fail, or have no title, and else the title is written.              *)
ReconcileTitle == SetTitle("agent") \/ UNCHANGED title

(* ... then turn_completed, unless the generator is closed as it yields    *)
(* the new title.                                                          *)
FetchAcpTitle(t) ==
    /\ pc[t] = "fetch"
    /\ ReconcileTitle
    /\ \/ Tell(t, "completed") /\ Leave(t, "ended")
       \/ UNCHANGED told /\ Leave(t, "cut")
    /\ UNCHANGED <<deleted, binding, turn, route>>

(* The caller disconnects while the generator awaits the gateway: a        *)
(* CancelledError, caught in the first attempt only.                       *)
Disconnect(t) ==
    /\ pc[t] \in {"request", "drive", "fetch"}
    /\ IF attempt[t] = 1 /\ pc[t] # "fetch"
       THEN FinalizeTurn(t, StatusOf(t, IF stop[t] \in {"open", "null"}
                                        THEN "cancelled" ELSE stop[t]))
       ELSE UNCHANGED turn
    /\ Leave(t, "cut")
    /\ UNCHANGED <<session, route, told>>

(* The generator is closed at a yield, the connection to the gateway       *)
(* breaks, or the process dies: nothing is recorded.                       *)
Drop(t) ==
    /\ Live(t)
    /\ Leave(t, "cut")
    /\ UNCHANGED <<session, turn, route, told>>

GatewayEvent(t) ==
    \/ \E id \in AcpSession : GatewaySession(t, id)
    \/ GatewayOutput(t)
    \/ GatewayPermission(t)
    \/ GatewayError(t)
    \/ \E reason \in Reason : GatewayDone(t, reason)
    \/ GatewayTitle(t)

StreamStep(t) ==
    \/ StreamTurn(t)
    \/ DriveAcpTurn(t)
    \/ GatewayAccepts(t) \/ GatewayRefuses(t)
    \/ GatewayEvent(t)
    \/ GatewayEnds(t) \/ Retry(t)
    \/ Finalize(t) \/ FetchAcpTitle(t)
    \/ Disconnect(t) \/ Drop(t)

Next ==
    \/ RenameSession
    \/ DeleteSession
    \/ \E t \in Turn : CancelTurn(t) \/ StreamStep(t)

Spec == Init /\ [][Next]_vars

(* GET /turns/{id}/events replays the record: how the replay ends.  A turn *)
(* that is still running ends as a completed one does.                     *)
Replay(t) == IF turn[t] = "failed" THEN {"error"} ELSE {"completed"}

-----------------------------------------------------------------------------
(* The caller never receives output of a resume that was then given up:    *)
(* the answer streamed, like the one stored, is of one attempt.            *)
OneAttemptShown == \A t \in Turn : attempt[t] = 2 => t \notin shown

(* A stream read to its end told the caller what a replay of the turn will *)
(* tell: an error if and only if the turn is failed, else turn_completed,  *)
(* and never both.  No later cancel changes that.                          *)
RecordMatchesStream == \A t \in Turn :
    pc[t] = "ended" =>
        /\ turn[t] \in Terminal
        /\ told[t] = Replay(t)

(* The stored gateway session is the one a stream is on, so that the next  *)
(* turn resumes it: unless two streams of one route overlapped.            *)
BindingFollowsStream == \A t \in Turn :
    Live(t) /\ t \notin overlap => binding[route[t]] = bound[t]

(* A user's title is replaced by the agent's only by a stream that had     *)
(* found the title empty before the user gave it, and was under way since. *)
TitleTaken == title = "user" /\ title' = "agent" =>
    \E t \in raced : Live(t) /\ (pc'[t] # pc[t] \/ t \in titled' \ titled)
RenameOutlivesNewStreams == [][TitleTaken]_vars

(* A terminal record changes only from cancelled, and only while the       *)
(* stream it belongs to is still under way.                                *)
RecordSettled == \A t \in Turn :
    turn[t] \in Terminal /\ turn'[t] # turn[t] => turn[t] = "cancelled" /\ Live(t)
RecordsSettle == [][RecordSettled]_vars

(* What the comment in _drive_acp_turn says of titles: "Persist it only    *)
(* while the local title is still empty so a user's manual rename is never *)
(* clobbered".                                                             *)
RenameNeverClobbered == [][title = "user" => title' = "user"]_vars
=============================================================================
