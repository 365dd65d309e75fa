--------------------------- MODULE RemoteExecution ---------------------------
(***************************************************************************)
(* Calling a capability of a friend: node A sends an invocation request,   *)
(* node B checks it against its friendship, runs the handler and sends a   *)
(* result back (src/remote, src/execution, src/capability; the two roles   *)
(* are put together in scripts/remote_execution_two_machine_relay_e2e.mjs).*)
(* Both messages go through Transport, which may lose them or deliver them *)
(* and report a failure.  The id of an invocation is a hash of capability  *)
(* and payload: a repeated call has the id of the first.                   *)
(***************************************************************************)
CONSTANTS Tries      \* the calls A makes of the same invocation

VARIABLES
    request,         \* what A sends, see Cases; chosen when it first calls
    friend,          \* B's friendship record with A is established
    taken,           \* the transport deliveries B has handled
    reply,           \* what B answered each call
    received,        \* the results A has stored under the invocation's id
    runs,            \* history: the calls for which B ran the handler,
    strangerRan,     \* and whether it ever did without the friendship
    reachable, linked, pc, result, arrived      \* of Transport

Asks == {"request"} \X Tries
Answers == {"result"} \X Tries
T == INSTANCE Transport WITH Calls <- Asks \cup Answers

remoteOnly == <<request, friend, taken, reply, received, runs, strangerRan>>
transportVars == <<reachable, linked, pc, result, arrived>>
remoteVars == <<remoteOnly, transportVars>>

(* The requests that are told apart, those of the script among them. *)
Cases == {"good", "other kind", "malformed", "other friend", "no handler"}
Replies == {"ok", "INVALID_KIND", "INVALID_INVOCATION_REQUEST", "INVALID_FRIENDSHIP",
            "HANDLER_NOT_FOUND", "HANDLER_EXECUTION_FAILED", "INVALID_RESULT"}

Init ==
    /\ request = "none"
    /\ friend = TRUE
    /\ taken = {}
    /\ reply = [t \in Tries |-> "none"]
    /\ received = {}
    /\ runs = {}
    /\ strangerRan = FALSE
    /\ T!Init

-----------------------------------------------------------------------------
(* createCapabilityInvocationRequest makes a good request from a reference, *)
(* or one that B cannot serve; other senders may send anything.             *)
Built == IF request = "none" THEN Cases ELSE {request}

(* sendRemoteInvocation starts the transport. *)
SendInvocation(t) == T!Execute(<<"request", t>>)
Invoke(t) ==
    /\ request' \in Built
    /\ SendInvocation(t)
    /\ UNCHANGED <<friend, taken, reply, received, runs, strangerRan>>

(* validatePayload, validateInvocationRequest, validateFriendshipGate: the  *)
(* first that fails is the answer and nothing is run.                       *)
Refusal_NoGate ==                                                    \* mutant
    CASE request = "other kind" -> "INVALID_KIND"
      [] request = "malformed" -> "INVALID_INVOCATION_REQUEST"
      [] OTHER -> "none"
Refusal ==
    CASE request = "other kind" -> "INVALID_KIND"
      [] request = "malformed" -> "INVALID_INVOCATION_REQUEST"
      [] request = "other friend" \/ ~friend -> "INVALID_FRIENDSHIP"
      [] OTHER -> "none"

(* getCapabilityHandler; executeInvocation, where the handler may throw;    *)
(* adaptExecutionResult, which refuses anything but a small flat object.    *)
HasHandler == request # "no handler"
Adapted == {"ok", "INVALID_RESULT"}
Executed == IF HasHandler THEN {"HANDLER_EXECUTION_FAILED"} \cup Adapted
                          ELSE {"HANDLER_NOT_FOUND"}

(* handleRemoteInvocation: what it may return. *)
Handled == IF Refusal # "none" THEN {Refusal} ELSE Executed
Ran(out) == out \in Adapted \cup {"HANDLER_EXECUTION_FAILED"}

(* sendRemoteInvocationResult; no result can be made for a request that has *)
(* no id, and then nothing is sent.                                         *)
SendResult(t) ==
    \/ T!Execute(<<"result", t>>)
    \/ /\ request = "malformed" \/ pc[<<"result", t>>] # "idle"
       /\ UNCHANGED transportVars

(* B takes a delivery. *)
Serve(t, way) ==
    /\ way \in arrived[<<"request", t>>] /\ <<t, way>> \notin taken
    /\ taken' = taken \cup {<<t, way>>}
    /\ \E out \in Handled :
         /\ reply' = [reply EXCEPT ![t] = out]
         /\ runs' = IF Ran(out) THEN runs \cup {<<t, way>>} ELSE runs
         /\ strangerRan' = (strangerRan \/ (Ran(out) /\ (~friend \/ request = "other friend")))
    /\ SendResult(t)
    /\ UNCHANGED <<request, friend, received>>

(* handleRemoteInvocationResult checks its form; A stores it under its id. *)
Received(t) == received \cup {reply[t]}
Accept(t) ==
    /\ arrived[<<"result", t>>] # {}
    /\ received' = Received(t)
    /\ UNCHANGED <<request, friend, taken, reply, runs, strangerRan, transportVars>>

(* The friendship record B reads is written or replaced by others. *)
ChangeFriendship ==
    /\ friend' = ~friend
    /\ UNCHANGED <<request, taken, reply, received, runs, strangerRan, transportVars>>

Next ==
    \/ \E t \in Tries : Invoke(t) \/ Accept(t) \/ \E way \in T!Ways : Serve(t, way)
    \/ ChangeFriendship
    \/ /\ T!TransportEnvironment \/ \E c \in Asks \cup Answers : T!Sending(c)
       /\ UNCHANGED remoteOnly

-----------------------------------------------------------------------------
(* Every variable has its type. *)
TypeOK ==
    /\ T!TypeOK
    /\ request \in {"none"} \cup Cases
    /\ friend \in BOOLEAN /\ strangerRan \in BOOLEAN
    /\ taken \subseteq Tries \X T!Ways /\ runs \subseteq taken
    /\ reply \in [Tries -> {"none"} \cup Replies]
    /\ received \subseteq Replies

(* However calls fail, are repeated and overlap changes of the friendship,  *)
(* the handler never runs for a stranger; A reads success only for a call   *)
(* that ran; and since a failed transport is not tried again another way,   *)
(* no call runs twice.                                                      *)
RunsForFriendsOnce ==
    /\ ~strangerRan
    /\ "ok" \in received => runs # {}
    /\ \A t \in Tries : \A v, w \in T!Ways : {<<t, v>>, <<t, w>>} \subseteq runs => v = w
=============================================================================
