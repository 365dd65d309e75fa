------------------------------ MODULE Transport ------------------------------
(***************************************************************************)
(* Sending one payload to a peer: src/runtime/transport/                   *)
(* executeTransport.mjs.  The peer is probed, the transport is chosen,     *)
(* and only then the payload is sent, directly or through a relay client   *)
(* made for this call (relayClient.mjs).  The peer and the relay link come *)
(* and go in between, and there is no second choice.                       *)
(***************************************************************************)
CONSTANTS Calls

VARIABLES
    reachable,   \* environment: the peer answers HTTP
    linked,      \* environment: the relay singleton can send
    pc,          \* each call: idle, probe, direct, connect, relay, done
    result,      \* what the call returned or threw, "none" before
    arrived      \* history: by which ways the payload of each call arrived

transportVars == <<reachable, linked, pc, result, arrived>>

Ways == {"direct", "relay"}
Errors == {"NO_USABLE_TRANSPORT", "RELAY_MISCONFIGURED", "DIRECT_TIMEOUT",
           "DIRECT_FAILED", "NOT_CONNECTED"}

Init ==
    /\ reachable = TRUE
    /\ linked = FALSE
    /\ pc = [c \in Calls |-> "idle"]
    /\ result = [c \in Calls |-> "none"]
    /\ arrived = [c \in Calls |-> {}]

Goto(c, at) == pc' = [pc EXCEPT ![c] = at]
Returns(c, r) == Goto(c, "done") /\ result' = [result EXCEPT ![c] = r]

-----------------------------------------------------------------------------
Execute(c) ==
    /\ pc[c] = "idle"
    /\ Goto(c, "probe")
    /\ UNCHANGED <<reachable, linked, result, arrived>>

(* checkDirectReachability: any HTTP answer to a GET counts. *)
Probed == reachable

(* selectTransport: the relay if the caller says that there is one.         *)
Selected(direct, relayAvailable) ==
    CASE direct -> "direct"
      [] ~direct /\ relayAvailable -> "connect"
      [] OTHER -> "NO_USABLE_TRANSPORT"

(* decideTransport, and executeTransport up to the sending: a relay that    *)
(* the caller promised but did not name is refused.                         *)
Decide(c) ==
    /\ pc[c] = "probe"
    /\ \E relayAvailable, configured \in BOOLEAN :
         LET at == Selected(Probed, relayAvailable)
         IN CASE at = "NO_USABLE_TRANSPORT" -> Returns(c, at)
              [] at = "connect" /\ ~configured -> Returns(c, "RELAY_MISCONFIGURED")
              [] OTHER -> Goto(c, at) /\ UNCHANGED result
    /\ UNCHANGED <<reachable, linked, arrived>>

(* sendDirect.  The payload may arrive although the answer does not, or is  *)
(* an error; DIRECT_NON_2XX is caught where it is thrown and becomes        *)
(* DIRECT_FAILED.                                                           *)
Failed_Fallback(c) ==                                                \* mutant
    \/ Returns(c, "DIRECT_FAILED")
    \/ Goto(c, "connect") /\ UNCHANGED result
Failed(c) == \E r \in {"DIRECT_TIMEOUT", "DIRECT_FAILED"} : Returns(c, r)
SendDirect(c) ==
    /\ pc[c] = "direct"
    /\ \/ /\ reachable
          /\ arrived' = [arrived EXCEPT ![c] = @ \cup {"direct"}]
          /\ Returns(c, "direct") \/ Failed(c)
       \/ Failed(c) /\ UNCHANGED arrived
    /\ UNCHANGED <<reachable, linked>>

(* relayClient.connect subscribes to deliveries and succeeds whether or not *)
(* the singleton could connect.                                             *)
Connect(c) ==
    /\ pc[c] = "connect"
    /\ Goto(c, "relay")
    /\ UNCHANGED <<reachable, linked, result, arrived>>

(* relayClient.relay; the relay may drop what it was handed.  The client is *)
(* closed in any case: its subscription ends, the connection stays.         *)
SendRelay(c) ==
    /\ pc[c] = "relay"
    /\ Returns(c, IF linked THEN "relay" ELSE "NOT_CONNECTED")
    /\ \/ linked /\ arrived' = [arrived EXCEPT ![c] = @ \cup {"relay"}]
       \/ UNCHANGED arrived
    /\ UNCHANGED <<reachable, linked>>

TransportEnvironment ==
    /\ \/ reachable' = ~reachable /\ UNCHANGED linked
       \/ linked' = ~linked /\ UNCHANGED reachable
    /\ UNCHANGED <<pc, result, arrived>>

Sending(c) == Decide(c) \/ SendDirect(c) \/ Connect(c) \/ SendRelay(c)
-----------------------------------------------------------------------------
(* Every variable has its type. *)
TypeOK ==
    /\ reachable \in BOOLEAN /\ linked \in BOOLEAN
    /\ pc \in [Calls -> {"idle", "probe", "direct", "connect", "relay", "done"}]
    /\ result \in [Calls -> {"none"} \cup Ways \cup Errors]
    /\ arrived \in [Calls -> SUBSET Ways]
=============================================================================
