----------------------------- MODULE ClientCalls -----------------------------
(***************************************************************************)
(* The calls of the client SDK that change something on the server         *)
(* (client.py: activate, deactivate, heartbeat, record_usage) on top of    *)
(* _request, for one licence and one machine.  An attempt that times out   *)
(* is sent again, and the server may still handle the first one later.     *)
(***************************************************************************)
EXTENDS Integers

CONSTANTS
  MaxRetries,  \* attempts of one call (max_retries)
  MaxCalls     \* bound on the calls a client makes

ASSUME ClientAssumption == MaxRetries \in Nat \ {0} /\ MaxCalls \in Nat

Ops == {"activate", "deactivate", "heartbeat", "usage"}
NoCall == [op |-> "none", attempt |-> 0]

VARIABLES
  call,     \* the call in progress
  late,     \* attempts the client gave up on that may still be handled, per operation
  machine,  \* does the server hold the machine's activation?
  counted,  \* usage rows on the server
  answer,   \* what the last call returned
  \* History.
  calls,    \* calls started, per operation
  told,     \* usage calls that returned success
  unread,   \* usage attempts whose answer was not read
  strays    \* operations handled since the last answer without the client being told

clientVars == <<call, late, machine, counted, answer, calls, told, unread, strays>>

Counts == 0 .. MaxRetries * MaxCalls

ClientTypeOK ==
  /\ call \in [op : Ops \cup {"none"}, attempt : 0 .. MaxRetries]
  /\ late \in [Ops -> Counts] /\ machine \in BOOLEAN /\ counted \in Counts
  /\ answer \in [op : Ops \cup {"none"}, code : {"yes", "no", "error"}]
  /\ calls \in [Ops -> 0 .. MaxCalls] /\ told \in Counts /\ unread \in Counts
  /\ strays \subseteq Ops

ClientInit ==
  /\ call = NoCall /\ late = [o \in Ops |-> 0] /\ machine = FALSE /\ counted = 0
  /\ answer = [op |-> "none", code |-> "error"]
  /\ calls = [o \in Ops |-> 0] /\ told = 0 /\ unread = 0 /\ strays = {}

Return(code) ==
  /\ answer' = [op |-> call.op, code |-> code]
  /\ call' = NoCall /\ strays' = {}

StartCall(op) ==
  /\ call = NoCall
  /\ calls[op] < MaxCalls
  /\ call' = [op |-> op, attempt |-> 1]
  /\ calls' = [calls EXCEPT ![op] = @ + 1]
  /\ UNCHANGED <<late, machine, counted, answer, told, unread, strays>>

---------------------------------------------------------------------------
(* The server.  An activation of an active machine is answered as a        *)
(* success; it may be refused for the seats or the licence's status, as a  *)
(* usage record may; the other two look at the machine only.               *)
Handle(op, code) ==
  \/ /\ op = "activate"
     /\ \/ code = "yes" /\ machine' = TRUE
        \/ code = "no" /\ UNCHANGED machine
     /\ UNCHANGED counted
  \/ /\ op = "deactivate"
     /\ code = (IF machine THEN "yes" ELSE "no")
     /\ machine' = FALSE /\ UNCHANGED counted
  \/ /\ op = "heartbeat"
     /\ code = (IF machine THEN "yes" ELSE "no")
     /\ UNCHANGED <<machine, counted>>
  \/ /\ op = "usage"
     /\ \/ code = "yes" /\ counted' = counted + 1
        \/ code = "no" /\ UNCHANGED counted
     /\ UNCHANGED machine

(* The loop of _request after an attempt that may be repeated, of which    *)
(* the server may have handled the operations of effect already.           *)
RetryOrGiveUp(effect) ==
  IF call.attempt < MaxRetries
    THEN call' = [call EXCEPT !.attempt = @ + 1] /\ strays' = strays \cup effect /\ UNCHANGED answer
    ELSE Return("error")

IfUsage(n) == IF call.op = "usage" THEN n ELSE 0

(* The answer arrives in time and parses. *)
Answered ==
  /\ call # NoCall
  /\ \E code \in {"yes", "no"} :
       /\ Handle(call.op, code) /\ Return(code)
       /\ told' = told + (IF code = "yes" THEN IfUsage(1) ELSE 0)
  /\ UNCHANGED <<late, calls, unread>>

(* Handled, but the body is not JSON (JSON_ERROR): no retry. *)
Unparseable ==
  /\ call # NoCall
  /\ \E code \in {"yes", "no"} : Handle(call.op, code)
  /\ Return("error") /\ unread' = unread + IfUsage(1)
  /\ UNCHANGED <<late, calls, told>>

(* 5xx and 429 are retried, any other 4xx is returned (CLIENT_ERROR).  The *)
(* server or a gateway before it may answer 5xx when the request has been  *)
(* handled; one it gave up waiting for is TimedOut's.                      *)
ServerError ==
  /\ call # NoCall /\ RetryOrGiveUp({})
  /\ UNCHANGED <<late, machine, counted, calls, told, unread>>

HandledButFailed ==
  /\ call # NoCall
  /\ \E code \in {"yes", "no"} : Handle(call.op, code)
  /\ RetryOrGiveUp({call.op}) /\ unread' = unread + IfUsage(1)
  /\ UNCHANGED <<late, calls, told>>

ClientError ==
  /\ call # NoCall /\ Return("error")
  /\ UNCHANGED <<late, machine, counted, calls, told, unread>>

(* The request never left (ConnectError), or left and was not answered in  *)
(* time: the same handling, but the second may still take effect, as one   *)
(* that a gateway answered 504 may.                                        *)
Unreached ==
  /\ call # NoCall /\ RetryOrGiveUp({})
  /\ UNCHANGED <<late, machine, counted, calls, told, unread>>

TimedOut ==
  /\ call # NoCall /\ RetryOrGiveUp({})
  /\ late' = [late EXCEPT ![call.op] = @ + 1]
  /\ unread' = unread + IfUsage(1)
  /\ UNCHANGED <<machine, counted, calls, told>>

Late(op) ==
  /\ late[op] > 0 /\ late' = [late EXCEPT ![op] = @ - 1]
  /\ \E code \in {"yes", "no"} : Handle(op, code)
  /\ strays' = strays \cup {op}
  /\ UNCHANGED <<call, answer, calls, told, unread>>

LostRequest(op) ==
  /\ late[op] > 0 /\ late' = [late EXCEPT ![op] = @ - 1]
  /\ UNCHANGED <<call, machine, counted, answer, calls, told, unread, strays>>

ClientNext ==
  \/ \E op \in Ops : StartCall(op) \/ Late(op) \/ LostRequest(op)
  \/ Answered \/ Unparseable \/ ServerError \/ HandledButFailed \/ ClientError \/ Unreached \/ TimedOut

---------------------------------------------------------------------------
(* A usage call is counted once for every success, at most once more for   *)
(* every attempt whose answer was not read, and never more often than its  *)
(* attempts.                                                               *)
UsageAccounted ==
  /\ told <= counted
  /\ counted + late["usage"] <= told + unread
  /\ counted + late["usage"] <= MaxRetries * calls["usage"]

(* What the last call said of the machine is true until a request whose    *)
(* answer the client did not get, or was told had failed, overtakes it; a  *)
(* deactivation answered "no" is one that had already happened.            *)
AnswerStands ==
  /\ (answer.op \in {"activate", "heartbeat"} /\ answer.code = "yes" /\ ~machine) =>
       "deactivate" \in strays
  /\ (\/ answer.op = "deactivate" /\ answer.code # "error"
      \/ answer.op = "heartbeat" /\ answer.code = "no") /\ machine =>
       "activate" \in strays
=============================================================================
