--------------------------- MODULE OperationsProofs ---------------------------
(***************************************************************************)
(* Proofs about the components of MCOperations, for every value of their   *)
(* parameters: those that wait for others first, then those that keep or   *)
(* compute lists, by the lemmas of ListsProofs.  Only the component `part' *)
(* names moves, so an invariant of one component is preserved by its own   *)
(* steps and left alone by all others.                                     *)
(***************************************************************************)
EXTENDS MCOperations, FiniteSetTheorems, ListsProofs

-----------------------------------------------------------------------------
(* Client calls                                                            *)

(* What a usage call may still add: the attempts it has left. *)
Attempts == IF call.op = "usage" THEN MaxRetries - call.attempt + 1 ELSE 0

(* What a call, an attempt that is late and an answer may be.              *)
CallsTypes ==
  /\ call = NoCall \/ call \in [op : Ops, attempt : 1 .. MaxRetries]
  /\ late \in [Ops -> Nat] /\ machine \in BOOLEAN /\ counted \in Nat
  /\ answer \in [op : Ops \cup {"none"}, code : {"yes", "no", "error"}]
  /\ calls \in [Ops -> Nat] /\ told \in Nat /\ unread \in Nat

(* The answers are as UsageAccounted and AnswerStands say; and the usage   *)
(* counted, or perhaps counted later, leaves room for the attempts to come.*)
UsageInv ==
  /\ told <= counted
  /\ counted + late["usage"] <= told + unread
  /\ counted + late["usage"] + Attempts <= MaxRetries * calls["usage"]

(* The inductive invariant of the calls.                                   *)
CallsInv == CallsTypes /\ UsageInv /\ AnswerStands

(* Another call of the caller leaves room for all of its attempts. *)
LEMMA OneMoreCall ==
  ASSUME NEW a \in Nat, NEW b \in Nat
  PROVE  a * b \in Nat /\ a * (b + 1) = a * b + a
OBVIOUS

(* The server's part of an operation, whatever it answers. *)
LEMMA HandleEffects ==
  ASSUME CallsTypes, NEW op \in Ops, NEW code \in {"yes", "no"}, Handle(op, code)
  PROVE  /\ machine' \in BOOLEAN /\ counted' \in Nat
         /\ op # "usage" => counted' = counted
         /\ op = "usage" => counted' = IF code = "yes" THEN counted + 1 ELSE counted
         /\ op \in {"activate", "heartbeat"} /\ code = "yes" => machine'
         /\ op = "deactivate" \/ (op = "heartbeat" /\ code = "no") => ~machine'
         /\ machine /\ ~machine' => op = "deactivate"
         /\ ~machine /\ machine' => op = "activate"
<1>1. CASE op = "activate"
  BY <1>1 DEF Handle, CallsTypes
<1>2. CASE op = "deactivate"
  <2>1. machine' = FALSE /\ counted' = counted
    BY <1>2 DEF Handle
  <2> QED BY <1>2, <2>1 DEF CallsTypes
<1>4. CASE op = "heartbeat"
  <2>1. machine' = machine /\ counted' = counted /\ (code = "yes" <=> machine)
    BY <1>4 DEF Handle
  <2> QED BY <1>4, <2>1 DEF CallsTypes
<1>3. CASE op = "usage"
  BY <1>3 DEF Handle, CallsTypes
<1> QED BY <1>1, <1>2, <1>3, <1>4 DEF Ops

(* An attempt that failed is repeated, or ends the call with an error. *)
LEMMA RetryEffects ==
  ASSUME CallsTypes, call # NoCall, NEW effect, RetryOrGiveUp(effect)
  PROVE  /\ call' = NoCall \/ call' \in [op : Ops, attempt : 1 .. MaxRetries]
         /\ call.op = "usage" => Attempts' <= Attempts - 1
         /\ call.op # "usage" => Attempts' = 0
         /\ Attempts' \in Nat
         /\ \/ answer' = answer /\ strays' = strays \cup effect
            \/ answer' = [op |-> call.op, code |-> "error"]
<1> USE ClientAssumption
<1>1. call.op \in Ops /\ call.attempt \in 1 .. MaxRetries /\ call \in [op : Ops, attempt : 1 .. MaxRetries]
  BY DEF CallsTypes
<1>2. CASE call.attempt < MaxRetries
  <2>1. call' = [call EXCEPT !.attempt = @ + 1] /\ answer' = answer /\ strays' = strays \cup effect
    BY <1>2 DEF RetryOrGiveUp
  <2>2. call' \in [op : Ops, attempt : 1 .. MaxRetries] /\ call'.op = call.op
        /\ call'.attempt = call.attempt + 1
    BY <1>1, <1>2, <2>1
  <2> QED BY <1>1, <2>1, <2>2 DEF Attempts
<1>3. CASE ~(call.attempt < MaxRetries)
  <2>1. call' = NoCall /\ answer' = [op |-> call.op, code |-> "error"]
    BY <1>3 DEF RetryOrGiveUp, Return
  <2>2. Attempts' = 0
    BY <2>1 DEF Attempts, NoCall
  <2> QED BY <1>1, <1>3, <2>1, <2>2 DEF Attempts
<1> QED BY <1>2, <1>3

(* An answer says what the machine is after it. *)
LEMMA AnsweredStands ==
  ASSUME CallsTypes, call # NoCall, NEW code \in {"yes", "no"},
         Handle(call.op, code), Return(code)
  PROVE  AnswerStands'
<1>1. call.op \in Ops
  BY DEF CallsTypes
<1>2. answer'.op = call.op /\ answer'.code = code
  BY DEF Return
<1> QED BY <1>1, <1>2, HandleEffects DEF AnswerStands

(* A timed-out attempt may still be handled, and takes one of the attempts. *)
LEMMA CallsPreserved == CallsInv /\ ClientNext => CallsInv'
<1> SUFFICES ASSUME CallsInv, ClientNext PROVE CallsInv'
  OBVIOUS
<1> USE ClientAssumption
<1>0. CallsTypes /\ UsageInv /\ AnswerStands
  BY DEF CallsInv
<1>a. /\ call # NoCall => call.op \in Ops /\ call.attempt \in 1 .. MaxRetries
      /\ "usage" \in Ops /\ late["usage"] \in Nat /\ calls["usage"] \in Nat
      /\ MaxRetries * calls["usage"] \in Nat
  BY <1>0, OneMoreCall DEF CallsTypes, Ops
<1>b. NoCall.op = "none" /\ Attempts \in Nat /\ (call # NoCall /\ call.op = "usage" => Attempts >= 1)
  BY <1>0, <1>a DEF Attempts, NoCall, CallsTypes
<1>1. ASSUME NEW op \in Ops, StartCall(op) PROVE CallsInv'
  <2>1. call' \in [op : Ops, attempt : 1 .. MaxRetries] /\ call'.op = op /\ call'.attempt = 1
    BY <1>1 DEF StartCall
  <2>2. calls' = [calls EXCEPT ![op] = @ + 1] /\ calls' \in [Ops -> Nat]
    BY <1>0, <1>1 DEF StartCall, CallsTypes
  <2>3. UNCHANGED <<late, machine, counted, answer, told, unread, strays>> /\ call.op = "none"
    BY <1>1, <1>b DEF StartCall
  <2>4. CallsTypes' /\ AnswerStands'
    BY <1>0, <2>1, <2>2, <2>3 DEF CallsTypes, AnswerStands
  <2>5. Attempts = 0 /\ Attempts' = IF op = "usage" THEN MaxRetries ELSE 0
    BY <2>1, <2>3 DEF Attempts
  <2>6. MaxRetries * calls'["usage"] = MaxRetries * calls["usage"] + IF op = "usage" THEN MaxRetries ELSE 0
    BY <1>0, <1>a, <2>2, OneMoreCall DEF CallsTypes
  <2>7. UsageInv'
    BY <1>0, <1>a, <2>3, <2>5, <2>6 DEF UsageInv, CallsTypes
  <2> QED BY <2>4, <2>7 DEF CallsInv
<1>2. ASSUME NEW op \in Ops, Late(op) PROVE CallsInv'
  <2>1. PICK code \in {"yes", "no"} : Handle(op, code)
    BY <1>2 DEF Late
  <2>2. /\ late[op] \in Nat /\ late[op] > 0 /\ late' = [late EXCEPT ![op] = @ - 1]
        /\ strays' = strays \cup {op} /\ UNCHANGED <<call, answer, calls, told, unread>>
    BY <1>0, <1>2 DEF Late, CallsTypes
  <2>3. late' \in [Ops -> Nat] /\ late'["usage"] = IF op = "usage" THEN late["usage"] - 1 ELSE late["usage"]
    BY <1>0, <1>a, <2>2 DEF CallsTypes
  <2>4. CallsTypes'
    BY <1>0, <2>1, <2>2, <2>3, HandleEffects DEF CallsTypes
  <2>5. UsageInv'
    BY <1>0, <1>a, <1>b, <2>1, <2>2, <2>3, HandleEffects DEF UsageInv, CallsTypes, Attempts
  <2>6. AnswerStands'
    BY <1>0, <2>1, <2>2, HandleEffects DEF AnswerStands
  <2> QED BY <2>4, <2>5, <2>6 DEF CallsInv
<1>3. ASSUME NEW op \in Ops, LostRequest(op) PROVE CallsInv'
  <2>1. /\ late[op] \in Nat /\ late[op] > 0 /\ late' = [late EXCEPT ![op] = @ - 1]
        /\ UNCHANGED <<call, machine, counted, answer, calls, told, unread, strays>>
    BY <1>0, <1>3 DEF LostRequest, CallsTypes
  <2>2. late' \in [Ops -> Nat] /\ late'["usage"] <= late["usage"] /\ late'["usage"] \in Nat
    BY <1>0, <1>a, <2>1 DEF CallsTypes
  <2>3. UsageInv'
    BY <1>0, <1>a, <1>b, <2>1, <2>2 DEF UsageInv, Attempts, CallsTypes
  <2> QED BY <1>0, <2>1, <2>2, <2>3 DEF CallsInv, CallsTypes, AnswerStands
<1>4. CASE Answered \/ Unparseable
  <2>0. call # NoCall /\ UNCHANGED <<late, calls>>
    BY <1>4 DEF Answered, Unparseable
  <2>1. PICK code \in {"yes", "no"}, said \in {"yes", "no", "error"} :
          /\ Handle(call.op, code) /\ Return(said) /\ (said = code \/ said = "error")
          /\ told' = told + (IF said = "yes" THEN IfUsage(1) ELSE 0)
          /\ unread' = unread + (IF said = "error" THEN IfUsage(1) ELSE 0)
    <3>1. CASE Answered
      BY <1>a, <3>1, <1>0 DEF Answered, CallsTypes
    <3>2. CASE Unparseable
      BY <1>a, <3>2, <1>0 DEF Unparseable, CallsTypes
    <3> QED BY <1>4, <3>1, <3>2
  <2>2. /\ call' = NoCall /\ answer' = [op |-> call.op, code |-> said] /\ Attempts' = 0
    BY <2>1, <1>b DEF Return, Attempts
  <2>3. CallsTypes'
    <3>1. told' \in Nat /\ unread' \in Nat
      BY <1>0, <2>1 DEF CallsTypes, IfUsage
    <3>2. answer' \in [op : Ops \cup {"none"}, code : {"yes", "no", "error"}]
      BY <1>a, <2>0, <2>2
    <3> QED BY <1>0, <1>a, <2>0, <2>1, <2>2, <3>1, <3>2, HandleEffects DEF CallsTypes
  <2>4. UsageInv'
    <3>1. CASE call.op = "usage"
      BY <1>0, <1>a, <1>b, <2>0, <2>1, <2>2, <3>1, HandleEffects DEF UsageInv, CallsTypes, IfUsage
    <3>2. CASE call.op # "usage"
      BY <1>0, <1>a, <1>b, <2>0, <2>1, <2>2, <3>2, HandleEffects DEF UsageInv, CallsTypes, IfUsage
    <3> QED BY <3>1, <3>2
  <2>5. AnswerStands'
    <3>1. CASE said = "error"
      BY <2>2, <3>1 DEF AnswerStands
    <3>2. CASE said = code
      BY <1>0, <2>0, <2>1, <3>2, AnsweredStands
    <3> QED BY <2>1, <3>1, <3>2
  <2> QED BY <2>3, <2>4, <2>5 DEF CallsInv
<1>5. CASE ServerError \/ Unreached \/ ClientError
  <2>1. call # NoCall /\ UNCHANGED <<late, machine, counted, calls, told, unread>>
    BY <1>5 DEF ServerError, Unreached, ClientError
  <2>2. /\ call' = NoCall \/ call' \in [op : Ops, attempt : 1 .. MaxRetries]
        /\ Attempts' \in Nat /\ Attempts' <= Attempts
        /\ \/ answer' = answer /\ strays \subseteq strays'
           \/ answer' = [op |-> call.op, code |-> "error"]
    <3>1. CASE RetryOrGiveUp({})
      BY <1>0, <1>a, <1>b, <2>1, <3>1, RetryEffects
    <3>2. CASE Return("error")
      BY <1>b, <3>2 DEF Return, Attempts
    <3> QED BY <1>5, <3>1, <3>2 DEF ServerError, Unreached, ClientError
  <2>3. CallsTypes'
    <3>1. answer' \in [op : Ops \cup {"none"}, code : {"yes", "no", "error"}]
      BY <1>0, <1>a, <2>1, <2>2 DEF CallsTypes
    <3> QED BY <1>0, <2>1, <2>2, <3>1 DEF CallsTypes
  <2>4. UsageInv'
    BY <1>0, <1>a, <1>b, <2>1, <2>2 DEF UsageInv, CallsTypes
  <2>5. AnswerStands'
    BY <1>0, <2>1, <2>2 DEF AnswerStands
  <2> QED BY <2>3, <2>4, <2>5 DEF CallsInv
<1>6. CASE TimedOut
  <2>1. /\ call # NoCall /\ RetryOrGiveUp({}) /\ UNCHANGED <<machine, counted, calls, told>>
        /\ late' = [late EXCEPT ![call.op] = @ + 1] /\ unread' = unread + IfUsage(1)
    BY <1>6 DEF TimedOut
  <2>2. /\ call' = NoCall \/ call' \in [op : Ops, attempt : 1 .. MaxRetries]
        /\ Attempts' \in Nat
        /\ call.op = "usage" => Attempts' <= Attempts - 1
        /\ call.op # "usage" => Attempts' = 0
        /\ \/ answer' = answer /\ strays \subseteq strays'
           \/ answer' = [op |-> call.op, code |-> "error"]
    BY <1>0, <2>1, RetryEffects
  <2>3. /\ late' \in [Ops -> Nat] /\ unread' \in Nat
        /\ late'["usage"] = late["usage"] + IfUsage(1) /\ unread' = unread + IfUsage(1)
    BY <1>0, <1>a, <2>1 DEF CallsTypes, IfUsage
  <2>4. CallsTypes'
    <3>1. answer' \in [op : Ops \cup {"none"}, code : {"yes", "no", "error"}]
      BY <1>0, <1>a, <2>1, <2>2 DEF CallsTypes
    <3> QED BY <1>0, <2>1, <2>2, <2>3, <3>1 DEF CallsTypes
  <2>5. UsageInv'
    BY <1>0, <1>a, <1>b, <2>1, <2>2, <2>3 DEF UsageInv, CallsTypes, IfUsage
  <2>6. AnswerStands'
    BY <1>0, <2>1, <2>2 DEF AnswerStands
  <2> QED BY <2>4, <2>5, <2>6 DEF CallsInv
<1>7. CASE HandledButFailed
  <2>1. /\ call # NoCall /\ RetryOrGiveUp({call.op}) /\ unread' = unread + IfUsage(1)
        /\ UNCHANGED <<late, calls, told>>
    BY <1>7 DEF HandledButFailed
  <2>2. PICK code \in {"yes", "no"} : Handle(call.op, code)
    BY <1>7 DEF HandledButFailed
  <2>3. /\ call' = NoCall \/ call' \in [op : Ops, attempt : 1 .. MaxRetries]
        /\ Attempts' \in Nat
        /\ call.op = "usage" => Attempts' <= Attempts - 1
        /\ call.op # "usage" => Attempts' = 0
        /\ \/ answer' = answer /\ strays' = strays \cup {call.op}
           \/ answer' = [op |-> call.op, code |-> "error"]
    BY <1>0, <2>1, RetryEffects
  <2>4. machine' \in BOOLEAN /\ counted' \in Nat /\ unread' \in Nat
    BY <1>0, <1>a, <2>1, <2>2, HandleEffects DEF CallsTypes, IfUsage
  <2>5. CallsTypes'
    <3>1. answer' \in [op : Ops \cup {"none"}, code : {"yes", "no", "error"}]
      BY <1>0, <1>a, <2>1, <2>3 DEF CallsTypes
    <3> QED BY <1>0, <2>1, <2>3, <2>4, <3>1 DEF CallsTypes
  <2>6. UsageInv'
    <3>1. counted <= counted' /\ counted' <= counted + IfUsage(1)
      BY <1>0, <1>a, <2>1, <2>2, HandleEffects DEF IfUsage, CallsTypes
    <3>2. /\ (call.op = "usage" /\ IfUsage(1) = 1) \/ (call.op # "usage" /\ IfUsage(1) = 0)
          /\ counted \in Nat /\ told \in Nat /\ unread \in Nat
      BY <1>0 DEF IfUsage, CallsTypes
    <3> QED BY <1>0, <1>a, <1>b, <2>1, <2>3, <2>4, <3>1, <3>2 DEF UsageInv
  <2>7. AnswerStands'
    <3>1. CASE answer' = answer /\ strays' = strays \cup {call.op}
      BY <1>0, <1>a, <2>1, <2>2, <3>1, HandleEffects DEF AnswerStands
    <3>2. CASE answer' = [op |-> call.op, code |-> "error"]
      BY <3>2 DEF AnswerStands
    <3> QED BY <2>3, <3>1, <3>2
  <2> QED BY <2>5, <2>6, <2>7 DEF CallsInv
<1> QED BY <1>1, <1>2, <1>3, <1>4, <1>5, <1>6, <1>7 DEF ClientNext

(* What the run checks of the calls. *)
LEMMA CallsFollow == CallsInv => UsageAccounted /\ AnswerStands
<1> SUFFICES ASSUME CallsInv PROVE UsageAccounted
  BY DEF CallsInv
<1>1. CallsTypes /\ UsageInv
  BY DEF CallsInv
<1>2. Attempts \in Nat
  BY <1>1, ClientAssumption DEF Attempts, CallsTypes, NoCall
<1>3. late["usage"] \in Nat /\ calls["usage"] \in Nat /\ MaxRetries * calls["usage"] \in Nat
  BY <1>1, OneMoreCall, ClientAssumption DEF CallsTypes, Ops
<1> QED BY <1>1, <1>2, <1>3 DEF UsageInv, UsageAccounted, CallsTypes

-----------------------------------------------------------------------------
(* Leases                                                                  *)

(* A lease, in memory or in the file, ends in time after an approval. *)
Backed(l) ==
  l # NoLease => /\ l.key \in LeaseKeys /\ approved[l.key] # Never
                 /\ l.until <= approved[l.key] + LeaseTtl

(* The inductive invariant of the leases: what memory and the file hold is *)
(* backed by an approval.                                                  *)
LeaseInv ==
  /\ now \in Time /\ LeaseTypeOK
  /\ Backed(lease) /\ Backed(file)
  /\ process # Never => lease # NoLease /\ lease.until >= process + LeaseTtl
  /\ LeaseBounded

(* The approvals a lease rests on are never taken back. *)
LEMMA StillBacked ==
  ASSUME NEW l, Backed(l), approved \in [LeaseKeys -> Never .. MaxTime],
         approved' \in [LeaseKeys -> Never .. MaxTime],
         \A k \in LeaseKeys : approved[k] <= approved'[k]
  PROVE  l # NoLease => /\ l.key \in LeaseKeys /\ approved'[l.key] # Never
                        /\ (l.until \in Int => l.until <= approved'[l.key] + LeaseTtl)
<1> SUFFICES ASSUME l # NoLease
             PROVE  /\ l.key \in LeaseKeys /\ approved'[l.key] # Never
                    /\ (l.until \in Int => l.until <= approved'[l.key] + LeaseTtl)
  OBVIOUS
<1>1. l.key \in LeaseKeys /\ approved[l.key] # Never /\ l.until <= approved[l.key] + LeaseTtl
  BY DEF Backed
<1>2. approved[l.key] \in Never .. MaxTime /\ approved'[l.key] \in Never .. MaxTime
  BY <1>1
<1> QED BY <1>1, <1>2, LeaseAssumption, MaxTimeAssumption DEF Never

(* A lease is created by an approval, kept in the file, and loaded again. *)
LEMMA LeasePreserved == LeaseInv /\ LeaseNext => LeaseInv'
<1> SUFFICES ASSUME LeaseInv, LeaseNext PROVE LeaseInv'
  OBVIOUS
<1> USE LeaseAssumption, MaxTimeAssumption
<1>0. now \in Time /\ LeaseTypeOK /\ Backed(lease) /\ Backed(file) /\ LeaseBounded
      /\ (process # Never => lease # NoLease /\ lease.until >= process + LeaseTtl)
  BY DEF LeaseInv
<1>a. /\ NoLease \in Leases /\ LeaseTtl \in Nat /\ MaxTime \in Nat /\ Never = -1
      /\ NoOffline \in [code : {"none", "OFFLINE_VALID", "LEASE_EXPIRED", "NO_LEASE"},
                        at : Never .. MaxTime, key : LeaseKeys \cup {"none"}]
  BY DEF NoLease, Leases, Never, NoOffline
<1>b. Never \in Never .. MaxTime
  BY <1>a
<1>1. CASE Tick /\ UNCHANGED leaseVars
  BY <1>0, <1>1 DEF LeaseInv, Tick, Time, leaseVars, LeaseTypeOK, Backed, LeaseBounded
<1>2. ASSUME NEW age \in 0 .. CacheAge, ApprovedOnline(age) PROVE LeaseInv'
  <2> DEFINE at == now - age
             new == [key |-> configured, until |-> at + LeaseTtl]
  <2>1. at \in 0 .. MaxTime /\ configured \in LeaseKeys
    BY <1>0, <1>2 DEF ApprovedOnline, Time, LeaseTypeOK
  <2>2. lease' = new /\ file' \in {new, file} /\ process' = at /\ offline' = NoOffline
        /\ UNCHANGED <<now, configured, valid>>
    BY <1>2 DEF ApprovedOnline, LeaseOf
  <2>3. approved' = [approved EXCEPT ![configured] = IF at > @ THEN at ELSE @]
    BY <1>2 DEF ApprovedOnline
  <2>4. approved \in [LeaseKeys -> Never .. MaxTime] /\ approved[configured] \in Never .. MaxTime
    BY <1>0, <2>1 DEF LeaseTypeOK
  <2> HIDE DEF at
  <2>5. /\ approved' \in [LeaseKeys -> Never .. MaxTime]
        /\ approved'[configured] >= at /\ approved'[configured] # Never
        /\ \A k \in LeaseKeys : approved[k] <= approved'[k]
    <3>0. PICK latest \in Never .. MaxTime :
            latest = IF at > approved[configured] THEN at ELSE approved[configured]
      BY <1>a, <2>1, <2>4
    <3>1. approved' = [approved EXCEPT ![configured] = latest]
      BY <2>3, <3>0
    <3>4. latest >= at /\ latest # Never /\ approved[configured] <= latest
      BY <1>a, <2>1, <2>4, <3>0
    <3>2. approved' \in [LeaseKeys -> Never .. MaxTime] /\ approved'[configured] = latest
          /\ \A k \in LeaseKeys : k # configured => approved'[k] = approved[k]
      BY <2>1, <2>4, <3>1
    <3>3. ASSUME NEW k \in LeaseKeys PROVE approved[k] <= approved'[k]
      <4>1. approved[k] \in Int
        BY <1>a, <2>4
      <4> QED BY <3>2, <3>4, <4>1
    <3> QED BY <3>2, <3>3, <3>4
  <2>6. new \in Leases /\ new # NoLease
    BY <1>a, <2>1 DEF Leases, NoLease
  <2>7. file' \in Leases /\ lease' \in Leases
    BY <1>0, <2>2, <2>6 DEF LeaseTypeOK
  <2>8. Backed(lease)'
    <3>1. new.until <= approved'[configured] + LeaseTtl
      BY <1>a, <2>1, <2>5
    <3> QED BY <2>1, <2>2, <2>5, <3>1 DEF Backed
  <2>9. Backed(file)'
    <3>1. CASE file' = new
      BY <2>2, <2>8, <3>1 DEF Backed
    <3>2. CASE file' = file
      <4>1. file.until \in Int
        BY <1>0, <1>a DEF LeaseTypeOK, Leases
      <4> QED BY <1>0, <2>4, <2>5, <3>2, <4>1, StillBacked DEF Backed
    <3> QED BY <2>2, <3>1, <3>2
  <2>10. LeaseTypeOK'
    BY <1>0, <1>a, <1>b, <2>1, <2>2, <2>5, <2>7 DEF LeaseTypeOK
  <2>11. lease' # NoLease /\ lease'.until >= process' + LeaseTtl
    BY <1>a, <2>1, <2>2, <2>6
  <2>12. LeaseBounded'
    BY <2>2 DEF LeaseBounded, NoOffline
  <2> QED BY <1>0, <2>2, <2>8, <2>9, <2>10, <2>11, <2>12 DEF LeaseInv
<1>3. CASE TornWrite
  <2>1. /\ lease' = NoLease /\ file' = NoLease /\ process' = Never /\ offline' = NoOffline
        /\ approved' = [approved EXCEPT ![configured] = now] /\ UNCHANGED <<now, configured, valid>>
    BY <1>3 DEF TornWrite
  <2>2. approved' \in [LeaseKeys -> Never .. MaxTime]
    BY <1>0, <1>a, <2>1 DEF LeaseTypeOK, Time
  <2>3. LeaseTypeOK'
    BY <1>0, <1>a, <1>b, <2>1, <2>2 DEF LeaseTypeOK
  <2> QED BY <1>0, <2>1, <2>3 DEF LeaseInv, Backed, LeaseBounded, NoOffline
<1>4. CASE ValidateFromCache
  <2>1. offline' = OfflineAnswer /\ UNCHANGED <<now, configured, lease, file, valid, approved, process>>
    BY <1>4 DEF ValidateFromCache
  <2>2. lease \in Leases /\ lease.until \in Int /\ lease.key \in LeaseKeys \cup {"none"}
        /\ now \in Nat /\ now \in Never .. MaxTime
    BY <1>0, <1>a DEF LeaseTypeOK, Leases, Time
  <2>3. LeaseTypeOK'
    <3>1. OfflineAnswer \in [code : {"none", "OFFLINE_VALID", "LEASE_EXPIRED", "NO_LEASE"},
                             at : Never .. MaxTime, key : LeaseKeys \cup {"none"}]
      BY <2>2 DEF OfflineAnswer
    <3> QED BY <1>0, <2>1, <3>1 DEF LeaseTypeOK
  <2>4. offline'.at = now /\ offline'.key = lease.key
        /\ offline'.code = IF lease = NoLease THEN "NO_LEASE"
                           ELSE IF now >= lease.until THEN "LEASE_EXPIRED" ELSE "OFFLINE_VALID"
    BY <2>1 DEF OfflineAnswer
  <2>5. offline'.code = "OFFLINE_VALID" =>
          /\ offline'.key \in LeaseKeys /\ approved'[offline'.key] # Never
          /\ offline'.at < approved'[offline'.key] + LeaseTtl
    <3> SUFFICES ASSUME offline'.code = "OFFLINE_VALID"
                 PROVE  /\ lease.key \in LeaseKeys /\ approved[lease.key] # Never
                        /\ now < approved[lease.key] + LeaseTtl
      BY <2>1, <2>4
    <3>1. lease # NoLease /\ ~(now >= lease.until)
      BY <2>4
    <3>2. lease.key \in LeaseKeys /\ approved[lease.key] # Never
          /\ lease.until <= approved[lease.key] + LeaseTtl
      BY <1>0, <3>1 DEF Backed
    <3>3. approved[lease.key] \in Int
      BY <1>0, <1>a, <3>2 DEF LeaseTypeOK
    <3> QED BY <1>a, <2>2, <3>1, <3>2, <3>3
  <2>6. offline'.code \in {"LEASE_EXPIRED", "NO_LEASE"} =>
          process' = Never \/ offline'.at >= process' + LeaseTtl
    <3>1. process \in Int
      BY <1>0, <1>a DEF LeaseTypeOK
    <3> QED BY <1>0, <1>a, <2>1, <2>2, <2>4, <3>1
  <2>7. LeaseBounded'
    BY <2>5, <2>6 DEF LeaseBounded
  <2> QED BY <1>0, <2>1, <2>3, <2>7 DEF LeaseInv, Backed
<1>5. ASSUME NEW key \in LeaseKeys, RestartClient(key) PROVE LeaseInv'
  <2>1. configured' = key /\ lease' = file /\ process' = Never /\ offline' = NoOffline
        /\ UNCHANGED <<now, file, valid, approved>>
    BY <1>5 DEF RestartClient
  <2>2. LeaseTypeOK'
    BY <1>0, <1>a, <1>b, <2>1 DEF LeaseTypeOK
  <2> QED BY <1>0, <2>1, <2>2 DEF LeaseInv, Backed, LeaseBounded, NoOffline
<1>6. ASSUME NEW key \in LeaseKeys, LicenceChanges(key) PROVE LeaseInv'
  <2>1. UNCHANGED <<now, configured, lease, file, offline, approved, process>>
        /\ valid' \in [LeaseKeys -> BOOLEAN]
    BY <1>0, <1>6 DEF LicenceChanges, LeaseTypeOK
  <2> QED BY <1>0, <2>1 DEF LeaseInv, LeaseTypeOK, Backed, LeaseBounded
<1> QED BY <1>1, <1>2, <1>3, <1>4, <1>5, <1>6 DEF LeaseNext

-----------------------------------------------------------------------------
(* The health monitor                                                      *)

InFlight(p) == IF p \in probing THEN 1 ELSE 0

(* The count of failures in a row is that of the history, and every probe  *)
(* in flight has been counted.                                             *)
HealthInv ==
  /\ HealthTypeOK
  /\ health.consecutive = misses
  /\ ~health.healthy => blind \/ misses >= Threshold
  /\ health.healthy => ~blind /\ misses < Threshold
  /\ health.failures <= ended /\ ended + InFlight("caller") + InFlight("loop") <= health.checks

ConnectionHealth == [healthy : BOOLEAN, consecutive : Nat, checks : 0 .. MaxProbes, failures : Nat]

(* One more failure, counted from n. *)
LEMMA FailureCounted ==
  ASSUME NEW h \in ConnectionHealth, NEW n \in Nat
  PROVE  LET f == FailedAfter(h, n)
         IN /\ f \in ConnectionHealth
            /\ f.consecutive = n + 1 /\ f.failures = h.failures + 1 /\ f.checks = h.checks
            /\ f.healthy <=> h.healthy /\ n + 1 < Threshold
<1> DEFINE a == [h EXCEPT !.consecutive = n + 1]
           b == [a EXCEPT !.failures = @ + 1]
           c == [b EXCEPT !.healthy = IF n + 1 >= Threshold THEN FALSE ELSE @]
<1>1. a \in ConnectionHealth /\ a.consecutive = n + 1 /\ a.failures = h.failures
      /\ a.checks = h.checks /\ a.healthy = h.healthy
  BY DEF ConnectionHealth
<1>2. FailedAfter(h, n) = c
  BY DEF FailedAfter, ConnectionHealth
<1> HIDE DEF a
<1>3. b \in ConnectionHealth /\ b.consecutive = n + 1 /\ b.failures = h.failures + 1
      /\ b.checks = h.checks /\ b.healthy = h.healthy
  BY <1>1 DEF ConnectionHealth
<1> HIDE DEF b
<1>4. c \in ConnectionHealth /\ c.consecutive = n + 1 /\ c.failures = h.failures + 1
      /\ c.checks = h.checks /\ (c.healthy <=> h.healthy /\ n + 1 < Threshold)
  <2>1. CASE n + 1 >= Threshold
    <3>1. c = [b EXCEPT !.healthy = FALSE]
      BY <2>1
    <3>2. ~(n + 1 < Threshold)
      BY <2>1, HealthAssumption
    <3> QED BY <1>3, <3>1, <3>2 DEF ConnectionHealth
  <2>2. CASE ~(n + 1 >= Threshold)
    BY <1>3, <2>2, HealthAssumption DEF ConnectionHealth
  <2> QED BY <2>1, <2>2
<1> QED BY <1>2, <1>4

(* A probe that ends is counted once, or as a success and a failure at most. *)
LEMMA HealthPreserved == HealthInv /\ HealthNext => HealthInv'
<1> SUFFICES ASSUME HealthInv, HealthNext PROVE HealthInv'
  OBVIOUS
<1> USE HealthAssumption
<1> DEFINE Status == ConnectionHealth
<1>0. /\ HealthTypeOK /\ health \in Status
      /\ health.consecutive \in Nat /\ health.checks \in 0 .. MaxProbes /\ health.failures \in Nat
      /\ health.healthy \in BOOLEAN /\ misses \in Nat /\ ended \in Nat
      /\ \A p \in Probers : InFlight(p) \in 0 .. 1 /\ (InFlight(p) = 1 <=> p \in probing)
      /\ Probers = {"loop", "caller"}
  BY DEF HealthInv, HealthTypeOK, InFlight, Probers, ConnectionHealth
<1>1. CASE StartMonitor \/ StopMonitor \/ EngineChanges
  <2>1. UNCHANGED <<health, ended, blind, misses>> /\ monitoring' \in BOOLEAN
        /\ engine' \in BOOLEAN /\ probing' \subseteq probing
    BY <1>0, <1>1 DEF StartMonitor, StopMonitor, EngineChanges, HealthTypeOK
  <2>2. \A p \in Probers : InFlight(p)' \in 0 .. 1 /\ InFlight(p)' <= InFlight(p)
    BY <2>1 DEF InFlight
  <2>3. HealthTypeOK'
    BY <1>0, <2>1 DEF HealthTypeOK, ConnectionHealth
  <2>4. ended + InFlight("caller")' + InFlight("loop")' <= health.checks
    BY <1>0, <2>2 DEF HealthInv
  <2> QED BY <2>1, <2>3, <2>4 DEF HealthInv
<1>2. ASSUME NEW p \in Probers, BeginProbe(p) PROVE HealthInv'
  <2>1. CASE engine
    <3>1. /\ p \notin probing /\ health.checks < MaxProbes
          /\ health' = [health EXCEPT !.checks = @ + 1] /\ probing' = probing \cup {p}
          /\ UNCHANGED <<blind, monitoring, engine, ended, misses>>
      BY <1>2, <2>1 DEF BeginProbe
    <3>2. /\ health' \in Status /\ health'.checks = health.checks + 1
          /\ health'.consecutive = health.consecutive /\ health'.failures = health.failures
          /\ health'.healthy = health.healthy
      BY <1>0, <3>1 DEF ConnectionHealth
    <3>3. HealthTypeOK'
      BY <1>0, <3>1, <3>2 DEF HealthTypeOK, ConnectionHealth
    <3>4. \A q \in Probers : InFlight(q)' = IF q = p THEN InFlight(q) + 1 ELSE InFlight(q)
      BY <3>1 DEF InFlight
    <3>5. ended + InFlight("caller")' + InFlight("loop")' <= health.checks + 1
      BY <1>0, <3>4 DEF HealthInv
    <3> QED BY <3>1, <3>2, <3>3, <3>5 DEF HealthInv
  <2>2. CASE ~engine
    <3>1. /\ health' = [health EXCEPT !.healthy = FALSE] /\ blind' = TRUE
          /\ UNCHANGED <<probing, monitoring, engine, ended, misses>>
      BY <1>2, <2>2 DEF BeginProbe
    <3>2. /\ health' \in Status /\ health'.checks = health.checks
          /\ health'.consecutive = health.consecutive /\ health'.failures = health.failures
          /\ ~health'.healthy
      BY <1>0, <3>1 DEF ConnectionHealth
    <3>3. HealthTypeOK'
      BY <1>0, <3>1, <3>2 DEF HealthTypeOK, ConnectionHealth
    <3> QED BY <3>1, <3>2, <3>3 DEF HealthInv, InFlight
  <2> QED BY <2>1, <2>2
<1>3. ASSUME NEW p \in Probers, p \in probing, probing' = probing \ {p}, ended' = ended + 1
      PROVE  /\ probing' \subseteq Probers
             /\ ended' \in 0 .. MaxProbes
             /\ ended' + InFlight("caller")' + InFlight("loop")' <= health.checks
  <2>1. \A q \in Probers : InFlight(q)' = IF q = p THEN InFlight(q) - 1 ELSE InFlight(q)
    BY <1>3 DEF InFlight
  <2>2. ended' + InFlight("caller")' + InFlight("loop")' <= health.checks
    BY <1>0, <1>3, <2>1 DEF HealthInv
  <2>3. InFlight("caller")' \in Nat /\ InFlight("loop")' \in Nat
    BY DEF InFlight
  <2> QED BY <1>0, <1>3, <2>2, <2>3 DEF HealthTypeOK, ConnectionHealth
<1>4. ASSUME NEW p \in Probers, ProbeAnswers(p) PROVE HealthInv'
  <2> DEFINE ok == [health EXCEPT !.consecutive = 0, !.healthy = TRUE]
  <2>1. /\ p \in probing /\ probing' = probing \ {p} /\ ended' = ended + 1 /\ blind' = FALSE
        /\ health' = (IF engine THEN ok ELSE FailedAfter(ok, 0))
        /\ misses' = (IF engine THEN 0 ELSE 1) /\ UNCHANGED <<monitoring, engine>>
    BY <1>4 DEF ProbeAnswers
  <2>2. ok \in Status /\ ok.consecutive = 0 /\ ok.healthy = TRUE /\ ok.checks = health.checks
        /\ ok.failures = health.failures
    BY <1>0 DEF ConnectionHealth
  <2>3. /\ health' \in Status /\ health'.consecutive = misses' /\ health'.checks = health.checks
        /\ health'.failures <= health.failures + 1 /\ (health'.healthy <=> misses' < Threshold)
    <3>1. CASE engine
      BY <1>0, <2>1, <2>2, <3>1
    <3>2. CASE ~engine
      <4>1. PICK h \in ConnectionHealth : h = ok
        BY <2>2
      <4>2. health' = FailedAfter(h, 0) /\ misses' = 1
        BY <2>1, <3>2, <4>1
      <4>3. h.consecutive = 0 /\ h.healthy = TRUE /\ h.checks = health.checks
            /\ h.failures = health.failures
        BY <2>2, <4>1
      <4> HIDE DEF ok
      <4>4. /\ health' \in Status /\ health'.consecutive = 0 + 1 /\ health'.failures = h.failures + 1
            /\ health'.checks = h.checks
            /\ health'.healthy <=> h.healthy /\ 0 + 1 < Threshold
        BY <4>2, FailureCounted
      <4> QED BY <1>0, <4>2, <4>3, <4>4
    <3> QED BY <3>1, <3>2
  <2>4. health'.failures <= ended'
    BY <1>0, <2>1, <2>3 DEF HealthInv, ConnectionHealth
  <2>5. HealthTypeOK'
    BY <1>0, <1>3, <2>1, <2>3 DEF HealthTypeOK, ConnectionHealth
  <2>6. health'.healthy \in BOOLEAN /\ misses' \in Nat
    BY <2>5 DEF HealthTypeOK, ConnectionHealth
  <2> QED BY <1>3, <2>1, <2>3, <2>4, <2>5, <2>6 DEF HealthInv
<1>5. ASSUME NEW p \in Probers, ProbeFails(p) PROVE HealthInv'
  <2>1. /\ p \in probing /\ probing' = probing \ {p} /\ ended' = ended + 1
        /\ misses' = misses + 1 /\ UNCHANGED <<monitoring, engine, blind>>
        /\ health' = FailedAfter(health, health.consecutive)
    BY <1>5 DEF ProbeFails
  <2>2. /\ health' \in Status /\ health'.consecutive = health.consecutive + 1
        /\ health'.checks = health.checks /\ health'.failures = health.failures + 1
        /\ health'.healthy <=> health.healthy /\ health.consecutive + 1 < Threshold
    BY <1>0, <2>1, FailureCounted
  <2>3. HealthTypeOK'
    BY <1>0, <1>3, <2>1, <2>2 DEF HealthTypeOK, ConnectionHealth
  <2>4. (~health'.healthy => blind \/ misses' >= Threshold) /\ (health'.healthy => ~blind /\ misses' < Threshold)
    BY <1>0, <2>1, <2>2 DEF HealthInv
  <2>5. health'.failures <= ended' /\ health'.consecutive = misses'
    BY <1>0, <2>1, <2>2 DEF HealthInv
  <2> QED BY <1>3, <2>1, <2>2, <2>3, <2>4, <2>5 DEF HealthInv
<1> QED BY <1>1, <1>2, <1>4, <1>5 DEF HealthNext

(* What the run checks of the health monitor. *)
LEMMA HealthFollows == HealthInv => HealthEarned
BY DEF HealthInv, HealthEarned, InFlight, HealthTypeOK

-----------------------------------------------------------------------------
(* The circuit breaker                                                     *)

NexusCounts == failures \in Nat /\ flying \in Int

(* Nothing but an answer resets the failures that hold the breaker open. *)
LEMMA NexusPreserved == NexusCounts /\ NexusNext => NexusCounts' /\ BreakerStep
<1> SUFFICES ASSUME NexusCounts, NexusNext PROVE NexusCounts' /\ BreakerStep
  OBVIOUS
<1> USE BreakerAssumption DEF NexusCounts, BreakerStep, IsAvailable
<1>1. CASE Call
  BY <1>1 DEF Call
<1>2. CASE CallSucceeds
  BY <1>2 DEF CallSucceeds
<1>3. CASE CallFails
  BY <1>3 DEF CallFails
<1>4. CASE CallUnparseable
  BY <1>4 DEF CallUnparseable
<1>5. CASE StartHealth
  BY <1>5 DEF StartHealth
<1>6. CASE EndHealth
  BY <1>6 DEF EndHealth
<1> QED BY <1>1, <1>2, <1>3, <1>4, <1>5, <1>6 DEF NexusNext

-----------------------------------------------------------------------------
(* Stripe events                                                           *)

Busy(l) == loops[l].is = "busy"
Ended(e) == \E f \in Fates : e \in done[f]

(* What the queue, the loops and the fates may hold.                       *)
StripeTypes ==
  /\ stripe \in [running : BOOLEAN, task : {0} \cup Loops, stopping : {0} \cup Loops,
                 received : 0 .. MaxEvents]
  /\ queue \in Seq(Events)
  /\ loops \in [Loops -> [is : {"none", "waiting", "busy"}, event : {0} \cup Events]]
  /\ done \in [Fates -> SUBSET Events]
  /\ \A l \in Loops : Busy(l) \/ loops[l].event = 0

(* The inductive invariant of the Stripe queue.                            *)
StripeInv == StripeTypes /\ EventsAccounted

(* EventsAccounted, event by event. *)
EveryEvent ==
  /\ \A e : e \in 1 .. stripe.received <=>
              e \in Queued \/ (\E l \in Loops : Busy(l) /\ e = loops[l].event) \/ Ended(e)
  /\ \A l \in Loops : Busy(l) => loops[l].event \notin Queued
  /\ \A f \in Fates : \A e \in done[f] :
       e \notin Queued /\ \A l \in Loops : Busy(l) => e # loops[l].event
  /\ \A f, g \in Fates : f # g => \A e \in done[f] : e \notin done[g]
  /\ \A i, j \in DOMAIN queue : i < j => queue[i] < queue[j]
  /\ \A l, m \in Loops : l # m /\ Busy(l) => loops[l].event # loops[m].event

(* The events in hand, by the loop that holds each. *)
LEMMA HandsAre == \A e : e \in InHand <=> \E l \in Loops : Busy(l) /\ e = loops[l].event
BY DEF InHand, Busy

(* The account of the events, as a statement about each event. *)
LEMMA EventByEvent == EventsAccounted <=> EveryEvent
<1>1. \A e : e \in UNION {done[f] : f \in Fates} <=> Ended(e)
  BY DEF Ended
<1>2. ASSUME EventsAccounted PROVE EveryEvent
  BY <1>1, <1>2, HandsAre DEF EventsAccounted, EveryEvent, Busy
<1>3. ASSUME EveryEvent PROVE EventsAccounted
  <2>1. 1 .. stripe.received = Queued \cup InHand \cup UNION {done[f] : f \in Fates}
    BY <1>1, <1>3, HandsAre DEF EveryEvent
  <2>2. Queued \cap InHand = {} /\ \A f \in Fates : done[f] \cap (Queued \cup InHand) = {}
    BY <1>3, HandsAre DEF EveryEvent
  <2>3. \A f, g \in Fates : f # g => done[f] \cap done[g] = {}
    BY <1>3 DEF EveryEvent
  <2> QED BY <1>3, <2>1, <2>2, <2>3 DEF EventsAccounted, EveryEvent, Busy
<1> QED BY <1>2, <1>3

Increasing(q) == \A i, j \in DOMAIN q : i < j => q[i] < q[j]
Elements(q) == {q[i] : i \in DOMAIN q}

(* An event numbered after all that wait goes to the end of the queue. *)
LEMMA Enqueued ==
  ASSUME NEW q \in Seq(Events), NEW n \in Events, Increasing(q), \A e \in Elements(q) : e < n
  PROVE  /\ Append(q, n) \in Seq(Events) /\ Increasing(Append(q, n))
         /\ \A e : e \in Elements(Append(q, n)) <=> e \in Elements(q) \/ e = n
<1> DEFINE r == Append(q, n)
<1>1. /\ r \in Seq(Events) /\ Len(r) = Len(q) + 1 /\ Len(q) \in Nat /\ r[Len(q) + 1] = n
      /\ \A i \in 1 .. Len(q) : r[i] = q[i]
      /\ DOMAIN q = 1 .. Len(q) /\ DOMAIN r = 1 .. Len(q) + 1
  OBVIOUS
<1>2. \A e : e \in Elements(r) <=> e \in Elements(q) \/ e = n
  <2>1. \A i \in DOMAIN r : i \in DOMAIN q \/ i = Len(q) + 1
    BY <1>1
  <2>2. DOMAIN q \subseteq DOMAIN r /\ Len(q) + 1 \in DOMAIN r
    BY <1>1
  <2> HIDE DEF r
  <2> QED BY <1>1, <2>1, <2>2 DEF Elements
<1>3. Increasing(r)
  <2>1. ASSUME NEW i \in DOMAIN r, NEW j \in DOMAIN r, i < j PROVE r[i] < r[j]
    <3>1. i \in 1 .. Len(q) /\ r[i] = q[i] /\ q[i] \in Elements(q)
      BY <1>1, <2>1 DEF Elements
    <3>2. CASE j = Len(q) + 1
      BY <1>1, <3>1, <3>2
    <3>3. CASE j \in 1 .. Len(q)
      BY <1>1, <2>1, <3>1, <3>3 DEF Increasing
    <3> QED BY <1>1, <3>2, <3>3
  <2> QED BY <2>1 DEF Increasing
<1> QED BY <1>1, <1>2, <1>3

(* The head of an increasing queue is in no other place of it. *)
LEMMA Dequeued ==
  ASSUME NEW q \in Seq(Events), q # <<>>, Increasing(q)
  PROVE  /\ Tail(q) \in Seq(Events) /\ Increasing(Tail(q)) /\ Head(q) \in Events
         /\ \A e : e \in Elements(q) <=> e \in Elements(Tail(q)) \/ e = Head(q)
         /\ Head(q) \notin Elements(Tail(q))
<1> DEFINE r == Tail(q)
<1>1. /\ r \in Seq(Events) /\ Len(r) = Len(q) - 1 /\ Len(q) \in Nat \ {0} /\ Head(q) = q[1]
      /\ \A i \in 1 .. Len(q) - 1 : r[i] = q[i + 1]
      /\ DOMAIN q = 1 .. Len(q) /\ DOMAIN r = 1 .. Len(q) - 1
  OBVIOUS
<1> HIDE DEF r
<1>2. \A i \in DOMAIN q : i = 1 \/ (i - 1 \in DOMAIN r /\ q[i] = r[i - 1])
  BY <1>1
<1>3. \A i \in DOMAIN r : i + 1 \in DOMAIN q /\ r[i] = q[i + 1] /\ i \in Nat /\ 1 < i + 1
  BY <1>1
<1>4. Increasing(r)
  <2>1. ASSUME NEW i \in DOMAIN r, NEW j \in DOMAIN r, i < j PROVE r[i] < r[j]
    <3>1. i + 1 < j + 1
      BY <1>1, <2>1
    <3> QED BY <1>3, <2>1, <3>1 DEF Increasing
  <2> QED BY <2>1 DEF Increasing
<1>5. 1 \in DOMAIN q /\ q[1] \in Events /\ Events \subseteq Nat
  <2>1. 1 \in 1 .. Len(q)
    BY <1>1
  <2>2. Events \subseteq Nat
    BY StripeAssumption DEF Events
  <2> QED BY <1>1, <2>1, <2>2
<1>6. \A e : e \in Elements(q) <=> e \in Elements(r) \/ e = q[1]
  <2>1. ASSUME NEW i \in DOMAIN q PROVE q[i] \in Elements(r) \/ q[i] = q[1]
    BY <1>2 DEF Elements
  <2>2. ASSUME NEW i \in DOMAIN r PROVE r[i] \in Elements(q)
    BY <1>3 DEF Elements
  <2>3. q[1] \in Elements(q)
    BY <1>5 DEF Elements
  <2> QED BY <2>1, <2>2, <2>3 DEF Elements
<1>7. q[1] \notin Elements(r)
  <2>1. ASSUME NEW i \in DOMAIN r PROVE q[1] < r[i] /\ r[i] \in Nat
    <3>1. i + 1 \in DOMAIN q /\ r[i] = q[i + 1] /\ 1 < i + 1
      BY <1>3
    <3>2. q[1] < q[i + 1]
      BY <1>5, <3>1 DEF Increasing
    <3>3. r[i] \in Events
      BY <1>1
    <3> QED BY <1>5, <3>1, <3>2, <3>3
  <2>2. \A i \in DOMAIN r : q[1] # r[i]
    BY <1>5, <2>1
  <2> QED BY <2>2 DEF Elements
<1> QED BY <1>1, <1>4, <1>5, <1>6, <1>7 DEF r

(* An event moves from the sender to the queue, to one loop, to one fate. *)
LEMMA StripePreserved == StripeInv /\ StripeNext => StripeInv'
<1>p. (EventsAccounted <=> EveryEvent)'
  BY EventByEvent, PTL
<1> SUFFICES ASSUME StripeInv, StripeNext PROVE StripeTypes' /\ EveryEvent'
  BY <1>p DEF StripeInv
<1> USE StripeAssumption
<1>0. StripeTypes /\ EveryEvent
  BY EventByEvent DEF StripeInv
<1>1. /\ Queued = Elements(queue) /\ Queued' = Elements(queue') /\ Increasing(queue)
      /\ stripe.received \in Nat /\ stripe.received \in 0 .. MaxEvents
  BY <1>0 DEF Queued, Elements, Increasing, EveryEvent, StripeTypes
<1>2. CASE Enqueue
  <2>1. PICK n \in Nat : n = stripe.received + 1
    BY <1>1
  <2>2. /\ stripe.received < MaxEvents /\ stripe' = [stripe EXCEPT !.received = n] /\ UNCHANGED loops
    BY <1>2, <2>1 DEF Enqueue
  <2>3. /\ stripe' \in [running : BOOLEAN, task : {0} \cup Loops, stopping : {0} \cup Loops,
                        received : 0 .. MaxEvents]
        /\ stripe'.received = n /\ n \in Events
    BY <1>0, <1>1, <2>1, <2>2 DEF StripeTypes, Events
  <2>4. \A e : e \in 1 .. stripe'.received <=> e \in 1 .. stripe.received \/ e = n
    BY <1>1, <2>1, <2>3
  <2>5. n \notin 1 .. stripe.received /\ \A e \in 1 .. stripe.received : e < n
    BY <1>1, <2>1
  <2>6. /\ n \notin Queued /\ \A e \in Queued : e < n
        /\ \A l \in Loops : Busy(l) => loops[l].event # n
        /\ \A f \in Fates : n \notin done[f]
    BY <1>0, <2>5 DEF EveryEvent, Ended
  <2>7. CASE Len(queue) < QueueSize
    <3>1. queue' = Append(queue, n) /\ UNCHANGED done
      BY <1>2, <2>2, <2>3, <2>7 DEF Enqueue
    <3>2. queue' \in Seq(Events) /\ Increasing(queue') /\ \A e : e \in Queued' <=> e \in Queued \/ e = n
      BY <1>0, <1>1, <2>3, <2>6, <3>1, Enqueued DEF StripeTypes
    <3>3. StripeTypes'
      BY <1>0, <2>2, <2>3, <3>1, <3>2 DEF StripeTypes, Busy
    <3>4. \A e : e \in 1 .. stripe'.received <=>
                   e \in Queued' \/ (\E l \in Loops : Busy(l)' /\ e = loops'[l].event) \/ Ended(e)'
      BY <1>0, <2>2, <2>4, <3>1, <3>2 DEF EveryEvent, Busy, Ended
    <3> QED BY <1>0, <2>2, <2>6, <3>1, <3>2, <3>3, <3>4 DEF EveryEvent, Busy, Increasing
  <2>8. CASE ~(Len(queue) < QueueSize)
    <3>1. done' = [done EXCEPT !["dropped"] = @ \cup {n}] /\ UNCHANGED queue
      BY <1>2, <2>2, <2>3, <2>8 DEF Enqueue, End
    <3>2. done' \in [Fates -> SUBSET Events]
          /\ \A f \in Fates : \A e : e \in done'[f] <=> e \in done[f] \/ (f = "dropped" /\ e = n)
      BY <1>0, <2>3, <3>1 DEF StripeTypes, Fates
    <3>3. StripeTypes' /\ Queued' = Queued
      BY <1>0, <1>1, <2>2, <2>3, <3>1, <3>2 DEF StripeTypes, Busy
    <3>4. \A e : e \in 1 .. stripe'.received <=>
                   e \in Queued' \/ (\E l \in Loops : Busy(l)' /\ e = loops'[l].event) \/ Ended(e)'
      <4>1. \A e : Ended(e)' <=> Ended(e) \/ e = n
        BY <3>2 DEF Ended, Fates
      <4> QED BY <1>0, <2>2, <2>4, <3>3, <4>1 DEF EveryEvent, Busy
    <3> QED BY <1>0, <2>2, <2>6, <3>1, <3>2, <3>3, <3>4 DEF EveryEvent, Busy
  <2> QED BY <2>7, <2>8
<1>3. CASE StartStripe
  <2>1. PICK l \in Loops : /\ loops[l] = NoLoop
                           /\ stripe' = [stripe EXCEPT !.running = TRUE, !.task = l]
                           /\ loops' = [loops EXCEPT ![l] = Waiting]
    BY <1>3 DEF StartStripe
  <2>2. UNCHANGED <<queue, done>> /\ stripe'.received = stripe.received
    BY <1>0, <1>3, <2>1 DEF StartStripe, StripeTypes
  <2>3. \A m \in Loops : (Busy(m)' <=> Busy(m)) /\ loops'[m].event = loops[m].event
    BY <1>0, <2>1 DEF StripeTypes, Busy, NoLoop, Waiting
  <2>4. StripeTypes'
    BY <1>0, <2>1, <2>2, <2>3 DEF StripeTypes, Waiting
  <2> QED BY <1>0, <1>1, <2>2, <2>3, <2>4 DEF EveryEvent, Ended
<1>4. CASE StopStripe
  <2>1. /\ stripe' = [stripe EXCEPT !.running = FALSE, !.stopping = stripe.task]
        /\ UNCHANGED <<queue, loops, done>>
    BY <1>4 DEF StopStripe
  <2>2. StripeTypes' /\ stripe'.received = stripe.received
    BY <1>0, <2>1 DEF StripeTypes, Busy
  <2> QED BY <1>0, <1>1, <2>1, <2>2 DEF EveryEvent, Ended, Busy
<1>5. ASSUME NEW l \in Loops, NEW fate \in Fates, Busy(l), ~Busy(l)',
             \A m \in Loops \ {l} : loops'[m] = loops[m], loops'[l].event = 0,
             done' = [done EXCEPT ![fate] = @ \cup {loops[l].event}],
             stripe'.received = stripe.received, queue' = queue
      PROVE  EveryEvent' /\ done' \in [Fates -> SUBSET Events]
  <2>1. PICK e0 : e0 = loops[l].event
    OBVIOUS
  <2>2. e0 \in Events /\ \A f \in Fates : e0 \notin done[f]
    BY <1>0, <1>1, <1>5, <2>1 DEF EveryEvent, Events
  <2>3. done' \in [Fates -> SUBSET Events]
        /\ \A f \in Fates : \A e : e \in done'[f] <=> e \in done[f] \/ (f = fate /\ e = e0)
    BY <1>0, <1>5, <2>1, <2>2 DEF StripeTypes
  <2>4. \A m \in Loops : (Busy(m)' <=> Busy(m) /\ m # l) /\ (m # l => loops'[m] = loops[m])
    BY <1>5 DEF Busy
  <2>5. \A e : Ended(e)' <=> Ended(e) \/ e = e0
    BY <2>3 DEF Ended
  <2>6. Queued' = Queued /\ e0 \notin Queued /\ \A m \in Loops : m # l /\ Busy(m) => loops[m].event # e0
    BY <1>0, <1>1, <1>5, <2>1 DEF EveryEvent
  <2>7. \A e : e \in 1 .. stripe'.received <=>
                 e \in Queued' \/ (\E m \in Loops : Busy(m)' /\ e = loops'[m].event) \/ Ended(e)'
    BY <1>0, <1>5, <2>1, <2>4, <2>5, <2>6 DEF EveryEvent
  <2>8. /\ \A m \in Loops : Busy(m)' => loops'[m].event \notin Queued'
        /\ \A f \in Fates : \A e \in done'[f] :
             e \notin Queued' /\ \A m \in Loops : Busy(m)' => e # loops'[m].event
    BY <1>0, <2>3, <2>4, <2>6 DEF EveryEvent
  <2>9. \A f, g \in Fates : f # g => \A e \in done'[f] : e \notin done'[g]
    BY <1>0, <2>2, <2>3 DEF EveryEvent
  <2>10. \A m, k \in Loops : m # k /\ Busy(m)' => loops'[m].event # loops'[k].event
    <3>1. ASSUME NEW m \in Loops, NEW k \in Loops, m # k, Busy(m)'
          PROVE  loops'[m].event # loops'[k].event
      <4>1. Busy(m) /\ m # l /\ loops'[m] = loops[m] /\ loops[m].event \in Events
        BY <1>0, <1>1, <2>4, <3>1 DEF EveryEvent, Events
      <4>2. CASE k = l
        BY <1>5, <4>1, <4>2 DEF Events
      <4>3. CASE k # l
        BY <1>0, <2>4, <3>1, <4>1, <4>3 DEF EveryEvent
      <4> QED BY <4>2, <4>3
    <3> QED BY <3>1
  <2> QED BY <1>0, <1>5, <2>3, <2>7, <2>8, <2>9, <2>10 DEF EveryEvent
<1>6. CASE LoopCancelled
  <2>0. PICK l \in Loops : l = stripe.stopping
    BY <1>0, <1>6 DEF LoopCancelled, StripeTypes
  <2>1. /\ loops' = [loops EXCEPT ![l] = NoLoop] /\ queue' = queue
        /\ done' = [done EXCEPT !["lost"] = @ \cup IF Busy(l) THEN {loops[l].event} ELSE {}]
        /\ stripe' = [stripe EXCEPT !.stopping = 0, !.task = 0]
    BY <1>6, <2>0 DEF LoopCancelled, End, Busy
  <2>2. stripe'.received = stripe.received
        /\ stripe' \in [running : BOOLEAN, task : {0} \cup Loops, stopping : {0} \cup Loops,
                        received : 0 .. MaxEvents]
    BY <1>0, <2>1 DEF StripeTypes
  <2>3. /\ \A m \in Loops \ {l} : loops'[m] = loops[m]
        /\ loops'[l] = NoLoop /\ ~Busy(l)' /\ loops'[l].event = 0
        /\ loops' \in [Loops -> [is : {"none", "waiting", "busy"}, event : {0} \cup Events]]
    BY <1>0, <2>1 DEF StripeTypes, NoLoop, Busy
  <2>4. CASE Busy(l)
    <3>1. done' = [done EXCEPT !["lost"] = @ \cup {loops[l].event}] /\ "lost" \in Fates
      BY <2>1, <2>4 DEF Fates
    <3>2. EveryEvent' /\ done' \in [Fates -> SUBSET Events]
      BY <1>5, <2>1, <2>2, <2>3, <2>4, <3>1
    <3> QED BY <1>0, <2>1, <2>2, <2>3, <3>2 DEF StripeTypes, Busy
  <2>5. CASE ~Busy(l)
    <3>1. done' = done
      BY <1>0, <2>1, <2>5 DEF StripeTypes
    <3>2. \A m \in Loops : (Busy(m)' <=> Busy(m)) /\ loops'[m].event = loops[m].event
      BY <1>0, <2>1, <2>3, <2>5 DEF StripeTypes, Busy
    <3>3. StripeTypes'
      BY <1>0, <2>1, <2>2, <2>3, <3>1, <3>2 DEF StripeTypes
    <3> QED BY <1>0, <1>1, <2>1, <2>2, <3>1, <3>2, <3>3 DEF EveryEvent, Ended
  <2> QED BY <2>4, <2>5
<1>7. ASSUME NEW l \in Loops, Take(l) PROVE StripeTypes' /\ EveryEvent'
  <2>1. PICK e0 : e0 = Head(queue)
    OBVIOUS
  <2>2. /\ loops[l] = Waiting /\ queue # <<>> /\ queue' = Tail(queue)
        /\ loops' = [loops EXCEPT ![l] = [is |-> "busy", event |-> e0]]
        /\ UNCHANGED <<stripe, done>>
    BY <1>7, <2>1 DEF Take
  <2>3. /\ queue' \in Seq(Events) /\ Increasing(queue') /\ e0 \in Events
        /\ (\A e : e \in Queued <=> e \in Queued' \/ e = e0) /\ e0 \notin Queued'
    BY <1>0, <1>1, <2>1, <2>2, Dequeued DEF StripeTypes
  <2>4. /\ \A m \in Loops : (Busy(m)' <=> Busy(m) \/ m = l) /\ (m # l => loops'[m] = loops[m])
        /\ ~Busy(l) /\ loops'[l].event = e0
        /\ loops' \in [Loops -> [is : {"none", "waiting", "busy"}, event : {0} \cup Events]]
    BY <1>0, <2>2, <2>3 DEF StripeTypes, Busy, Waiting
  <2>5. StripeTypes'
    BY <1>0, <2>2, <2>3, <2>4 DEF StripeTypes
  <2>6. \A e : e \in 1 .. stripe'.received <=>
                 e \in Queued' \/ (\E m \in Loops : Busy(m)' /\ e = loops'[m].event) \/ Ended(e)'
    BY <1>0, <2>2, <2>3, <2>4 DEF EveryEvent, Ended
  <2>7. /\ \A m \in Loops : Busy(m)' => loops'[m].event \notin Queued'
        /\ \A f \in Fates : \A e \in done'[f] :
             e \notin Queued' /\ \A m \in Loops : Busy(m)' => e # loops'[m].event
    BY <1>0, <2>2, <2>3, <2>4 DEF EveryEvent
  <2>8. ASSUME NEW m \in Loops, NEW k \in Loops, m # k, Busy(m)'
        PROVE  loops'[m].event # loops'[k].event
    <3>1. CASE m = l
      <4>1. loops'[k] = loops[k] /\ (Busy(k) \/ loops[k].event = 0) /\ e0 # 0
        BY <1>0, <2>3, <2>4, <2>8, <3>1 DEF StripeTypes, Events
      <4> QED BY <1>0, <2>3, <2>4, <3>1, <4>1 DEF EveryEvent
    <3>2. CASE k = l
      BY <1>0, <2>3, <2>4, <2>8, <3>2 DEF EveryEvent
    <3>3. CASE m # l /\ k # l
      BY <1>0, <2>4, <2>8, <3>3 DEF EveryEvent
    <3> QED BY <3>1, <3>2, <3>3
  <2> QED BY <1>0, <2>2, <2>3, <2>5, <2>6, <2>7, <2>8 DEF EveryEvent, Increasing
<1>8. ASSUME NEW l \in Loops, NEW fate \in {"processed", "failed", "skipped", "raised"},
             ProcessEvent(l, fate)
      PROVE  StripeTypes' /\ EveryEvent'
  <2>1. /\ Busy(l) /\ UNCHANGED <<stripe, queue>> /\ fate \in Fates
        /\ done' = [done EXCEPT ![fate] = @ \cup {loops[l].event}]
        /\ \E next \in {Waiting, NoLoop} : loops' = [loops EXCEPT ![l] = next]
    BY <1>8 DEF ProcessEvent, Busy, End, Fates
  <2>2. /\ \A m \in Loops \ {l} : loops'[m] = loops[m]
        /\ ~Busy(l)' /\ loops'[l].event = 0
        /\ loops' \in [Loops -> [is : {"none", "waiting", "busy"}, event : {0} \cup Events]]
    BY <1>0, <2>1 DEF StripeTypes, Busy, Waiting, NoLoop
  <2>3. EveryEvent' /\ done' \in [Fates -> SUBSET Events]
    BY <1>5, <2>1, <2>2
  <2> QED BY <1>0, <2>1, <2>2, <2>3 DEF StripeTypes, Busy
<1>9. ASSUME NEW l \in Loops, LoopEnds(l) PROVE StripeTypes' /\ EveryEvent'
  <2>1. loops[l] = Waiting /\ loops' = [loops EXCEPT ![l] = NoLoop] /\ UNCHANGED <<stripe, queue, done>>
    BY <1>9 DEF LoopEnds
  <2>2. \A m \in Loops : (Busy(m)' <=> Busy(m)) /\ loops'[m].event = loops[m].event
    BY <1>0, <2>1 DEF StripeTypes, Busy, NoLoop, Waiting
  <2>3. StripeTypes'
    BY <1>0, <2>1, <2>2 DEF StripeTypes, NoLoop
  <2> QED BY <1>0, <1>1, <2>1, <2>2, <2>3 DEF EveryEvent, Ended
<1>10. CASE RestartStripe
  <2>1. PICK lost : lost = Queued \cup InHand
    OBVIOUS
  <2>2. /\ queue' = <<>> /\ loops' = [l \in Loops |-> NoLoop]
        /\ stripe' = [stripe EXCEPT !.running = FALSE, !.task = 0, !.stopping = 0]
        /\ done' = [done EXCEPT !["lost"] = @ \cup lost]
    BY <1>10, <2>1 DEF RestartStripe, End, Queued, InHand
  <2>3. \A e : e \in lost <=> e \in Queued \/ \E l \in Loops : Busy(l) /\ e = loops[l].event
    BY <2>1, HandsAre
  <2>4. lost \subseteq Events
    BY <1>0, <1>1, <2>3 DEF EveryEvent, Events
  <2>5. done' \in [Fates -> SUBSET Events]
        /\ \A f \in Fates : \A e : e \in done'[f] <=> e \in done[f] \/ (f = "lost" /\ e \in lost)
    BY <1>0, <2>2, <2>4 DEF StripeTypes, Fates
  <2>6. stripe'.received = stripe.received
        /\ stripe' \in [running : BOOLEAN, task : {0} \cup Loops, stopping : {0} \cup Loops,
                        received : 0 .. MaxEvents]
    BY <1>0, <2>2 DEF StripeTypes
  <2>7. Queued' = {} /\ DOMAIN queue' = {} /\ queue' \in Seq(Events)
    BY <2>2 DEF Queued
  <2>8. /\ \A l \in Loops : ~Busy(l)' /\ loops'[l].event = 0
        /\ loops' \in [Loops -> [is : {"none", "waiting", "busy"}, event : {0} \cup Events]]
    BY <2>2 DEF Busy, NoLoop
  <2>9. StripeTypes'
    BY <2>5, <2>6, <2>7, <2>8 DEF StripeTypes
  <2>10. \A e : Ended(e)' <=> Ended(e) \/ e \in lost
    BY <2>5 DEF Ended, Fates
  <2>11. \A e : e \in 1 .. stripe'.received <=> Ended(e)'
    BY <1>0, <2>3, <2>6, <2>10 DEF EveryEvent
  <2>12. \A f, g \in Fates : f # g => \A e \in done'[f] : e \notin done'[g]
    BY <1>0, <2>3, <2>5 DEF EveryEvent
  <2> QED BY <2>7, <2>8, <2>9, <2>11, <2>12 DEF EveryEvent
<1> QED BY <1>2, <1>3, <1>4, <1>6, <1>7, <1>8, <1>9, <1>10 DEF StripeNext

-----------------------------------------------------------------------------
(* Investigations                                                          *)

Statuses == {"open", "investigating", "escalated"} \cup Closed
(* What the cases and their counts may be.                                 *)
CaseTypes ==
  /\ opened \in Nat /\ DOMAIN cases \subseteq 1 .. opened /\ closings \in Nat
  /\ \A c \in DOMAIN cases :
       cases[c] \in [status : Statuses, score : Nat,
                     action : {"none", "monitor", "restrict", "suspend", "revoke"}, manual : BOOLEAN]

(* The inductive invariant of the cases.                                   *)
CasesInv == CaseTypes /\ CasesSound

ClosedOf(f) == {c \in DOMAIN f : f[c].status \in Closed}

(* Closed cases alone are evicted; and when one of them is kept, there are *)
(* no more cases than MaxKept: the oldest that is kept has as many closed  *)
(* cases before it as there were too many, and they all go.                *)
LEMMA EvictionEnough ==
  ASSUME NEW f, IsFiniteSet(DOMAIN f), DOMAIN f \subseteq Nat,
         ClosedOf(f) \ Evictable(f) # {}
  PROVE  Cardinality(DOMAIN f \ Evictable(f)) <= MaxKept
<1> DEFINE out == Evictable(f)
           rest == ClosedOf(f) \ out
<1>1. out \subseteq ClosedOf(f) /\ ClosedOf(f) \subseteq DOMAIN f
      /\ \A c \in ClosedOf(f) : c \in out <=>
           Cardinality({d \in ClosedOf(f) : d < c}) < Cardinality(DOMAIN f) - MaxKept
  BY DEF Evictable, ClosedOf
<1> HIDE DEF out
<1>2. PICK c \in rest : \A d \in rest : c <= d
  <2>1. rest \subseteq Nat /\ rest # {}
    BY <1>1 DEF out
  <2> HIDE DEF rest
  <2> QED BY <2>1, Least
<1> DEFINE older == {d \in ClosedOf(f) : d < c}
<1>3. older \subseteq out
  <2>1. ASSUME NEW d \in older, d \notin out PROVE FALSE
    <3>1. d \in rest /\ d \in Nat /\ c \in Nat /\ d < c
      BY <1>1, <2>1
    <3> QED BY <1>2, <3>1
  <2> QED BY <2>1
<1>4. ~(Cardinality(older) < Cardinality(DOMAIN f) - MaxKept)
  BY <1>1, <1>2
<1>5. IsFiniteSet(out) /\ out \subseteq DOMAIN f
  BY <1>1, FS_Subset
<1> HIDE DEF older
<1>6. Cardinality(older) <= Cardinality(out) /\ IsFiniteSet(older)
  BY <1>3, <1>5, FS_Subset
<1>7. Cardinality(DOMAIN f \ out) = Cardinality(DOMAIN f) - Cardinality(out)
  <2>1. DOMAIN f \cap out = out
    BY <1>5
  <2> QED BY <2>1, FS_Difference
<1>8. Cardinality(older) \in Nat /\ Cardinality(out) \in Nat /\ Cardinality(DOMAIN f) \in Nat
  BY <1>5, <1>6, FS_CardinalityType
<1> QED BY <1>4, <1>6, <1>7, <1>8, CaseAssumption DEF out

(* An operation on a case leaves others alone, and evicts closed cases only. *)
LEMMA CasesPreserved == CasesInv /\ CasesNext => CasesInv' /\ CaseStep
<1> SUFFICES ASSUME CasesInv, CasesNext PROVE CaseTypes' /\ CasesSound' /\ CaseStep
  BY DEF CasesInv
<1> USE CaseAssumption
<1> DEFINE gone == Cardinality(DOMAIN evicted)
           closed == ClosedOf(cases)
<1>0. CaseTypes /\ CasesSound
  BY DEF CasesInv
<1>1. /\ DOMAIN evicted \subseteq 1 .. opened /\ IsFiniteSet(DOMAIN cases) /\ IsFiniteSet(DOMAIN evicted)
      /\ closed \subseteq DOMAIN cases /\ IsFiniteSet(closed)
      /\ gone \in Nat /\ Cardinality(closed) \in Nat /\ Cardinality(closed) + gone <= closings
  <2>1. IsFiniteSet(1 .. opened)
    BY <1>0, FS_Interval DEF CaseTypes
  <2>2. DOMAIN evicted \subseteq 1 .. opened /\ closed \subseteq DOMAIN cases
    BY <1>0 DEF CasesSound, ClosedOf
  <2>3. IsFiniteSet(DOMAIN cases) /\ IsFiniteSet(DOMAIN evicted)
    BY <1>0, <2>1, <2>2, FS_Subset DEF CaseTypes
  <2>4. IsFiniteSet(closed)
    BY <2>2, <2>3, FS_Subset
  <2>5. Cardinality(closed) + gone <= closings
    BY <1>0 DEF CasesSound, ClosedOf
  <2> QED BY <2>2, <2>3, <2>4, <2>5, FS_CardinalityType
<1>2. CASE OpenCase
  <2>1. PICK n \in Nat : n = opened + 1
    BY <1>0 DEF CaseTypes
  <2> DEFINE fresh == [status |-> "open", score |-> 0, action |-> "none", manual |-> FALSE]
             new == [c \in DOMAIN cases \cup {n} |-> IF c = n THEN fresh ELSE cases[c]]
             out == Evictable(new)
  <2>2. /\ opened' = n /\ UNCHANGED closings
        /\ cases' = Only(new, DOMAIN new \ out)
        /\ evicted' = [c \in DOMAIN evicted \cup out |-> IF c \in out THEN new[c].status ELSE evicted[c]]
    BY <1>2, <2>1 DEF OpenCase
  <2>3. /\ DOMAIN new = DOMAIN cases \cup {n} /\ new[n] = fresh
        /\ \A c \in DOMAIN cases : new[c] = cases[c] /\ c # n
        /\ n \notin DOMAIN evicted /\ 1 .. n = (1 .. opened) \cup {n}
    BY <1>0, <1>1, <2>1 DEF CaseTypes
  <2> HIDE DEF new
  <2>4. ClosedOf(new) = closed
    BY <2>3 DEF ClosedOf, Closed
  <2>5. out \subseteq closed
    BY <2>4 DEF Evictable, ClosedOf
  <2> HIDE DEF out
  <2>6. /\ DOMAIN cases' = DOMAIN new \ out /\ \A c \in DOMAIN cases' : cases'[c] = new[c]
        /\ DOMAIN evicted' = DOMAIN evicted \cup out
        /\ \A c \in out : evicted'[c] = cases[c].status
        /\ \A c \in DOMAIN evicted \ out : evicted'[c] = evicted[c]
    BY <1>1, <2>2, <2>3, <2>5 DEF Only
  <2>7. CaseTypes'
    <3>1. fresh \in [status : Statuses, score : Nat,
                     action : {"none", "monitor", "restrict", "suspend", "revoke"}, manual : BOOLEAN]
      BY DEF Statuses
    <3>2. \A c \in DOMAIN cases' : c = n \/ c \in DOMAIN cases
      BY <2>3, <2>6
    <3>3. \A c \in DOMAIN cases' :
            cases'[c] \in [status : Statuses, score : Nat,
                          action : {"none", "monitor", "restrict", "suspend", "revoke"}, manual : BOOLEAN]
      <4> HIDE DEF fresh
      <4> QED BY <1>0, <2>3, <2>6, <3>1, <3>2 DEF CaseTypes
    <3>4. DOMAIN cases' \subseteq 1 .. opened'
      BY <1>0, <2>2, <2>3, <3>2 DEF CaseTypes
    <3> QED BY <1>0, <2>1, <2>2, <3>3, <3>4 DEF CaseTypes
  <2>8. ClosedOf(cases') = closed \ out
    BY <2>3, <2>6 DEF ClosedOf, Closed
  <2>9. Cardinality(closed \ out) + Cardinality(DOMAIN evicted \cup out) <= closings
    <3>1. IsFiniteSet(out) /\ closed \cap out = out /\ DOMAIN evicted \cap out = {}
      BY <1>0, <1>1, <2>5, FS_Subset DEF CasesSound
    <3>2. Cardinality(closed \ out) = Cardinality(closed) - Cardinality(out)
      BY <1>1, <3>1, FS_Difference
    <3>3. Cardinality(DOMAIN evicted \cup out) = gone + Cardinality(out) - Cardinality({})
      BY <1>1, <3>1, FS_Union
    <3>4. Cardinality({}) = 0 /\ Cardinality(out) \in Nat
      BY <3>1, FS_EmptySet, FS_CardinalityType
    <3> HIDE DEF gone, closed
    <3> QED BY <1>0, <1>1, <3>2, <3>3, <3>4 DEF CaseTypes
  <2>10. CasesSound'
    <3>1. 1 .. opened' = DOMAIN cases' \cup DOMAIN evicted' /\ DOMAIN cases' \cap DOMAIN evicted' = {}
      BY <1>0, <1>1, <2>2, <2>3, <2>5, <2>6 DEF CasesSound
    <3>2. \A c \in DOMAIN evicted' : evicted'[c] \in Closed
      BY <1>0, <2>5, <2>6 DEF CasesSound, ClosedOf
    <3>3. Cardinality({c \in DOMAIN cases' : cases'[c].status \in Closed}) + Cardinality(DOMAIN evicted') <= closings'
      BY <2>2, <2>6, <2>8, <2>9 DEF ClosedOf
    <3>4. \A c \in DOMAIN cases' :
            /\ cases'[c].score >= 18 => cases'[c].status \in {"escalated"} \cup Closed /\ cases'[c].action = "revoke"
            /\ cases'[c].status = "escalated" => cases'[c].manual \/ cases'[c].score >= 18
      BY <1>0, <2>3, <2>6 DEF CasesSound
    <3> QED BY <3>1, <3>2, <3>3, <3>4 DEF CasesSound
  <2>11. CaseStep
    <3>1. ASSUME Cardinality(DOMAIN cases') > MaxKept, NEW c \in DOMAIN cases'
          PROVE  cases'[c].status \notin Closed
      <4>1. IsFiniteSet(DOMAIN new) /\ DOMAIN new \subseteq Nat
        BY <1>0, <1>1, <2>1, <2>3, FS_AddElement DEF CaseTypes
      <4>2. IsFiniteSet(DOMAIN cases') /\ Cardinality(DOMAIN cases') \in Nat
        BY <2>6, <4>1, FS_Difference, FS_CardinalityType
      <4>3. ~(Cardinality(DOMAIN new \ Evictable(new)) <= MaxKept)
        BY <2>6, <3>1, <4>2 DEF out
      <4>4. ClosedOf(new) \ out = {}
        BY <4>1, <4>3, EvictionEnough DEF out
      <4> QED BY <2>6, <3>1, <4>4 DEF ClosedOf
    <3>2. \A c \in DOMAIN cases \cap DOMAIN cases' : cases'[c] = cases[c]
      BY <2>3, <2>6
    <3> QED BY <3>1, <3>2 DEF CaseStep
  <2> QED BY <2>7, <2>10, <2>11
<1>3. ASSUME NEW c \in DOMAIN cases, UNCHANGED <<opened, evicted>>,
             cases' = [cases EXCEPT ![c] = cases'[c]],
             cases'[c] \in [status : Statuses, score : Nat,
                           action : {"none", "monitor", "restrict", "suspend", "revoke"}, manual : BOOLEAN],
             cases'[c].score >= 18 => cases'[c].status \in {"escalated"} \cup Closed /\ cases'[c].action = "revoke",
             cases'[c].status = "escalated" => cases'[c].manual \/ cases'[c].score >= 18,
             \/ closings' = closings /\ (cases'[c].status \in Closed => cases[c].status \in Closed)
             \/ closings' = closings + 1,
             cases[c].status \in Closed =>
               /\ cases'[c].score = cases[c].score
               /\ cases'[c].status \in Closed \/ (cases'[c].status = "escalated" /\ cases'[c].manual)
      PROVE  CaseTypes' /\ CasesSound' /\ CaseStep
  <2>1. DOMAIN cases' = DOMAIN cases /\ \A d \in DOMAIN cases : d # c => cases'[d] = cases[d]
    BY <1>3
  <2>2. closings \in Nat /\ closings' \in Nat
    BY <1>0, <1>3 DEF CaseTypes
  <2>3. CaseTypes'
    BY <1>0, <1>3, <2>1, <2>2 DEF CaseTypes
  <2>4. CaseStep
    BY <1>0, <1>3, <2>1 DEF CaseStep, CaseTypes
  <2>5. Cardinality(ClosedOf(cases')) + gone <= closings'
    <3>1. CASE closings' = closings /\ (cases'[c].status \in Closed => cases[c].status \in Closed)
      <4>1. ClosedOf(cases') \subseteq closed
        BY <2>1, <3>1 DEF ClosedOf
      <4>2. Cardinality(ClosedOf(cases')) <= Cardinality(closed) /\ IsFiniteSet(ClosedOf(cases'))
        BY <1>1, <4>1, FS_Subset
      <4>3. Cardinality(ClosedOf(cases')) \in Nat
        BY <4>2, FS_CardinalityType
      <4> HIDE DEF gone, closed
      <4> QED BY <1>1, <2>2, <3>1, <4>2, <4>3
    <3>2. CASE closings' = closings + 1
      <4>1. ClosedOf(cases') \subseteq closed \cup {c}
        BY <2>1 DEF ClosedOf
      <4>2. IsFiniteSet(closed \cup {c}) /\ Cardinality(closed \cup {c}) <= Cardinality(closed) + 1
        <5>1. /\ IsFiniteSet(closed \cup {c})
              /\ Cardinality(closed \cup {c}) = IF c \in closed THEN Cardinality(closed) ELSE Cardinality(closed) + 1
          BY <1>1, FS_AddElement
        <5> HIDE DEF closed
        <5> QED BY <1>1, <5>1
      <4>3. Cardinality(ClosedOf(cases')) <= Cardinality(closed \cup {c}) /\ IsFiniteSet(ClosedOf(cases'))
        BY <4>1, <4>2, FS_Subset
      <4>4. Cardinality(ClosedOf(cases')) \in Nat /\ Cardinality(closed \cup {c}) \in Nat
        BY <4>2, <4>3, FS_CardinalityType
      <4> HIDE DEF gone, closed
      <4> QED BY <1>1, <2>2, <3>2, <4>2, <4>3, <4>4
    <3> QED BY <1>3, <3>1, <3>2
  <2>6. CasesSound'
    <3>1. \A d \in DOMAIN cases' :
            /\ cases'[d].score >= 18 => cases'[d].status \in {"escalated"} \cup Closed /\ cases'[d].action = "revoke"
            /\ cases'[d].status = "escalated" => cases'[d].manual \/ cases'[d].score >= 18
      BY <1>0, <1>3, <2>1 DEF CasesSound
    <3>2. Cardinality({d \in DOMAIN cases' : cases'[d].status \in Closed}) + Cardinality(DOMAIN evicted') <= closings'
      BY <1>3, <2>5 DEF ClosedOf
    <3> QED BY <1>0, <1>3, <2>1, <3>1, <3>2 DEF CasesSound
  <2> QED BY <2>3, <2>4, <2>6
<1>4. ASSUME NEW c \in DOMAIN cases, NEW weight \in Weights, AddEvidence(c, weight)
      PROVE  CaseTypes' /\ CasesSound' /\ CaseStep
  <2>1. cases[c].score \in Nat /\ weight \in Nat
    <3>1. Weights \subseteq Nat
      BY DEF Weights, AnomalyWeight, FraudWeight
    <3> QED BY <1>0, <3>1 DEF CaseTypes
  <2>2. PICK score \in Nat : score = cases[c].score + weight
    BY <2>1
  <2> DEFINE graded == [status |-> StatusAfter(score), score |-> score,
                        action |-> ActionFor(score), manual |-> FALSE]
  <2>3. cases' = [cases EXCEPT ![c] = graded] /\ UNCHANGED <<opened, closings, evicted>>
        /\ cases[c].status \notin Closed
    BY <1>4, <2>2 DEF AddEvidence, EvidenceIn
  <2>4. /\ StatusAfter(score) \in {"escalated", "investigating"} /\ (score >= 18 <=> StatusAfter(score) = "escalated")
        /\ ActionFor(score) \in {"monitor", "restrict", "suspend", "revoke"}
        /\ score >= 18 => ActionFor(score) = "revoke"
    BY DEF StatusAfter, ActionFor
  <2>5. /\ graded \in [status : Statuses, score : Nat,
                       action : {"none", "monitor", "restrict", "suspend", "revoke"}, manual : BOOLEAN]
        /\ graded.score = score /\ graded.status = StatusAfter(score) /\ graded.action = ActionFor(score)
    BY <2>4 DEF Statuses
  <2> HIDE DEF graded
  <2>6. cases'[c] = graded /\ cases' = [cases EXCEPT ![c] = cases'[c]]
    BY <2>3
  <2> QED BY <1>3, <2>3, <2>4, <2>5, <2>6 DEF Closed
<1>5. ASSUME NEW c \in DOMAIN cases, Escalate(c)
      PROVE  CaseTypes' /\ CasesSound' /\ CaseStep
  <2>1. /\ cases' = [cases EXCEPT ![c].status = "escalated", ![c].manual = TRUE]
        /\ UNCHANGED <<opened, closings, evicted>>
    BY <1>5 DEF Escalate
  <2> DEFINE first == [cases[c] EXCEPT !.status = "escalated"]
             second == [first EXCEPT !.manual = TRUE]
  <2>2. cases[c] \in [status : Statuses, score : Nat,
                      action : {"none", "monitor", "restrict", "suspend", "revoke"}, manual : BOOLEAN]
    BY <1>0 DEF CaseTypes
  <2>3. /\ first \in [status : Statuses, score : Nat,
                      action : {"none", "monitor", "restrict", "suspend", "revoke"}, manual : BOOLEAN]
        /\ first.status = "escalated" /\ first.score = cases[c].score /\ first.action = cases[c].action
    BY <2>2 DEF Statuses
  <2>4. cases' = [cases EXCEPT ![c] = second]
    BY <2>1
  <2> HIDE DEF first
  <2>5. /\ second \in [status : Statuses, score : Nat,
                      action : {"none", "monitor", "restrict", "suspend", "revoke"}, manual : BOOLEAN]
        /\ second.status = "escalated" /\ second.score = cases[c].score /\ second.action = cases[c].action
        /\ second.manual = TRUE
    BY <2>3
  <2> HIDE DEF second
  <2>6. cases'[c] = second /\ cases' = [cases EXCEPT ![c] = cases'[c]]
    BY <2>4
  <2>7. cases[c].score >= 18 => cases[c].action = "revoke"
    BY <1>0 DEF CasesSound
  <2> QED BY <1>3, <2>1, <2>5, <2>6, <2>7 DEF Closed
<1>6. ASSUME NEW c \in DOMAIN cases, NEW how \in Closed, Close(c, how)
      PROVE  CaseTypes' /\ CasesSound' /\ CaseStep
  <2>1. /\ cases' = [cases EXCEPT ![c].status = how] /\ closings' = closings + 1
        /\ UNCHANGED <<opened, evicted>>
    BY <1>6 DEF Close
  <2> DEFINE over == [cases[c] EXCEPT !.status = how]
  <2>2. cases[c] \in [status : Statuses, score : Nat,
                      action : {"none", "monitor", "restrict", "suspend", "revoke"}, manual : BOOLEAN]
    BY <1>0 DEF CaseTypes
  <2>3. /\ over \in [status : Statuses, score : Nat,
                     action : {"none", "monitor", "restrict", "suspend", "revoke"}, manual : BOOLEAN]
        /\ over.status = how /\ over.score = cases[c].score /\ over.action = cases[c].action
    BY <2>2 DEF Statuses
  <2>4. cases' = [cases EXCEPT ![c] = over]
    BY <2>1
  <2> HIDE DEF over
  <2>5. cases'[c] = over /\ cases' = [cases EXCEPT ![c] = cases'[c]]
    BY <2>4
  <2>6. cases[c].score >= 18 => cases[c].action = "revoke"
    BY <1>0 DEF CasesSound
  <2>7. how \in Closed /\ how # "escalated"
    BY <1>6 DEF Closed
  <2> QED BY <1>3, <2>1, <2>3, <2>5, <2>6, <2>7
<1> QED BY <1>2, <1>4, <1>5, <1>6 DEF CasesNext

-----------------------------------------------------------------------------
(* Key rotation                                                            *)

(* Every key was signed under a version that is not above the current one; *)
(* one from before versions under the first; and any other says its        *)
(* version, wrapped.  A plan goes by what the keys say.                    *)
RotationInv ==
  /\ ring \subseteq Versions /\ ring # {} /\ issued \subseteq Keys
  /\ \A k \in DOMAIN migration : migration[k] \in Actions
  /\ \A k \in issued : k.secret <= Current
  /\ \A k \in issued : IF k.legacy THEN k.secret = 0 ELSE k.char = k.secret % Base
  /\ \A k \in DOMAIN migration : migration[k] = "no_action" => k.char >= target
  /\ \A k \in DOMAIN migration : migration[k] = "re_sign" => k.char < target
  /\ target \in Nat

(* What a version is encoded as. *)
LEMMA VersionWraps ==
  ASSUME NEW n \in Nat, NEW b \in Nat \ {0}
  PROVE  n % b \in 0 .. b - 1 /\ n % b <= n /\ (n < b => n % b = n)
OBVIOUS

(* The ring's highest version exists, and signs. *)
LEMMA CurrentIsHighest ==
  ASSUME ring \subseteq Versions, ring # {}
  PROVE  Current \in ring /\ \A v \in ring : v <= Current
<1> USE RotationAssumption DEF Versions
<1> DEFINE gaps == {MaxVersion - v : v \in ring}
<1>1. gaps \subseteq Nat /\ gaps # {}
  <2>1. PICK r : r \in ring
    OBVIOUS
  <2>2. \A v \in ring : MaxVersion - v \in Nat
    OBVIOUS
  <2> QED BY <2>1, <2>2
<1>2. PICK g \in gaps : \A h \in gaps : g <= h
  <2> HIDE DEF gaps
  <2> QED BY <1>1, Least
<1>3. PICK v \in ring : g = MaxVersion - v
  BY <1>2
<1>4. \A w \in ring : w <= v
  <2>1. ASSUME NEW w \in ring PROVE w <= v
    <3>1. MaxVersion - v <= MaxVersion - w
      BY <1>2, <1>3
    <3>2. v \in Nat /\ w \in Nat
      BY <1>3, <2>1
    <3> QED BY <3>1, <3>2
  <2> QED BY <2>1
<1> QED BY <1>3, <1>4 DEF Current

(* Keys are signed by the highest secret, which no retirement lowers. *)
LEMMA RotationPreserved == RotationInv /\ RotationNext => RotationInv'
<1>p. (ring \subseteq Versions /\ ring # {} => Current \in ring /\ \A v \in ring : v <= Current)'
  BY CurrentIsHighest, PTL
<1> SUFFICES ASSUME RotationInv, RotationNext PROVE RotationInv'
  OBVIOUS
<1> USE RotationAssumption
<1>1. /\ Current \in ring /\ \A v \in ring : v <= Current
      /\ ring \subseteq Versions /\ Versions \subseteq Nat /\ issued \subseteq Keys
  BY CurrentIsHighest DEF RotationInv, Versions
<1>2. /\ Generated \in Keys /\ Generated.secret = Current /\ Generated.legacy = FALSE
      /\ Generated.char = Generated.secret % Base
  <2>1. Current % Base \in 0 .. Base - 1
    BY <1>1, VersionWraps
  <2> QED BY <1>1, <2>1 DEF Generated, Keys
<1>3. ASSUME UNCHANGED ring PROVE Current' = Current
  BY <1>3 DEF Current
<1>4. CASE IssueKey
  BY <1>1, <1>2, <1>3, <1>4 DEF IssueKey, RotationInv
<1>5. CASE AddVersion
  <2>1. ring' = ring \cup {Current + 1} /\ UNCHANGED <<issued, migration, target, marked>> /\ Current < MaxVersion
    BY <1>5 DEF AddVersion
  <2>2. ring' \subseteq Versions /\ ring' # {}
    BY <1>1, <2>1 DEF Versions
  <2>3. Current <= Current'
    BY <1>p, <1>1, <2>1, <2>2
  <2>4. Current \in Nat /\ Current' \in Nat /\ \A k \in issued : k.secret \in Nat
    BY <1>p, <1>1, <2>2 DEF Keys
  <2> QED BY <2>1, <2>2, <2>3, <2>4 DEF RotationInv
<1>6. ASSUME NEW v \in Versions, RetireVersion(v) PROVE RotationInv'
  <2>1. ring' = ring \ {v} /\ v # Current /\ UNCHANGED <<issued, migration, target, marked>>
    BY <1>6 DEF RetireVersion
  <2>2. ring' \subseteq Versions /\ Current \in ring'
    BY <1>1, <2>1
  <2>3. Current <= Current'
    BY <1>p, <2>2
  <2>4. Current \in Nat /\ Current' \in Nat /\ \A k \in issued : k.secret \in Nat
    BY <1>p, <1>1, <2>2 DEF Keys
  <2> QED BY <2>1, <2>2, <2>3, <2>4 DEF RotationInv
<1>7. ASSUME NEW t \in Versions \ {0}, NEW raw \in SUBSET issued, CreatePlan(t, raw) PROVE RotationInv'
  <2>1. /\ target' = t /\ marked' = {} /\ UNCHANGED <<ring, issued>>
        /\ migration' = [k \in issued |-> ActionFor_(k, t, raw)]
    BY <1>7 DEF CreatePlan
  <2>2. \A k \in issued : ActionFor_(k, t, raw) \in Actions
                          /\ (ActionFor_(k, t, raw) = "no_action" => k.char >= t)
                          /\ (ActionFor_(k, t, raw) = "re_sign" => k.char < t)
    BY <1>1 DEF ActionFor_, Actions, Keys, Versions
  <2> QED BY <1>1, <1>3, <2>1, <2>2 DEF RotationInv
<1>8. ASSUME NEW k \in DOMAIN migration, MarkMigrated(k) PROVE RotationInv'
  BY <1>3, <1>8 DEF MarkMigrated, RotationInv
<1> QED BY <1>4, <1>5, <1>6, <1>7, <1>8 DEF RotationNext

(* What the run checks of the keys. *)
LEMMA RotationFollows == RotationInv => RotationSound
<1> SUFFICES ASSUME RotationInv PROVE RotationSound
  OBVIOUS
<1>1. \A k \in issued : Validates(k) <=> k.secret \in ring
  BY DEF Validates, VerifiesMulti, SignedUnder
<1>2. ASSUME NEW k \in issued
      PROVE  k.secret \in Nat /\ k.char \in Nat /\ target \in Nat /\ k.secret <= Current /\ Current \in Nat
  <2>1. ring \subseteq Versions /\ ring # {} /\ issued \subseteq Keys
    BY DEF RotationInv
  <2>2. Current \in Versions
    BY <2>1, CurrentIsHighest
  <2>3. k \in Keys
    BY <2>1
  <2>4. k.secret \in Nat /\ k.char \in Nat
    BY <2>3, RotationAssumption DEF Versions, Keys
  <2> QED BY <2>2, <2>4, RotationAssumption DEF RotationInv, Versions
<1>3. ASSUME NEW k \in issued, ~k.legacy PROVE k.char <= k.secret /\ (k.secret < Base => k.char = k.secret)
  BY <1>2, <1>3, VersionWraps, RotationAssumption DEF RotationInv
<1>4. ASSUME NEW k \in issued \cap DOMAIN migration,
             migration[k] = "no_action", target .. Current \subseteq ring, ~Validates(k)
      PROVE  k.legacy
  <2>1. k.secret \notin target .. Current
    BY <1>1, <1>4
  <2>2. k.secret < target /\ k.char >= target
    BY <1>2, <1>4, <2>1 DEF RotationInv
  <2> QED BY <1>2, <1>3, <1>4, <2>2
<1>5. ASSUME NEW k \in issued \cap DOMAIN migration, migration[k] = "re_sign", k.secret >= target
      PROVE  Wrapped(k)
  <2>1. k.char < target /\ k.secret \in Nat /\ k.char \in Nat /\ target \in Nat
    BY <1>2, <1>5 DEF RotationInv
  <2>2. ~k.legacy
    BY <1>5, <2>1 DEF RotationInv
  <2> QED BY <1>3, <1>5, <2>1, <2>2, RotationAssumption DEF Wrapped
<1> QED BY <1>1, <1>4, <1>5 DEF RotationSound

-----------------------------------------------------------------------------
(* Usage metering                                                          *)

(* A committed usage record with the verdict on it.                        *)
Row == [value : UsageValues, seen : 0 .. MaxRows, severity : Severities, resolved : BOOLEAN]

(* A total left out some rows if another transaction committed after it    *)
(* was summed.                                                             *)
TotalIs(answered, stale, sum) == IF stale THEN answered < sum ELSE answered = sum

(* What the rows, the transactions and the last answer may be.             *)
MeteringTypes ==
  /\ rows \in Seq(Row)
  /\ txs \in [Writers -> [pc : {"idle", "checked", "scanned", "inserted"}, value : UsageValues \cup {0},
                          seen : 0 .. MaxRows, severity : Severities, total : Nat, stale : BOOLEAN]]
  /\ lastUsage \in [total : Nat, remaining : Nat, stale : BOOLEAN, row : 0 .. MaxRows]

(* What a transaction has seen, judged and summed is true of the rows      *)
(* committed by now, less those committed since its sum.                   *)
TxSound(tx, s) ==
  /\ tx.pc # "idle" => tx.value \in UsageValues
  /\ tx.pc \in {"scanned", "inserted"} =>
       tx.seen <= Len(s) /\ Judged(tx.severity, tx.value, History(s, tx.seen))
  /\ IF tx.pc = "inserted"
       THEN TotalIs(tx.total, tx.stale, SumOf(Values(s, Len(s))) + tx.value)
       ELSE ~tx.stale

(* The inductive invariant of usage metering.                              *)
MeteringInv ==
  /\ MeteringTypes /\ Len(rows) <= MaxRows
  /\ \A w \in Writers : TxSound(txs[w], rows)
  /\ lastUsage.row <= Len(rows) /\ lastUsage.remaining = Remaining(lastUsage.total)
  /\ lastUsage.row > 0 => TotalIs(lastUsage.total, lastUsage.stale, SumOf(Values(rows, lastUsage.row)))
  /\ \A i \in 1 .. Len(rows) :
       rows[i].seen < i /\ Judged(rows[i].severity, rows[i].value, History(rows, rows[i].seen))

(* The values of the first rows, and the last of them, are lists. *)
LEMMA RowsAreLists ==
  ASSUME rows \in Seq(Row), NEW n \in 0 .. Len(rows)
  PROVE  Values(rows, n) \in Seq(Nat) /\ Len(Values(rows, n)) = n /\ History(rows, n) \in Seq(Nat)
<1>1. Len(rows) \in Nat /\ Window \in Nat /\ \A i \in 1 .. Len(rows) : rows[i].value \in Nat
  <2>1. \A i \in 1 .. Len(rows) : rows[i] \in Row
    BY ElementOfSeq
  <2> QED BY <2>1, LenProperties, UsageAssumption DEF Row
<1>2. Values(rows, n) \in [1 .. n -> Nat]
  BY <1>1 DEF Values
<1>3. Values(rows, n) \in Seq(Nat) /\ Len(Values(rows, n)) = n
  <2>1. n \in Nat
    BY <1>1
  <2> QED BY <1>2, <2>1, LenProperties
<1> DEFINE from == IF n < Window THEN 0 ELSE n - Window
<1>4. from \in 0 .. n
  BY <1>1
<1>5. History(rows, n) = [i \in 1 .. n - from |-> rows[from + i].value]
  BY DEF History
<1> HIDE DEF from
<1>6. n - from \in Nat /\ \A i \in 1 .. n - from : from + i \in 1 .. Len(rows)
  BY <1>1, <1>4
<1>7. History(rows, n) \in [1 .. n - from -> Nat]
  BY <1>1, <1>5, <1>6
<1>8. History(rows, n) \in Seq(Nat)
  BY <1>6, <1>7
<1> QED BY <1>3, <1>8

(* Rows that come later, or a resolved anomaly, change none of them. *)
LEMMA RowsStay ==
  ASSUME rows \in Seq(Row), rows' \in Seq(Row), Len(rows) <= Len(rows'),
         \A i \in 1 .. Len(rows) : rows'[i].value = rows[i].value,
         NEW n \in 0 .. Len(rows)
  PROVE  Values(rows', n) = Values(rows, n) /\ History(rows', n) = History(rows, n)
<1>1. Len(rows) \in Nat /\ Window \in Nat
  BY LenProperties, UsageAssumption
<1>2. Values(rows', n) = Values(rows, n)
  BY <1>1 DEF Values
<1> DEFINE from == IF n < Window THEN 0 ELSE n - Window
<1>3. from \in 0 .. n
  BY <1>1
<1>4. /\ History(rows, n) = [i \in 1 .. n - from |-> rows[from + i].value]
      /\ History(rows', n) = [i \in 1 .. n - from |-> rows'[from + i].value]
  BY DEF History
<1> HIDE DEF from
<1>5. \A i \in 1 .. n - from : from + i \in 1 .. Len(rows)
  BY <1>1, <1>3
<1>6. \A i \in 1 .. n - from : rows'[from + i].value = rows[from + i].value
  BY <1>5
<1>7. History(rows', n) = History(rows, n)
  BY <1>4, <1>6
<1> QED BY <1>2, <1>7

(* Equal values have no variance, and whatever differs from them is beyond *)
(* every multiple of it.                                                   *)
LEMMA NoVariance ==
  ASSUME NEW n \in Nat, NEW c \in Nat
  PROVE  n * (n * (c * c)) - (n * c) * (n * c) = 0
OBVIOUS

(* A difference that is not 0 has a positive square.                       *)
LEMMA SquareIsPositive ==
  ASSUME NEW d \in Int, NEW m \in Nat \ {0}, NEW k \in {1, 2}
  PROVE  k * k * d * d * m > 0 <=> d # 0
<1> DEFINE e == d * d
<1>1. e \in Int /\ (d # 0 => e > 0) /\ (d = 0 => e = 0)
  BY SMT
<1>2. k * k * d * d = k * k * e
  BY SMT
<1>3. k * k * e \in Int /\ (k * k * e > 0 <=> e > 0) /\ (k * k * e = 0 <=> e = 0)
  <2> HIDE DEF e
  <2>1. k * k = 1 \/ k * k = 4
    BY SMT
  <2> QED BY <1>1, <2>1
<1> DEFINE g == k * k * e
<1>4. g \in Int /\ (g > 0 <=> d # 0) /\ (g = 0 <=> d = 0)
  BY <1>1, <1>3
<1>5. k * k * d * d * m = g * m
  BY <1>2
<1> HIDE DEF g
<1>6. CASE d # 0
  <2>1. g > 0
    BY <1>4, <1>6
  <2>2. g * m > 0
    BY <1>4, <2>1
  <2> QED BY <1>5, <1>6, <2>2
<1>7. CASE d = 0
  <2>1. g = 0
    BY <1>4, <1>7
  <2>2. g * m = 0
    BY <2>1
  <2> QED BY <1>5, <1>7, <2>2
<1> QED BY <1>6, <1>7

(* After three equal values or more, a value that differs from them is     *)
(* beyond every multiple of their deviation, and an equal one is not.      *)
LEMMA BeyondConstant ==
  ASSUME NEW v \in Nat, NEW h \in Seq(Nat), Len(h) >= 3, Constant(h), NEW knum \in Nat, NEW kden \in {1, 2}
  PROVE  Beyond(v, h, knum, kden) <=> v # h[1]
<1> DEFINE n == Len(h)
           c == h[1]
           sq == [i \in DOMAIN h |-> h[i] * h[i]]
           d == n * v - SumOf(h)
<1>1. n \in Nat /\ n >= 3 /\ DOMAIN h = 1 .. n /\ \A i \in 1 .. n : h[i] \in Nat
  BY LenProperties, ElementOfSeq
<1>2. c \in Nat /\ \A i \in 1 .. n : h[i] = c
  BY <1>1 DEF Constant
<1>3. SumOf(h) = n * c
  BY <1>2, SumOfConstant
<1>4. sq \in Seq(Nat) /\ Len(sq) = n /\ \A i \in 1 .. n : sq[i] = c * c
  <2>1. \A i \in 1 .. n : h[i] * h[i] \in Nat
    <3> SUFFICES ASSUME NEW i \in 1 .. n PROVE h[i] * h[i] \in Nat
      OBVIOUS
    <3>1. h[i] \in Nat
      BY <1>1
    <3> QED BY <3>1
  <2>2. sq \in [1 .. n -> Nat]
    BY <1>1, <2>1
  <2>3. \A i \in 1 .. n : sq[i] = c * c
    BY <1>1, <1>2
  <2> HIDE DEF sq
  <2> QED BY <1>1, <2>2, <2>3, LenProperties
<1>5. SumOf(sq) = n * (c * c)
  <2>1. c * c \in Nat
    BY <1>2
  <2> HIDE DEF sq, n
  <2> QED BY <1>4, <2>1, SumOfConstant
<1>6. Beyond(v, h, knum, kden) <=>
        kden * kden * d * d * (n - 1) > knum * knum * n * (n * SumOf(sq) - SumOf(h) * SumOf(h))
  BY DEF Beyond
<1> HIDE DEF sq, n, c
<1>7. n * SumOf(sq) - SumOf(h) * SumOf(h) = 0
  BY <1>1, <1>2, <1>3, <1>5, NoVariance
<1>8. knum * knum * n * 0 = 0
  BY <1>1
<1>9. d \in Int /\ (d # 0 <=> v # c)
  <2>1. d = n * (v - c) /\ v - c \in Int
    BY <1>1, <1>2, <1>3
  <2> DEFINE x == v - c
  <2>2. n * x = 0 <=> x = 0
    <3>1. x \in Int
      BY <2>1
    <3> HIDE DEF x
    <3> QED BY <1>1, <3>1
  <2> QED BY <1>1, <1>2, <2>1, <2>2
<1> HIDE DEF d
<1>10. n - 1 \in Nat \ {0}
  BY <1>1
<1>11. kden * kden * d * d * (n - 1) > 0 <=> d # 0
  BY <1>9, <1>10, SquareIsPositive
<1> QED BY <1>6, <1>7, <1>8, <1>9, <1>11 DEF c

(* A verdict is what Judged asks of it. *)
LEMMA VerdictIsJudged ==
  ASSUME NEW v \in Nat, NEW h \in Seq(Nat)
  PROVE  Verdict(v, h) \in Severities /\ Judged(Verdict(v, h), v, h)
<1>1. Verdict(v, h) \in Severities
  BY DEF Verdict, Severities
<1>2. CASE Len(h) < 3
  BY <1>1, <1>2 DEF Verdict, Judged
<1>3. CASE ~(Len(h) < 3) /\ ~Constant(h)
  BY <1>1, <1>3 DEF Judged
<1>4. CASE ~(Len(h) < 3) /\ Constant(h)
  <2>1. Len(h) >= 3
    BY <1>4, LenProperties
  <2>2. \A knum \in {2, 3}, kden \in {1, 2} : Beyond(v, h, knum, kden) <=> v # h[1]
    BY <1>4, <2>1, BeyondConstant
  <2>3. /\ Beyond(v, h, 3, 1) <=> v # h[1]
        /\ Beyond(v, h, 2, 1) <=> v # h[1]
        /\ Beyond(v, h, 3, 2) <=> v # h[1]
    BY <2>2
  <2> QED BY <1>1, <1>4, <2>3 DEF Verdict, Judged
<1> QED BY <1>2, <1>3, <1>4

(* A transaction that checks, scans, inserts, commits or rolls back keeps  *)
(* the account of the rows.                                                *)
LEMMA MeteringPreserved == MeteringInv /\ UsageNext => MeteringInv'
<1> SUFFICES ASSUME MeteringInv, UsageNext PROVE MeteringInv'
  OBVIOUS
<1>0. /\ rows \in Seq(Row) /\ Len(rows) \in Nat /\ Len(rows) <= MaxRows /\ MaxRows \in Nat
      /\ \A i \in 1 .. Len(rows) : rows[i] \in Row
      /\ DOMAIN rows = 1 .. Len(rows) /\ UsageValues \subseteq Nat \ {0}
  BY LenProperties, ElementOfSeq, UsageAssumption DEF MeteringInv, MeteringTypes
<1> DEFINE Tx == [pc : {"idle", "checked", "scanned", "inserted"}, value : UsageValues \cup {0},
                  seen : 0 .. MaxRows, severity : Severities, total : Nat, stale : BOOLEAN]
<1>a. txs \in [Writers -> Tx] /\ \A w \in Writers : txs[w].value \in Nat /\ txs[w].seen \in Nat
  <2>1. txs \in [Writers -> Tx]
    BY DEF MeteringInv, MeteringTypes
  <2>2. ASSUME NEW x \in Tx PROVE x.value \in Nat /\ x.seen \in Nat
    <3> DEFINE val == x.value
               at == x.seen
    <3>1. val \in UsageValues \cup {0} /\ at \in 0 .. MaxRows
      BY <2>2
    <3>2. MaxRows \in Nat /\ \A v \in UsageValues : v \in Nat
      BY <1>0
    <3> HIDE DEF Tx, val, at
    <3>a. val \in Nat
      BY <3>1, <3>2
    <3>3. val \in Nat /\ at \in Nat
      BY <3>1, <3>2, <3>a
    <3> QED BY <3>3 DEF val, at
  <2> HIDE DEF Tx
  <2> QED BY <2>1, <2>2
(* A transaction alone takes a step. *)
<1>1. ASSUME NEW w \in Writers, NEW tx \in Tx, txs' = [txs EXCEPT ![w] = tx], TxSound(tx, rows),
             UNCHANGED <<rows, lastUsage>>
      PROVE  MeteringInv'
  <2>1. txs \in [Writers -> Tx]
    BY DEF MeteringInv, MeteringTypes
  <2>2. MeteringTypes'
    <3>1. txs' \in [Writers -> Tx]
      BY <1>1, <2>1
    <3> QED BY <1>1, <3>1 DEF MeteringInv, MeteringTypes
  <2>3. ASSUME NEW u \in Writers PROVE TxSound(txs'[u], rows')
    <3>1. txs'[u] = tx \/ txs'[u] = txs[u]
      BY <1>1, <2>1
    <3>2. TxSound(txs'[u], rows)
      BY <1>1, <3>1 DEF MeteringInv
    <3> HIDE DEF Tx
    <3> QED BY <1>1, <3>2 DEF TxSound, Values, History
  <2> HIDE DEF Tx
  <2>4. /\ lastUsage'.row <= Len(rows') /\ lastUsage'.remaining = Remaining(lastUsage'.total)
        /\ lastUsage'.row > 0 => TotalIs(lastUsage'.total, lastUsage'.stale, SumOf(Values(rows', lastUsage'.row)))
        /\ \A i \in 1 .. Len(rows') :
             rows'[i].seen < i /\ Judged(rows'[i].severity, rows'[i].value, History(rows', rows'[i].seen))
    BY <1>1 DEF MeteringInv, Values, History
  <2> QED BY <1>0, <1>1, <2>2, <2>3, <2>4 DEF MeteringInv
<1>2. ASSUME NEW w \in Writers, NEW v \in UsageValues, CheckLicence(w, v) PROVE MeteringInv'
  <2> DEFINE tx == [NoTx EXCEPT !.pc = "checked", !.value = v]
             x == [NoTx EXCEPT !.pc = "checked"]
  <2>1. tx = [x EXCEPT !.value = v]
    OBVIOUS
  <2>a. NoTx \in Tx /\ NoTx.stale = FALSE
    BY <1>0 DEF NoTx, Severities
  <2>b. x \in Tx /\ x.pc = "checked" /\ x.stale = FALSE
    BY <2>a
  <2> HIDE DEF x
  <2>2. tx \in Tx /\ tx.pc = "checked" /\ tx.stale = FALSE /\ tx.value = v
    BY <2>1, <2>b
  <2> HIDE DEF tx
  <2>3. TxSound(tx, rows)
    BY <2>2 DEF TxSound
  <2> HIDE DEF tx, Tx
  <2>4. txs' = [txs EXCEPT ![w] = tx] /\ UNCHANGED <<rows, lastUsage>>
    BY <1>2 DEF CheckLicence, tx
  <2> QED BY <1>1, <2>2, <2>3, <2>4
<1>3. ASSUME NEW w \in Writers, Scan(w) PROVE MeteringInv'
  <2> DEFINE h == History(rows, Len(rows))
             t == txs[w]
             tx == [t EXCEPT !.pc = "scanned", !.seen = Len(rows), !.severity = Verdict(t.value, h)]
  <2>1. t \in Tx /\ t.pc = "checked" /\ TxSound(t, rows)
    BY <1>3 DEF Scan, MeteringInv, MeteringTypes
  <2>2. h \in Seq(Nat)
    BY <1>0, RowsAreLists
  <2>3. t.value \in Nat /\ Len(rows) \in 0 .. MaxRows
    BY <1>0, <1>a
  <2> HIDE DEF h, t
  <2>4. Verdict(t.value, h) \in Severities /\ Judged(Verdict(t.value, h), t.value, h)
    BY <2>2, <2>3, VerdictIsJudged
  <2> DEFINE sev == Verdict(t.value, h)
  <2>5. sev \in Severities /\ Judged(sev, t.value, h)
    BY <2>4
  <2>6. tx = [t EXCEPT !.pc = "scanned", !.seen = Len(rows), !.severity = sev]
    OBVIOUS
  <2> HIDE DEF sev
  <2>7. /\ tx \in Tx /\ tx.pc = "scanned" /\ tx.seen = Len(rows) /\ tx.severity = sev
        /\ tx.value = t.value /\ tx.stale = t.stale
    BY <2>1, <2>3, <2>5, <2>6
  <2> HIDE DEF tx
  <2>8. TxSound(tx, rows)
    BY <1>0, <2>1, <2>5, <2>7 DEF TxSound, h
  <2>9. txs' = [txs EXCEPT ![w] = tx] /\ UNCHANGED <<rows, lastUsage>>
    <3>1. txs' = [txs EXCEPT ![w] = [[[txs[w] EXCEPT !.pc = "scanned"] EXCEPT !.seen = Len(rows)]
                                       EXCEPT !.severity = Verdict(txs[w].value, History(rows, Len(rows)))]]
      <4>1. txs' = [txs EXCEPT ![w].pc = "scanned", ![w].seen = Len(rows),
                               ![w].severity = Verdict(txs[w].value, History(rows, Len(rows)))]
        BY <1>3 DEF Scan
      <4>2. txs \in [Writers -> Tx]
        BY DEF MeteringInv, MeteringTypes
      <4> HIDE DEF Tx
      <4> QED BY <4>1, <4>2
    <3>2. tx = [[[t EXCEPT !.pc = "scanned"] EXCEPT !.seen = Len(rows)] EXCEPT !.severity = sev]
      BY <2>1, <2>6
    <3> QED BY <1>3, <3>1, <3>2 DEF Scan, t, h, sev
  <2> HIDE DEF Tx
  <2> QED BY <1>1, <2>7, <2>8, <2>9
<1>4. ASSUME NEW w \in Writers, InsertAndSum(w) PROVE MeteringInv'
  <2> DEFINE sum == SumOf(Values(rows, Len(rows)))
             t == txs[w]
             x == [t EXCEPT !.pc = "inserted"]
             tx == [x EXCEPT !.total = sum + t.value]
  <2>1. t \in Tx /\ t.pc = "scanned" /\ TxSound(t, rows)
    BY <1>4 DEF InsertAndSum, MeteringInv, MeteringTypes
  <2>2. sum \in Nat
    BY <1>0, RowsAreLists, SumIsNatural
  <2>3. t.value \in Nat
    BY <1>0, <1>a
  <2>4. txs' = [txs EXCEPT ![w] = tx] /\ UNCHANGED <<rows, lastUsage>>
    <3>1. txs' = [txs EXCEPT ![w].pc = "inserted", ![w].total = sum + txs[w].value]
      BY <1>4 DEF InsertAndSum
    <3>2. txs \in [Writers -> Tx]
      BY DEF MeteringInv, MeteringTypes
    <3> HIDE DEF Tx, sum
    <3> QED BY <1>4, <3>1, <3>2 DEF InsertAndSum
  <2> HIDE DEF sum, t
  <2>5. /\ tx \in Tx /\ tx.pc = "inserted" /\ tx.total = sum + t.value /\ tx.seen = t.seen
        /\ tx.severity = t.severity /\ tx.value = t.value /\ tx.stale = t.stale
    <3>1. /\ x \in Tx /\ x.pc = "inserted" /\ x.seen = t.seen
          /\ x.severity = t.severity /\ x.value = t.value /\ x.stale = t.stale
      BY <2>1
    <3>2. sum + t.value \in Nat
      BY <2>2, <2>3
    <3> HIDE DEF x
    <3> QED BY <3>1, <3>2
  <2> HIDE DEF tx
  <2>6. TxSound(tx, rows)
    BY <2>1, <2>5 DEF TxSound, TotalIs, sum
  <2> HIDE DEF Tx
  <2> QED BY <1>1, <2>4, <2>5, <2>6
<1>5. ASSUME NEW w \in Writers, RollbackUsage(w) PROVE MeteringInv'
  <2>1. NoTx \in Tx
    BY <1>0 DEF NoTx, Severities
  <2>2. TxSound(NoTx, rows)
    <3>1. NoTx.pc = "idle" /\ NoTx.stale = FALSE
      BY DEF NoTx
    <3> QED BY <3>1 DEF TxSound
  <2> HIDE DEF Tx
  <2> QED BY <1>1, <1>5, <2>1, <2>2 DEF RollbackUsage
(* Rows are committed or resolved. *)
<1>6. ASSUME NEW w \in Writers, CommitUsage(w) PROVE MeteringInv'
  <2> DEFINE t == txs[w]
             n == Len(rows)
             r == [value |-> t.value, seen |-> t.seen, severity |-> t.severity, resolved |-> FALSE]
             sum == SumOf(Values(rows, n))
  <2>1. t \in Tx /\ t.pc = "inserted" /\ TxSound(t, rows) /\ n < MaxRows /\ txs \in [Writers -> Tx]
    BY <1>6 DEF CommitUsage, MeteringInv, MeteringTypes
  <2>2. t.value \in UsageValues /\ t.value \in Nat /\ t.value > 0 /\ t.seen <= n /\ t.seen \in Nat
        /\ Judged(t.severity, t.value, History(rows, t.seen))
        /\ TotalIs(t.total, t.stale, sum + t.value)
    <3>1. t.value \in Nat /\ t.seen \in Nat
      BY <1>a
    <3> HIDE DEF Tx, t
    <3>2. /\ t.value \in UsageValues /\ t.seen <= n /\ Judged(t.severity, t.value, History(rows, t.seen))
          /\ TotalIs(t.total, t.stale, sum + t.value)
      BY <2>1 DEF TxSound
    <3> QED BY <1>0, <3>1, <3>2
  <2>3. r \in Row
    BY <2>1, <2>2 DEF Row
  <2>4. /\ rows' = Append(rows, r)
        /\ lastUsage' = [total |-> t.total, remaining |-> Remaining(t.total),
                         stale |-> t.stale, row |-> n + 1]
        /\ txs' = [u \in Writers |-> IF u = w THEN NoTx
                                     ELSE [txs[u] EXCEPT !.stale = @ \/ txs[u].pc = "inserted"]]
    BY <1>6 DEF CommitUsage
  <2> HIDE DEF r
  <2>5. /\ rows' \in Seq(Row) /\ Len(rows') = n + 1 /\ \A i \in 1 .. n : rows'[i] = rows[i]
        /\ rows'[n + 1] = r
    BY <1>0, <2>3, <2>4, AppendProperties
  <2>6. r.value = t.value /\ r.seen = t.seen /\ r.severity = t.severity
    BY DEF r
  <2>7. \A m \in 0 .. n : Values(rows', m) = Values(rows, m) /\ History(rows', m) = History(rows, m)
    <3>1. n <= Len(rows') /\ \A i \in 1 .. n : rows'[i].value = rows[i].value
      BY <1>0, <2>5
    <3> QED BY <1>0, <2>5, <3>1, RowsStay
  <2>8. SumOf(Values(rows', n + 1)) = sum + t.value /\ sum \in Nat
    <3> DEFINE new == Values(rows', n + 1)
               old == Values(rows, n)
    <3>1. old \in Seq(Nat) /\ Len(old) = n
      BY <1>0, RowsAreLists
    <3>2. new = [i \in 1 .. n + 1 |-> rows'[i].value]
      BY DEF Values
    <3>3. \A i \in 1 .. n : old[i] = rows[i].value
      BY DEF Values
    <3>4. \A i \in 1 .. n + 1 : rows'[i].value \in Nat
      <4>1. \A i \in 1 .. n : rows[i].value \in Nat
        BY <1>0 DEF Row
      <4> QED BY <1>0, <2>2, <2>5, <2>6, <4>1
    <3>5. new \in [1 .. n + 1 -> Nat] /\ n + 1 \in Nat
      BY <1>0, <3>2, <3>4
    <3>6. new[n + 1] = t.value /\ \A i \in 1 .. n : new[i] = old[i]
      BY <1>0, <2>5, <2>6, <3>2, <3>3
    <3> HIDE DEF new, old
    <3>7. new \in Seq(Nat) /\ Len(new) = n + 1
      BY <3>5, LenProperties
    <3>8. SumOf(new) = SumOf(old) + new[Len(new)]
      BY <3>1, <3>6, <3>7, SumOfLonger
    <3>9. SumOf(old) \in Nat
      BY <3>1, SumIsNatural
    <3> QED BY <3>6, <3>7, <3>8, <3>9 DEF new, old
  <2> HIDE DEF sum
  <2>9. ASSUME NEW u \in Writers PROVE txs'[u] \in Tx /\ TxSound(txs'[u], rows')
    <3>1. CASE u = w
      <4>1. txs'[u] = NoTx
        BY <2>4, <3>1
      <4>2. NoTx \in Tx
        BY <1>0 DEF NoTx, Severities
      <4>3. NoTx.pc = "idle" /\ NoTx.stale = FALSE
        BY DEF NoTx
      <4> QED BY <4>1, <4>2, <4>3 DEF TxSound
    <3>2. CASE u # w
      <4> DEFINE x == txs[u]
                 y == txs'[u]
      <4>1. y = [x EXCEPT !.stale = x.stale \/ x.pc = "inserted"]
        BY <2>4, <3>2
      <4>2. x \in Tx /\ TxSound(x, rows)
        BY <2>1 DEF MeteringInv
      <4> HIDE DEF x
      <4>3. y \in Tx /\ y.pc = x.pc /\ y.value = x.value /\ y.seen = x.seen /\ y.severity = x.severity
            /\ y.total = x.total /\ y.stale = (x.stale \/ x.pc = "inserted")
        BY <4>1, <4>2
      <4>4. x.seen \in Nat /\ x.total \in Nat /\ (x.pc = "inserted" => x.value \in Nat)
        BY <1>a, <4>2 DEF x
      <4> HIDE DEF y, Tx
      <4>5. y.pc # "idle" => y.value \in UsageValues
        BY <4>2, <4>3 DEF TxSound
      <4>6. y.pc \in {"scanned", "inserted"} =>
              y.seen <= Len(rows') /\ Judged(y.severity, y.value, History(rows', y.seen))
        BY <1>0, <2>5, <2>7, <4>2, <4>3, <4>4 DEF TxSound
      <4>7. y.pc = "inserted" =>
              y.stale /\ y.total < SumOf(Values(rows', Len(rows'))) + y.value
        <5> SUFFICES ASSUME y.pc = "inserted"
                     PROVE  y.stale /\ y.total < SumOf(Values(rows', Len(rows'))) + y.value
          OBVIOUS
        <5>1. TotalIs(x.total, x.stale, sum + x.value)
          BY <4>2, <4>3 DEF TxSound, sum
        <5>2. x.total <= sum + x.value
          BY <2>8, <4>3, <4>4, <5>1 DEF TotalIs
        <5>3. SumOf(Values(rows', Len(rows'))) = sum + t.value
          BY <2>5, <2>8
        <5>4. x.value \in Nat /\ y.total = x.total /\ y.value = x.value
          BY <4>3, <4>4
        <5>5. x.total < sum + t.value + x.value
          BY <2>2, <2>8, <4>4, <5>2, <5>4
        <5> QED BY <4>3, <5>3, <5>4, <5>5
      <4>8. y.pc # "inserted" => ~y.stale
        BY <4>2, <4>3 DEF TxSound
      <4>9. TxSound(txs'[u], rows')
        BY <4>5, <4>6, <4>7, <4>8 DEF TxSound, TotalIs, y
      <4> QED BY <4>3, <4>9 DEF y
    <3> QED BY <3>1, <3>2
  <2>10. MeteringTypes'
    <3>1. txs' \in [Writers -> Tx]
      BY <2>4, <2>9
    <3>2. Remaining(t.total) \in Nat
      BY <2>1, UsageAssumption DEF Remaining
    <3>3. n + 1 \in 0 .. MaxRows
      BY <1>0, <2>1
    <3>4. lastUsage' \in [total : Nat, remaining : Nat, stale : BOOLEAN, row : 0 .. MaxRows]
      BY <2>1, <2>4, <3>2, <3>3
    <3> QED BY <2>5, <3>1, <3>4 DEF MeteringTypes
  <2>11. /\ lastUsage'.row = n + 1 /\ lastUsage'.remaining = Remaining(t.total)
         /\ lastUsage'.total = t.total /\ lastUsage'.stale = t.stale
    BY <2>4
  <2> HIDE DEF Tx
  <2>12. ASSUME NEW i \in 1 .. Len(rows')
         PROVE  rows'[i].seen < i /\ Judged(rows'[i].severity, rows'[i].value, History(rows', rows'[i].seen))
    <3>1. CASE i \in 1 .. n
      <4>1. rows[i].seen < i /\ Judged(rows[i].severity, rows[i].value, History(rows, rows[i].seen))
            /\ rows[i].seen \in Nat
        BY <1>0, <3>1 DEF MeteringInv, Row
      <4>2. rows[i].seen \in 0 .. n
        BY <1>0, <3>1, <4>1
      <4> QED BY <2>5, <2>7, <3>1, <4>1, <4>2
    <3>2. CASE i = n + 1
      <4>1. t.seen \in 0 .. n
        BY <1>0, <2>2
      <4> HIDE DEF t
      <4> QED BY <1>0, <2>2, <2>5, <2>6, <2>7, <3>2, <4>1
    <3> QED BY <1>0, <2>5, <3>1, <3>2
  <2>13. Len(rows') <= MaxRows /\ n + 1 <= Len(rows')
    BY <1>0, <2>1, <2>5
  <2>14. TotalIs(t.total, t.stale, SumOf(Values(rows', n + 1)))
    BY <2>2, <2>8
  <2> HIDE DEF t, n
  <2> QED BY <2>9, <2>10, <2>11, <2>12, <2>13, <2>14 DEF MeteringInv, Remaining
<1>7. ASSUME NEW i \in DOMAIN rows, ResolveAnomaly(i) PROVE MeteringInv'
  <2>1. rows' = [rows EXCEPT ![i].resolved = TRUE] /\ UNCHANGED <<txs, lastUsage>>
    BY <1>7 DEF ResolveAnomaly
  <2>2. rows[i] \in Row
    BY <1>0
  <2> DEFINE r == [rows[i] EXCEPT !.resolved = TRUE]
  <2>3. r \in Row /\ r.value = rows[i].value /\ r.seen = rows[i].seen /\ r.severity = rows[i].severity
    BY <2>2 DEF Row
  <2>4. rows' = [rows EXCEPT ![i] = r]
    BY <2>1
  <2> HIDE DEF r
  <2>5. rows' \in Seq(Row) /\ Len(rows') = Len(rows)
        /\ \A j \in 1 .. Len(rows) : rows'[j] = IF i = j THEN r ELSE rows[j]
    BY <1>0, <2>3, <2>4, ExceptSeq
  <2>6. \A j \in 1 .. Len(rows) : /\ rows'[j].value = rows[j].value /\ rows'[j].seen = rows[j].seen
                                  /\ rows'[j].severity = rows[j].severity
    BY <2>3, <2>5
  <2>7. \A m \in 0 .. Len(rows) : Values(rows', m) = Values(rows, m) /\ History(rows', m) = History(rows, m)
    BY <1>0, <2>5, <2>6, RowsStay
  <2>8. ASSUME NEW w \in Writers PROVE TxSound(txs'[w], rows')
    <3>1. TxSound(txs[w], rows) /\ txs[w].seen \in Nat
      BY <1>a DEF MeteringInv
    <3>2. Values(rows', Len(rows)) = Values(rows, Len(rows))
      BY <2>5, <2>7
    <3>3. txs[w].seen <= Len(rows) => History(rows', txs[w].seen) = History(rows, txs[w].seen)
      <4> DEFINE m == txs[w].seen
      <4>1. m \in Nat /\ Len(rows) \in Nat
        BY <1>0, <3>1
      <4> HIDE DEF m
      <4>2. m <= Len(rows) => History(rows', m) = History(rows, m)
        BY <2>7, <4>1
      <4> QED BY <4>2 DEF m
    <3>4. txs'[w] = txs[w] /\ Len(rows') = Len(rows)
      BY <2>1, <2>5
    <3> HIDE DEF Tx
    <3> QED BY <3>1, <3>2, <3>3, <3>4 DEF TxSound
  <2>9. lastUsage.row \in 0 .. Len(rows) /\ Values(rows', lastUsage.row) = Values(rows, lastUsage.row)
    <3>1. lastUsage.row \in 0 .. Len(rows)
      BY <1>0 DEF MeteringInv, MeteringTypes
    <3> QED BY <2>1, <2>7, <3>1
  <2>10. ASSUME NEW j \in 1 .. Len(rows)
         PROVE  rows'[j].seen < j /\ Judged(rows'[j].severity, rows'[j].value, History(rows', rows'[j].seen))
    <3>1. rows[j].seen < j /\ Judged(rows[j].severity, rows[j].value, History(rows, rows[j].seen))
          /\ rows[j].seen \in Nat
      BY <1>0 DEF MeteringInv, Row
    <3>2. rows[j].seen \in 0 .. Len(rows)
      BY <1>0, <3>1
    <3> QED BY <2>6, <2>7, <3>1, <3>2
  <2> HIDE DEF Tx
  <2>11. MeteringTypes'
    BY <2>1, <2>5 DEF MeteringInv, MeteringTypes
  <2> QED BY <2>1, <2>5, <2>8, <2>9, <2>10, <2>11 DEF MeteringInv, Remaining
<1> QED BY <1>2, <1>3, <1>4, <1>5, <1>6, <1>7 DEF UsageNext

(* What the run checks of usage metering.                                  *)
LEMMA MeteringFollows == MeteringInv => MeteringSound /\ UsageTypeOK
<1> SUFFICES ASSUME MeteringInv PROVE MeteringSound /\ UsageTypeOK
  OBVIOUS
<1>1. /\ Len(rows) \in Nat /\ DOMAIN rows = 1 .. Len(rows) /\ \A i \in 1 .. Len(rows) : rows[i] \in Row
      /\ lastUsage.row \in Nat /\ lastUsage.total \in Nat /\ UsageLimit \in Nat
  BY LenProperties, ElementOfSeq, UsageAssumption DEF MeteringInv, MeteringTypes
<1>2. UsageTypeOK
  BY <1>1 DEF MeteringInv, MeteringTypes, UsageTypeOK, Row
<1>3. ASSUME lastUsage.row > 0
      PROVE  LET true == SumOf(Values(rows, lastUsage.row))
             IN /\ IF lastUsage.stale THEN lastUsage.total < true ELSE lastUsage.total = true
                /\ ~lastUsage.stale => lastUsage.remaining + true >= UsageLimit
  <2>1. /\ TotalIs(lastUsage.total, lastUsage.stale, SumOf(Values(rows, lastUsage.row)))
        /\ lastUsage.remaining = Remaining(lastUsage.total)
    BY <1>3 DEF MeteringInv
  <2> DEFINE true == SumOf(Values(rows, lastUsage.row))
  <2> HIDE DEF true
  <2>2. lastUsage.total = true => lastUsage.remaining + true >= UsageLimit
    BY <1>1, <2>1 DEF Remaining
  <2> QED BY <2>1, <2>2 DEF TotalIs, true
<1>4. \A i \in DOMAIN rows :
        rows[i].seen < i /\ Judged(rows[i].severity, rows[i].value, History(rows, rows[i].seen))
  BY <1>1 DEF MeteringInv
<1> QED BY <1>2, <1>3, <1>4 DEF MeteringSound

-----------------------------------------------------------------------------
(* The offline licence cache                                               *)

(* An entry of the offline store.                                          *)
OfflineEntry == [key : KeyHashes, exp : 0 .. MaxTime + OfflineTtl, val : Results]

(* What the store, the answers and the history may be.                     *)
OfflineTypes ==
  /\ now \in Time
  /\ entries \in Seq(OfflineEntry) /\ Unique(entries) /\ Len(entries) <= CacheSize
  /\ reply \in [key : KeyHashes, code : Codes]
  /\ usedAfter \in [KeyHashes -> SUBSET KeyHashes]
  /\ newest \in [KeyHashes -> Results \cup {Nothing}]

(* Entries are the newest results, in the order of their last use. *)
OfflineEntries ==
  /\ \A e \in Items(entries) : e.val = newest[e.key] /\ e.exp = e.val.at + OfflineTtl
  /\ \A e, f : Precedes(entries, e, f) => f.key \in usedAfter[e.key]

(* A result is lost only by age or by the use of enough other keys. *)
Lost(k) == now > newest[k].at + OfflineTtl \/ Cardinality(usedAfter[k]) >= CacheSize

(* The inductive invariant of the offline cache.                           *)
OfflineInv ==
  /\ OfflineTypes /\ OfflineEntries
  /\ \A k \in KeyHashes :
       /\ IsFiniteSet(usedAfter[k])
       /\ newest[k] # Nothing => k \in KeysOf(entries) \/ Lost(k)
  /\ reply.code = "OK" =>
       LET r == newest[reply.key]
       IN r.status = "active" /\ now <= r.at + OfflineTtl /\ now <= r.ends
  /\ reply.code = "MISS" /\ newest[reply.key] # Nothing => Lost(reply.key)

(* What the run checks of the offline cache.                               *)
LEMMA OfflineFollows == OfflineInv => OfflineCacheSound /\ OfflineCacheTypeOK
<1> SUFFICES ASSUME OfflineInv PROVE OfflineCacheSound /\ OfflineCacheTypeOK
  OBVIOUS
<1>1. \A i \in DOMAIN entries : entries[i] \in OfflineEntry
  BY LenProperties, ElementOfSeq DEF OfflineInv, OfflineTypes
<1>2. OfflineCacheTypeOK
  BY <1>1 DEF OfflineInv, OfflineTypes, OfflineCacheTypeOK, OfflineEntry
<1> QED BY <1>2 DEF OfflineInv, OfflineTypes, OfflineCacheSound, Lost

(* Using a key adds it to what was used after the others. *)
LEMMA UsedMore ==
  ASSUME usedAfter \in [KeyHashes -> SUBSET KeyHashes], \A j \in KeyHashes : IsFiniteSet(usedAfter[j]),
         NEW k \in KeyHashes, usedAfter' = Used(k)
  PROVE  /\ usedAfter' \in [KeyHashes -> SUBSET KeyHashes] /\ usedAfter'[k] = {}
         /\ \A j \in KeyHashes : IsFiniteSet(usedAfter'[j])
         /\ \A j \in KeyHashes : j # k =>
              /\ k \in usedAfter'[j] /\ usedAfter[j] \subseteq usedAfter'[j]
              /\ Cardinality(usedAfter'[j]) >= Cardinality(usedAfter[j])
<1>1. \A j \in KeyHashes : usedAfter'[j] = IF j = k THEN {} ELSE usedAfter[j] \cup {k}
  BY DEF Used
<1>2. usedAfter' \in [KeyHashes -> SUBSET KeyHashes]
  BY DEF Used
<1>3. ASSUME NEW j \in KeyHashes PROVE IsFiniteSet(usedAfter'[j])
  <2>1. IsFiniteSet({})
    BY FS_EmptySet
  <2>2. IsFiniteSet(usedAfter[j] \cup {k})
    BY FS_AddElement
  <2> QED BY <1>1, <2>1, <2>2
<1>4. ASSUME NEW j \in KeyHashes, j # k
      PROVE  /\ k \in usedAfter'[j] /\ usedAfter[j] \subseteq usedAfter'[j]
             /\ Cardinality(usedAfter'[j]) >= Cardinality(usedAfter[j])
  <2>1. usedAfter'[j] = usedAfter[j] \cup {k}
    BY <1>1, <1>4
  <2>2. IsFiniteSet(usedAfter'[j]) /\ usedAfter[j] \subseteq usedAfter'[j]
    BY <1>3, <2>1
  <2>3. /\ Cardinality(usedAfter[j]) <= Cardinality(usedAfter'[j])
        /\ Cardinality(usedAfter[j]) \in Nat /\ Cardinality(usedAfter'[j]) \in Nat
    BY <2>2, FS_Subset, FS_CardinalityType
  <2> QED BY <2>1, <2>2, <2>3
<1> QED BY <1>1, <1>2, <1>3, <1>4

(* A store, an answer, an invalidation and the clock keep the order and    *)
(* the age of the entries.                                                 *)
LEMMA OfflinePreserved == OfflineInv /\ OfflineCacheNext => OfflineInv'
<1> SUFFICES ASSUME OfflineInv, OfflineCacheNext PROVE OfflineInv'
  OBVIOUS
<1>0. /\ OfflineTypes /\ OfflineEntries
      /\ now \in 0 .. MaxTime /\ MaxTime \in Nat /\ OfflineTtl \in Nat /\ CacheSize \in Nat \ {0}
      /\ Items(entries) \subseteq OfflineEntry /\ entries \in Seq(OfflineEntry) /\ Unique(entries)
  BY ItemsOfSeq, MaxTimeAssumption, OfflineCacheAssumption DEF OfflineInv, OfflineTypes, Time
(* What stays of the entries, in their order, is as good as it was. *)
<1>1. ASSUME now' \in Time, now <= now', entries' \in Seq(OfflineEntry), Unique(entries'), Len(entries') <= Len(entries),
             Items(entries') \subseteq Items(entries),
             \A e, f : Precedes(entries', e, f) => Precedes(entries, e, f),
             UNCHANGED usedAfter,
             newest' \in [KeyHashes -> Results \cup {Nothing}],
             \A k \in KeyHashes : newest'[k] = newest[k] \/ (newest'[k] = Nothing /\ k \notin KeysOf(entries')),
             \A e \in Items(entries) : e \in Items(entries') \/ newest'[e.key] = Nothing \/ now' > e.exp,
             reply' \in [key : KeyHashes, code : Codes],
             reply'.code \notin {"OK", "MISS"}
      PROVE  OfflineInv'
  <2>1. OfflineTypes'
    BY <1>0, <1>1, LenProperties DEF OfflineTypes
  <2>2. OfflineEntries'
    <3>1. ASSUME NEW e \in Items(entries') PROVE e.val = newest'[e.key] /\ e.exp = e.val.at + OfflineTtl
      <4>1. e.key \in KeyHashes /\ e.key \in KeysOf(entries') /\ e \in Items(entries)
        BY <1>0, <1>1, KeysAreItems DEF OfflineEntry
      <4> QED BY <1>0, <1>1, <4>1 DEF OfflineEntries
    <3> QED BY <1>0, <1>1, <3>1 DEF OfflineEntries
  <2>3. ASSUME NEW k \in KeyHashes, newest'[k] # Nothing PROVE k \in KeysOf(entries') \/ Lost(k)'
    <3>1. newest'[k] = newest[k] /\ (k \in KeysOf(entries) \/ Lost(k))
      BY <1>1, <2>3 DEF OfflineInv
    <3>2. CASE Lost(k)
      <4>1. newest[k] \in Results
        BY <1>0, <2>3, <3>1 DEF OfflineTypes
      <4>2. newest[k].at \in Nat /\ now' \in Nat
        BY <1>0, <1>1, <4>1 DEF Results, Time
      <4>3. now > newest[k].at + OfflineTtl => now' > newest[k].at + OfflineTtl
        BY <1>0, <1>1, <4>2
      <4> QED BY <1>1, <3>1, <3>2, <4>3 DEF Lost
    <3>3. CASE k \in KeysOf(entries)
      <4>1. PICK e \in Items(entries) : e.key = k
        BY <3>3, KeysAreItems
      <4>2. e.val = newest[k] /\ e.exp = e.val.at + OfflineTtl
        BY <1>0, <4>1 DEF OfflineEntries
      <4>3. e \in Items(entries') \/ now' > e.exp
        BY <1>1, <2>3, <4>1
      <4> QED BY <3>1, <4>1, <4>2, <4>3, KeysAreItems DEF Lost
    <3> QED BY <3>1, <3>2, <3>3
  <2> QED BY <1>1, <2>1, <2>2, <2>3 DEF OfflineInv
<1>2. ASSUME NEW c \in Codes PROVE [reply EXCEPT !.code = c] \in [key : KeyHashes, code : Codes]
                                   /\ [reply EXCEPT !.code = c].code = c
  BY <1>0 DEF OfflineTypes
<1>3. NoReply \in [key : KeyHashes, code : Codes] /\ NoReply.code = "none"
  BY <1>2 DEF NoReply, Codes
<1>4. CASE Tick /\ reply' = NoReply /\ UNCHANGED <<entries, usedAfter, newest>>
  <2>1. now' \in Time /\ now <= now'
    BY <1>0, <1>4 DEF Tick, Time
  <2> QED BY <1>0, <1>1, <1>3, <1>4, <2>1, LenProperties DEF OfflineTypes
<1>5. ASSUME NEW k \in KeyHashes, InvalidateOffline(k) PROVE OfflineInv'
  <2>1. /\ entries' = Without(entries, k) /\ newest' = [newest EXCEPT ![k] = Nothing]
        /\ reply' = NoReply /\ UNCHANGED <<now, usedAfter>>
    BY <1>5 DEF InvalidateOffline
  <2>2. /\ entries' \in Seq(OfflineEntry) /\ Unique(entries') /\ Items(entries') = {e \in Items(entries) : e.key # k}
        /\ Len(entries') <= Len(entries)
        /\ \A e, f : Precedes(entries', e, f) => Precedes(entries, e, f)
    <3>1. Len(entries) \in Nat
      BY <1>0, LenProperties
    <3> QED BY <1>0, <2>1, <3>1, WithoutProperties
  <2>3. k \notin KeysOf(entries')
    BY <2>2, KeysAreItems
  <2>4. /\ newest' \in [KeyHashes -> Results \cup {Nothing}]
        /\ \A j \in KeyHashes : newest'[j] = IF j = k THEN Nothing ELSE newest[j]
    BY <1>0, <2>1 DEF OfflineTypes
  <2>5. \A e \in Items(entries) : e \in Items(entries') \/ newest'[e.key] = Nothing
    BY <1>0, <2>2, <2>4
  <2> QED BY <1>0, <1>1, <1>3, <2>1, <2>2, <2>3, <2>4, <2>5 DEF OfflineTypes
<1>6. CASE ClearOffline
  <2>1. /\ entries' = <<>> /\ newest' = [j \in KeyHashes |-> Nothing]
        /\ reply' = NoReply /\ UNCHANGED <<now, usedAfter>>
    BY <1>6 DEF ClearOffline
  <2>2. /\ entries' \in Seq(OfflineEntry) /\ Unique(entries') /\ Items(entries') = {}
        /\ Len(entries') = 0 /\ \A e, f : ~Precedes(entries', e, f)
    BY <2>1 DEF Unique, Items, Precedes
  <2>3. newest' \in [KeyHashes -> Results \cup {Nothing}] /\ \A j \in KeyHashes : newest'[j] = Nothing
    BY <2>1
  <2>4. KeysOf(entries') = {}
    BY <2>2, KeysAreItems
  <2>5. Len(entries') <= Len(entries) /\ \A e \in Items(entries) : newest'[e.key] = Nothing
    BY <1>0, <2>2, <2>3, LenProperties DEF OfflineEntry
  <2> QED BY <1>0, <1>1, <1>3, <2>1, <2>2, <2>3, <2>4, <2>5 DEF OfflineTypes
<1>7. CASE CleanupOffline
  <2> DEFINE live == {entries[i] : i \in {j \in DOMAIN entries : now <= entries[j].exp}}
  <2>1. entries' = Kept(entries, live) /\ reply' = NoReply /\ UNCHANGED <<now, usedAfter, newest>>
    BY <1>7 DEF CleanupOffline
  <2>2. \A e \in Items(entries) : now <= e.exp => e \in live
    BY DEF Items
  <2> HIDE DEF live
  <2>3. /\ entries' \in Seq(OfflineEntry) /\ Unique(entries') /\ Items(entries') = Items(entries) \cap live
        /\ Len(entries') <= Len(entries)
        /\ \A e, f : Precedes(entries', e, f) => Precedes(entries, e, f)
    BY <1>0, <2>1, KeptProperties, KeptIsUnique
  <2>4. \A e \in Items(entries) : e \in Items(entries') \/ now' > e.exp
    <3> SUFFICES ASSUME NEW e \in Items(entries), e \notin Items(entries') PROVE now' > e.exp
      OBVIOUS
    <3>1. e.exp \in 0 .. MaxTime + OfflineTtl
      BY <1>0 DEF OfflineEntry
    <3>2. ~(now <= e.exp)
      BY <2>2, <2>3
    <3> QED BY <1>0, <2>1, <3>1, <3>2
  <2> QED BY <1>0, <1>1, <1>3, <2>1, <2>3, <2>4 DEF OfflineTypes
<1>8. ASSUME NEW k \in KeyHashes, AnswerOffline(k) PROVE OfflineInv'
  <2> DEFINE code == OfflineCode(k)
             e == EntryOf(entries, k)
  <2>1. /\ reply' = [key |-> k, code |-> code]
        /\ entries' = IF code \in {"EXPIRED", "REFUSED"} THEN entries ELSE Got(entries, k, now)
        /\ usedAfter' = IF code = "OK" THEN Used(k) ELSE usedAfter
        /\ now' = now /\ newest' = newest
    BY <1>8 DEF AnswerOffline
  <2>2. /\ code = "MISS" => ~Hit(entries, k, now)
        /\ code = "OK" => Hit(entries, k, now) /\ ~(e.val.ends < now) /\ e.val.status = "active"
        /\ code \in {"MISS", "EXPIRED", "REFUSED", "OK"}
    BY DEF OfflineCode
  <2> HIDE DEF code, e
  <2>3. reply' \in [key : KeyHashes, code : Codes] /\ reply'.key = k /\ reply'.code = code
    BY <2>1, <2>2 DEF Codes
  <2>4. CASE code \in {"EXPIRED", "REFUSED"}
    <3>1. UNCHANGED <<entries, usedAfter, newest, now>>
      BY <2>1, <2>4
    <3>2. now' \in Time /\ now <= now' /\ Len(entries') <= Len(entries)
      BY <1>0, <3>1, LenProperties DEF Time
    <3>3. newest' \in [KeyHashes -> Results \cup {Nothing}]
      BY <1>0, <3>1 DEF OfflineTypes
    <3> QED BY <1>0, <1>1, <2>3, <2>4, <3>1, <3>2, <3>3
  <2>5. ASSUME code \in {"MISS", "OK"}
        PROVE  /\ entries' = Got(entries, k, now)
               /\ entries' \in Seq(OfflineEntry) /\ Unique(entries') /\ Len(entries') <= Len(entries)
               /\ Items(entries') \subseteq Items(entries)
               /\ code = "OK" => k \in KeysOf(entries')
               /\ \A f \in Items(entries) : f.key # k \/ code = "OK" => f \in Items(entries')
               /\ \A f, g : Precedes(entries', f, g) =>
                    (f.key # k /\ g.key = k /\ code = "OK") \/ (Precedes(entries, f, g) /\ f.key # k)
    <3>1. entries' = Got(entries, k, now) /\ (Hit(entries, k, now) <=> code = "OK")
      BY <2>1, <2>2, <2>5
    <3> QED BY <1>0, <3>1, GotProperties
  <2>6. ASSUME code \in {"MISS", "OK"} PROVE OfflineTypes' /\ OfflineEntries'
    <3>1. usedAfter' \in [KeyHashes -> SUBSET KeyHashes]
          /\ \A j \in KeyHashes : j # k => usedAfter[j] \subseteq usedAfter'[j] /\ (code = "OK" => k \in usedAfter'[j])
      <4>1. CASE code = "OK"
        BY <1>0, <2>1, <4>1, UsedMore DEF OfflineInv, OfflineTypes
      <4>2. CASE code = "MISS"
        BY <1>0, <2>1, <4>2 DEF OfflineTypes
      <4> QED BY <2>6, <4>1, <4>2
    <3>2. OfflineTypes'
      <4>1. Len(entries') <= CacheSize
        BY <1>0, <2>5, <2>6, LenProperties DEF OfflineTypes
      <4> QED BY <1>0, <2>1, <2>3, <2>5, <2>6, <3>1, <4>1 DEF OfflineTypes
    <3>3. \A f \in Items(entries') : f.val = newest'[f.key] /\ f.exp = f.val.at + OfflineTtl
      BY <1>0, <2>1, <2>5, <2>6 DEF OfflineEntries
    <3>4. ASSUME NEW f, NEW g, Precedes(entries', f, g) PROVE g.key \in usedAfter'[f.key]
      <4>1. f \in Items(entries')
        BY <3>4 DEF Precedes, Items
      <4>2. f.key \in KeyHashes
        BY <1>0, <2>5, <2>6, <4>1 DEF OfflineEntry
      <4> QED BY <1>0, <2>5, <2>6, <3>1, <3>4, <4>2 DEF OfflineEntries
    <3> QED BY <3>2, <3>3, <3>4 DEF OfflineEntries
  <2>7. CASE code = "MISS"
    <3>1. UNCHANGED <<usedAfter, newest, now>>
      BY <2>1, <2>7
    <3>2. ASSUME NEW f \in Items(entries), f.key = k PROVE Lost(k)
      <4>1. f.exp = newest[k].at + OfflineTtl
        BY <1>0, <3>2 DEF OfflineEntries
      <4>2. f.exp \in 0 .. MaxTime + OfflineTtl
        BY <1>0 DEF OfflineEntry
      <4>3. ~(now <= f.exp)
        BY <2>2, <2>7, <3>2 DEF Hit, Items
      <4> QED BY <1>0, <4>1, <4>2, <4>3 DEF Lost
    <3>3. ASSUME NEW j \in KeyHashes, newest[j] # Nothing PROVE j \in KeysOf(entries') \/ Lost(j)
      <4>1. j \in KeysOf(entries) \/ Lost(j)
        BY <3>3 DEF OfflineInv
      <4>2. CASE j \in KeysOf(entries)
        <5>1. PICK f \in Items(entries) : f.key = j
          BY <4>2, KeysAreItems
        <5>2. f \in Items(entries') \/ j = k
          BY <2>5, <2>7, <5>1
        <5> QED BY <3>2, <5>1, <5>2, KeysAreItems
      <4> QED BY <4>1, <4>2
    <3>4. newest[k] # Nothing => Lost(k)
      <4>1. k \notin KeysOf(entries) => (newest[k] # Nothing => Lost(k))
        BY DEF OfflineInv
      <4> QED BY <3>2, <4>1, KeysAreItems
    <3> QED BY <2>3, <2>6, <2>7, <3>1, <3>3, <3>4 DEF OfflineInv, Lost
  <2>8. CASE code = "OK"
    <3>1. usedAfter' = Used(k) /\ UNCHANGED <<newest, now>>
      BY <2>1, <2>8
    <3>2. /\ \A j \in KeyHashes : IsFiniteSet(usedAfter'[j])
          /\ \A j \in KeyHashes : j # k => Cardinality(usedAfter'[j]) >= Cardinality(usedAfter[j])
      BY <1>0, <3>1, UsedMore DEF OfflineInv, OfflineTypes
    <3>3. ASSUME NEW j \in KeyHashes, newest[j] # Nothing PROVE j \in KeysOf(entries') \/ Lost(j)'
      <4>1. j \in KeysOf(entries) \/ Lost(j)
        BY <3>3 DEF OfflineInv
      <4>2. CASE j \in KeysOf(entries)
        BY <2>5, <2>8, <4>2, KeysAreItems
      <4>3. CASE j = k
        BY <2>5, <2>8, <4>3
      <4>4. CASE j # k /\ Lost(j)
        <5>1. Cardinality(usedAfter[j]) \in Nat /\ Cardinality(usedAfter'[j]) \in Nat
          BY <3>2, FS_CardinalityType DEF OfflineInv
        <5> QED BY <1>0, <3>1, <3>2, <4>4, <5>1 DEF Lost
      <4> QED BY <4>1, <4>2, <4>3, <4>4
    <3>4. LET r == newest[k] IN r.status = "active" /\ now <= r.at + OfflineTtl /\ now <= r.ends
      <4>1. e \in Items(entries) /\ e.key = k /\ now <= e.exp
        BY <1>0, <2>2, <2>8, HitProperties DEF e
      <4>2. e.val = newest[k] /\ e.exp = e.val.at + OfflineTtl
        BY <1>0, <4>1 DEF OfflineEntries
      <4>3. e.val \in Results
        BY <1>0, <4>1 DEF OfflineEntry
      <4>4. e.val.ends \in 0 .. MaxTime + 1
        BY <4>3 DEF Results
      <4>5. now <= e.val.ends
        BY <1>0, <2>2, <2>8, <4>4
      <4> QED BY <2>2, <2>8, <4>1, <4>2, <4>5
    <3> QED BY <2>3, <2>6, <2>8, <3>1, <3>2, <3>3, <3>4 DEF OfflineInv
  <2> QED BY <2>2, <2>4, <2>7, <2>8
<1>9. ASSUME NEW k \in KeyHashes, NEW s \in Standing, NEW ends \in {now, MaxTime + 1}, CacheValidation(k, s, ends)
      PROVE  OfflineInv'
  <2> DEFINE r == [status |-> s, ends |-> ends, at |-> now]
             new == [key |-> k, exp |-> now + OfflineTtl, val |-> r]
  <2>1. /\ entries' = Put(entries, k, r, now + OfflineTtl, CacheSize) /\ usedAfter' = Used(k)
        /\ newest' = [newest EXCEPT ![k] = r] /\ reply' = NoReply /\ now' = now
    BY <1>9 DEF CacheValidation
  <2>2. r \in Results /\ r.at = now
    BY <1>0 DEF Results, Time
  <2> HIDE DEF r
  <2>3. new \in OfflineEntry /\ new.key = k /\ new.val = r /\ new.exp = now + OfflineTtl
    BY <1>0, <2>2 DEF OfflineEntry
  <2>4. /\ entries' \in Seq(OfflineEntry) /\ Unique(entries') /\ Len(entries') <= CacheSize
        /\ new \in Items(entries')
        /\ \A e \in Items(entries') : e = new \/ (e \in Items(entries) /\ e.key # k)
        /\ \A e, f : Precedes(entries', e, f) =>
             e \in Items(entries) /\ e.key # k /\ (f = new \/ Precedes(entries, e, f))
        /\ \A e \in Items(entries) : e.key # k /\ e \notin Items(entries') =>
             /\ Len(entries') = CacheSize
             /\ \A f \in Items(entries') : f = new \/ Precedes(entries, e, f)
    BY <1>0, <2>1, <2>3, PutProperties
  <2> HIDE DEF new
  <2>5. /\ usedAfter' \in [KeyHashes -> SUBSET KeyHashes]
        /\ \A j \in KeyHashes : IsFiniteSet(usedAfter'[j])
        /\ \A j \in KeyHashes : j # k =>
             /\ k \in usedAfter'[j] /\ usedAfter[j] \subseteq usedAfter'[j]
             /\ Cardinality(usedAfter'[j]) >= Cardinality(usedAfter[j])
    BY <1>0, <2>1, UsedMore DEF OfflineInv, OfflineTypes
  <2>6. /\ newest' \in [KeyHashes -> Results \cup {Nothing}]
        /\ \A j \in KeyHashes : newest'[j] = IF j = k THEN r ELSE newest[j]
    BY <1>0, <2>1, <2>2 DEF OfflineTypes
  <2>7. \A e \in Items(entries) : e.key \in KeyHashes
    BY <1>0 DEF OfflineEntry
  <2>8. OfflineTypes'
    BY <1>0, <1>3, <2>1, <2>4, <2>5, <2>6 DEF OfflineTypes
  <2>9. OfflineEntries'
    <3>1. \A e \in Items(entries') : e.val = newest'[e.key] /\ e.exp = e.val.at + OfflineTtl
      BY <1>0, <2>2, <2>3, <2>4, <2>6, <2>7 DEF OfflineEntries
    <3>2. \A e, f : Precedes(entries', e, f) => f.key \in usedAfter'[e.key]
      BY <1>0, <2>3, <2>4, <2>5, <2>7 DEF OfflineEntries
    <3> QED BY <3>1, <3>2 DEF OfflineEntries
  <2>10. ASSUME NEW j \in KeyHashes, newest'[j] # Nothing PROVE j \in KeysOf(entries') \/ Lost(j)'
    <3>1. CASE j = k
      BY <2>3, <2>4, <3>1, KeysAreItems
    <3>2. CASE j # k /\ j \in KeysOf(entries)
      <4>1. PICK e \in Items(entries) : e.key = j
        BY <3>2, KeysAreItems
      <4>2. CASE e \in Items(entries')
        BY <4>1, <4>2, KeysAreItems
      <4>3. CASE e \notin Items(entries')
        <5>1. Len(entries') = CacheSize /\ \A f \in Items(entries') : f = new \/ Precedes(entries, e, f)
          BY <2>4, <3>2, <4>1, <4>3
        <5>2. \A f \in Items(entries') : f.key \in usedAfter'[j]
          BY <1>0, <2>3, <2>5, <3>2, <4>1, <5>1 DEF OfflineEntries
        <5>3. Cardinality(usedAfter'[j]) >= CacheSize
          BY <2>4, <2>5, <5>1, <5>2, EnoughUsed
        <5> QED BY <5>3 DEF Lost
      <4> QED BY <4>2, <4>3
    <3>3. CASE j # k /\ Lost(j)
      <4>1. newest'[j] = newest[j]
        BY <2>6, <3>3
      <4>2. Cardinality(usedAfter[j]) \in Nat /\ Cardinality(usedAfter'[j]) \in Nat
        BY <2>5, FS_CardinalityType DEF OfflineInv
      <4> QED BY <1>0, <2>1, <2>5, <3>3, <4>1, <4>2 DEF Lost
    <3>4. j # k => j \in KeysOf(entries) \/ Lost(j)
      BY <2>6, <2>10 DEF OfflineInv
    <3> QED BY <3>1, <3>2, <3>3, <3>4
  <2> QED BY <1>3, <2>1, <2>5, <2>8, <2>9, <2>10 DEF OfflineInv
<1> QED BY <1>4, <1>5, <1>6, <1>7, <1>8, <1>9 DEF OfflineCacheNext

-----------------------------------------------------------------------------
(* Recovery tasks                                                          *)

(* A violation that was found.                                             *)
RecoveryViolation == [id : Nat, type : Types, severity : {"medium", "high"}, loss : Nat]
(* A task made of a violation.                                             *)
RecoveryTask ==
  [id : Nat, violation : Nat, action : Actions5, severity : {"medium", "high"},
   status : TaskStatuses, recoverable : Nat, recovered : Nat]

(* A licence is suspended for severe violations only. *)
SevereIfExpired(v) == v.type = "expired_usage" => v.severity = "high"

(* A task is of a violation that was found, is in the history of settled   *)
(* tasks if it is no longer pending, and throttles or suspends for a       *)
(* severe violation only.                                                  *)
TaskSound(t) ==
  /\ t.id \in 1 .. tasked /\ t.violation \in 1 .. found
  /\ t.status # "pending" => t.id \in settled
  /\ t.action \in {"throttle", "suspend"} => t.severity = "high"

(* The inductive invariant of recovery: a task is dropped when it is       *)
(* settled only.                                                           *)
RecoveryInv ==
  /\ found \in 0 .. MaxFound /\ tasked \in 0 .. MaxTasked /\ settled \subseteq 1 .. tasked
  /\ violations \in Seq(RecoveryViolation) /\ Len(violations) <= MaxViolations /\ Len(violations) <= found
  /\ \A i \in 1 .. Len(violations) : violations[i].id = found - Len(violations) + i
  /\ tasks \in Seq(RecoveryTask) /\ \A t \in Items(tasks) : TaskSound(t)
  /\ \A n \in 1 .. tasked : n \in settled \/ \E t \in Items(tasks) : t.id = n /\ t.status = "pending"

(* What the run checks of recovery.                                        *)
LEMMA RecoveryFollows == RecoveryInv => RecoverySound /\ RecoveryTypeOK
<1> SUFFICES ASSUME RecoveryInv PROVE RecoverySound /\ RecoveryTypeOK
  OBVIOUS
<1> DEFINE n == Len(violations)
<1>1. /\ n \in Nat /\ DOMAIN violations = 1 .. n /\ \A i \in 1 .. n : violations[i] \in RecoveryViolation
      /\ DOMAIN tasks = 1 .. Len(tasks) /\ \A i \in DOMAIN tasks : tasks[i] \in RecoveryTask /\ tasks[i] \in Items(tasks)
      /\ found \in Nat /\ n <= found
  BY LenProperties, ElementOfSeq, RecoveryAssumption DEF RecoveryInv, Items
<1>2. \A i \in 1 .. n : violations[i].id = found - n + i
  BY DEF RecoveryInv
<1>3. {violations[i].id : i \in DOMAIN violations} = (found - n + 1) .. found
  <2>1. ASSUME NEW i \in 1 .. n PROVE violations[i].id \in (found - n + 1) .. found
    BY <1>1, <1>2
  <2>2. ASSUME NEW m \in (found - n + 1) .. found PROVE \E i \in 1 .. n : violations[i].id = m
    <3> DEFINE i == m - (found - n)
    <3>1. i \in 1 .. n /\ found - n + i = m
      BY <1>1
    <3> HIDE DEF i, n
    <3> QED BY <1>2, <3>1
  <2> QED BY <1>1, <2>1, <2>2
<1>4. ASSUME NEW i \in DOMAIN tasks PROVE TaskSound(tasks[i])
  BY <1>1 DEF RecoveryInv
<1>5. ASSUME NEW t \in 1 .. tasked
      PROVE  t \in settled \/ \E i \in DOMAIN tasks : tasks[i].id = t /\ tasks[i].status = "pending"
  BY DEF RecoveryInv, Items
<1>6. RecoverySound
  BY <1>3, <1>4, <1>5 DEF RecoveryInv, RecoverySound, TaskSound
<1>7. \A i \in DOMAIN violations :
        violations[i] \in [id : 1 .. found, type : Types, severity : {"medium", "high"}, loss : Nat]
  <2> SUFFICES ASSUME NEW i \in 1 .. n
               PROVE  violations[i] \in [id : 1 .. found, type : Types, severity : {"medium", "high"}, loss : Nat]
    BY <1>1
  <2>1. violations[i].id \in 1 .. found
    BY <1>1, <1>2
  <2> QED BY <1>1, <2>1 DEF RecoveryViolation
<1>8. \A i \in DOMAIN tasks :
        tasks[i] \in [id : 1 .. tasked, violation : 1 .. found, action : Actions5,
                      severity : {"medium", "high"}, status : TaskStatuses,
                      recoverable : Nat, recovered : Nat]
  BY <1>1, <1>4 DEF TaskSound, RecoveryTask
<1> QED BY <1>6, <1>7, <1>8 DEF RecoveryInv, RecoveryTypeOK

(* What a scan finds. *)
LEMMA WhatIsFound ==
  ASSUME NEW d \in LicenceData
  PROVE  /\ Found(d) \in Seq(RecoveryViolation)
         /\ \A i \in 1 .. Len(Found(d)) : Found(d)[i].id = 0 /\ SevereIfExpired(Found(d)[i])
<1> DEFINE V == {v \in RecoveryViolation : v.id = 0 /\ SevereIfExpired(v)}
           excess == d.used - d.limit
           one == IF d.limit > 0 /\ excess > 0
                    THEN <<Violation("machine_overuse", excess > d.limit, excess * MachineRate)>> ELSE <<>>
           two == IF d.overdue > 0 THEN <<Violation("expired_usage", TRUE, d.overdue * ExpiredRate)>> ELSE <<>>
           three == IF d.strange > 0
                      THEN <<Violation("feature_unauthorized", d.strange > 3, d.strange * FeatureRate)>> ELSE <<>>
           four == [i \in 1 .. d.over |-> Violation("usage_limit_exceeded", FALSE, 0)]
<1>1. /\ d.used \in Nat /\ d.limit \in Nat /\ d.overdue \in Nat /\ d.strange \in Nat /\ d.over \in Nat
      /\ MachineRate \in Nat /\ ExpiredRate \in Nat /\ FeatureRate \in Nat
  BY RecoveryAssumption
<1>2. ASSUME NEW type \in Types, NEW severe, NEW loss \in Nat, type = "expired_usage" => severe
      PROVE  Violation(type, severe, loss) \in V
  BY <1>2 DEF Violation, RecoveryViolation, SevereIfExpired
<1>3. Found(d) = one \o two \o three \o four
  BY DEF Found
<1>4. one \in Seq(V)
  <2>1. CASE d.limit > 0 /\ excess > 0
    <3> DEFINE v == Violation("machine_overuse", excess > d.limit, excess * MachineRate)
    <3>1. excess \in Nat
      BY <1>1, <2>1
    <3>2. excess * MachineRate \in Nat
      <4> HIDE DEF excess
      <4> QED BY <1>1, <3>1
    <3>3. v \in V
      <4> HIDE DEF V
      <4> QED BY <1>2, <3>2 DEF Types
    <3> HIDE DEF v, V
    <3>4. <<v>> \in Seq(V)
      BY <3>3
    <3> QED BY <2>1, <3>4 DEF v
  <2>2. CASE ~(d.limit > 0 /\ excess > 0)
    <3> HIDE DEF V
    <3> QED BY <2>2
  <2> QED BY <2>1, <2>2
<1>5. two \in Seq(V)
  <2> DEFINE v == Violation("expired_usage", TRUE, d.overdue * ExpiredRate)
  <2>1. d.overdue * ExpiredRate \in Nat
    BY <1>1
  <2>2. v \in V
    <3> HIDE DEF V
    <3> QED BY <1>2, <2>1 DEF Types
  <2> HIDE DEF v, V
  <2>3. <<v>> \in Seq(V) /\ <<>> \in Seq(V)
    BY <2>2
  <2> QED BY <2>3 DEF v
<1>6. three \in Seq(V)
  <2> DEFINE v == Violation("feature_unauthorized", d.strange > 3, d.strange * FeatureRate)
  <2>1. d.strange * FeatureRate \in Nat
    BY <1>1
  <2>2. v \in V
    <3> HIDE DEF V
    <3> QED BY <1>2, <2>1 DEF Types
  <2> HIDE DEF v, V
  <2>3. <<v>> \in Seq(V) /\ <<>> \in Seq(V)
    BY <2>2
  <2> QED BY <2>3 DEF v
<1>7. four \in Seq(V)
  <2> DEFINE v == Violation("usage_limit_exceeded", FALSE, 0)
  <2>1. v \in V
    <3> HIDE DEF V
    <3> QED BY <1>2 DEF Types
  <2> HIDE DEF v, V
  <2>2. [i \in 1 .. d.over |-> v] \in Seq(V)
    BY <1>1, <2>1
  <2> QED BY <2>2 DEF v
<1> HIDE DEF one, two, three, four, V
<1>8. one \o two \in Seq(V)
  BY <1>4, <1>5, ConcatProperties
<1>9. (one \o two) \o three \in Seq(V)
  BY <1>6, <1>8, ConcatProperties
<1>10. Found(d) \in Seq(V)
  BY <1>3, <1>7, <1>9, ConcatProperties
<1>11. \A i \in 1 .. Len(Found(d)) : Found(d)[i] \in V
  BY <1>10, ElementOfSeq
<1>12. Found(d) \in Seq(RecoveryViolation)
  <2>1. V \subseteq RecoveryViolation
    BY DEF V
  <2> QED BY <1>10, <2>1
<1> QED BY <1>11, <1>12 DEF V

(* _enforce_task_limit drops settled tasks only. *)
LEMMA TasksKept ==
  ASSUME NEW s \in Seq(RecoveryTask)
  PROVE  /\ TasksWithin(s) \in Seq(RecoveryTask) /\ Items(TasksWithin(s)) \subseteq Items(s)
         /\ \A t \in Items(s) : t \in Items(TasksWithin(s)) \/ \E u \in Items(s) : Settled(u) /\ u.id = t.id
<1> DEFINE open == {s[i] : i \in {j \in DOMAIN s : Settled(s[j])}}
           closed == Kept(s, open)
           excess == Len(s) - MaxTasks
           out == {closed[i].id : i \in {j \in DOMAIN closed : j <= excess}}
           stay == {s[i] : i \in {j \in DOMAIN s : s[j].id \notin out}}
<1>1. TasksWithin(s) = Kept(s, stay)
  BY DEF TasksWithin
<1>2. \A u \in open : Settled(u)
  OBVIOUS
<1> HIDE DEF open
<1>3. Items(closed) = Items(s) \cap open
  BY KeptProperties
<1>4. ASSUME NEW n \in out PROVE \E u \in Items(s) : Settled(u) /\ u.id = n
  <2> HIDE DEF closed
  <2>1. PICK i \in DOMAIN closed : n = closed[i].id
    BY <1>4
  <2>2. closed[i] \in Items(closed)
    BY DEF Items
  <2> QED BY <1>2, <1>3, <2>1, <2>2
<1> HIDE DEF out, closed
<1>5. \A t \in Items(s) : t \in stay \/ t.id \in out
  BY DEF Items
<1> HIDE DEF stay
<1>6. /\ Kept(s, stay) \in Seq(RecoveryTask) /\ Items(Kept(s, stay)) = Items(s) \cap stay
  BY KeptProperties
<1> QED BY <1>1, <1>4, <1>5, <1>6

(* A scan makes tasks of what it finds and drops settled ones; a task is   *)
(* completed or waived.                                                    *)
LEMMA RecoveryPreserved == RecoveryInv /\ RecoveryNext => RecoveryInv'
<1> SUFFICES ASSUME RecoveryInv, RecoveryNext PROVE RecoveryInv'
  OBVIOUS
<1>0. /\ found \in Nat /\ tasked \in Nat /\ MaxFound \in Nat /\ MaxTasked \in Nat /\ MaxViolations \in Nat
      /\ settled \subseteq 1 .. tasked
      /\ violations \in Seq(RecoveryViolation) /\ Len(violations) \in Nat
      /\ tasks \in Seq(RecoveryTask) /\ Len(tasks) \in Nat /\ DOMAIN tasks = 1 .. Len(tasks)
      /\ \A i \in 1 .. Len(tasks) : tasks[i] \in RecoveryTask /\ tasks[i] \in Items(tasks)
  BY LenProperties, ElementOfSeq, RecoveryAssumption DEF RecoveryInv, Items
(* A task changes and is settled. *)
<1>1. ASSUME NEW i \in DOMAIN tasks, NEW t \in RecoveryTask, t.status # "pending",
             t.id = tasks[i].id /\ t.violation = tasks[i].violation /\ t.action = tasks[i].action
             /\ t.severity = tasks[i].severity,
             tasks' = [tasks EXCEPT ![i] = t], settled' = settled \cup {tasks[i].id},
             UNCHANGED <<violations, found, tasked>>
      PROVE  RecoveryInv'
  <2>1. TaskSound(tasks[i]) /\ tasks[i].id \in 1 .. tasked
    BY <1>0 DEF RecoveryInv, TaskSound
  <2>2. /\ tasks' \in Seq(RecoveryTask) /\ Len(tasks') = Len(tasks)
        /\ \A j \in 1 .. Len(tasks) : tasks'[j] = IF i = j THEN t ELSE tasks[j]
    BY <1>0, <1>1, ExceptSeq
  <2>3. DOMAIN tasks' = 1 .. Len(tasks)
    BY <2>2, LenProperties
  <2>4. ASSUME NEW u \in Items(tasks') PROVE TaskSound(u)'
    <3>1. u = t \/ u \in Items(tasks)
      BY <1>0, <2>2, <2>3 DEF Items
    <3>2. CASE u = t
      BY <1>1, <2>1, <3>2 DEF TaskSound
    <3>3. CASE u \in Items(tasks)
      BY <1>1, <3>3 DEF RecoveryInv, TaskSound
    <3> QED BY <3>1, <3>2, <3>3
  <2>5. ASSUME NEW n \in 1 .. tasked, n \notin settled' PROVE \E u \in Items(tasks') : u.id = n /\ u.status = "pending"
    <3>1. PICK u \in Items(tasks) : u.id = n /\ u.status = "pending"
      BY <1>1, <2>5 DEF RecoveryInv
    <3>2. PICK j \in 1 .. Len(tasks) : u = tasks[j]
      BY <1>0 DEF Items
    <3>3. j # i
      BY <1>1, <2>5, <3>1, <3>2
    <3>4. tasks'[j] = u /\ tasks'[j] \in Items(tasks')
      BY <2>2, <2>3, <3>2, <3>3 DEF Items
    <3> QED BY <3>1, <3>4
  <2>6. settled' \subseteq 1 .. tasked
    BY <1>0, <1>1, <2>1
  <2> QED BY <1>1, <2>2, <2>4, <2>5, <2>6 DEF RecoveryInv
<1>2. ASSUME NEW i \in DOMAIN tasks, WaiveTask(i) PROVE RecoveryInv'
  <2> DEFINE t == [tasks[i] EXCEPT !.status = "waived"]
  <2>1. /\ t \in RecoveryTask /\ t.status # "pending" /\ t.id = tasks[i].id /\ t.violation = tasks[i].violation
        /\ t.action = tasks[i].action /\ t.severity = tasks[i].severity
    BY <1>0 DEF RecoveryTask, TaskStatuses
  <2> HIDE DEF t
  <2>2. /\ tasks' = [tasks EXCEPT ![i] = t] /\ settled' = settled \cup {tasks[i].id}
        /\ UNCHANGED <<violations, found, tasked>>
    BY <1>2 DEF WaiveTask, t
  <2> QED BY <1>1, <2>1, <2>2
<1>3. ASSUME NEW i \in DOMAIN tasks, NEW a \in Recovered, CompleteTask(i, a) PROVE RecoveryInv'
  <2> DEFINE u == [tasks[i] EXCEPT !.status = "completed"]
             t == [u EXCEPT !.recovered = a]
  <2>1. /\ u \in RecoveryTask /\ u.status # "pending" /\ u.id = tasks[i].id /\ u.violation = tasks[i].violation
        /\ u.action = tasks[i].action /\ u.severity = tasks[i].severity
    BY <1>0 DEF RecoveryTask, TaskStatuses
  <2>2. a \in Nat
    BY RecoveryAssumption
  <2>3. tasks' = [tasks EXCEPT ![i] = t]
    <3>1. tasks' = [tasks EXCEPT ![i].status = "completed", ![i].recovered = a]
      BY <1>3 DEF CompleteTask
    <3> QED BY <1>0, <3>1
  <2> HIDE DEF u
  <2>4. /\ t \in RecoveryTask /\ t.status # "pending" /\ t.id = tasks[i].id /\ t.violation = tasks[i].violation
        /\ t.action = tasks[i].action /\ t.severity = tasks[i].severity
    BY <2>1, <2>2 DEF RecoveryTask
  <2>5. settled' = settled \cup {tasks[i].id} /\ UNCHANGED <<violations, found, tasked>>
    BY <1>3 DEF CompleteTask
  <2> HIDE DEF t
  <2> QED BY <1>1, <2>3, <2>4, <2>5
<1>4. ASSUME NEW d \in LicenceData, NEW generate \in BOOLEAN, ScanAndGenerate(d, generate) PROVE RecoveryInv'
  <2> DEFINE fresh == Found(d)
             n == Len(fresh)
             new == Numbered(fresh, found)
             More(s) == [i \in DOMAIN s |->
                          [id |-> tasked + i, violation |-> s[i].id, action |-> ActionOf(s[i]),
                           severity |-> s[i].severity, status |-> "pending",
                           recoverable |-> s[i].loss, recovered |-> 0]]
             more == More(new)
             V == Len(violations)
  <2>1. /\ found + Len(new) <= MaxFound /\ found' = found + Len(new)
        /\ violations' = LastOf(violations \o new, MaxViolations)
        /\ IF generate
             THEN /\ tasked + Len(more) <= MaxTasked /\ tasked' = tasked + Len(more)
                  /\ tasks' = TasksWithin(tasks \o more)
             ELSE UNCHANGED <<tasks, tasked>>
        /\ settled' = settled
    BY <1>4 DEF ScanAndGenerate
  <2>2. /\ fresh \in Seq(RecoveryViolation) /\ n \in Nat /\ DOMAIN fresh = 1 .. n
        /\ \A i \in 1 .. n : fresh[i] \in RecoveryViolation /\ SevereIfExpired(fresh[i])
    BY WhatIsFound, LenProperties, ElementOfSeq
  <2> HIDE DEF fresh, n
  <2>3. ASSUME NEW i \in 1 .. n
        PROVE  /\ [fresh[i] EXCEPT !.id = found + i] \in RecoveryViolation
               /\ [fresh[i] EXCEPT !.id = found + i].id = found + i
               /\ SevereIfExpired([fresh[i] EXCEPT !.id = found + i])
    <3>1. found + i \in Nat
      BY <1>0, <2>2
    <3> QED BY <2>2, <3>1 DEF RecoveryViolation, SevereIfExpired
  <2>4. new = [i \in 1 .. n |-> [fresh[i] EXCEPT !.id = found + i]]
    BY <2>2 DEF Numbered
  <2> HIDE DEF new
  <2>5. /\ new \in Seq(RecoveryViolation) /\ Len(new) = n /\ DOMAIN new = 1 .. n
        /\ \A i \in 1 .. n : new[i] \in RecoveryViolation /\ new[i].id = found + i /\ SevereIfExpired(new[i])
    <3>1. new \in [1 .. n -> RecoveryViolation]
      BY <2>3, <2>4
    <3>2. \A i \in 1 .. n : new[i].id = found + i /\ SevereIfExpired(new[i])
      BY <2>3, <2>4
    <3>3. new \in Seq(RecoveryViolation) /\ Len(new) = n
      BY <2>2, <3>1, LenProperties
    <3> QED BY <3>1, <3>2, <3>3
  (* The violations kept are the newest. *)
  <2>6. /\ violations' \in Seq(RecoveryViolation) /\ Len(violations') <= MaxViolations /\ Len(violations') <= found'
        /\ \A i \in 1 .. Len(violations') : violations'[i].id = found' - Len(violations') + i
    <3> DEFINE s == violations \o new
    <3>1. /\ s \in Seq(RecoveryViolation) /\ Len(s) = V + n
          /\ \A i \in 1 .. V + n : s[i] = IF i <= V THEN violations[i] ELSE new[i - V]
      BY <1>0, <2>5, ConcatProperties
    <3>2. violations' = LastOf(s, MaxViolations)
      BY <2>1
    <3> HIDE DEF s
    <3>3. \A i \in 1 .. V + n : s[i].id = found + n - (V + n) + i
      <4> SUFFICES ASSUME NEW i \in 1 .. V + n PROVE s[i].id = found + n - (V + n) + i
        OBVIOUS
      <4>1. CASE i <= V
        BY <1>0, <2>2, <3>1, <4>1 DEF RecoveryInv
      <4>2. CASE ~(i <= V)
        <5>1. i - V \in 1 .. n /\ s[i] = new[i - V]
          BY <1>0, <2>2, <3>1, <4>2
        <5>2. s[i].id = found + (i - V)
          BY <2>5, <5>1
        <5> QED BY <1>0, <2>2, <5>2
      <4> QED BY <4>1, <4>2
    <3>4. V <= found
      BY DEF RecoveryInv
    <3> DEFINE q == LastOf(s, MaxViolations)
    <3>5. /\ q \in Seq(RecoveryViolation) /\ Len(q) <= MaxViolations /\ Len(q) \in Nat /\ Len(q) <= Len(s)
          /\ \A i \in 1 .. Len(q) : Len(s) - Len(q) + i \in 1 .. Len(s) /\ q[i] = s[Len(s) - Len(q) + i]
      <4>1. Len(s) \in Nat /\ Len(q) \in Nat
        BY <1>0, <3>1, LastProperties, LenProperties
      <4>2. /\ q \in Seq(RecoveryViolation) /\ Len(q) <= MaxViolations /\ Len(q) <= Len(s)
            /\ \A i \in 1 .. Len(q) : Len(s) - Len(q) + i \in 1 .. Len(s) /\ q[i] = s[Len(s) - Len(q) + i]
        BY <1>0, <3>1, LastProperties
      <4> HIDE DEF q
      <4> QED BY <4>1, <4>2
    <3> HIDE DEF q
    <3>6. ASSUME NEW i \in 1 .. Len(q) PROVE q[i].id = found + n - Len(q) + i
      <4> DEFINE m == Len(s) - Len(q) + i
      <4>1. m \in 1 .. Len(s) /\ q[i] = s[m]
        BY <3>5
      <4>2. q[i].id = found + n - (V + n) + m
        <5> HIDE DEF m
        <5> QED BY <3>1, <3>3, <4>1
      <4> QED BY <1>0, <2>2, <3>1, <3>5, <4>2
    <3>7. found' = found + n /\ violations' = q
      BY <2>1, <2>5, <3>2 DEF q
    <3> HIDE DEF V
    <3>8. V \in Nat
      BY <1>0 DEF V
    <3>9. Len(q) <= V + n
      BY <3>1, <3>5 DEF V
    <3> QED BY <1>0, <2>2, <3>4, <3>5, <3>6, <3>7, <3>8, <3>9
  <2>7. /\ more \in Seq(RecoveryTask) /\ Len(more) = n
        /\ \A i \in 1 .. n : /\ more[i].id = tasked + i /\ more[i].violation = found + i /\ more[i].status = "pending"
                             /\ more[i].action \in {"throttle", "suspend"} => more[i].severity = "high"
    <3>1. more = [i \in 1 .. n |->
                   [id |-> tasked + i, violation |-> new[i].id, action |-> ActionOf(new[i]),
                    severity |-> new[i].severity, status |-> "pending",
                    recoverable |-> new[i].loss, recovered |-> 0]]
      BY <2>5
    <3>2. ASSUME NEW i \in 1 .. n
          PROVE  /\ ActionOf(new[i]) \in Actions5
                 /\ ActionOf(new[i]) \in {"throttle", "suspend"} => new[i].severity = "high"
      <4>1. new[i].type \in Types /\ new[i].severity \in {"medium", "high"} /\ SevereIfExpired(new[i])
        BY <2>5 DEF RecoveryViolation
      <4> QED BY <4>1 DEF ActionOf, Actions5, Types, SevereIfExpired
    <3>3. ASSUME NEW i \in 1 .. n
          PROVE  /\ tasked + i \in Nat /\ new[i].id \in Nat /\ new[i].id = found + i
                 /\ new[i].severity \in {"medium", "high"} /\ new[i].loss \in Nat
      BY <1>0, <2>2, <2>5 DEF RecoveryViolation
    <3> HIDE DEF more
    <3>4. more \in [1 .. n -> RecoveryTask]
      BY <3>1, <3>2, <3>3 DEF RecoveryTask, TaskStatuses
    <3>5. more \in Seq(RecoveryTask) /\ Len(more) = n
      BY <2>2, <3>4, LenProperties
    <3> QED BY <3>1, <3>2, <3>3, <3>5
  <2> HIDE DEF more
  <2>8. found' \in 0 .. MaxFound /\ found' = found + n
    BY <1>0, <2>1, <2>2, <2>5
  <2>9. CASE generate
    <3> DEFINE s == tasks \o more
               T == Len(tasks)
    <3>1. tasked' = tasked + n /\ tasked' \in 0 .. MaxTasked /\ tasks' = TasksWithin(s)
      BY <1>0, <2>1, <2>2, <2>7, <2>9
    <3>2. /\ s \in Seq(RecoveryTask) /\ Len(s) = T + n
          /\ \A i \in 1 .. T + n : s[i] = IF i <= T THEN tasks[i] ELSE more[i - T]
      BY <1>0, <2>7, ConcatProperties
    <3> HIDE DEF s
    <3>3. \A t \in Items(s) : t \in Items(tasks) \/ \E i \in 1 .. n : t = more[i]
      <4> SUFFICES ASSUME NEW t \in Items(s) PROVE t \in Items(tasks) \/ \E i \in 1 .. n : t = more[i]
        OBVIOUS
      <4>1. PICK i \in 1 .. T + n : t = s[i]
        BY <3>2, LenProperties DEF Items
      <4>2. CASE i <= T
        BY <1>0, <3>2, <4>1, <4>2
      <4>3. CASE ~(i <= T)
        <5>1. i - T \in 1 .. n /\ t = more[i - T]
          BY <1>0, <2>2, <3>2, <4>1, <4>3
        <5> QED BY <5>1
      <4> QED BY <4>2, <4>3
    <3>4. (\A t \in Items(tasks) : t \in Items(s)) /\ \A i \in 1 .. n : more[i] \in Items(s)
      <4>1. DOMAIN s = 1 .. T + n
        BY <3>2, LenProperties
      <4>2. ASSUME NEW t \in Items(tasks) PROVE t \in Items(s)
        <5>1. PICK i \in 1 .. T : t = tasks[i]
          BY <1>0 DEF Items
        <5>2. i \in 1 .. T + n /\ s[i] = t
          BY <1>0, <2>2, <3>2, <5>1
        <5> QED BY <4>1, <5>2 DEF Items
      <4>3. ASSUME NEW i \in 1 .. n PROVE more[i] \in Items(s)
        <5> DEFINE m == T + i
        <5>a. m \in 1 .. T + n /\ ~(m <= T) /\ m - T = i
          BY <1>0, <2>2
        <5>b. s[m] = more[i]
          <6> HIDE DEF m, T
          <6> QED BY <3>2, <5>a
        <5>1. T + i \in 1 .. T + n /\ s[T + i] = more[i]
          BY <5>a, <5>b
        <5> QED BY <4>1, <5>1 DEF Items
      <4> QED BY <4>2, <4>3
    <3>5. /\ tasks' \in Seq(RecoveryTask) /\ Items(tasks') \subseteq Items(s)
          /\ \A t \in Items(s) : t \in Items(tasks') \/ \E u \in Items(s) : Settled(u) /\ u.id = t.id
      BY <3>1, <3>2, TasksKept
    <3>6. ASSUME NEW t \in Items(s) PROVE TaskSound(t)'
      <4>1. CASE t \in Items(tasks)
        <5>1. TaskSound(t)
          BY <4>1 DEF RecoveryInv
        <5>2. 1 .. tasked \subseteq 1 .. tasked' /\ 1 .. found \subseteq 1 .. found'
          BY <1>0, <2>2, <2>8, <3>1
        <5> QED BY <2>1, <5>1, <5>2 DEF TaskSound
      <4>2. ASSUME NEW i \in 1 .. n, t = more[i] PROVE TaskSound(t)'
        <5>1. tasked + i \in 1 .. tasked' /\ found + i \in 1 .. found'
          BY <1>0, <2>2, <2>8, <3>1
        <5> QED BY <2>7, <4>2, <5>1 DEF TaskSound
      <4> QED BY <3>3, <4>1, <4>2
    <3>7. \A u \in Items(s) : Settled(u) => u.id \in settled'
      BY <3>6 DEF TaskSound, Settled
    <3>8. ASSUME NEW m \in 1 .. tasked', m \notin settled' PROVE \E t \in Items(s) : t.id = m /\ t.status = "pending"
      <4>1. CASE m \in 1 .. tasked
        BY <2>1, <3>4, <3>8, <4>1 DEF RecoveryInv
      <4>2. CASE m \notin 1 .. tasked
        <5>1. m - tasked \in 1 .. n /\ tasked + (m - tasked) = m
          BY <1>0, <2>2, <3>1, <4>2
        <5> DEFINE i == m - tasked
        <5> HIDE DEF i
        <5>2. i \in 1 .. n /\ tasked + i = m
          BY <5>1 DEF i
        <5> QED BY <2>7, <3>4, <5>2
      <4> QED BY <4>1, <4>2
    <3>9. ASSUME NEW m \in 1 .. tasked', m \notin settled' PROVE \E t \in Items(tasks') : t.id = m /\ t.status = "pending"
      <4>1. PICK t \in Items(s) : t.id = m /\ t.status = "pending"
        BY <3>8, <3>9
      <4> QED BY <3>5, <3>7, <3>9, <4>1
    <3>10. settled' \subseteq 1 .. tasked'
      BY <1>0, <2>1, <2>2, <3>1
    <3>11. \A t \in Items(tasks') : TaskSound(t)'
      BY <3>5, <3>6
    <3> QED BY <2>6, <2>8, <3>1, <3>5, <3>9, <3>10, <3>11 DEF RecoveryInv
  <2>10. CASE ~generate
    <3>1. UNCHANGED <<tasks, tasked, settled>>
      BY <2>1, <2>10
    <3>2. ASSUME NEW t \in Items(tasks') PROVE TaskSound(t)'
      <4>1. TaskSound(t)
        BY <3>1, <3>2 DEF RecoveryInv
      <4>2. 1 .. found \subseteq 1 .. found'
        BY <1>0, <2>2, <2>8
      <4> QED BY <3>1, <4>1, <4>2 DEF TaskSound
    <3> QED BY <2>6, <2>8, <3>1, <3>2 DEF RecoveryInv
  <2> QED BY <2>9, <2>10
<1> QED BY <1>2, <1>3, <1>4 DEF RecoveryNext

-----------------------------------------------------------------------------
(* Fraud signals                                                           *)

(* The kinds raised are those of the rules that hold. *)
KindsRaised(p, e) ==
  (IF TooManySources(p, e.at) THEN {"velocity_abuse"} ELSE {}) \cup
  (IF ClockWentBack(p) THEN {"clock_manipulation"} ELSE {}) \cup
  (IF Burst(p, e.at) THEN {"burst_abuse"} ELSE {})

(* The kinds of two lists of signals are those of the one and those of the *)
(* other.                                                                  *)
LEMMA KindsOfConcat ==
  ASSUME NEW E, NEW s \in Seq(E), NEW t \in Seq(E)
  PROVE  /\ s \o t \in Seq(E) /\ Len(s \o t) = Len(s) + Len(t)
         /\ KindsOf(s \o t) = KindsOf(s) \cup KindsOf(t)
<1>1. /\ s \o t \in Seq(E) /\ Len(s \o t) = Len(s) + Len(t)
      /\ \A i \in 1 .. Len(s) + Len(t) : (s \o t)[i] = IF i <= Len(s) THEN s[i] ELSE t[i - Len(s)]
  BY ConcatProperties
<1> DEFINE c == s \o t
<1>2. /\ Len(s) \in Nat /\ DOMAIN s = 1 .. Len(s) /\ Len(t) \in Nat /\ DOMAIN t = 1 .. Len(t)
      /\ DOMAIN c = 1 .. Len(s) + Len(t)
  BY <1>1, LenProperties
<1>3. c \in Seq(E) /\ Len(c) = Len(s) + Len(t)
      /\ \A i \in 1 .. Len(s) + Len(t) : c[i] = IF i <= Len(s) THEN s[i] ELSE t[i - Len(s)]
  BY <1>1
<1> HIDE DEF c
<1>4. ASSUME NEW k \in KindsOf(c) PROVE k \in KindsOf(s) \cup KindsOf(t)
  <2>1. PICK i \in 1 .. Len(s) + Len(t) : k = c[i].kind
    BY <1>2, <1>4 DEF KindsOf
  <2>2. CASE i <= Len(s)
    <3>1. i \in 1 .. Len(s) /\ c[i] = s[i]
      BY <1>2, <1>3, <2>1, <2>2
    <3> QED BY <1>2, <2>1, <3>1 DEF KindsOf
  <2>3. CASE ~(i <= Len(s))
    <3>1. i - Len(s) \in 1 .. Len(t) /\ c[i] = t[i - Len(s)]
      BY <1>2, <1>3, <2>1, <2>3
    <3> QED BY <1>2, <2>1, <3>1 DEF KindsOf
  <2> QED BY <2>2, <2>3
<1>5. ASSUME NEW k \in KindsOf(s) PROVE k \in KindsOf(c)
  <2>1. PICK i \in 1 .. Len(s) : k = s[i].kind
    BY <1>2, <1>5 DEF KindsOf
  <2>2. i \in 1 .. Len(s) + Len(t) /\ c[i] = s[i]
    BY <1>2, <1>3
  <2> QED BY <1>2, <2>1, <2>2 DEF KindsOf
<1>6. ASSUME NEW k \in KindsOf(t) PROVE k \in KindsOf(c)
  <2>1. PICK i \in 1 .. Len(t) : k = t[i].kind
    BY <1>2, <1>6 DEF KindsOf
  <2>2. Len(s) + i \in 1 .. Len(s) + Len(t) /\ c[Len(s) + i] = t[i]
    BY <1>2, <1>3
  <2> QED BY <1>2, <2>1, <2>2 DEF KindsOf
<1> QED BY <1>3, <1>4, <1>5, <1>6 DEF c

(* Analyzing an event raises the kinds of the rules that hold.             *)
LEMMA RaisedKinds ==
  ASSUME NEW p, NEW e \in Event
  PROVE  Raised(p, e) \in Seq(Signals) /\ KindsOf(Raised(p, e)) = KindsRaised(p, e)
<1> DEFINE If(c, kind) == IF c THEN <<[license |-> e.license, kind |-> kind]>> ELSE <<>>
           one == If(TooManySources(p, e.at), "velocity_abuse")
           two == If(ClockWentBack(p), "clock_manipulation")
           three == If(Burst(p, e.at), "burst_abuse")
<1>1. Raised(p, e) = one \o two \o three
  BY DEF Raised
<1>2. ASSUME NEW c, NEW kind \in Kinds
      PROVE  If(c, kind) \in Seq(Signals) /\ KindsOf(If(c, kind)) = IF c THEN {kind} ELSE {}
  <2>1. CASE c
    <3> DEFINE r == [license |-> e.license, kind |-> kind]
    <3>1. r \in Signals /\ r.kind = kind
      BY DEF Signals, Event
    <3>2. If(c, kind) = <<r>>
      BY <2>1
    <3> HIDE DEF r
    <3>3. <<r>> \in Seq(Signals) /\ DOMAIN <<r>> = {1} /\ <<r>>[1] = r
      BY <3>1
    <3> QED BY <2>1, <3>1, <3>2, <3>3 DEF KindsOf
  <2>2. CASE ~c
    BY <2>2 DEF KindsOf
  <2> QED BY <2>1, <2>2
<1>3. /\ one \in Seq(Signals) /\ KindsOf(one) = IF TooManySources(p, e.at) THEN {"velocity_abuse"} ELSE {}
      /\ two \in Seq(Signals) /\ KindsOf(two) = IF ClockWentBack(p) THEN {"clock_manipulation"} ELSE {}
      /\ three \in Seq(Signals) /\ KindsOf(three) = IF Burst(p, e.at) THEN {"burst_abuse"} ELSE {}
  BY <1>2, Zenon DEF Kinds
<1> HIDE DEF one, two, three
<1>4. one \o two \in Seq(Signals) /\ KindsOf(one \o two) = KindsOf(one) \cup KindsOf(two)
  BY <1>3, KindsOfConcat
<1> DEFINE both == one \o two
<1>a. both \in Seq(Signals) /\ KindsOf(both) = KindsOf(one) \cup KindsOf(two)
  BY <1>4
<1> HIDE DEF both
<1>5. both \o three \in Seq(Signals) /\ KindsOf(both \o three) = KindsOf(both) \cup KindsOf(three)
  BY <1>3, <1>a, KindsOfConcat
<1> QED BY <1>1, <1>3, <1>a, <1>5 DEF KindsRaised, both

(* What a function takes a finite set to is finite. *)
LEMMA FiniteImage ==
  ASSUME NEW S, IsFiniteSet(S), NEW f
  PROVE  IsFiniteSet({f[x] : x \in S})
<1> DEFINE g == [x \in S |-> f[x]]
           T == {f[x] : x \in S}
<1>1. g \in [S -> T] /\ \A y \in T : \E x \in S : g[x] = y
  OBVIOUS
<1> HIDE DEF g, T
<1>2. g \in Surjection(S, T)
  BY <1>1 DEF Surjection
<1>3. IsFiniteSet(T)
  BY <1>2, FS_Surjection
<1> QED BY <1>3 DEF T

(* The inductive invariant of the fraud signals: the verdict is that of    *)
(* the last event.                                                         *)
FraudInv ==
  /\ seen \in Seq(Event) /\ signals \in Seq(Signals) /\ total \in Nat /\ verdict \subseteq Kinds
  /\ Len(signals) <= total
  /\ seen # <<>> =>
       /\ Len(Mine) > 0 /\ Mine[Len(Mine)] = Analyzed
       /\ verdict = KindsRaised(Profile(seen, Analyzed.license), Analyzed)

(* An event is judged against the profile that it is the last of; a check  *)
(* for cloning judges no event.                                            *)
LEMMA FraudPreserved == FraudInv /\ FraudNext => FraudInv'
<1> SUFFICES ASSUME FraudInv, FraudNext PROVE FraudInv'
  OBVIOUS
<1>0. /\ seen \in Seq(Event) /\ signals \in Seq(Signals) /\ total \in Nat
      /\ Len(signals) \in Nat /\ Len(signals) <= total /\ MaxSignals \in Nat
  BY LenProperties, FraudAssumption DEF FraudInv
<1>1. ASSUME NEW e \in Event, Analyze(e) PROVE FraudInv'
  <2> DEFINE new == Raised(Profile(seen', e.license), e)
  <2>1. /\ seen' = Append(seen, e) /\ signals' = LastOf(signals \o new, MaxSignals)
        /\ total' = total + Len(new) /\ verdict' = KindsOf(new)
    BY <1>1 DEF Analyze
  <2>2. new \in Seq(Signals) /\ KindsOf(new) = KindsRaised(Profile(seen', e.license), e)
    BY RaisedKinds
  <2> HIDE DEF new
  <2>3. seen' \in Seq(Event) /\ Len(seen') = Len(seen) + 1 /\ seen'[Len(seen')] = e /\ Len(seen) \in Nat
    BY <1>0, <2>1, AppendProperties, LenProperties
  <2>4. seen' # <<>>
    BY <2>3
  <2>5. Analyzed' = e
    BY <2>3 DEF Analyzed
  <2>6. Mine' = Append(EventsOf(seen, e.license), e) /\ EventsOf(seen, e.license) \in Seq(Event)
    <3>1. Mine' = EventsOf(seen', e.license)
      BY <2>5 DEF Mine
    <3> DEFINE mine == [license : {e.license}, source : Sources, at : Instants]
    <3>2. e \in mine
      BY DEF Event
    <3>3. EventsOf(seen', e.license) = Kept(Append(seen, e), mine) /\ EventsOf(seen, e.license) = Kept(seen, mine)
      BY <2>1 DEF EventsOf
    <3> HIDE DEF mine
    <3>4. Kept(Append(seen, e), mine) = Append(Kept(seen, mine), e) /\ Kept(seen, mine) \in Seq(Event)
      BY <1>0, <3>2, KeptOfAppend, KeptProperties
    <3> QED BY <3>1, <3>3, <3>4
  <2>7. Len(Mine') > 0 /\ Mine'[Len(Mine')] = e
    BY <2>6, AppendProperties, LenProperties
  <2>8. signals \o new \in Seq(Signals) /\ Len(signals \o new) = Len(signals) + Len(new) /\ Len(new) \in Nat
    BY <1>0, <2>2, ConcatProperties, LenProperties
  <2>9. signals' \in Seq(Signals) /\ Len(signals') <= Len(signals) + Len(new)
    BY <1>0, <2>1, <2>8, LastProperties
  <2>10. total' \in Nat /\ Len(signals') <= total'
    BY <1>0, <2>1, <2>8, <2>9, LenProperties
  <2>11. verdict' = KindsRaised(Profile(seen', Analyzed'.license), Analyzed') /\ verdict' \subseteq Kinds
    BY <2>1, <2>2, <2>5 DEF KindsRaised, Kinds
  <2>12. Mine'[Len(Mine')] = Analyzed'
    BY <2>5, <2>7
  <2> HIDE DEF new
  <2> QED BY <2>3, <2>7, <2>9, <2>10, <2>11, <2>12 DEF FraudInv
<1>2. ASSUME NEW a \in Licensees, NEW b \in Licensees, CheckCloning(a, b) PROVE FraudInv'
  <2>1. /\ signals' = Append(signals, [license |-> a, kind |-> "pattern_cloning"])
        /\ total' = total + 1 /\ seen' = seen /\ verdict' = verdict
    BY <1>2 DEF CheckCloning
  <2>2. [license |-> a, kind |-> "pattern_cloning"] \in Signals
    BY DEF Signals, Kinds
  <2>3. signals' \in Seq(Signals) /\ Len(signals') = Len(signals) + 1
    BY <1>0, <2>1, <2>2, AppendProperties
  <2>4. Analyzed' = Analyzed /\ Mine' = Mine
    BY <2>1 DEF Analyzed, Mine
  <2> QED BY <1>0, <2>1, <2>3, <2>4 DEF FraudInv
<1> QED BY <1>1, <1>2 DEF FraudNext

(* What the run checks of the fraud signals.                               *)
LEMMA FraudFollows == FraudInv => FraudSound /\ FraudTypeOK
<1> SUFFICES ASSUME FraudInv PROVE FraudSound /\ FraudTypeOK
  OBVIOUS
<1>0. /\ seen \in Seq(Event) /\ signals \in Seq(Signals) /\ Len(signals) <= total /\ Len(seen) \in Nat
      /\ (\A i \in DOMAIN seen : seen[i] \in Event) /\ (\A i \in DOMAIN signals : signals[i] \in Signals)
  BY LenProperties, ElementOfSeq DEF FraudInv
<1>1. FraudTypeOK
  BY <1>0 DEF FraudInv, FraudTypeOK
<1>2. CASE seen # <<>>
  <2> DEFINE e == Analyzed
             at == e.at
             s == Mine
             M == Len(s)
             p == Profile(seen, e.license)
             L == Len(p)
  <2>1. e \in Event /\ at \in Nat
    <3>1. Len(seen) \in DOMAIN seen
      BY <1>0, <1>2, LenProperties, EmptySeq
    <3> QED BY <1>0, <3>1, FraudAssumption DEF Analyzed, Event
  <2>2. s \in Seq(Event) /\ M > 0 /\ s[M] = e /\ M \in Nat
    BY <1>0, <1>2, KeptProperties, LenProperties DEF FraudInv, Mine, EventsOf
  <2>3. verdict = KindsRaised(p, e)
    BY <1>2 DEF FraudInv
  <2>4. p = LastOf(s, ProfileSize)
    BY DEF Profile, Mine
  <2> HIDE DEF e, s, p
  <2>5. /\ p \in Seq(Event) /\ L <= M
        /\ M <= ProfileSize => L = M
        /\ \A i \in 1 .. L : M - L + i \in 1 .. M /\ p[i] = s[M - L + i]
    BY <2>2, <2>4, LastProperties, FraudAssumption
  <2>6. DOMAIN s = 1 .. M /\ DOMAIN p = 1 .. L /\ L \in Nat
    BY <2>2, <2>5, LenProperties
  <2>7. \A i \in 1 .. M : s[i] \in Event /\ s[i].at \in Nat
    <3>1. \A x \in Event : x.at \in Nat
      BY FraudAssumption DEF Event
    <3> QED BY <2>2, <3>1, ElementOfSeq
  <2>8. InOrder <=> \A i \in 1 .. M : s[i].at <= at
    BY <2>6 DEF InOrder, s, e
  <2>9. ASSUME NEW w
        PROVE  /\ Before(w) = {i \in 1 .. M : s[i].at \in (at - w) .. at}
               /\ Recent(p, at, w) = {i \in 1 .. L : p[i].at >= at - w}
    BY <2>6 DEF Before, Recent, s, e
  <2>10. ASSUME NEW w \in Nat
         PROVE  /\ IsFiniteSet(Before(w)) /\ IsFiniteSet(Recent(p, at, w))
                /\ InOrder => \A i \in Recent(p, at, w) : M - L + i \in Before(w)
                /\ Whole => Before(w) \subseteq Recent(p, at, w)
                /\ Whole => \A i \in Before(w) : p[i] = s[i]
    <3>1. \A n \in Nat : IsFiniteSet(1 .. n)
      BY FS_Interval
    <3>2. Before(w) \subseteq 1 .. M /\ Recent(p, at, w) \subseteq 1 .. L
      BY <2>9
    <3>3. IsFiniteSet(Before(w)) /\ IsFiniteSet(Recent(p, at, w))
      BY <2>2, <2>6, <3>1, <3>2, FS_Subset
    <3>4. ASSUME InOrder, NEW i \in Recent(p, at, w) PROVE M - L + i \in Before(w)
      <4> DEFINE m == M - L + i
      <4>1. i \in 1 .. L /\ p[i].at >= at - w /\ m \in 1 .. M /\ p[i] = s[m]
        BY <2>5, <2>9, <3>4
      <4> HIDE DEF m
      <4>2. s[m].at <= at /\ s[m].at >= at - w /\ s[m].at \in Nat
        BY <2>7, <2>8, <3>4, <4>1
      <4>3. s[m].at \in (at - w) .. at
        BY <2>1, <4>2
      <4>4. m \in Before(w)
        BY <2>9, <4>1, <4>3
      <4> QED BY <4>4 DEF m
    <3>5. ASSUME Whole PROVE Before(w) \subseteq Recent(p, at, w) /\ \A i \in Before(w) : p[i] = s[i]
      <4>1. L = M
        BY <2>5, <3>5 DEF Whole, s
      <4>2. ASSUME NEW i \in Before(w) PROVE i \in Recent(p, at, w) /\ p[i] = s[i]
        <5>1. i \in 1 .. M /\ s[i].at \in (at - w) .. at
          BY <2>9, <4>2
        <5>2. i \in 1 .. L /\ M - L + i = i
          BY <2>2, <4>1, <5>1
        <5>3. p[i] = s[i]
          BY <2>5, <5>2
        <5>4. p[i].at >= at - w
          BY <2>1, <2>7, <5>1, <5>3
        <5> QED BY <2>9, <5>2, <5>3, <5>4
      <4> QED BY <4>2
    <3> QED BY <3>3, <3>4, <3>5
  <2> DEFINE burst == Cardinality(Before(BurstWindow)) > BurstLimit
             from == {s[i].source : i \in Before(VelocityWindow)}
             sources == Cardinality(from) > VelocityLimit
  <2>11. /\ "burst_abuse" \in verdict <=> Burst(p, at)
         /\ "velocity_abuse" \in verdict <=> TooManySources(p, at)
         /\ "clock_manipulation" \in verdict <=> ClockWentBack(p)
    BY <2>3 DEF KindsRaised
  <2>12. /\ BurstWindow \in Nat /\ VelocityWindow \in Nat /\ BurstLimit \in Nat
         /\ VelocityLimit \in Nat /\ DriftTolerance \in Nat
    BY FraudAssumption
  (* The window before the event and the recent part of its profile.       *)
  <2>13. /\ InOrder => (Burst(p, at) => burst)
         /\ Whole => (burst => Burst(p, at))
    <3> DEFINE R == Recent(p, at, BurstWindow)
               B == Before(BurstWindow)
    <3>1. /\ IsFiniteSet(B) /\ IsFiniteSet(R) /\ Cardinality(B) \in Nat /\ Cardinality(R) \in Nat
          /\ InOrder => \A i \in R : M - L + i \in B
          /\ Whole => B \subseteq R
          /\ R \subseteq Int
      <4>1. R \subseteq 1 .. L
        BY <2>9
      <4>2. R \subseteq Int
        BY <2>6, <4>1
      <4> HIDE DEF InOrder, Whole
      <4>3. /\ IsFiniteSet(B) /\ IsFiniteSet(R)
            /\ InOrder => \A i \in R : M - L + i \in B
            /\ Whole => B \subseteq R
        BY <2>10, <2>12
      <4> HIDE DEF R, B
      <4> QED BY <4>2, <4>3, FS_CardinalityType
    <3> HIDE DEF R, B
    <3>2. ASSUME InOrder PROVE Cardinality(R) <= Cardinality(B)
      <4> DEFINE f == [i \in R |-> M - L + i]
      <4>1. f \in [R -> B]
        BY <3>1, <3>2
      <4>2. IsInjective(f)
        BY <2>2, <2>6, <3>1 DEF IsInjective
      <4> HIDE DEF f
      <4>3. f \in Injection(R, B)
        BY <4>1, <4>2 DEF Injection
      <4> QED BY <3>1, <4>3, FS_Injection
    <3>3. ASSUME Whole PROVE Cardinality(B) <= Cardinality(R)
      BY <3>1, <3>3, FS_Subset
    <3>4. (Burst(p, at) <=> Cardinality(R) > BurstLimit) /\ (burst <=> Cardinality(B) > BurstLimit)
      BY DEF Burst, R, B
    <3> QED BY <2>12, <3>1, <3>2, <3>3, <3>4
  <2>14. /\ InOrder => (TooManySources(p, at) => sources)
         /\ Whole => (sources => TooManySources(p, at))
    <3> DEFINE R == Recent(p, at, VelocityWindow)
               B == Before(VelocityWindow)
               S == SourcesIn(p, at)
    <3>1. /\ IsFiniteSet(B) /\ IsFiniteSet(R)
          /\ InOrder => \A i \in R : M - L + i \in B
          /\ Whole => B \subseteq R /\ \A i \in B : p[i] = s[i]
          /\ R \subseteq 1 .. L
      BY <2>9, <2>10, <2>12
    <3>2. S = {p[i].source : i \in R} /\ from = {s[i].source : i \in B}
      BY DEF SourcesIn
    <3> HIDE DEF R, B, S, from
    <3>3. IsFiniteSet({s[i].source : i \in B}) /\ IsFiniteSet({p[i].source : i \in R})
      <4> DEFINE f == [i \in B |-> s[i].source]
                 g == [i \in R |-> p[i].source]
      <4>1. {s[i].source : i \in B} = {f[i] : i \in B} /\ {p[i].source : i \in R} = {g[i] : i \in R}
        OBVIOUS
      <4> HIDE DEF f, g
      <4>2. IsFiniteSet({f[i] : i \in B}) /\ IsFiniteSet({g[i] : i \in R})
        BY <3>1, FiniteImage
      <4> QED BY <4>1, <4>2
    <3>4. IsFiniteSet(from) /\ IsFiniteSet(S) /\ Cardinality(from) \in Nat /\ Cardinality(S) \in Nat
      BY <3>2, <3>3, FS_CardinalityType
    <3>5. ASSUME InOrder PROVE Cardinality(S) <= Cardinality(from)
      <4>1. ASSUME NEW i \in R PROVE p[i].source \in from
        BY <2>5, <3>1, <3>2, <3>5, <4>1
      <4>2. S \subseteq from
        BY <3>2, <4>1
      <4> QED BY <3>4, <4>2, FS_Subset
    <3>6. ASSUME Whole PROVE Cardinality(from) <= Cardinality(S)
      <4>1. from \subseteq S
        BY <3>1, <3>2, <3>6
      <4> QED BY <3>4, <4>1, FS_Subset
    <3>7. (TooManySources(p, at) <=> Cardinality(S) > VelocityLimit) /\ (sources <=> Cardinality(from) > VelocityLimit)
      BY DEF TooManySources, S
    <3> QED BY <2>12, <3>4, <3>5, <3>6, <3>7
  <2>15. InOrder => ~ClockWentBack(p)
    <3> SUFFICES ASSUME InOrder, ClockWentBack(p) PROVE FALSE
      OBVIOUS
    <3>1. L >= 2 /\ p[L - 1].at - p[L].at > DriftTolerance
      BY DEF ClockWentBack
    <3>2. L - 1 \in 1 .. L /\ L \in 1 .. L /\ M - L + L = M
      BY <2>2, <2>6, <3>1
    <3>3. p[L] = e
      BY <2>2, <2>5, <3>2
    <3>4. p[L - 1].at <= at /\ p[L - 1].at \in Nat
      BY <2>5, <2>7, <2>8, <3>2
    <3> QED BY <2>1, <2>12, <3>1, <3>3, <3>4
  <2>16. FraudSound <=>
           /\ InOrder => /\ "burst_abuse" \in verdict => burst
                         /\ "velocity_abuse" \in verdict => sources
                         /\ "clock_manipulation" \notin verdict
           /\ Whole => /\ burst => "burst_abuse" \in verdict
                       /\ sources => "velocity_abuse" \in verdict
           /\ Len(signals) <= total
    BY <1>2 DEF FraudSound, s
  <2> HIDE DEF burst, sources
  <2> QED BY <1>0, <1>1, <2>11, <2>13, <2>14, <2>15, <2>16
<1>3. CASE seen = <<>>
  BY <1>1, <1>3 DEF FraudSound
<1> QED BY <1>2, <1>3

-----------------------------------------------------------------------------
(* Generated migrations                                                    *)

(* sorted is a list of its set, without repetition. *)
LEMMA SetToSeqIs ==
  ASSUME NEW S, IsFiniteSet(S)
  PROVE  /\ SetToSeq(S) \in Seq(S) /\ Once(SetToSeq(S)) /\ Items(SetToSeq(S)) = S
<1> DEFINE n == Cardinality(S)
           f == SetToSeq(S)
<1>1. n \in Nat
  BY FS_CardinalityType
<1>2. \E g \in [1 .. n -> S] : IsInjective(g)
  <2>1. PICK g : g \in Bijection(1 .. n, S)
    BY FS_CardinalityType DEF ExistsBijection
  <2> QED BY <2>1 DEF Bijection, Injection
<1>3. f \in [1 .. n -> S] /\ IsInjective(f)
  BY <1>2 DEF SetToSeq
<1> HIDE DEF f, n
<1>4. f \in Seq(S) /\ DOMAIN f = 1 .. n
  BY <1>1, <1>3
<1>5. Cardinality(1 .. n) = n /\ IsFiniteSet(1 .. n)
  <2>1. n \in Int /\ 1 \in Int
    BY <1>1
  <2>2. IsFiniteSet(1 .. n) /\ Cardinality(1 .. n) = IF 1 > n THEN 0 ELSE n - 1 + 1
    BY <2>1, FS_Interval
  <2> QED BY <1>1, <2>2
<1>6. f \in Injection(1 .. n, S)
  BY <1>3 DEF Injection
<1>7. f \in Surjection(1 .. n, S)
  BY <1>5, <1>6, FS_Injection DEF n
<1>8. Items(f) = S
  BY <1>3, <1>4, <1>7 DEF Items, Surjection
<1> QED BY <1>3, <1>4, <1>8 DEF f, Once, IsInjective

(* A set without repetition, put through a function that takes no two      *)
(* elements to one.                                                        *)
Through(f, S) == [i \in DOMAIN SetToSeq(S) |-> f[SetToSeq(S)[i]]]

(* Through f a set gives each of its images once.                          *)
LEMMA MappedOnce ==
  ASSUME NEW S, IsFiniteSet(S), NEW E, NEW f \in [S -> E],
         \A x, y \in S : f[x] = f[y] => x = y
  PROVE  /\ Through(f, S) \in Seq(E) /\ Once(Through(f, S))
         /\ Items(Through(f, S)) = {f[x] : x \in S}
<1> DEFINE q == SetToSeq(S)
           s == [i \in DOMAIN q |-> f[q[i]]]
           n == Len(q)
<1>1. q \in Seq(S) /\ Once(q) /\ Items(q) = S
  BY SetToSeqIs
<1>2. n \in Nat /\ DOMAIN q = 1 .. n /\ \A i \in 1 .. n : q[i] \in S
  BY <1>1, LenProperties, ElementOfSeq
<1> HIDE DEF q, n
<1>3. s \in [1 .. n -> E] /\ DOMAIN s = 1 .. n
  BY <1>2
<1>4. s \in Seq(E)
  BY <1>2, <1>3
<1>5. Once(s)
  BY <1>1, <1>2 DEF Once
<1>6. Items(s) = {f[x] : x \in S}
  <2>1. \A x \in S : \E i \in 1 .. n : q[i] = x
    BY <1>1, <1>2 DEF Items
  <2> QED BY <1>2, <2>1 DEF Items
<1> QED BY <1>4, <1>5, <1>6 DEF q, Through

-----------------------------------------------------------------------------
(* The plan of a migration                                                 *)

(* The operations on columns that a table of both snapshots needs.         *)
ColumnNeeds(t) ==
  {OnColumn("add_column", t, c) : c \in Added(t)} \cup
  {OnColumn("drop_column", t, c) : c \in Dropped(t)} \cup
  {OnColumn("alter_column", t, c) : c \in Retyped(t)}

(* All operations that take the one snapshot to the other.                 *)
Needed ==
  {AddTable(t) : t \in NewTables} \cup {DropTable(t) : t \in GoneTables} \cup
  UNION {ColumnNeeds(t) : t \in BothTables}

(* The fields of an operation tell it from the others.                     *)
LEMMA OpFields ==
  /\ \A t : AddTable(t).kind = "add_table" /\ AddTable(t).table = t /\ AddTable(t).columns = TypesOf(after, t)
  /\ \A t : DropTable(t).kind = "drop_table" /\ DropTable(t).table = t /\ DropTable(t).columns = None
  /\ \A k, t, c :
       /\ OnColumn(k, t, c).kind = k /\ OnColumn(k, t, c).table = t /\ OnColumn(k, t, c).column = c
       /\ OnColumn(k, t, c).type = after[t].columns[c].type
       /\ OnColumn(k, t, c).nullable = after[t].columns[c].nullable
BY DEF AddTable, DropTable, OnColumn, Op

(* One operation for each column.                                          *)
LEMMA EachColumnIs ==
  ASSUME NEW k, NEW t, NEW cs, IsFiniteSet(cs), NEW E, {OnColumn(k, t, c) : c \in cs} \subseteq E
  PROVE  /\ EachColumn(k, t, cs) \in Seq(E) /\ Once(EachColumn(k, t, cs))
         /\ Items(EachColumn(k, t, cs)) = {OnColumn(k, t, c) : c \in cs}
<1> DEFINE f == [c \in cs |-> OnColumn(k, t, c)]
           q == SetToSeq(cs)
<1>1. f \in [cs -> E]
  OBVIOUS
<1>2. \A x, y \in cs : f[x] = f[y] => x = y
  BY OpFields
<1>3. {f[c] : c \in cs} = {OnColumn(k, t, c) : c \in cs}
  OBVIOUS
<1>4. \A i \in DOMAIN q : q[i] \in cs
  BY SetToSeqIs, ElementOfSeq, LenProperties
<1>5. EachColumn(k, t, cs) = Through(f, cs)
  BY <1>4 DEF EachColumn, Through
<1> HIDE DEF f
<1>6. Through(f, cs) \in Seq(E) /\ Once(Through(f, cs)) /\ Items(Through(f, cs)) = {f[x] : x \in cs}
  BY <1>1, <1>2, MappedOnce
<1> QED BY <1>3, <1>5, <1>6

(* The operations of one table, each once.                                 *)
LEMMA ColumnOpsAre ==
  ASSUME NEW t \in BothTables
  PROVE  ColumnOps(t) \in Seq(Needed) /\ Once(ColumnOps(t)) /\ Items(ColumnOps(t)) = ColumnNeeds(t)
<1> DEFINE add == {OnColumn("add_column", t, c) : c \in Added(t)}
           drop == {OnColumn("drop_column", t, c) : c \in Dropped(t)}
           alter == {OnColumn("alter_column", t, c) : c \in Retyped(t)}
           a == EachColumn("add_column", t, Added(t))
           d == EachColumn("drop_column", t, Dropped(t))
           r == EachColumn("alter_column", t, Retyped(t))
<1>1. IsFiniteSet(Added(t)) /\ IsFiniteSet(Dropped(t)) /\ IsFiniteSet(Retyped(t))
  BY SchemaAssumption, FS_Subset DEF Added, Dropped, Retyped
<1>2. ColumnNeeds(t) = add \cup drop \cup alter /\ ColumnNeeds(t) \subseteq Needed
  BY DEF ColumnNeeds, Needed
<1>3. add \cap drop = {} /\ (add \cup drop) \cap alter = {}
  BY OpFields
<1> HIDE DEF add, drop, alter, a, d, r
<1>4. a \in Seq(Needed) /\ Once(a) /\ Items(a) = add
  <2>1. {OnColumn("add_column", t, c) : c \in Added(t)} \subseteq Needed
    BY <1>2 DEF add
  <2> QED BY <1>1, <2>1, EachColumnIs DEF a, add
<1>5. d \in Seq(Needed) /\ Once(d) /\ Items(d) = drop
  <2>1. {OnColumn("drop_column", t, c) : c \in Dropped(t)} \subseteq Needed
    BY <1>2 DEF drop
  <2> QED BY <1>1, <2>1, EachColumnIs DEF d, drop
<1>6. r \in Seq(Needed) /\ Once(r) /\ Items(r) = alter
  <2>1. {OnColumn("alter_column", t, c) : c \in Retyped(t)} \subseteq Needed
    BY <1>2 DEF alter
  <2> QED BY <1>1, <2>1, EachColumnIs DEF r, alter
<1>7. a \o d \in Seq(Needed) /\ Once(a \o d) /\ Items(a \o d) = add \cup drop
  BY <1>3, <1>4, <1>5, ConcatOnce
<1> DEFINE ad == a \o d
<1>9. ColumnOps(t) = ad \o r
  BY DEF ColumnOps, a, d, r
<1> HIDE DEF ad
<1>8. ad \o r \in Seq(Needed) /\ Once(ad \o r) /\ Items(ad \o r) = (add \cup drop) \cup alter
  <2>1. ad \in Seq(Needed) /\ Once(ad) /\ Items(ad) = add \cup drop
    BY <1>7 DEF ad
  <2>2. Items(ad) \cap Items(r) = {}
    BY <1>3, <1>6, <2>1
  <2> QED BY <1>6, <2>1, <2>2, ConcatOnce
<1> QED BY <1>2, <1>8, <1>9

(* One operation for each new table.                                       *)
LEMMA NewTablesOnce ==
  LET q == SetToSeq(NewTables)
      s == [i \in DOMAIN q |-> AddTable(q[i])]
  IN  s \in Seq(Needed) /\ Once(s) /\ Items(s) = {AddTable(t) : t \in NewTables}
<1> DEFINE q == SetToSeq(NewTables)
           s == [i \in DOMAIN q |-> AddTable(q[i])]
           f == [t \in NewTables |-> AddTable(t)]
<1>1. IsFiniteSet(NewTables)
  BY SchemaAssumption, FS_Subset DEF NewTables
<1>2. f \in [NewTables -> Needed]
  BY DEF Needed
<1>3. \A x, y \in NewTables : f[x] = f[y] => x = y
  BY OpFields
<1>4. \A i \in DOMAIN q : q[i] \in NewTables
  BY <1>1, SetToSeqIs, ElementOfSeq, LenProperties
<1>5. s = Through(f, NewTables)
  BY <1>4 DEF Through
<1>6. {AddTable(t) : t \in NewTables} = {f[x] : x \in NewTables}
  OBVIOUS
<1> HIDE DEF f, s
<1>7. /\ Through(f, NewTables) \in Seq(Needed) /\ Once(Through(f, NewTables))
      /\ Items(Through(f, NewTables)) = {f[x] : x \in NewTables}
  BY <1>1, <1>2, <1>3, MappedOnce
<1> QED BY <1>5, <1>6, <1>7 DEF s

(* One operation for each table that is gone.                              *)
LEMMA GoneTablesOnce ==
  LET q == SetToSeq(GoneTables)
      s == [i \in DOMAIN q |-> DropTable(q[i])]
  IN  s \in Seq(Needed) /\ Once(s) /\ Items(s) = {DropTable(t) : t \in GoneTables}
<1> DEFINE q == SetToSeq(GoneTables)
           s == [i \in DOMAIN q |-> DropTable(q[i])]
           f == [t \in GoneTables |-> DropTable(t)]
<1>1. IsFiniteSet(GoneTables)
  BY SchemaAssumption, FS_Subset DEF GoneTables
<1>2. f \in [GoneTables -> Needed]
  BY DEF Needed
<1>3. \A x, y \in GoneTables : f[x] = f[y] => x = y
  BY OpFields
<1>4. \A i \in DOMAIN q : q[i] \in GoneTables
  BY <1>1, SetToSeqIs, ElementOfSeq, LenProperties
<1>5. s = Through(f, GoneTables)
  BY <1>4 DEF Through
<1>6. {DropTable(t) : t \in GoneTables} = {f[x] : x \in GoneTables}
  OBVIOUS
<1> HIDE DEF f, s
<1>7. /\ Through(f, GoneTables) \in Seq(Needed) /\ Once(Through(f, GoneTables))
      /\ Items(Through(f, GoneTables)) = {f[x] : x \in GoneTables}
  BY <1>1, <1>2, <1>3, MappedOnce
<1> QED BY <1>5, <1>6, <1>7 DEF s

(* The plan has each operation that is needed, once.                       *)
LEMMA PlanIs ==
  Plan \in Seq(Needed) /\ Once(Plan) /\ Items(Plan) = Needed
<1> DEFINE add == {AddTable(t) : t \in NewTables}
           drop == {DropTable(t) : t \in GoneTables}
           on == UNION {ColumnNeeds(t) : t \in BothTables}
           qa == SetToSeq(NewTables)
           qd == SetToSeq(GoneTables)
           q == SetToSeq(BothTables)
           a == [i \in DOMAIN qa |-> AddTable(qa[i])]
           d == [i \in DOMAIN qd |-> DropTable(qd[i])]
           s == [i \in DOMAIN q |-> ColumnOps(q[i])]
<1>1. IsFiniteSet(NewTables) /\ IsFiniteSet(GoneTables) /\ IsFiniteSet(BothTables)
  BY SchemaAssumption, FS_Subset DEF NewTables, GoneTables, BothTables
<1>2. Needed = add \cup drop \cup on
  BY DEF Needed
<1>3. add \cap drop = {} /\ (add \cup drop) \cap on = {}
  <2>1. \A e \in add : e.kind = "add_table"
    BY OpFields
  <2>2. \A e \in drop : e.kind = "drop_table"
    BY OpFields
  <2>3. \A e \in on : e.kind \in {"add_column", "drop_column", "alter_column"}
    BY OpFields DEF ColumnNeeds
  <2> QED BY <2>1, <2>2, <2>3
<1>4. a \in Seq(Needed) /\ Once(a) /\ Items(a) = add
  BY NewTablesOnce
<1>5. d \in Seq(Needed) /\ Once(d) /\ Items(d) = drop
  BY GoneTablesOnce
<1>6. Joined(s) \in Seq(Needed) /\ Once(Joined(s)) /\ Items(Joined(s)) = on
  <2> DEFINE n == Len(q)
  <2>1. q \in Seq(BothTables) /\ Once(q) /\ Items(q) = BothTables
    BY <1>1, SetToSeqIs
  <2>2. n \in Nat /\ DOMAIN q = 1 .. n /\ \A i \in 1 .. n : q[i] \in BothTables
    BY <2>1, LenProperties, ElementOfSeq
  <2> HIDE DEF n, q
  <2>3. \A i \in 1 .. n : /\ s[i] = ColumnOps(q[i]) /\ s[i] \in Seq(Needed) /\ Once(s[i])
                          /\ Items(s[i]) = ColumnNeeds(q[i])
    BY <2>2, ColumnOpsAre
  <2>4. s \in Seq(Seq(Needed)) /\ Len(s) = n
    <3>1. s \in [1 .. n -> Seq(Needed)]
      BY <2>2, <2>3
    <3> HIDE DEF s
    <3> QED BY <2>2, <3>1
  <2> HIDE DEF s
  <2>5. ASSUME NEW i \in 1 .. n, NEW j \in 1 .. n, i # j PROVE Items(s[i]) \cap Items(s[j]) = {}
    <3>1. q[i] # q[j]
      BY <2>1, <2>2, <2>5 DEF Once
    <3>2. \A t : \A e \in ColumnNeeds(t) : e.table = t
      BY OpFields DEF ColumnNeeds
    <3> QED BY <2>3, <3>1, <3>2
  <2>6. /\ Joined(s) \in Seq(Needed) /\ Once(Joined(s))
        /\ Items(Joined(s)) = UNION {Items(s[i]) : i \in 1 .. n}
    BY <2>3, <2>4, <2>5, JoinedOnce
  <2>7. UNION {Items(s[i]) : i \in 1 .. n} = on
    <3>1. \A t \in BothTables : \E i \in 1 .. n : q[i] = t
      BY <2>1, <2>2 DEF Items
    <3> QED BY <2>2, <2>3, <3>1
  <2> QED BY <2>6, <2>7
<1>7. Plan = (a \o d) \o Joined(s)
  BY DEF Plan
<1> HIDE DEF a, d, s, add, drop, on
<1>8. a \o d \in Seq(Needed) /\ Once(a \o d) /\ Items(a \o d) = add \cup drop
  BY <1>3, <1>4, <1>5, ConcatOnce
<1> DEFINE ad == a \o d
           j == Joined(s)
<1>10. Plan = ad \o j
  BY <1>7
<1> HIDE DEF ad, j
<1>9. ad \o j \in Seq(Needed) /\ Once(ad \o j) /\ Items(ad \o j) = (add \cup drop) \cup on
  <2>1. ad \in Seq(Needed) /\ Once(ad) /\ Items(ad) = add \cup drop
    BY <1>8 DEF ad
  <2>2. j \in Seq(Needed) /\ Once(j) /\ Items(j) = on
    BY <1>6 DEF j
  <2>3. Items(ad) \cap Items(j) = {}
    BY <1>3, <2>1, <2>2
  <2> QED BY <2>1, <2>2, <2>3, ConcatOnce
<1> QED BY <1>2, <1>9, <1>10

-----------------------------------------------------------------------------
(* An upgrade                                                              *)

(* What the database holds of column c of a table of both snapshots, once  *)
(* the operations of ran are ran and those of undone undone.  A dropped  *)
(* column that came back has lost its type.                                *)
ColumnIs(d, ran, undone, t, c) ==
  LET col == d[t].columns[c]
      add == OnColumn("add_column", t, c)
      drop == OnColumn("drop_column", t, c)
      alter == OnColumn("alter_column", t, c)
  IN
  /\ c \in Added(t) => col = IF add \in ran /\ add \notin undone THEN after[t].columns[c] ELSE NoColumn
  /\ c \in Dropped(t) =>
       /\ drop \notin ran => col = before[t].columns[c]
       /\ drop \in ran /\ drop \notin undone => col = NoColumn
       /\ drop \in undone => col # NoColumn
  /\ c \in Retyped(t) =>
       /\ col # NoColumn
       /\ alter \notin ran => col = before[t].columns[c]
       /\ alter \in ran => col.type = after[t].columns[c].type
  /\ c \notin Added(t) \cup Dropped(t) \cup Retyped(t) => col = before[t].columns[c]

(* The same of a whole table.                                              *)
TableIs(d, ran, undone, t) ==
  /\ t \in NewTables =>
       /\ d[t].exists <=> AddTable(t) \in ran /\ AddTable(t) \notin undone
       /\ d[t].exists => d[t].columns = TypesOf(after, t)
  /\ t \in GoneTables =>
       /\ DropTable(t) \notin ran => d[t] = before[t]
       /\ DropTable(t) \in ran => (d[t].exists <=> DropTable(t) \in undone)
  /\ t \in BothTables =>
       /\ d[t].exists /\ d[t].index = before[t].index
       /\ \A c \in Columns : ColumnIs(d, ran, undone, t, c)
  /\ t \notin NewTables \cup GoneTables \cup BothTables => d[t] = NoTable

(* All tables are as the operations ran and undone say.                    *)
Migrated(d, ran, undone) == d \in [Tables -> Table] /\ \A t \in Tables : TableIs(d, ran, undone, t)

(* The operations an upgrade has run after n steps, and those a downgrade  *)
(* has undone after n steps.                                               *)
FirstOps(n) == {Plan[i] : i \in 1 .. n}
LastOps(n) == {Plan[i] : i \in Len(Plan) - n + 1 .. Len(Plan)}

(* The inductive invariant of a migration.                                 *)
SchemaInv ==
  /\ before \in [Tables -> Table] /\ after \in [Tables -> Table]
  /\ done_up \in 0 .. Len(Plan) /\ done_down \in 0 .. Len(Plan)
  /\ done_down > 0 => done_up = Len(Plan)
  /\ Migrated(db, FirstOps(done_up), LastOps(done_down))

(* The two snapshots do not change while the scripts run.                  *)
Snapshots == before \in [Tables -> Table] /\ after \in [Tables -> Table]

(* What a snapshot has in a table and its columns.                         *)
LEMMA ColumnTypesOf ==
  ASSUME NEW s, NEW t \in Tables, s \in [Tables -> Table]
  PROVE  /\ s[t] \in Table /\ s[t].exists \in BOOLEAN /\ s[t].index \in BOOLEAN
         /\ s[t].columns \in [Columns -> Column \cup {NoColumn}]
         /\ ~s[t].exists => s[t] = NoTable
         /\ \A c \in Columns : Has(s, t, c) => s[t].columns[c] \in Column
         /\ \A c \in Columns : s[t].columns[c].type = NoColumn.type <=> ~Has(s, t, c)
<1>1. s[t] \in Table
  OBVIOUS
<1>2. None \in [Columns -> Column \cup {NoColumn}]
  BY DEF None
<1>3. NoTable.exists = FALSE /\ NoTable.index = FALSE /\ NoTable.columns = None
  BY DEF NoTable
<1>4. CASE s[t] = NoTable
  <2>1. s[t].columns \in [Columns -> Column \cup {NoColumn}] /\ ~s[t].exists /\ s[t].index = FALSE
    BY <1>2, <1>3, <1>4
  <2>2. \A c \in Columns : s[t].columns[c] = NoColumn
    BY <1>3, <1>4 DEF None
  <2>3. \A c \in Columns : ~Has(s, t, c) /\ s[t].columns[c].type = NoColumn.type
    BY <2>2 DEF Has
  <2>4. s[t].exists = FALSE /\ s[t].index = FALSE
    BY <1>3, <1>4
  <2> QED BY <1>1, <1>4, <2>1, <2>3, <2>4, Zenon
<1>5. CASE s[t] \in [exists : {TRUE}, columns : [Columns -> Column \cup {NoColumn}], index : BOOLEAN]
  <2>1. s[t].columns \in [Columns -> Column \cup {NoColumn}] /\ s[t].exists = TRUE /\ s[t].index \in BOOLEAN
    BY <1>5
  <2>2. \A c \in Columns : s[t].columns[c] \in Column \cup {NoColumn}
    BY <2>1
  <2>3. \A x \in Column : x.type # NoColumn.type
    BY SchemaAssumption DEF Column, NoColumn
  <2> QED BY <1>1, <2>1, <2>2, <2>3 DEF Has
<1> QED BY <1>1, <1>4, <1>5 DEF Table

(* Two tables with the same columns are one.                               *)
LEMMA SameRow ==
  ASSUME NEW E, NEW C, NEW B, NEW a \in [exists : E, columns : C, index : B],
         NEW b \in [exists : E, columns : C, index : B],
         a.exists = b.exists, a.columns = b.columns, a.index = b.index
  PROVE  a = b
OBVIOUS

(* The same of two tables that exist.                                      *)
LEMMA SameTable ==
  ASSUME NEW a \in Table, NEW b \in Table, a.exists = TRUE, b.exists = TRUE, a.index = b.index, a.columns = b.columns
  PROVE  a = b
<1>1. ~NoTable.exists
  BY DEF NoTable
<1>2. /\ a \in [exists : {TRUE}, columns : [Columns -> Column \cup {NoColumn}], index : BOOLEAN]
      /\ b \in [exists : {TRUE}, columns : [Columns -> Column \cup {NoColumn}], index : BOOLEAN]
  BY <1>1 DEF Table
<1> QED BY <1>2, SameRow

(* d with another column c in table t.                                     *)
WithColumn(d, t, c, x) == [d EXCEPT ![t].columns[c] = x]

(* What an operation on a column changes.                                  *)
LEMMA AppliedToColumn ==
  ASSUME NEW d, NEW op
  PROVE  /\ op.kind = "add_column" =>
              Applied(d, op) = WithColumn(d, op.table, op.column, [type |-> op.type, nullable |-> op.nullable])
         /\ op.kind = "drop_column" => Applied(d, op) = WithColumn(d, op.table, op.column, NoColumn)
         /\ op.kind = "alter_column" =>
              Applied(d, op) = WithColumn(d, op.table, op.column, [d[op.table].columns[op.column] EXCEPT !.type = op.type])
BY DEF Applied, WithColumn

(* A changed column of a table that exists.                                *)
LEMMA ColumnChanged ==
  ASSUME NEW d \in [Tables -> Table], NEW t \in Tables, d[t].exists, NEW c \in Columns,
         NEW x \in Column \cup {NoColumn}
  PROVE  /\ WithColumn(d, t, c, x) \in [Tables -> Table]
         /\ \A u \in Tables : u # t => WithColumn(d, t, c, x)[u] = d[u]
         /\ WithColumn(d, t, c, x)[t].exists /\ WithColumn(d, t, c, x)[t].index = d[t].index
         /\ WithColumn(d, t, c, x)[t].columns[c] = x
         /\ \A k \in Columns : k # c => WithColumn(d, t, c, x)[t].columns[k] = d[t].columns[k]
<1> DEFINE cols == [d[t].columns EXCEPT ![c] = x]
           row == [d[t] EXCEPT !.columns = cols]
           e == [d EXCEPT ![t] = row]
<1>1. /\ d[t] \in Table /\ d[t].exists \in BOOLEAN /\ d[t].index \in BOOLEAN
      /\ d[t].columns \in [Columns -> Column \cup {NoColumn}]
  BY ColumnTypesOf
<1>2. d[t] \in [exists : {TRUE}, columns : [Columns -> Column \cup {NoColumn}], index : BOOLEAN]
  <2>1. ~NoTable.exists
    BY DEF NoTable
  <2> QED BY <1>1, <2>1 DEF Table
<1>3. /\ cols \in [Columns -> Column \cup {NoColumn}] /\ cols[c] = x
      /\ \A k \in Columns : k # c => cols[k] = d[t].columns[k]
  BY <1>1
<1> HIDE DEF cols
<1>4. /\ row \in [exists : {TRUE}, columns : [Columns -> Column \cup {NoColumn}], index : BOOLEAN]
      /\ row.exists = d[t].exists /\ row.index = d[t].index /\ row.columns = cols
  BY <1>2, <1>3
<1> HIDE DEF row
<1>5. row \in Table
  BY <1>4 DEF Table
<1>6. e \in [Tables -> Table] /\ e[t] = row /\ \A u \in Tables : u # t => e[u] = d[u]
  BY <1>5
<1>7. WithColumn(d, t, c, x) = e
  BY DEF WithColumn, e, row, cols
<1> HIDE DEF e
<1> QED BY <1>3, <1>4, <1>6, <1>7

(* A step that changes one table, and operations on that table alone.      *)
LEMMA OneTable ==
  ASSUME NEW d, NEW e, NEW ran, NEW undone, NEW ran2, NEW undone2, Migrated(d, ran, undone),
         NEW t \in Tables, e \in [Tables -> Table], \A u \in Tables : u # t => e[u] = d[u],
         \A op : op.table # t => (op \in ran2 <=> op \in ran) /\ (op \in undone2 <=> op \in undone),
         TableIs(e, ran2, undone2, t)
  PROVE  Migrated(e, ran2, undone2)
<1> SUFFICES ASSUME NEW u \in Tables, u # t PROVE TableIs(e, ran2, undone2, u)
  BY DEF Migrated
<1>1. TableIs(d, ran, undone, u) /\ e[u] = d[u]
  BY DEF Migrated
<1>2. /\ AddTable(u) \in ran2 <=> AddTable(u) \in ran
      /\ AddTable(u) \in undone2 <=> AddTable(u) \in undone
      /\ DropTable(u) \in ran2 <=> DropTable(u) \in ran
      /\ DropTable(u) \in undone2 <=> DropTable(u) \in undone
  BY OpFields
<1>3. \A k, c : /\ OnColumn(k, u, c) \in ran2 <=> OnColumn(k, u, c) \in ran
                /\ OnColumn(k, u, c) \in undone2 <=> OnColumn(k, u, c) \in undone
  BY OpFields
<1>4. ASSUME NEW c \in Columns, ColumnIs(d, ran, undone, u, c) PROVE ColumnIs(e, ran2, undone2, u, c)
  BY <1>1, <1>3, <1>4 DEF ColumnIs
<1> QED BY <1>1, <1>2, <1>4 DEF TableIs

(* A step that changes one column of a table of both snapshots.            *)
LEMMA OneColumn ==
  ASSUME NEW d, NEW e, NEW ran, NEW undone, NEW ran2, NEW undone2, Migrated(d, ran, undone),
         NEW t \in BothTables, NEW c \in Columns,
         e \in [Tables -> Table], \A u \in Tables : u # t => e[u] = d[u],
         e[t].exists, e[t].index = d[t].index,
         \A k \in Columns : k # c => e[t].columns[k] = d[t].columns[k],
         \A op : op.table # t \/ op.column # c =>
                   (op \in ran2 <=> op \in ran) /\ (op \in undone2 <=> op \in undone),
         ColumnIs(e, ran2, undone2, t, c)
  PROVE  Migrated(e, ran2, undone2)
<1>1. t \in Tables /\ t \notin NewTables /\ t \notin GoneTables
  BY DEF BothTables, NewTables, GoneTables
<1>2. TableIs(d, ran, undone, t)
  BY <1>1 DEF Migrated
<1>3. ASSUME NEW k \in Columns, k # c PROVE ColumnIs(e, ran2, undone2, t, k)
  <2>1. ColumnIs(d, ran, undone, t, k) /\ e[t].columns[k] = d[t].columns[k]
    BY <1>2, <1>3 DEF TableIs
  <2>2. \A kind : /\ OnColumn(kind, t, k) \in ran2 <=> OnColumn(kind, t, k) \in ran
                  /\ OnColumn(kind, t, k) \in undone2 <=> OnColumn(kind, t, k) \in undone
    BY <1>3, OpFields
  <2> QED BY <2>1, <2>2 DEF ColumnIs
<1>4. TableIs(e, ran2, undone2, t)
  BY <1>1, <1>2, <1>3 DEF TableIs
<1> QED BY <1>1, <1>4, OneTable

(* A needed operation is of one of five forms.                             *)
LEMMA NeededForms ==
  ASSUME NEW op \in Needed
  PROVE  \/ \E t \in NewTables : op = AddTable(t)
         \/ \E t \in GoneTables : op = DropTable(t)
         \/ \E t \in BothTables : \E c \in Added(t) : op = OnColumn("add_column", t, c)
         \/ \E t \in BothTables : \E c \in Dropped(t) : op = OnColumn("drop_column", t, c)
         \/ \E t \in BothTables : \E c \in Retyped(t) : op = OnColumn("alter_column", t, c)
BY DEF Needed, ColumnNeeds

(* What the operations on a column of a table of both snapshots are, and   *)
(* do.                                                                     *)
LEMMA ColumnFields ==
  /\ \A x \in Column : [type |-> x.type, nullable |-> x.nullable] = x
  /\ \A x \in Column, y \in ColumnTypes :
       [x EXCEPT !.type = y] \in Column /\ [x EXCEPT !.type = y].type = y
  /\ \A x \in Column : x # NoColumn
<1> DEFINE B == BOOLEAN
<1>1. \A x \in [type : ColumnTypes, nullable : B] : [type |-> x.type, nullable |-> x.nullable] = x
  <2> HIDE DEF B
  <2> QED OBVIOUS
<1>2. \A x \in [type : ColumnTypes, nullable : B], y \in ColumnTypes :
        /\ [x EXCEPT !.type = y] \in [type : ColumnTypes, nullable : B]
        /\ [x EXCEPT !.type = y].type = y
  <2> HIDE DEF B
  <2> QED OBVIOUS
<1>3. \A x \in Column : x.type # NoColumn.type
  BY SchemaAssumption DEF Column, NoColumn
<1> QED BY <1>1, <1>2, <1>3, Zenon DEF Column

(* The upgrade's next operation.                                           *)
LEMMA AppliedKeeps ==
  ASSUME Snapshots, NEW d, NEW ran, NEW op \in Needed, op \notin ran, Migrated(d, ran, {})
  PROVE  Migrated(Applied(d, op), ran \cup {op}, {})
<1> DEFINE e == Applied(d, op)
           ran2 == ran \cup {op}
<1>1. d \in [Tables -> Table] /\ before \in [Tables -> Table] /\ after \in [Tables -> Table]
  BY DEF Migrated, Snapshots
<1>2. \A p : p # op => (p \in ran2 <=> p \in ran)
  OBVIOUS
<1>3. op \in ran2
  OBVIOUS
<1> HIDE DEF ran2
<1>4. CASE \E t \in NewTables : op = AddTable(t)
  <2>1. PICK t \in NewTables : op = AddTable(t)
    BY <1>4
  <2> DEFINE row == [exists |-> TRUE, columns |-> TypesOf(after, t), index |-> FALSE]
  <2>2. t \in Tables /\ t \notin GoneTables /\ t \notin BothTables
    BY DEF NewTables, GoneTables, BothTables
  <2>3. e = [d EXCEPT ![t] = row]
    BY <2>1, OpFields DEF Applied
  <2>4. TypesOf(after, t) \in [Columns -> Column \cup {NoColumn}]
    <3>1. \A c \in Columns : Has(after, t, c) => after[t].columns[c] \in Column
      BY <1>1, <2>2, ColumnTypesOf
    <3>2. \A c \in Columns : Has(after, t, c) => [type |-> after[t].columns[c].type, nullable |-> TRUE] \in Column
      BY <3>1 DEF Column
    <3> QED BY <3>2 DEF TypesOf
  <2> HIDE DEF e
  <2>5. e \in [Tables -> Table] /\ e[t] = row /\ \A u \in Tables : u # t => e[u] = d[u]
    <3>1. row \in Table
      BY <2>4 DEF Table
    <3> HIDE DEF row
    <3> QED BY <1>1, <2>2, <2>3, <3>1
  <2>6. TableIs(e, ran2, {}, t)
    <3>1. e[t].exists /\ e[t].columns = TypesOf(after, t)
      BY <2>5
    <3> QED BY <1>3, <2>1, <2>2, <3>1 DEF TableIs
  <2>7. \A p : p.table # t => (p \in ran2 <=> p \in ran)
    BY <1>2, <2>1, OpFields
  <2> HIDE DEF row
  <2> QED BY <2>2, <2>5, <2>6, <2>7, OneTable DEF e, ran2
<1>5. CASE \E t \in GoneTables : op = DropTable(t)
  <2>1. PICK t \in GoneTables : op = DropTable(t)
    BY <1>5
  <2>2. t \in Tables /\ t \notin NewTables /\ t \notin BothTables
    BY DEF NewTables, GoneTables, BothTables
  <2>3. e = [d EXCEPT ![t] = NoTable]
    BY <2>1, OpFields DEF Applied
  <2> HIDE DEF e
  <2>5. e \in [Tables -> Table] /\ e[t] = NoTable /\ \A u \in Tables : u # t => e[u] = d[u]
    BY <1>1, <2>2, <2>3 DEF Table
  <2>6. TableIs(e, ran2, {}, t)
    <3>1. ~NoTable.exists
      BY DEF NoTable
    <3> QED BY <1>3, <2>1, <2>2, <2>5, <3>1 DEF TableIs
  <2>7. \A p : p.table # t => (p \in ran2 <=> p \in ran)
    BY <1>2, <2>1, OpFields
  <2> QED BY <2>2, <2>5, <2>6, <2>7, OneTable DEF e, ran2
<1>6. ASSUME NEW t \in BothTables, NEW c \in Columns, NEW x \in Column \cup {NoColumn},
             e = WithColumn(d, t, c, x), op.table = t, op.column = c,
             \A f : f[t].columns[c] = x => ColumnIs(f, ran2, {}, t, c)
      PROVE  Migrated(e, ran2, {})
  <2>1. t \in Tables /\ d[t].exists
    BY DEF BothTables, Migrated, TableIs
  <2> DEFINE f == WithColumn(d, t, c, x)
  <2>2. /\ f \in [Tables -> Table] /\ \A u \in Tables : u # t => f[u] = d[u]
        /\ f[t].exists /\ f[t].index = d[t].index /\ f[t].columns[c] = x
        /\ \A k \in Columns : k # c => f[t].columns[k] = d[t].columns[k]
    BY <1>1, <2>1, ColumnChanged
  <2>3. \A p : p.table # t \/ p.column # c => (p \in ran2 <=> p \in ran)
    BY <1>2, <1>6
  <2>4. ColumnIs(f, ran2, {}, t, c)
    BY <1>6, <2>2
  <2>5. e = f
    BY <1>6
  <2> HIDE DEF f, e
  <2> QED BY <2>2, <2>3, <2>4, <2>5, OneColumn
<1>7. ASSUME NEW t \in BothTables, NEW c \in Columns
      PROVE  /\ t \in Tables /\ d[t].exists /\ ColumnIs(d, ran, {}, t, c)
             /\ Has(after, t, c) => after[t].columns[c] \in Column
             /\ Has(before, t, c) => before[t].columns[c] \in Column
  <2>1. t \in Tables
    BY DEF BothTables
  <2> QED BY <1>1, <2>1, ColumnTypesOf DEF Migrated, TableIs
<1>8. CASE \E t \in BothTables : \E c \in Added(t) : op = OnColumn("add_column", t, c)
  <2>1. PICK t \in BothTables : \E c \in Added(t) : op = OnColumn("add_column", t, c)
    BY <1>8
  <2>2. PICK c \in Added(t) : op = OnColumn("add_column", t, c)
    BY <2>1
  <2>3. c \in Columns /\ c \notin Dropped(t) /\ c \notin Retyped(t) /\ Has(after, t, c)
    BY DEF Added, Dropped, Retyped
  <2>4. after[t].columns[c] \in Column
    BY <1>7, <2>3
  <2>5. e = WithColumn(d, t, c, after[t].columns[c])
    <3>1. op.kind = "add_column" /\ op.table = t /\ op.column = c /\ op.type = after[t].columns[c].type /\ op.nullable = after[t].columns[c].nullable
      BY <2>2, OpFields
    <3>2. [type |-> op.type, nullable |-> op.nullable] = after[t].columns[c]
      BY <2>4, <3>1, ColumnFields
    <3>3. e = WithColumn(d, op.table, op.column, [type |-> op.type, nullable |-> op.nullable])
      BY <3>1, AppliedToColumn
    <3> HIDE DEF e
    <3> QED BY <3>1, <3>2, <3>3
  <2>6. \A f : f[t].columns[c] = after[t].columns[c] => ColumnIs(f, ran2, {}, t, c)
    BY <1>3, <2>2, <2>3 DEF ColumnIs
  <2>7. op.table = t /\ op.column = c
    BY <2>2, OpFields
  <2> HIDE DEF e
  <2> QED BY <1>6, <2>3, <2>4, <2>5, <2>6, <2>7 DEF e, ran2
<1>9. CASE \E t \in BothTables : \E c \in Dropped(t) : op = OnColumn("drop_column", t, c)
  <2>1. PICK t \in BothTables : \E c \in Dropped(t) : op = OnColumn("drop_column", t, c)
    BY <1>9
  <2>2. PICK c \in Dropped(t) : op = OnColumn("drop_column", t, c)
    BY <2>1
  <2>3. c \in Columns /\ c \notin Added(t) /\ c \notin Retyped(t)
    BY DEF Added, Dropped, Retyped
  <2>5. e = WithColumn(d, t, c, NoColumn)
    <3>1. op.kind = "drop_column" /\ op.table = t /\ op.column = c
      BY <2>2, OpFields
    <3> QED BY <3>1, AppliedToColumn
  <2>6. \A f : f[t].columns[c] = NoColumn => ColumnIs(f, ran2, {}, t, c)
    BY <1>3, <2>2, <2>3 DEF ColumnIs
  <2>7. op.table = t /\ op.column = c
    BY <2>2, OpFields
  <2> HIDE DEF e
  <2> QED BY <1>6, <2>3, <2>5, <2>6, <2>7 DEF e, ran2
<1>10. CASE \E t \in BothTables : \E c \in Retyped(t) : op = OnColumn("alter_column", t, c)
  <2>1. PICK t \in BothTables : \E c \in Retyped(t) : op = OnColumn("alter_column", t, c)
    BY <1>10
  <2>2. PICK c \in Retyped(t) : op = OnColumn("alter_column", t, c)
    BY <2>1
  <2>3. c \in Columns /\ c \notin Added(t) /\ c \notin Dropped(t) /\ Has(after, t, c)
    BY DEF Added, Dropped, Retyped
  <2>4. after[t].columns[c] \in Column /\ d[t].columns[c] # NoColumn
    BY <1>7, <2>3 DEF ColumnIs
  <2> DEFINE y == after[t].columns[c].type
             x == [d[t].columns[c] EXCEPT !.type = y]
  <2>5. e = WithColumn(d, t, c, x)
    <3>1. op.kind = "alter_column" /\ op.table = t /\ op.column = c /\ op.type = y
      BY <2>2, OpFields
    <3>3. e = WithColumn(d, op.table, op.column, [d[op.table].columns[op.column] EXCEPT !.type = op.type])
      BY <3>1, AppliedToColumn
    <3> HIDE DEF e, y
    <3> QED BY <3>1, <3>3, Zenon
  <2>8. x \in Column /\ x.type = y
    <3>1. y \in ColumnTypes
      BY <2>4 DEF Column
    <3>2. d[t].columns[c] \in Column
      BY <1>1, <1>7, <2>3, <2>4, ColumnTypesOf DEF Has
    <3> QED BY <3>1, <3>2, ColumnFields
  <2> HIDE DEF x
  <2>6. \A f : f[t].columns[c] = x => ColumnIs(f, ran2, {}, t, c)
    <3>1. x # NoColumn
      BY <2>8, ColumnFields
    <3> QED BY <1>3, <2>2, <2>3, <2>8, <3>1 DEF ColumnIs
  <2>7. op.table = t /\ op.column = c
    BY <2>2, OpFields
  <2> HIDE DEF e
  <2> QED BY <1>6, <2>3, <2>5, <2>6, <2>7, <2>8 DEF e, ran2
<1> QED BY <1>4, <1>5, <1>8, <1>9, <1>10, NeededForms

-----------------------------------------------------------------------------
(* A downgrade                                                             *)

(* What undoes an operation.                                               *)
LEMMA RevertingFields ==
  /\ \A t : /\ HasInverse(AddTable(t))
            /\ Reverting(AddTable(t)).kind = "drop_table" /\ Reverting(AddTable(t)).table = t
  /\ \A t : /\ HasInverse(DropTable(t))
            /\ Reverting(DropTable(t)).kind = "add_table" /\ Reverting(DropTable(t)).table = t
            /\ Reverting(DropTable(t)).columns = None
  /\ \A t, c :
       LET op == OnColumn("add_column", t, c)
       IN  HasInverse(op) /\ Reverting(op).kind = "drop_column" /\ Reverting(op).table = t /\ Reverting(op).column = c
  /\ \A t, c :
       LET op == OnColumn("drop_column", t, c)
       IN  /\ HasInverse(op) /\ Reverting(op).kind = "add_column" /\ Reverting(op).table = t /\ Reverting(op).column = c
           /\ Reverting(op).type = "String" /\ Reverting(op).nullable = TRUE
  /\ \A t, c : ~HasInverse(OnColumn("alter_column", t, c))
<1>1. ASSUME NEW t
      PROVE  /\ HasInverse(AddTable(t))
             /\ Reverting(AddTable(t)).kind = "drop_table" /\ Reverting(AddTable(t)).table = t
  BY DEF HasInverse, Reverting, AddTable, Op
<1>2. ASSUME NEW t
      PROVE  /\ HasInverse(DropTable(t))
             /\ Reverting(DropTable(t)).kind = "add_table" /\ Reverting(DropTable(t)).table = t
             /\ Reverting(DropTable(t)).columns = None
  BY DEF HasInverse, Reverting, DropTable, Op
<1>3. ASSUME NEW t, NEW c
      PROVE  LET op == OnColumn("add_column", t, c)
             IN  HasInverse(op) /\ Reverting(op).kind = "drop_column" /\ Reverting(op).table = t /\ Reverting(op).column = c
  BY DEF HasInverse, Reverting, OnColumn, Op
<1>4. ASSUME NEW t, NEW c
      PROVE  LET op == OnColumn("drop_column", t, c)
             IN  /\ HasInverse(op) /\ Reverting(op).kind = "add_column" /\ Reverting(op).table = t /\ Reverting(op).column = c
                 /\ Reverting(op).type = "String" /\ Reverting(op).nullable = TRUE
  <2> DEFINE op == OnColumn("drop_column", t, c)
             r == Reverting(op)
  <2>1. op.kind = "drop_column"
    BY OpFields
  <2>2. r = [op EXCEPT !.kind = "add_column", !.type = "String", !.nullable = TRUE]
    BY <2>1 DEF Reverting
  <2>3. op = [kind |-> "drop_column", table |-> t, column |-> c, type |-> after[t].columns[c].type,
              nullable |-> after[t].columns[c].nullable, columns |-> None]
    BY DEF OnColumn, Op
  <2> HIDE DEF op, r
  <2>4. r.kind = "add_column" /\ r.table = t /\ r.column = c /\ r.type = "String" /\ r.nullable = TRUE
    BY <2>2, <2>3
  <2> QED BY <2>1, <2>4 DEF HasInverse, r, op
<1>5. \A t, c : ~HasInverse(OnColumn("alter_column", t, c))
  BY OpFields DEF HasInverse
<1> QED BY <1>1, <1>2, <1>3, <1>4, <1>5

(* The downgrade's next operation: all of the plan has been run.           *)
LEMMA RevertedKeeps ==
  ASSUME Snapshots, NEW d, NEW undone, NEW op \in Needed, op \notin undone, Migrated(d, Needed, undone)
  PROVE  Migrated(IF HasInverse(op) THEN Applied(d, Reverting(op)) ELSE d, Needed, undone \cup {op})
<1> DEFINE e == IF HasInverse(op) THEN Applied(d, Reverting(op)) ELSE d
           undone2 == undone \cup {op}
           r == Reverting(op)
<1>1. d \in [Tables -> Table] /\ before \in [Tables -> Table] /\ after \in [Tables -> Table]
  BY DEF Migrated, Snapshots
<1>2. \A p : p # op => (p \in undone2 <=> p \in undone)
  OBVIOUS
<1>3. op \in undone2 /\ op \in Needed
  OBVIOUS
<1> HIDE DEF undone2, r
<1>4. CASE \E t \in NewTables : op = AddTable(t)
  <2>1. PICK t \in NewTables : op = AddTable(t)
    BY <1>4
  <2>2. t \in Tables /\ t \notin GoneTables /\ t \notin BothTables
    BY DEF NewTables, GoneTables, BothTables
  <2>3. e = [d EXCEPT ![t] = NoTable]
    <3>1. HasInverse(op) /\ r.kind = "drop_table" /\ r.table = t
      BY <2>1, RevertingFields DEF r
    <3>2. Applied(d, r) = [d EXCEPT ![t] = NoTable]
      BY <3>1 DEF Applied
    <3> QED BY <3>1, <3>2 DEF r
  <2> HIDE DEF e
  <2>5. e \in [Tables -> Table] /\ e[t] = NoTable /\ \A u \in Tables : u # t => e[u] = d[u]
    BY <1>1, <2>2, <2>3 DEF Table
  <2>6. TableIs(e, Needed, undone2, t)
    <3>1. ~NoTable.exists
      BY DEF NoTable
    <3> QED BY <1>3, <2>1, <2>2, <2>5, <3>1 DEF TableIs
  <2>7. \A p : p.table # t => (p \in undone2 <=> p \in undone)
    BY <1>2, <2>1, OpFields
  <2> QED BY <2>2, <2>5, <2>6, <2>7, OneTable DEF e, undone2
<1>5. CASE \E t \in GoneTables : op = DropTable(t)
  <2>1. PICK t \in GoneTables : op = DropTable(t)
    BY <1>5
  <2> DEFINE row == [exists |-> TRUE, columns |-> None, index |-> FALSE]
  <2>2. t \in Tables /\ t \notin NewTables /\ t \notin BothTables
    BY DEF NewTables, GoneTables, BothTables
  <2>3. e = [d EXCEPT ![t] = row]
    <3>1. HasInverse(op) /\ r.kind = "add_table" /\ r.table = t /\ r.columns = None
      BY <2>1, RevertingFields DEF r
    <3>2. Applied(d, r) = [d EXCEPT ![t] = row]
      BY <3>1 DEF Applied
    <3> QED BY <3>1, <3>2 DEF r
  <2> HIDE DEF e
  <2>5. e \in [Tables -> Table] /\ e[t] = row /\ \A u \in Tables : u # t => e[u] = d[u]
    <3>1. row \in Table
      BY DEF Table, None
    <3> HIDE DEF row
    <3> QED BY <1>1, <2>2, <2>3, <3>1
  <2>6. TableIs(e, Needed, undone2, t)
    <3>1. e[t].exists
      BY <2>5
    <3> QED BY <1>3, <2>1, <2>2, <3>1 DEF TableIs
  <2>7. \A p : p.table # t => (p \in undone2 <=> p \in undone)
    BY <1>2, <2>1, OpFields
  <2> HIDE DEF row
  <2> QED BY <2>2, <2>5, <2>6, <2>7, OneTable DEF e, undone2
<1>6. ASSUME NEW t \in BothTables, NEW c \in Columns, NEW x \in Column \cup {NoColumn},
             e = WithColumn(d, t, c, x), op.table = t, op.column = c,
             \A f : f[t].columns[c] = x => ColumnIs(f, Needed, undone2, t, c)
      PROVE  Migrated(e, Needed, undone2)
  <2>1. t \in Tables /\ d[t].exists
    BY DEF BothTables, Migrated, TableIs
  <2> DEFINE f == WithColumn(d, t, c, x)
  <2>2. /\ f \in [Tables -> Table] /\ \A u \in Tables : u # t => f[u] = d[u]
        /\ f[t].exists /\ f[t].index = d[t].index /\ f[t].columns[c] = x
        /\ \A k \in Columns : k # c => f[t].columns[k] = d[t].columns[k]
    BY <1>1, <2>1, ColumnChanged
  <2>3. \A p : p.table # t \/ p.column # c => (p \in undone2 <=> p \in undone)
    BY <1>2, <1>6
  <2>4. ColumnIs(f, Needed, undone2, t, c)
    BY <1>6, <2>2
  <2>5. e = f
    BY <1>6
  <2> HIDE DEF f, e
  <2> QED BY <2>2, <2>3, <2>4, <2>5, OneColumn
<1>8. CASE \E t \in BothTables : \E c \in Added(t) : op = OnColumn("add_column", t, c)
  <2>1. PICK t \in BothTables : \E c \in Added(t) : op = OnColumn("add_column", t, c)
    BY <1>8
  <2>2. PICK c \in Added(t) : op = OnColumn("add_column", t, c)
    BY <2>1
  <2>3. c \in Columns /\ c \notin Dropped(t) /\ c \notin Retyped(t)
    BY DEF Added, Dropped, Retyped
  <2>5. e = WithColumn(d, t, c, NoColumn)
    <3>1. HasInverse(op) /\ r.kind = "drop_column" /\ r.table = t /\ r.column = c
      BY <2>2, RevertingFields DEF r
    <3>2. Applied(d, r) = WithColumn(d, t, c, NoColumn)
      BY <3>1, AppliedToColumn
    <3> QED BY <3>1, <3>2 DEF r
  <2>6. \A f : f[t].columns[c] = NoColumn => ColumnIs(f, Needed, undone2, t, c)
    BY <1>3, <2>2, <2>3 DEF ColumnIs
  <2>7. op.table = t /\ op.column = c
    BY <2>2, OpFields
  <2> HIDE DEF e
  <2> QED BY <1>6, <2>3, <2>5, <2>6, <2>7 DEF e, undone2
<1>9. CASE \E t \in BothTables : \E c \in Dropped(t) : op = OnColumn("drop_column", t, c)
  <2>1. PICK t \in BothTables : \E c \in Dropped(t) : op = OnColumn("drop_column", t, c)
    BY <1>9
  <2>2. PICK c \in Dropped(t) : op = OnColumn("drop_column", t, c)
    BY <2>1
  <2>3. c \in Columns /\ c \notin Added(t) /\ c \notin Retyped(t)
    BY DEF Added, Dropped, Retyped
  <2> DEFINE x == [type |-> "String", nullable |-> TRUE]
  <2>4. x \in Column /\ x # NoColumn
    <3>1. x \in Column
      BY SchemaAssumption DEF Column
    <3> QED BY <3>1, ColumnFields
  <2>5. e = WithColumn(d, t, c, x)
    <3>1. /\ HasInverse(op) /\ r.kind = "add_column" /\ r.table = t /\ r.column = c
          /\ r.type = "String" /\ r.nullable = TRUE
      BY <2>2, RevertingFields DEF r
    <3>2. Applied(d, r) = WithColumn(d, r.table, r.column, [type |-> r.type, nullable |-> r.nullable])
      BY <3>1, AppliedToColumn
    <3>3. e = Applied(d, r)
      BY <3>1 DEF r
    <3> HIDE DEF e
    <3> QED BY <3>1, <3>2, <3>3, Zenon
  <2> HIDE DEF x
  <2>6. \A f : f[t].columns[c] = x => ColumnIs(f, Needed, undone2, t, c)
    BY <1>3, <2>2, <2>3, <2>4 DEF ColumnIs
  <2>7. op.table = t /\ op.column = c
    BY <2>2, OpFields
  <2> HIDE DEF e
  <2> QED BY <1>6, <2>3, <2>4, <2>5, <2>6, <2>7 DEF e, undone2
<1>10. CASE \E t \in BothTables : \E c \in Retyped(t) : op = OnColumn("alter_column", t, c)
  <2>1. PICK t \in BothTables : \E c \in Retyped(t) : op = OnColumn("alter_column", t, c)
    BY <1>10
  <2>2. PICK c \in Retyped(t) : op = OnColumn("alter_column", t, c)
    BY <2>1
  <2>3. c \in Columns /\ c \notin Added(t) /\ c \notin Dropped(t) /\ t \in Tables
    BY DEF Added, Dropped, Retyped, BothTables
  <2>4. e = d
    BY <2>2, RevertingFields
  <2>5. d[t].exists /\ ColumnIs(d, Needed, undone, t, c)
    BY <2>3 DEF Migrated, TableIs
  <2>6. ColumnIs(d, Needed, undone2, t, c)
    BY <2>3, <2>5 DEF ColumnIs
  <2>7. \A p : p.table # t \/ p.column # c => (p \in undone2 <=> p \in undone)
    BY <1>2, <2>2, OpFields
  <2> HIDE DEF e
  <2>8. Migrated(d, Needed, undone2)
    BY <1>1, <2>3, <2>5, <2>6, <2>7, OneColumn
  <2> QED BY <2>4, <2>8 DEF e, undone2
<1> QED BY <1>4, <1>5, <1>8, <1>9, <1>10, NeededForms DEF e, undone2

(* What the upgrade ends with, and what the downgrade does.                *)
LEMMA UpgradeEnds ==
  ASSUME Snapshots, NEW t \in Tables, Migrated(db, Needed, {})
  PROVE  db[t].exists = after[t].exists /\ SameColumns(after, t)
<1>1. after \in [Tables -> Table] /\ before \in [Tables -> Table] /\ db \in [Tables -> Table]
  BY DEF Snapshots, Migrated
<1>2. TableIs(db, Needed, {}, t)
  BY DEF Migrated
<1>3. /\ db[t].exists \in BOOLEAN /\ after[t].exists \in BOOLEAN /\ before[t].exists \in BOOLEAN
      /\ ~after[t].exists => after[t] = NoTable
      /\ ~db[t].exists => db[t] = NoTable
  BY <1>1, ColumnTypesOf
<1>4. CASE t \in NewTables
  <2>1. AddTable(t) \in Needed
    BY <1>4 DEF Needed
  <2>2. db[t].exists /\ after[t].exists /\ db[t].columns = TypesOf(after, t)
    BY <1>2, <1>4, <2>1 DEF TableIs, NewTables
  <2>3. \A c \in Columns : TypesOf(after, t)[c].type = after[t].columns[c].type
    BY DEF TypesOf, Has
  <2> QED BY <1>3, <2>2, <2>3 DEF SameColumns
<1>5. CASE t \in GoneTables
  <2>1. DropTable(t) \in Needed
    BY <1>5 DEF Needed
  <2>2. ~db[t].exists /\ ~after[t].exists
    BY <1>2, <1>5, <2>1 DEF TableIs, GoneTables
  <2> QED BY <1>3, <2>2 DEF SameColumns
<1>6. CASE t \in BothTables
  <2>1. db[t].exists /\ after[t].exists
    BY <1>2, <1>6 DEF TableIs, BothTables
  <2>2. ASSUME NEW c \in Columns PROVE db[t].columns[c].type = after[t].columns[c].type
    <3>1. ColumnIs(db, Needed, {}, t, c)
      BY <1>2, <1>6 DEF TableIs
    <3>2. CASE c \in Added(t)
      <4>1. OnColumn("add_column", t, c) \in Needed
        BY <1>6, <3>2 DEF Needed, ColumnNeeds
      <4> QED BY <3>1, <3>2, <4>1 DEF ColumnIs
    <3>3. CASE c \in Dropped(t)
      <4>1. OnColumn("drop_column", t, c) \in Needed
        BY <1>6, <3>3 DEF Needed, ColumnNeeds
      <4>2. db[t].columns[c] = NoColumn
        BY <3>1, <3>3, <4>1 DEF ColumnIs
      <4> QED BY <3>3, <4>2 DEF Dropped, Has
    <3>4. CASE c \in Retyped(t)
      <4>1. OnColumn("alter_column", t, c) \in Needed
        BY <1>6, <3>4 DEF Needed, ColumnNeeds
      <4> QED BY <3>1, <3>4, <4>1 DEF ColumnIs
    <3>5. CASE c \notin Added(t) \cup Dropped(t) \cup Retyped(t)
      <4>1. db[t].columns[c] = before[t].columns[c]
        BY <3>1, <3>5 DEF ColumnIs
      <4> QED BY <3>5, <4>1 DEF Added, Dropped, Retyped, Has
    <3> QED BY <3>2, <3>3, <3>4, <3>5
  <2> QED BY <1>3, <2>1, <2>2 DEF SameColumns
<1>7. CASE t \notin NewTables \cup GoneTables \cup BothTables
  <2>1. db[t] = NoTable
    BY <1>2, <1>7 DEF TableIs
  <2>2. ~after[t].exists
    BY <1>7 DEF NewTables, BothTables
  <2> QED BY <1>3, <2>1, <2>2 DEF SameColumns
<1> QED BY <1>4, <1>5, <1>6, <1>7

(* After both scripts a table of the old snapshot is there again with its  *)
(* columns, and unchanged if nothing was dropped or altered.               *)
LEMMA DowngradeEnds ==
  ASSUME Snapshots, NEW t \in Tables, Migrated(db, Needed, Needed)
  PROVE  /\ db[t].exists = before[t].exists
         /\ after[t].exists => \A c \in Columns : Has(db, t, c) <=> Has(before, t, c)
         /\ (\A op \in Needed : op.kind \in {"add_table", "add_column"}) => db[t] = before[t]
<1>1. after \in [Tables -> Table] /\ before \in [Tables -> Table] /\ db \in [Tables -> Table]
  BY DEF Snapshots, Migrated
<1>2. TableIs(db, Needed, Needed, t)
  BY DEF Migrated
<1>3. /\ db[t].exists \in BOOLEAN /\ after[t].exists \in BOOLEAN /\ before[t].exists \in BOOLEAN
      /\ ~before[t].exists => before[t] = NoTable
      /\ ~db[t].exists => db[t] = NoTable
      /\ db[t].columns \in [Columns -> Column \cup {NoColumn}]
      /\ before[t].columns \in [Columns -> Column \cup {NoColumn}]
      /\ before[t] \in Table /\ db[t] \in Table
  BY <1>1, ColumnTypesOf
<1>4. CASE t \in NewTables
  <2>1. ~db[t].exists /\ ~before[t].exists
    BY <1>2, <1>4 DEF TableIs, NewTables
  <2>2. db[t] = NoTable /\ before[t] = NoTable
    BY <1>3, <2>1
  <2> QED BY <2>2 DEF Has
<1>5. CASE t \in GoneTables
  <2>1. DropTable(t) \in Needed
    BY <1>5 DEF Needed
  <2>2. db[t].exists /\ before[t].exists /\ ~after[t].exists
    BY <1>2, <1>5, <2>1 DEF TableIs, GoneTables
  <2>3. DropTable(t).kind \notin {"add_table", "add_column"}
    BY OpFields
  <2> QED BY <1>3, <2>1, <2>2, <2>3
<1>6. CASE t \in BothTables
  <2>1. db[t].exists /\ before[t].exists /\ db[t].index = before[t].index
    BY <1>2, <1>6 DEF TableIs, BothTables
  <2>2. ASSUME NEW c \in Columns
        PROVE  /\ Has(db, t, c) <=> Has(before, t, c)
               /\ c \notin Dropped(t) \cup Retyped(t) => db[t].columns[c] = before[t].columns[c]
    <3>1. ColumnIs(db, Needed, Needed, t, c)
      BY <1>2, <1>6 DEF TableIs
    <3>2. CASE c \in Added(t)
      <4>1. db[t].columns[c] = NoColumn
        BY <3>1, <3>2 DEF ColumnIs
      <4> QED BY <3>2, <4>1 DEF Added, Has
    <3>3. CASE c \in Dropped(t)
      <4>1. OnColumn("drop_column", t, c) \in Needed
        BY <1>6, <3>3 DEF Needed, ColumnNeeds
      <4>2. db[t].columns[c] # NoColumn
        BY <3>1, <3>3, <4>1 DEF ColumnIs
      <4> QED BY <3>3, <4>2 DEF Dropped, Has
    <3>4. CASE c \in Retyped(t)
      <4>1. db[t].columns[c] # NoColumn
        BY <3>1, <3>4 DEF ColumnIs
      <4> QED BY <3>4, <4>1 DEF Retyped, Has
    <3>5. CASE c \notin Added(t) \cup Dropped(t) \cup Retyped(t)
      BY <3>1, <3>5 DEF ColumnIs, Has
    <3> QED BY <3>2, <3>3, <3>4, <3>5
  <2>3. ASSUME \A op \in Needed : op.kind \in {"add_table", "add_column"} PROVE db[t] = before[t]
    <3>1. ASSUME NEW c \in Dropped(t) PROVE FALSE
      <4>1. OnColumn("drop_column", t, c) \in Needed
        BY <1>6 DEF Needed, ColumnNeeds
      <4> QED BY <2>3, <4>1, OpFields
    <3>2. ASSUME NEW c \in Retyped(t) PROVE FALSE
      <4>1. OnColumn("alter_column", t, c) \in Needed
        BY <1>6 DEF Needed, ColumnNeeds
      <4> QED BY <2>3, <4>1, OpFields
    <3>3. \A c \in Columns : db[t].columns[c] = before[t].columns[c]
      BY <2>2, <3>1, <3>2
    <3>4. db[t].columns = before[t].columns
      BY <1>3, <3>3
    <3>5. db[t].exists = TRUE /\ before[t].exists = TRUE
      BY <1>3, <2>1
    <3> QED BY <1>3, <2>1, <3>4, <3>5, SameTable
  <2> QED BY <1>3, <2>1, <2>2, <2>3
<1>7. CASE t \notin NewTables \cup GoneTables \cup BothTables
  <2>1. db[t] = NoTable
    BY <1>2, <1>7 DEF TableIs
  <2>2. ~before[t].exists
    BY <1>7 DEF GoneTables, BothTables
  <2>3. before[t] = NoTable
    BY <1>3, <2>2
  <2> QED BY <2>1, <2>3 DEF Has
<1> QED BY <1>4, <1>5, <1>6, <1>7

-----------------------------------------------------------------------------
(* Both scripts                                                            *)

(* Before the scripts nothing has been done or undone.                     *)
LEMMA SchemaBegins ==
  ASSUME SchemaInit PROVE SchemaInv
<1>1. Snapshots /\ db = before /\ done_up = 0 /\ done_down = 0
  BY DEF SchemaInit, Snapshots
<1>2. Len(Plan) \in Nat
  BY PlanIs, LenProperties
<1> DEFINE n == Len(Plan)
<1>3. FirstOps(0) = {} /\ LastOps(0) = {}
  <2>1. n \in Nat /\ LastOps(0) = {Plan[i] : i \in n - 0 + 1 .. n}
    BY <1>2 DEF LastOps
  <2> HIDE DEF n
  <2>2. n - 0 + 1 .. n = {}
    BY <2>1
  <2> QED BY <2>1, <2>2 DEF FirstOps
<1>4. ASSUME NEW t \in Tables PROVE TableIs(before, {}, {}, t)
  <2>1. before[t].exists \in BOOLEAN /\ after[t].exists \in BOOLEAN /\ (~before[t].exists => before[t] = NoTable)
    BY <1>1, ColumnTypesOf DEF Snapshots
  <2>2. \A c \in Columns : ColumnIs(before, {}, {}, t, c)
    BY DEF ColumnIs, Added, Dropped, Retyped, Has
  <2> QED BY <2>1, <2>2 DEF TableIs, NewTables, GoneTables, BothTables
<1>5. Migrated(before, {}, {})
  BY <1>1, <1>4 DEF Migrated, Snapshots
<1>6. Migrated(db, FirstOps(done_up), LastOps(done_down))
  BY <1>1, <1>3, <1>5
<1>7. done_up \in 0 .. n /\ done_down \in 0 .. n /\ ~(done_down > 0)
  BY <1>1, <1>2
<1> QED BY <1>1, <1>6, <1>7 DEF SchemaInv, Snapshots

(* The plan stays the same while the scripts run.                          *)
LEMMA SnapshotsStay ==
  ASSUME SchemaNext
  PROVE  /\ before' = before /\ after' = after /\ Plan' = Plan /\ Needed' = Needed
         /\ Snapshots' = Snapshots
<1>1. before' = before /\ after' = after
  BY DEF SchemaNext, UpgradeStep, DowngradeStep
<1>2. Plan' = Plan
  BY <1>1 DEF Plan, NewTables, GoneTables, BothTables, AddTable, DropTable, ColumnOps, EachColumn,
              OnColumn, Op, Added, Dropped, Retyped, Has, TypesOf
<1>3. Needed' = Needed
  BY <1>1 DEF Needed, ColumnNeeds, NewTables, GoneTables, BothTables, AddTable, DropTable,
              OnColumn, Op, Added, Dropped, Retyped, Has, TypesOf
<1> QED BY <1>1, <1>2, <1>3 DEF Snapshots

(* The first n operations and the last n, as n grows.                      *)
LEMMA OpsGrow ==
  ASSUME NEW n \in 0 .. Len(Plan)
  PROVE  /\ Len(Plan) \in Nat
         /\ n < Len(Plan) =>
              /\ n + 1 \in 0 .. Len(Plan)
              /\ Plan[n + 1] \in Needed /\ Plan[n + 1] \notin FirstOps(n)
              /\ FirstOps(n + 1) = FirstOps(n) \cup {Plan[n + 1]}
              /\ Plan[Len(Plan) - n] \in Needed /\ Plan[Len(Plan) - n] \notin LastOps(n)
              /\ LastOps(n + 1) = LastOps(n) \cup {Plan[Len(Plan) - n]}
         /\ n = Len(Plan) => FirstOps(n) = Needed /\ LastOps(n) = Needed
         /\ n = 0 => FirstOps(n) = {} /\ LastOps(n) = {}
<1> DEFINE p == Plan
           N == Len(p)
<1>1. /\ p \in Seq(Needed) /\ Once(p) /\ Items(p) = Needed /\ N \in Nat /\ DOMAIN p = 1 .. N
      /\ \A i \in 1 .. N : p[i] \in Needed
  BY PlanIs, LenProperties, ElementOfSeq
<1>2. /\ \A k : FirstOps(k) = {p[i] : i \in 1 .. k}
      /\ \A k : LastOps(k) = {p[i] : i \in N - k + 1 .. N}
      /\ n \in 0 .. N
  BY DEF FirstOps, LastOps
<1> HIDE DEF p, N
<1>3. ASSUME n < N
      PROVE  /\ n + 1 \in 0 .. N
             /\ p[n + 1] \in Needed /\ p[n + 1] \notin FirstOps(n)
             /\ FirstOps(n + 1) = FirstOps(n) \cup {p[n + 1]}
             /\ p[N - n] \in Needed /\ p[N - n] \notin LastOps(n)
             /\ LastOps(n + 1) = LastOps(n) \cup {p[N - n]}
  <2> DEFINE m == N - n
             a == n + 1
  <2>1. m \in 1 .. N /\ a \in 1 .. N /\ a \in 0 .. N
    BY <1>1, <1>2, <1>3
  <2>2. /\ 1 .. a = (1 .. n) \cup {a} /\ a \notin 1 .. n /\ 1 .. n \subseteq 1 .. N
        /\ N - a + 1 .. N = (m + 1 .. N) \cup {m} /\ m \notin m + 1 .. N /\ m + 1 .. N \subseteq 1 .. N
        /\ N - n + 1 = m + 1
    BY <1>1, <1>2, <1>3
  <2> HIDE DEF m, a
  <2>3. /\ FirstOps(n) = {p[i] : i \in 1 .. n} /\ FirstOps(a) = {p[i] : i \in 1 .. a}
        /\ LastOps(n) = {p[i] : i \in m + 1 .. N} /\ LastOps(a) = {p[i] : i \in N - a + 1 .. N}
    BY <1>2, <2>2
  <2>4. FirstOps(a) = FirstOps(n) \cup {p[a]} /\ LastOps(a) = LastOps(n) \cup {p[m]}
    BY <2>2, <2>3
  <2>5. p[a] \notin FirstOps(n)
    BY <1>1, <2>1, <2>2, <2>3 DEF Once
  <2>6. p[m] \notin LastOps(n)
    BY <1>1, <2>1, <2>2, <2>3 DEF Once
  <2> QED BY <1>1, <2>1, <2>4, <2>5, <2>6 DEF m, a
<1>4. ASSUME n = N PROVE FirstOps(n) = Needed /\ LastOps(n) = Needed
  <2>1. N - N + 1 = 1
    BY <1>1
  <2>2. Needed = {p[i] : i \in 1 .. N}
    BY <1>1 DEF Items
  <2> QED BY <1>2, <1>4, <2>1, <2>2
<1>5. ASSUME n = 0 PROVE FirstOps(n) = {} /\ LastOps(n) = {}
  <2>1. 1 .. 0 = {} /\ N - 0 + 1 .. N = {}
    BY <1>1
  <2> QED BY <1>2, <1>5, <2>1
<1> QED BY <1>1, <1>3, <1>4, <1>5 DEF p, N

(* A step of either script does or undoes one operation.                   *)
LEMMA SchemaPreserved ==
  ASSUME SchemaInv, SchemaNext PROVE SchemaInv'
<1> DEFINE N == Len(Plan)
<1>1. /\ before' = before /\ after' = after /\ Plan' = Plan /\ Needed' = Needed
      /\ Snapshots' = Snapshots
  BY SnapshotsStay
<1>2. /\ Snapshots /\ done_up \in 0 .. N /\ done_down \in 0 .. N
      /\ done_down > 0 => done_up = N
      /\ Migrated(db, FirstOps(done_up), LastOps(done_down))
  BY DEF SchemaInv, Snapshots
<1>3. /\ N \in Nat
      /\ FirstOps(N) = Needed /\ LastOps(0) = {}
  <2>1. N \in Nat
    BY PlanIs, LenProperties
  <2>2. N \in 0 .. N /\ 0 \in 0 .. N
    BY <2>1
  <2> HIDE DEF N
  <2>3. FirstOps(N) = Needed
    BY <2>2, OpsGrow DEF N
  <2>4. LastOps(0) = {}
    BY <2>2, OpsGrow DEF N
  <2> QED BY <2>1, <2>3, <2>4
<1>4. /\ done_up' \in 0 .. N /\ done_down' \in 0 .. N /\ (done_down' > 0 => done_up' = N)
      /\ Migrated(db', FirstOps(done_up'), LastOps(done_down'))
  <2>1. CASE UpgradeStep
    <3>1. /\ done_down = 0 /\ done_up < N /\ db' = Applied(db, Plan[done_up + 1])
          /\ done_up' = done_up + 1 /\ done_down' = done_down
      BY <2>1 DEF UpgradeStep
    <3>2. /\ done_up + 1 \in 0 .. N
          /\ Plan[done_up + 1] \in Needed /\ Plan[done_up + 1] \notin FirstOps(done_up)
          /\ FirstOps(done_up + 1) = FirstOps(done_up) \cup {Plan[done_up + 1]}
      BY <1>2, <3>1, OpsGrow
    <3>3. Migrated(db, FirstOps(done_up), {})
      BY <1>2, <1>3, <3>1
    <3> DEFINE op == Plan[done_up + 1]
               ran == FirstOps(done_up)
    <3>4. op \in Needed /\ op \notin ran /\ Migrated(db, ran, {}) /\ FirstOps(done_up') = ran \cup {op}
          /\ db' = Applied(db, op)
      BY <3>1, <3>2, <3>3
    <3> HIDE DEF op, ran
    <3>5. Migrated(Applied(db, op), ran \cup {op}, {})
      BY <1>2, <3>4, AppliedKeeps
    <3>6. Migrated(db', FirstOps(done_up'), LastOps(done_down'))
      BY <1>3, <3>1, <3>4, <3>5
    <3> QED BY <1>2, <3>1, <3>2, <3>6
  <2>2. CASE DowngradeStep
    <3> DEFINE op == Plan[N - done_down]
               undone == LastOps(done_down)
               e == IF HasInverse(op) THEN Applied(db, Reverting(op)) ELSE db
    <3>1. /\ done_up = N /\ done_down < N /\ db' = e
          /\ done_down' = done_down + 1 /\ done_up' = done_up
      BY <2>2 DEF DowngradeStep
    <3>2. /\ done_down + 1 \in 0 .. N /\ op \in Needed /\ op \notin undone
          /\ LastOps(done_down + 1) = undone \cup {op}
      BY <1>2, <3>1, OpsGrow
    <3>3. Migrated(db, Needed, undone)
      BY <1>2, <1>3, <3>1
    <3> HIDE DEF op, undone
    <3>4. Migrated(e, Needed, undone \cup {op})
      BY <1>2, <3>2, <3>3, RevertedKeeps
    <3> HIDE DEF e
    <3>5. Migrated(db', FirstOps(done_up'), LastOps(done_down'))
      BY <1>3, <3>1, <3>2, <3>4
    <3> QED BY <1>2, <3>1, <3>2, <3>5
  <2> QED BY <2>1, <2>2 DEF SchemaNext
<1>5. FirstOps(done_up)' = FirstOps(done_up') /\ LastOps(done_down)' = LastOps(done_down')
  BY <1>1 DEF FirstOps, LastOps
<1>6. Migrated(db, FirstOps(done_up), LastOps(done_down))' <=> Migrated(db', FirstOps(done_up)', LastOps(done_down)')
  BY <1>1 DEF Migrated, TableIs, ColumnIs, NewTables, GoneTables, BothTables, AddTable, DropTable,
              OnColumn, Op, Added, Dropped, Retyped, Has, TypesOf
<1>7. Snapshots'
  BY <1>1, <1>2
<1>8. Migrated(db, FirstOps(done_up), LastOps(done_down))'
  BY <1>4, <1>5, <1>6
<1> QED BY <1>1, <1>4, <1>7, <1>8 DEF SchemaInv, Snapshots

(* What the run checks of the migrations.                                  *)
LEMMA SchemaFollows ==
  ASSUME SchemaInv PROVE MigrationSound /\ SchemaTypeOK
<1> DEFINE N == Len(Plan)
<1>1. /\ Snapshots /\ done_up \in 0 .. N /\ done_down \in 0 .. N
      /\ Migrated(db, FirstOps(done_up), LastOps(done_down))
  BY DEF SchemaInv, Snapshots
<1>2. N \in Nat
  BY PlanIs, LenProperties
<1>3. SchemaTypeOK
  BY <1>1, <1>2 DEF SchemaTypeOK, Snapshots, Migrated
<1>4. ASSUME done_up = N, done_down = 0, NEW t \in Tables
      PROVE  db[t].exists = after[t].exists /\ SameColumns(after, t)
  <2>1. FirstOps(done_up) = Needed /\ LastOps(done_down) = {}
    BY <1>1, <1>4, OpsGrow
  <2> QED BY <1>1, <2>1, UpgradeEnds
<1>5. ASSUME done_up = N, done_down = N
      PROVE  /\ Lossless => db = before
             /\ \A t \in Tables :
                  /\ db[t].exists = before[t].exists
                  /\ after[t].exists => \A c \in Columns : Has(db, t, c) <=> Has(before, t, c)
  <2>1. FirstOps(done_up) = Needed /\ LastOps(done_down) = Needed
    BY <1>1, <1>5, OpsGrow
  <2>2. Migrated(db, Needed, Needed)
    BY <1>1, <2>1
  <2>3. ASSUME Lossless PROVE \A op \in Needed : op.kind \in {"add_table", "add_column"}
    <3>1. Items(Plan) = Needed
      BY PlanIs
    <3> QED BY <2>3, <3>1 DEF Lossless, Items
  <2>4. ASSUME Lossless PROVE db = before
    <3>1. \A t \in Tables : db[t] = before[t]
      BY <1>1, <2>2, <2>3, <2>4, DowngradeEnds
    <3>2. db \in [Tables -> Table] /\ before \in [Tables -> Table]
      BY <1>1 DEF Snapshots, Migrated
    <3> QED BY <3>1, <3>2
  <2> QED BY <1>1, <2>2, <2>4, DowngradeEnds
<1> QED BY <1>3, <1>4, <1>5 DEF MigrationSound

-----------------------------------------------------------------------------
(* Composed entitlements                                                   *)

ComposedValues == [is : {"bool", "num", "tier", "none"}, n : Nat]
Licences == [feature : FeatureDefs, agent : AgentDefs]

(* The customer holds some licences, and no more than the model allows.    *)
CompositionInv == held \in Seq(Licences) /\ Len(held) \in 1 .. MaxLicences

(* What a licence says of a feature and of an agent. *)
LEMMA LicenceParts ==
  ASSUME NEW l \in Licences
  PROVE  /\ l.feature.value \in ComposedValues
         /\ \/ l.feature.limited = FALSE /\ l.feature.value.is = "bool"
            \/ l.feature.limited = TRUE /\ l.feature.value.is \in {"num", "none"}
         /\ l.agent.enabled \in {"absent", "yes", "no"}
         /\ l.agent.tokens \in ComposedValues /\ l.agent.tier \in Nat
<1>1. l.feature \in FeatureDefs /\ l.agent \in AgentDefs
  BY DEF Licences
<1>2. \A n \in Limits \cup TokenLimits \cup TierRanks \cup {0, 1} : n \in Nat
  BY CompositionAssumption
<1>3. \A n \in Nat : \A is \in {"bool", "num", "tier", "none"} :
        Val(is, n) \in ComposedValues /\ Val(is, n).is = is
  BY DEF Val, ComposedValues
<1>4. /\ l.feature.value \in ComposedValues
      /\ \/ l.feature.limited = FALSE /\ l.feature.value.is = "bool"
         \/ l.feature.limited = TRUE /\ l.feature.value.is \in {"num", "none"}
  <2>1. CASE l.feature \in [compose : Strategies, limited : {FALSE}, value : {Val("bool", 0), Val("bool", 1)}]
    <3>1. l.feature.limited = FALSE /\ l.feature.value \in {Val("bool", 0), Val("bool", 1)}
      BY <2>1
    <3> QED BY <1>2, <1>3, <3>1
  <2>2. CASE l.feature \in [compose : Strategies, limited : {TRUE}, value : {Val("num", n) : n \in Limits} \cup {NoVal}]
    <3>1. l.feature.limited = TRUE /\ l.feature.value \in {Val("num", n) : n \in Limits} \cup {NoVal}
      BY <2>2
    <3> QED BY <1>2, <1>3, <3>1 DEF NoVal
  <2> QED BY <1>1, <2>1, <2>2 DEF FeatureDefs
<1>5. /\ l.agent.enabled \in {"absent", "yes", "no"} /\ l.agent.tier \in TierRanks
      /\ l.agent.tokens \in {Val("num", n) : n \in TokenLimits} \cup {NoVal}
  BY <1>1 DEF AgentDefs
<1>6. l.agent.tokens \in ComposedValues
  BY <1>2, <1>3, <1>5 DEF NoVal
<1> QED BY <1>2, <1>4, <1>5, <1>6

(* There are features and agents. *)
LEMMA SomeDefs == SomeFeature \in FeatureDefs /\ SomeAgent \in AgentDefs
<1>1. [compose |-> "unset", limited |-> FALSE, value |-> Val("bool", 0)] \in FeatureDefs
  BY DEF FeatureDefs, Strategies
<1>2. PICK t \in TierRanks : TRUE
  BY CompositionAssumption
<1>3. [enabled |-> "absent", tokens |-> NoVal, tier |-> t] \in AgentDefs
  BY <1>2 DEF AgentDefs
<1> QED BY <1>1, <1>3 DEF SomeFeature, SomeAgent

LEMMA LicencesDefined == LicenceDefs \subseteq Licences
  BY SomeDefs DEF LicenceDefs, Licences

LEMMA CompositionBegins == CompositionInit => CompositionInv
<1> SUFFICES ASSUME CompositionInit PROVE CompositionInv
  OBVIOUS
<1>1. PICK l \in LicenceDefs : held = <<l>>
  BY DEF CompositionInit
<1>2. l \in Licences
  BY LicencesDefined
<1>3. Len(held) = 1 /\ held \in Seq(Licences)
  BY <1>1, <1>2
<1> QED BY <1>3, CompositionAssumption DEF CompositionInv

(* A licence more. *)
LEMMA CompositionGoesOn == CompositionInv /\ CompositionNext => CompositionInv'
<1> SUFFICES ASSUME CompositionInv, CompositionNext PROVE CompositionInv'
  OBVIOUS
<1>1. PICK l \in LicenceDefs : held' = Append(held, l)
  BY DEF CompositionNext
<1>2. l \in Licences
  BY LicencesDefined
<1>3. held' \in Seq(Licences) /\ Len(held') = Len(held) + 1
  BY <1>1, <1>2 DEF CompositionInv
<1> QED BY <1>3, CompositionAssumption DEF CompositionInv, CompositionNext

LEMMA CompositionTyped == CompositionInv => CompositionTypeOK
<1> SUFFICES ASSUME CompositionInv PROVE CompositionTypeOK
  OBVIOUS
<1>1. Len(held) \in 1 .. MaxLicences /\ held \in Seq(Licences)
  BY DEF CompositionInv
<1>2. \A i \in DOMAIN held : held[i] \in Licences
  BY <1>1, ItemsOfSeq
<1> QED BY <1>1, <1>2 DEF CompositionTypeOK, Licences

(* A value is its two fields. *)
LEMMA SameValue ==
  ASSUME NEW v \in ComposedValues, NEW w \in ComposedValues, v.is = w.is, v.n = w.n
  PROVE  v = w
  BY DEF ComposedValues

(* The first of the greatest values is one of them, and none is greater. *)
LEMMA GreatestOf ==
  ASSUME NEW n \in Nat, NEW s \in [1 .. n -> ComposedValues], NEW at, at \subseteq 1 .. n, at # {}
  PROVE  \E i \in at : Greatest(s, at) = s[i] /\ \A j \in at : s[j].n <= s[i].n
<1> DEFINE number == [i \in 1 .. n |-> s[i].n]
           best == {i \in at : \A j \in at : s[j].n <= s[i].n}
<1>1. \A i \in 1 .. n : s[i] \in ComposedValues /\ s[i].n \in Nat /\ number[i] = s[i].n
  BY DEF ComposedValues
<1>2. \E i \in at : \A j \in at : number[j] <= number[i]
  <2>1. \A i \in at : number[i] \in Nat
    BY <1>1
  <2> HIDE DEF number
  <2> QED BY <2>1, GreatestAt
<1>3. best # {} /\ best \subseteq Nat
  <2>1. PICK i \in at : \A j \in at : number[j] <= number[i]
    BY <1>2
  <2>2. \A j \in at : s[j].n <= s[i].n
    BY <1>1, <2>1
  <2>3. i \in best
    BY <2>2
  <2>4. best \subseteq at /\ 1 .. n \subseteq Nat
    OBVIOUS
  <2> HIDE DEF best
  <2> QED BY <2>3, <2>4
<1>4. FirstOf(best) \in best
  <2> HIDE DEF best
  <2>1. \E i \in best : \A j \in best : i <= j
    BY <1>3, Least
  <2> QED BY <2>1 DEF FirstOf
<1>5. Greatest(s, at) = s[FirstOf(best)]
  BY DEF Greatest
<1> QED BY <1>4, <1>5

(* Of n values: the same in another order; and values of one kind.         *)
Reordered(t, s, p, n) ==
  /\ Rearranges(p, n) /\ s \in [1 .. n -> ComposedValues] /\ t \in [1 .. n -> ComposedValues]
  /\ \A i \in 1 .. n : t[i] = s[p[i]]
Limited(s, n) == \A i \in 1 .. n : s[i].is \in {"num", "none"}
OneKind(s, at, kind) == \A i \in at : s[i].is = kind

(* The greatest of values of one kind does not depend on their order. *)
LEMMA GreatestInAnyOrder ==
  ASSUME NEW n \in Nat, NEW s, NEW t, NEW p, Reordered(t, s, p, n),
         NEW at, at \subseteq 1 .. n, at # {}, NEW kind, OneKind(s, at, kind),
         NEW moved, moved = {i \in 1 .. n : p[i] \in at}
  PROVE  Greatest(t, moved) = Greatest(s, at)
<1> Rearranges(p, n) /\ s \in [1 .. n -> ComposedValues] /\ t \in [1 .. n -> ComposedValues] /\ \A i \in 1 .. n : t[i] = s[p[i]]
  BY DEF Reordered
<1> \A i \in at : s[i].is = kind
  BY DEF OneKind
<1>1. \A j \in 1 .. n : \E i \in 1 .. n : p[i] = j
  BY RearrangesAll
<1>2. moved # {} /\ moved \subseteq 1 .. n
  BY <1>1
<1>3. PICK i \in at : Greatest(s, at) = s[i] /\ \A j \in at : s[j].n <= s[i].n
  BY GreatestOf
<1>4. PICK k \in moved : Greatest(t, moved) = t[k] /\ \A j \in moved : t[j].n <= t[k].n
  BY <1>2, GreatestOf
<1>5. PICK m \in 1 .. n : p[m] = i
  BY <1>1
<1>6. m \in moved /\ t[m] = s[i]
  BY <1>5
<1>7. p[k] \in at /\ t[k] = s[p[k]]
  OBVIOUS
<1>8. s[i].n <= s[p[k]].n /\ s[p[k]].n <= s[i].n
  BY <1>3, <1>4, <1>6, <1>7
<1>9. s[i] \in ComposedValues /\ s[p[k]] \in ComposedValues /\ s[i].is = s[p[k]].is
  BY <1>7
<1>10. s[i].n \in Nat /\ s[p[k]].n \in Nat
  BY <1>9 DEF ComposedValues
<1>11. s[i].n = s[p[k]].n
  BY <1>8, <1>10
<1>12. s[i] = s[p[k]]
  BY <1>9, <1>11, SameValue
<1> QED BY <1>3, <1>4, <1>7, <1>12

(* A sum of values does not depend on their order. *)
LEMMA CombinedSumInAnyOrder ==
  ASSUME NEW n \in Nat, NEW s, NEW t, NEW p, Reordered(t, s, p, n)
  PROVE  Combine("sum", t) = Combine("sum", s)
<1> Rearranges(p, n) /\ s \in [1 .. n -> ComposedValues] /\ t \in [1 .. n -> ComposedValues] /\ \A i \in 1 .. n : t[i] = s[p[i]]
  BY DEF Reordered
<1> DEFINE numbers == {i \in 1 .. n : Numeric(s[i])}
           moved == {i \in 1 .. n : Numeric(t[i])}
           summed == [i \in 1 .. n |-> IF i \in numbers THEN s[i].n ELSE 0]
<1>1. DOMAIN s = 1 .. n /\ DOMAIN t = 1 .. n /\ Len(s) = n /\ Len(t) = n
  BY IsASeq, LenProperties
<1>2. Combine("sum", s) = IF numbers = {} THEN NoVal ELSE Val("num", Sum(s, numbers))
  BY <1>1 DEF Combine
<1>3. Combine("sum", t) = IF moved = {} THEN NoVal ELSE Val("num", Sum(t, moved))
  BY <1>1 DEF Combine
<1>4. \A i \in 1 .. n : p[i] \in 1 .. n /\ (i \in moved <=> p[i] \in numbers)
  BY DEF Rearranges
<1>5. numbers = {} <=> moved = {}
  <2>1. \A j \in 1 .. n : \E i \in 1 .. n : p[i] = j
    BY RearrangesAll
  <2>2. numbers \subseteq 1 .. n /\ moved \subseteq 1 .. n
    OBVIOUS
  <2> HIDE DEF numbers, moved
  <2> QED BY <1>4, <2>1, <2>2
<1>6. Sum(s, numbers) = SumOf(summed)
  BY <1>1 DEF Sum
<1>7. summed \in [1 .. n -> Nat]
  <2>1. \A i \in 1 .. n : s[i].n \in Nat
    BY DEF ComposedValues
  <2> QED BY <2>1
<1>8. Sum(t, moved) = SumOf([i \in 1 .. n |-> summed[p[i]]])
  <2>1. Sum(t, moved) = SumOf([i \in 1 .. n |-> IF i \in moved THEN t[i].n ELSE 0])
    BY <1>1 DEF Sum
  <2>2. \A i \in 1 .. n : (IF i \in moved THEN t[i].n ELSE 0) = summed[p[i]]
    <3> HIDE DEF numbers, moved
    <3> QED BY <1>4
  <2>3. [i \in 1 .. n |-> IF i \in moved THEN t[i].n ELSE 0] = [i \in 1 .. n |-> summed[p[i]]]
    <3> HIDE DEF moved, summed
    <3> QED BY <2>2
  <2> QED BY <2>1, <2>3
<1>9. SumOf([i \in 1 .. n |-> summed[p[i]]]) = SumOf(summed)
  <2> HIDE DEF summed
  <2> QED BY <1>7, SumInAnyOrder
<1> HIDE DEF numbers, moved, summed
<1> QED BY <1>2, <1>3, <1>5, <1>6, <1>8, <1>9

(* So is a maximum of tiers, of flags or of limits, and a union of flags. *)
LEMMA CombinedMaxInAnyOrder ==
  ASSUME NEW n \in Nat, n > 0, NEW s, NEW t, NEW p, Reordered(t, s, p, n)
  PROVE  /\ OneKind(s, 1 .. n, "tier") \/ OneKind(s, 1 .. n, "bool") \/ Limited(s, n) =>
              Combine("max", t) = Combine("max", s)
         /\ OneKind(s, 1 .. n, "bool") => Combine("union", t) = Combine("union", s)
<1> DEFINE numbers(v) == {i \in 1 .. n : Numeric(v[i])}
           every == 1 .. n
           tiered(v) == \A i \in every : v[i].is = "tier"
           flags(v) == \A i \in every : v[i].is = "bool"
           greatest(v) == IF numbers(v) = {} THEN NoVal ELSE Greatest(v, numbers(v))
<1>1. DOMAIN s = 1 .. n /\ DOMAIN t = 1 .. n /\ \A i \in 1 .. n : t[i] = s[p[i]] /\ p[i] \in 1 .. n
  BY DEF Reordered, Rearranges
<1>2. \A j \in 1 .. n : \E i \in 1 .. n : p[i] = j
  BY RearrangesAll DEF Reordered
<1>3. 1 \in every /\ every \subseteq 1 .. n /\ {i \in 1 .. n : p[i] \in every} = every
  BY <1>1
<1>4. ASSUME NEW kind, OneKind(s, every, kind)
      PROVE  OneKind(t, every, kind) /\ Greatest(t, every) = Greatest(s, every)
  <2>1. OneKind(t, every, kind)
    BY <1>1, <1>4 DEF OneKind
  <2>2. every # {}
    BY <1>3
  <2> HIDE DEF every
  <2>3. Greatest(t, every) = Greatest(s, every)
    BY <1>3, <1>4, <2>2, GreatestInAnyOrder
  <2> QED BY <2>1, <2>3
<1>5. ASSUME OneKind(s, every, "bool") PROVE Combine("union", t) = Combine("union", s)
  <2>1. flags(s) /\ flags(t)
    BY <1>4, <1>5 DEF OneKind
  <2>2. Combine("union", s) = Greatest(s, every) /\ Combine("union", t) = Greatest(t, every)
    BY <1>1, <2>1 DEF Combine
  <2> QED BY <1>4, <1>5, <2>2
<1>6. ASSUME OneKind(s, every, "tier") PROVE Combine("max", t) = Combine("max", s)
  <2>1. tiered(s) /\ tiered(t)
    BY <1>4, <1>6 DEF OneKind
  <2>2. Combine("max", s) = Greatest(s, every) /\ Combine("max", t) = Greatest(t, every)
    BY <1>1, <2>1 DEF Combine
  <2> QED BY <1>4, <1>6, <2>2
<1>7. ASSUME NEW kind, kind # "tier", OneKind(s, numbers(s), kind), s[1].is # "tier", t[1].is # "tier"
      PROVE  Combine("max", t) = Combine("max", s)
  <2>1. ~tiered(s) /\ ~tiered(t)
    BY <1>3, <1>7
  <2>2. Combine("max", s) = greatest(s) /\ Combine("max", t) = greatest(t)
    BY <1>1, <2>1 DEF Combine
  <2>3. numbers(t) = {i \in 1 .. n : p[i] \in numbers(s)}
    BY <1>1
  <2>4. numbers(s) \subseteq 1 .. n
    OBVIOUS
  <2>5. numbers(s) = {} <=> numbers(t) = {}
    <3>1. \A i \in 1 .. n : i \in numbers(t) <=> p[i] \in numbers(s)
      BY <2>3
    <3>2. numbers(t) \subseteq 1 .. n
      OBVIOUS
    <3> HIDE DEF numbers, every, tiered, flags, greatest
    <3> QED BY <1>1, <1>2, <2>4, <3>1, <3>2
  <2>6. ASSUME numbers(s) # {} PROVE Greatest(t, numbers(t)) = Greatest(s, numbers(s))
    <3> HIDE DEF numbers, every, tiered, flags, greatest
    <3> QED BY <1>7, <2>3, <2>4, <2>6, GreatestInAnyOrder
  <2>7. greatest(t) = greatest(s)
    <3> HIDE DEF numbers
    <3> QED BY <2>5, <2>6
  <2> QED BY <2>2, <2>7
<1>8. ASSUME OneKind(s, every, "bool") PROVE Combine("max", t) = Combine("max", s)
  <2>1. OneKind(s, numbers(s), "bool") /\ s[1].is = "bool" /\ t[1].is = "bool"
    BY <1>3, <1>4, <1>8 DEF OneKind
  <2> HIDE DEF numbers
  <2> QED BY <1>7, <2>1
<1>9. ASSUME Limited(s, n) PROVE Combine("max", t) = Combine("max", s)
  <2>1. OneKind(s, numbers(s), "num")
    BY <1>9 DEF OneKind, Limited, Numeric
  <2>2. s[1].is # "tier" /\ t[1].is # "tier"
    BY <1>1, <1>3, <1>9 DEF Limited
  <2> HIDE DEF numbers
  <2> QED BY <1>7, <2>1, <2>2
<1> QED BY <1>5, <1>6, <1>8, <1>9

(* What is combined is no less than a number that goes in. *)
LEMMA NothingLost ==
  ASSUME NEW n \in Nat, NEW s \in [1 .. n -> ComposedValues], NEW m \in 1 .. n, Numeric(s[m]),
         NEW st \in {"sum", "max", "union"}, st = "union" => \A i \in 1 .. n : s[i].is = "bool"
  PROVE  Combine(st, s).n >= s[m].n
<1> DEFINE numbers == {i \in 1 .. n : Numeric(s[i])}
           summed == [i \in 1 .. n |-> IF i \in numbers THEN s[i].n ELSE 0]
<1>1. DOMAIN s = 1 .. n /\ Len(s) = n
  BY IsASeq, LenProperties
<1>2. m \in numbers /\ numbers \subseteq 1 .. n
  OBVIOUS
<1>3. \A i \in 1 .. n : s[i].n \in Nat
  BY DEF ComposedValues
<1>4. PICK i \in numbers : Greatest(s, numbers) = s[i] /\ \A j \in numbers : s[j].n <= s[i].n
  <2> HIDE DEF numbers
  <2> QED BY <1>2, GreatestOf
<1>5. Greatest(s, numbers).n >= s[m].n
  BY <1>2, <1>3, <1>4
<1>6. CASE st = "sum"
  <2>1. Combine("sum", s) = Val("num", SumOf(summed))
    BY <1>1, <1>2 DEF Combine, Sum
  <2>2. Combine("sum", s).n = SumOf(summed)
    BY <2>1 DEF Val
  <2>3. summed \in [1 .. n -> Nat] /\ summed[m] = s[m].n
    BY <1>2, <1>3
  <2> HIDE DEF summed
  <2>4. summed[m] <= SumOf(summed) /\ SumOf(summed) \in Nat
    BY <2>3, SumHasEach, SumNatural
  <2> QED BY <1>3, <1>6, <2>2, <2>3, <2>4
<1>7. CASE st = "max"
  <2>1. s[m].is # "tier"
    BY DEF Numeric
  <2>2. Combine("max", s) = Greatest(s, numbers)
    BY <1>1, <1>2, <2>1 DEF Combine
  <2> QED BY <1>5, <1>7, <2>2
<1>8. CASE st = "union"
  <2>1. \A j \in 1 .. n : s[j].is = "bool"
    BY <1>8
  <2>2. numbers = 1 .. n
    BY <2>1 DEF Numeric
  <2>3. Combine("union", s) = Greatest(s, numbers)
    BY <1>1, <2>1, <2>2 DEF Combine
  <2> QED BY <1>5, <1>8, <2>3
<1> QED BY <1>6, <1>7, <1>8

(* The order the query returns the licences in is a rearrangement.         *)
LEMMA OrdersRearrange ==
  ASSUME CompositionInv, NEW s \in Orders
  PROVE  \E p : /\ Rearranges(p, Len(held)) /\ DOMAIN s = 1 .. Len(held)
                /\ \A i \in 1 .. Len(held) : p[i] \in 1 .. Len(held) /\ s[i] = held[p[i]]
<1>1. DOMAIN held = 1 .. Len(held)
  BY DEF CompositionInv
<1>2. PICK p \in Permuted : s = [i \in DOMAIN held |-> held[p[i]]]
  BY DEF Orders
<1>3. Rearranges(p, Len(held))
  BY <1>1 DEF Permuted, Rearranges
<1> QED BY <1>1, <1>2, <1>3 DEF Rearranges

(* The composed agent in any order. *)
LEMMA AgentInAnyOrder ==
  ASSUME CompositionInv, NEW s \in Orders
  PROVE  ComposedAgent(s) = ComposedAgent(held)
<1> DEFINE n == Len(held)
           said(v) == {v[i].agent.enabled : i \in DOMAIN v} \ {"absent"}
           tokens(v) == [i \in DOMAIN v |-> v[i].agent.tokens]
           ranks(v) == [i \in DOMAIN v |-> Val("tier", v[i].agent.tier)]
<1>1. PICK p : /\ Rearranges(p, n) /\ DOMAIN s = 1 .. n
               /\ \A i \in 1 .. n : p[i] \in 1 .. n /\ s[i] = held[p[i]]
  BY OrdersRearrange
<1>2. n \in Nat /\ n > 0 /\ DOMAIN held = 1 .. n /\ \A i \in 1 .. n : held[i] \in Licences
  BY DEF CompositionInv
<1>3. \A i \in 1 .. n : s[i] \in Licences
  BY <1>1, <1>2
<1>4. \A j \in 1 .. n : \E i \in 1 .. n : p[i] = j
  BY <1>1, <1>2, RearrangesAll
<1>5. said(s) = said(held)
  <2>1. ASSUME NEW i \in DOMAIN s PROVE \E j \in DOMAIN held : held[j].agent.enabled = s[i].agent.enabled
    BY <1>1, <1>2
  <2>2. ASSUME NEW j \in DOMAIN held PROVE \E i \in DOMAIN s : s[i].agent.enabled = held[j].agent.enabled
    <3>1. PICK i \in 1 .. n : p[i] = j
      BY <1>2, <1>4
    <3> QED BY <1>1, <3>1
  <2> QED BY <2>1, <2>2
<1>6. /\ tokens(held) \in [1 .. n -> ComposedValues] /\ tokens(s) \in [1 .. n -> ComposedValues]
      /\ \A i \in 1 .. n : tokens(s)[i] = tokens(held)[p[i]]
  <2>1. \A i \in 1 .. n : held[i].agent.tokens \in ComposedValues /\ s[i].agent.tokens \in ComposedValues
    BY <1>2, <1>3, LicenceParts
  <2> QED BY <1>1, <1>2, <2>1
<1>7. /\ ranks(held) \in [1 .. n -> ComposedValues] /\ ranks(s) \in [1 .. n -> ComposedValues]
      /\ \A i \in 1 .. n : ranks(s)[i] = ranks(held)[p[i]] /\ ranks(held)[i].is = "tier"
  <2>1. \A i \in 1 .. n : held[i].agent.tier \in Nat /\ s[i].agent.tier \in Nat
    BY <1>2, <1>3, LicenceParts
  <2>2. \A r \in Nat : Val("tier", r) \in ComposedValues /\ Val("tier", r).is = "tier"
    BY DEF Val, ComposedValues
  <2> QED BY <1>1, <1>2, <2>1, <2>2
<1>8. Combine("sum", tokens(s)) = Combine("sum", tokens(held))
  <2> HIDE DEF tokens, n
  <2>1. Reordered(tokens(s), tokens(held), p, n)
    BY <1>1, <1>6 DEF Reordered
  <2> QED BY <1>2, <2>1, CombinedSumInAnyOrder
<1>9. Combine("max", ranks(s)) = Combine("max", ranks(held))
  <2> HIDE DEF ranks, n
  <2>1. Reordered(ranks(s), ranks(held), p, n) /\ OneKind(ranks(held), 1 .. n, "tier")
    BY <1>1, <1>7 DEF Reordered, OneKind
  <2> QED BY <1>2, <2>1, CombinedMaxInAnyOrder
<1>10. \A v : ComposedAgent(v) = [enabled |-> "yes" \in said(v) \/ said(v) = {},
                                  tokens |-> Combine("sum", tokens(v)), tier |-> Combine("max", ranks(v))]
  BY DEF ComposedAgent
<1> HIDE DEF n, said, tokens, ranks
<1> QED BY <1>5, <1>8, <1>9, <1>10

(* The composed feature, when the products agree, in any order; and what   *)
(* it keeps.                                                               *)
LEMMA FeatureInAnyOrder ==
  ASSUME CompositionInv, Agreed
  PROVE  /\ \A s \in Orders : ComposedFeature(s) = ComposedFeature(held)
         /\ \A i \in DOMAIN held : Numeric(held[i].feature.value) =>
              ComposedFeature(held).n >= held[i].feature.value.n
<1> DEFINE n == Len(held)
           granted(v) == [i \in DOMAIN v |-> v[i].feature.value]
<1>1. n \in Nat /\ n > 0 /\ DOMAIN held = 1 .. n /\ \A i \in 1 .. n : held[i] \in Licences
  BY DEF CompositionInv
<1>2. PICK st \in {"sum", "max", "union"} : \A i \in 1 .. n :
        /\ StrategyOf(held[i].feature) = st
        /\ st = "union" => held[i].feature.value.is = "bool"
        /\ st = "max" => held[i].feature.limited = held[1].feature.limited
  BY <1>1 DEF Agreed
<1>3. \A i \in 1 .. n :
        /\ held[i].feature.value \in ComposedValues
        /\ \/ held[i].feature.limited = FALSE /\ held[i].feature.value.is = "bool"
           \/ held[i].feature.limited = TRUE /\ held[i].feature.value.is \in {"num", "none"}
  BY <1>1, LicenceParts
<1>4. granted(held) \in [1 .. n -> ComposedValues] /\ \A i \in 1 .. n : granted(held)[i] = held[i].feature.value
  BY <1>1, <1>3
<1>5. ComposedFeature(held) = Combine(st, granted(held))
  BY <1>1, <1>2 DEF ComposedFeature
<1>6. ASSUME NEW s \in Orders PROVE ComposedFeature(s) = ComposedFeature(held)
  <2>1. PICK p : /\ Rearranges(p, n) /\ DOMAIN s = 1 .. n
                 /\ \A i \in 1 .. n : p[i] \in 1 .. n /\ s[i] = held[p[i]]
    BY OrdersRearrange
  <2>2. ComposedFeature(s) = Combine(st, granted(s))
    <3>1. s[1] = held[p[1]] /\ p[1] \in 1 .. n
      BY <1>1, <2>1
    <3>2. StrategyOf(s[1].feature) = st
      BY <1>2, <3>1
    <3> QED BY <3>2 DEF ComposedFeature
  <2>3. /\ granted(s) \in [1 .. n -> ComposedValues]
        /\ \A i \in 1 .. n : granted(s)[i] = granted(held)[p[i]]
    BY <1>1, <1>3, <2>1
  <2>4. Reordered(granted(s), granted(held), p, n)
    <3> HIDE DEF granted, n
    <3> QED BY <1>4, <2>1, <2>3 DEF Reordered
  <2>5. CASE st = "sum"
    <3> HIDE DEF granted, n
    <3> QED BY <1>1, <1>5, <2>2, <2>4, <2>5, CombinedSumInAnyOrder
  <2>6. CASE st = "max"
    <3>1. \A i \in 1 .. n : held[i].feature.limited = held[1].feature.limited
      BY <1>2, <2>6
    <3>2. 1 \in 1 .. n
      BY <1>1
    <3>3. CASE held[1].feature.limited = TRUE
      <4>1. Limited(granted(held), n)
        BY <1>3, <1>4, <3>1, <3>3 DEF Limited
      <4> HIDE DEF granted, n
      <4> QED BY <1>1, <1>5, <2>2, <2>4, <2>6, <4>1, CombinedMaxInAnyOrder
    <3>4. CASE held[1].feature.limited = FALSE
      <4>1. OneKind(granted(held), 1 .. n, "bool")
        BY <1>3, <1>4, <3>1, <3>4 DEF OneKind
      <4> HIDE DEF granted, n
      <4> QED BY <1>1, <1>5, <2>2, <2>4, <2>6, <4>1, CombinedMaxInAnyOrder
    <3> QED BY <1>3, <3>2, <3>3, <3>4
  <2>7. CASE st = "union"
    <3>1. OneKind(granted(held), 1 .. n, "bool")
      BY <1>2, <1>4, <2>7 DEF OneKind
    <3> HIDE DEF granted, n
    <3> QED BY <1>1, <1>5, <2>2, <2>4, <2>7, <3>1, CombinedMaxInAnyOrder
  <2> QED BY <2>5, <2>6, <2>7
<1>7. ASSUME NEW i \in DOMAIN held, Numeric(held[i].feature.value)
      PROVE  ComposedFeature(held).n >= held[i].feature.value.n
  <2>1. i \in 1 .. n /\ Numeric(granted(held)[i]) /\ granted(held)[i] = held[i].feature.value
    BY <1>1, <1>4, <1>7
  <2>2. st = "union" => \A j \in 1 .. n : granted(held)[j].is = "bool"
    BY <1>2, <1>4
  <2> HIDE DEF granted, n
  <2>3. Combine(st, granted(held)).n >= granted(held)[i].n
    BY <1>1, <1>4, <2>1, <2>2, NothingLost
  <2> QED BY <1>5, <2>1, <2>3
<1> QED BY <1>6, <1>7

(* Composed entitlements are what they should be. *)
LEMMA CompositionFollows == CompositionInv => ComposeSound
<1> SUFFICES ASSUME CompositionInv PROVE ComposeSound
  OBVIOUS
<1> DEFINE said == {held[i].agent.enabled : i \in DOMAIN held} \ {"absent"}
           grants == \E i \in DOMAIN held : GrantsAgent(held[i])
           e == ComposedAgent(held).enabled
<1>1. 1 \in DOMAIN held /\ \A i \in DOMAIN held : held[i].agent.enabled \in {"absent", "yes", "no"}
  <2>1. DOMAIN held = 1 .. Len(held) /\ \A i \in DOMAIN held : held[i] \in Licences
    BY DEF CompositionInv
  <2>2. 1 \in DOMAIN held
    BY <2>1 DEF CompositionInv
  <2> QED BY <2>1, <2>2, LicenceParts
<1>2. e = ("yes" \in said \/ said = {})
  BY DEF ComposedAgent
<1>3. (e => grants) /\ (grants /\ ~e => \E i \in DOMAIN held : held[i].agent.enabled = "absent")
  <2>1. ASSUME e PROVE grants
    <3>1. CASE "yes" \in said
      BY <3>1 DEF GrantsAgent
    <3>2. CASE said = {}
      <4>1. held[1].agent.enabled = "absent"
        BY <1>1, <3>2
      <4> QED BY <1>1, <4>1 DEF GrantsAgent
    <3> QED BY <1>2, <2>1, <3>1, <3>2
  <2>2. ASSUME grants, ~e PROVE \E i \in DOMAIN held : held[i].agent.enabled = "absent"
    <3>1. PICK i \in DOMAIN held : held[i].agent.enabled # "no"
      BY <2>2 DEF GrantsAgent
    <3>2. "yes" \notin said
      BY <1>2, <2>2
    <3> QED BY <1>1, <3>1, <3>2
  <2> QED BY <2>1, <2>2
<1>4. \A s \in Orders : ComposedAgent(s) = ComposedAgent(held)
  BY AgentInAnyOrder
<1>5. Agreed => /\ \A s \in Orders : ComposedFeature(s) = ComposedFeature(held)
                /\ \A i \in DOMAIN held : Numeric(held[i].feature.value) =>
                     ComposedFeature(held).n >= held[i].feature.value.n
  BY FeatureInAnyOrder
<1> QED BY <1>3, <1>4, <1>5 DEF ComposeSound

-----------------------------------------------------------------------------
(* Prices                                                                  *)

(* A plan's tiers, a meter and its readings are what was registered.       *)
PricingInv ==
  /\ tiers \in TierTables /\ meter \in MeterDefs
  /\ readings \in Seq(Readings) /\ Len(readings) <= MaxReadings

LEMMA PricingBegins == PricingInit => PricingInv
<1> SUFFICES ASSUME PricingInit PROVE PricingInv
  OBVIOUS
<1>1. readings \in Seq(Readings) /\ Len(readings) = 0
  BY EmptySeq DEF PricingInit
<1> QED BY <1>1, PricingAssumption DEF PricingInit, PricingInv

LEMMA PricingGoesOn == PricingInv /\ PricingNext => PricingInv'
<1> SUFFICES ASSUME PricingInv, PricingNext PROVE PricingInv'
  OBVIOUS
<1> USE DEF PricingInv
<1>1. ASSUME NEW v \in Readings, RecordReading(v) PROVE PricingInv'
  <2>1. readings' \in Seq(Readings) /\ Len(readings') = Len(readings) + 1
    BY <1>1, AppendProperties DEF RecordReading
  <2>2. Len(readings) \in Nat /\ MaxReadings \in Nat /\ Len(readings) < MaxReadings
    BY <1>1, PricingAssumption, LenProperties DEF RecordReading
  <2> QED BY <1>1, <2>1, <2>2 DEF RecordReading
<1>2. ASSUME NEW m \in MeterDefs, DefineMeter(m) PROVE PricingInv'
  BY <1>2 DEF DefineMeter
<1>3. ASSUME NEW t \in TierTables, RegisterPlan(t) PROVE PricingInv'
  BY <1>3 DEF RegisterPlan
<1> QED BY <1>1, <1>2, <1>3 DEF PricingNext

LEMMA PricingTyped == PricingInv => PricingTypeOK
<1> SUFFICES ASSUME PricingInv PROVE PricingTypeOK
  OBVIOUS
<1>1. \A i \in DOMAIN readings : readings[i] \in Readings
  BY ItemsOfSeq DEF PricingInv
<1> QED BY <1>1 DEF PricingInv, PricingTypeOK

(* A table of n tiers, in the order of their units: between two of them    *)
(* nothing is left out, and only the last one may have no end.             *)
Ordered(t, n) ==
  /\ n \in Nat /\ n > 0 /\ Len(t) = n /\ DOMAIN t = 1 .. n
  /\ t[1].lo = 1
  /\ \A i \in 1 .. n : t[i].lo \in Nat \ {0} /\ t[i].hi \in Nat /\ t[i].price \in Nat /\ t[i].fee \in Nat
  /\ \A i \in 1 .. n - 1 : t[i].hi >= t[i].lo /\ t[i + 1].lo = t[i].hi + 1
  /\ t[n].hi = 0 \/ t[n].hi >= t[n].lo
  /\ \A i, j \in 1 .. n : i < j => t[i].hi # 0 /\ t[i].hi < t[j].lo

LEMMA ContiguousOrdered ==
  ASSUME NEW t \in TierTables, Contiguous(t)
  PROVE  Ordered(t, Len(t))
<1> DEFINE n == Len(t)
<1>1. t \in Seq(TierRow) /\ t # <<>>
  BY PricingAssumption
<1>2. n \in Nat /\ n > 0 /\ DOMAIN t = 1 .. n
  BY <1>1, EmptySeq, LenProperties
<1>3. \A i \in 1 .. n : t[i].lo \in Nat /\ t[i].hi \in Nat /\ t[i].price \in Nat /\ t[i].fee \in Nat
  <2>1. \A i \in 1 .. n : t[i] \in TierRow
    BY <1>1, ElementOfSeq
  <2> QED BY <2>1 DEF TierRow
<1>4. /\ t[1].lo = 1 /\ \A i \in 1 .. n - 1 : t[i].hi >= t[i].lo /\ t[i + 1].lo = t[i].hi + 1
      /\ t[n].hi = 0 \/ t[n].hi >= t[n].lo
  BY DEF Contiguous
<1> HIDE DEF n
<1>5. \A j \in 1 .. n : t[j].lo # 0
  <2>1. ASSUME NEW j \in 1 .. n, j # 1 PROVE t[j].lo # 0
    <3>1. j - 1 \in 1 .. n - 1 /\ j - 1 \in 1 .. n /\ j - 1 + 1 = j
      BY <1>2, <2>1
    <3>2. t[j].lo = t[j - 1].hi + 1 /\ t[j - 1].hi \in Nat
      BY <1>3, <1>4, <3>1
    <3> QED BY <3>2
  <2> QED BY <1>4, <2>1
<1> DEFINE good == {j \in 0 .. n : \A i \in 1 .. j - 1 : t[i].hi # 0 /\ t[i].hi < t[j].lo}
<1>6. 0 \in good
  BY <1>2
<1>7. ASSUME NEW j \in 1 .. n, j - 1 \in good PROVE j \in good
  <2> SUFFICES ASSUME NEW i \in 1 .. j - 1 PROVE t[i].hi # 0 /\ t[i].hi < t[j].lo
    OBVIOUS
  <2>1. j - 1 \in 1 .. n - 1 /\ j - 1 + 1 = j /\ j - 1 \in 1 .. n /\ i \in 1 .. n
    BY <1>2
  <2>2. t[j - 1].hi >= t[j - 1].lo /\ t[j].lo = t[j - 1].hi + 1 /\ t[j - 1].lo # 0
    BY <1>4, <1>5, <2>1
  <2>3. t[j - 1].hi \in Nat /\ t[j - 1].lo \in Nat /\ t[i].hi \in Nat
    BY <1>3, <2>1
  <2>4. CASE i = j - 1
    BY <2>2, <2>3, <2>4
  <2>5. CASE i # j - 1
    <3>1. i \in 1 .. (j - 1) - 1
      BY <2>1, <2>5
    <3>2. t[i].hi # 0 /\ t[i].hi < t[j - 1].lo
      BY <1>7, <3>1
    <3> QED BY <2>2, <2>3, <3>2
  <2> QED BY <2>4, <2>5
<1>8. 0 .. n \subseteq good
  <2> HIDE DEF good
  <2> QED BY <1>2, <1>6, <1>7, Induction
<1>9. \A i, j \in 1 .. n : i < j => t[i].hi # 0 /\ t[i].hi < t[j].lo
  <2> SUFFICES ASSUME NEW i \in 1 .. n, NEW j \in 1 .. n, i < j PROVE t[i].hi # 0 /\ t[i].hi < t[j].lo
    OBVIOUS
  <2>1. j \in good /\ i \in 1 .. j - 1
    BY <1>8
  <2> QED BY <2>1
<1> HIDE DEF good
<1> QED BY <1>2, <1>3, <1>4, <1>5, <1>9 DEF n, Ordered

(* What the first tiers leave. *)
LEMMA LeftIsComputed ==
  ASSUME NEW t, NEW n, Ordered(t, n), NEW units \in Nat
  PROVE  /\ LeftAfter(t, units) \in [0 .. n -> Int] /\ LeftAfter(t, units)[0] = units
         /\ \A i \in 1 .. n : LET f == LeftAfter(t, units) IN f[i] = f[i - 1] - Taken(t[i], f[i - 1])
<1> DEFINE next == [p \in (1 .. n) \X Int |-> p[2] - Taken(t[p[1]], p[2])]
           Is(g) == g = [i \in 0 .. n |-> IF i = 0 THEN units ELSE g[i - 1] - Taken(t[i], g[i - 1])]
<1>1. n \in Nat /\ \A i \in 1 .. n : \A l \in Int : l - Taken(t[i], l) \in Int
  <2>1. n \in Nat /\ \A i \in 1 .. n : t[i].lo \in Nat /\ t[i].hi \in Nat
    BY DEF Ordered
  <2>2. \A i \in 1 .. n : Width(t[i]) \in Int
    BY <2>1 DEF Width
  <2> QED BY <2>1, <2>2 DEF Taken
<1>2. next \in [(1 .. n) \X Int -> Int]
  <2> SUFFICES ASSUME NEW p \in (1 .. n) \X Int PROVE p[2] - Taken(t[p[1]], p[2]) \in Int
    OBVIOUS
  <2> QED BY <1>1
<1>3. PICK f \in [0 .. n -> Int] : Computed(f, n, units, next)
  <2>1. n \in Nat /\ units \in Int
    BY <1>1
  <2> HIDE DEF next
  <2> QED BY <1>2, <2>1, Recursion, Zenon
<1>4. f[0] = units
  BY <1>3 DEF Computed
<1>5. ASSUME NEW i \in 1 .. n PROVE f[i] = f[i - 1] - Taken(t[i], f[i - 1])
  <2>1. f[i - 1] \in Int
    <3>1. i - 1 \in 0 .. n
      BY <1>1
    <3> QED BY <1>3, <3>1
  <2>2. next[<<i, f[i - 1]>>] = f[i - 1] - Taken(t[i], f[i - 1])
    BY <2>1
  <2> QED BY <1>3, <2>2 DEF Computed
<1>6. Is(f)
  <2>1. f = [i \in 0 .. n |-> f[i]]
    BY <1>3
  <2>2. ASSUME NEW i \in 0 .. n PROVE f[i] = IF i = 0 THEN units ELSE f[i - 1] - Taken(t[i], f[i - 1])
    <3>1. CASE i = 0
      BY <1>4, <3>1
    <3>2. CASE i # 0
      <4>1. i \in 1 .. n
        BY <1>1, <3>2
      <4> QED BY <1>5, <3>2, <4>1
    <3> QED BY <3>1, <3>2
  <2> QED BY <2>1, <2>2
<1>7. ASSUME NEW g, Is(g) PROVE g = f
  <2>1. g[0] = units
    BY <1>1, <1>7
  <2>2. ASSUME NEW i \in 1 .. n PROVE g[i] = g[i - 1] - Taken(t[i], g[i - 1])
    <3>1. i \in 0 .. n /\ i # 0
      BY <1>1
    <3> QED BY <1>7, <3>1
  <2> DEFINE good == {i \in 0 .. n : g[i] = f[i]}
  <2>3. 0 \in good
    BY <1>1, <1>4, <2>1
  <2>4. ASSUME NEW i \in 1 .. n, i - 1 \in good PROVE i \in good
    <3>1. g[i] = f[i]
      BY <1>5, <2>2, <2>4
    <3> QED BY <1>1, <3>1
  <2>5. 0 .. n \subseteq good
    <3> HIDE DEF good
    <3> QED BY <1>1, <2>3, <2>4, Induction
  <2>6. g = [i \in 0 .. n |-> g[i]] /\ f = [i \in 0 .. n |-> f[i]]
    BY <1>3, <1>7
  <2> QED BY <2>5, <2>6
<1>8. (CHOOSE g : Is(g)) = f
  <2> HIDE DEF Is
  <2> QED BY <1>6, <1>7
<1>9. LeftAfter(t, units) = f
  <2>1. Len(t) = n
    BY DEF Ordered
  <2> QED BY <1>8, <2>1 DEF LeftAfter
<1> QED BY <1>3, <1>4, <1>5, <1>9

(* A tier finds what the usage has beyond the units before it.             *)
LEMMA LeftForTier ==
  ASSUME NEW t, NEW n, Ordered(t, n), NEW units \in Nat, NEW i \in 1 .. n
  PROVE  LeftAfter(t, units)[i - 1] =
           IF units > 2 * (t[i].lo - 1) THEN units - 2 * (t[i].lo - 1) ELSE 0
<1> DEFINE f == LeftAfter(t, units)
           start(j) == 2 * (t[j].lo - 1)
           good == {j \in 0 .. n : j # 0 => f[j - 1] = IF units > start(j) THEN units - start(j) ELSE 0}
<1>1. f \in [0 .. n -> Int] /\ f[0] = units /\ \A j \in 1 .. n : f[j] = f[j - 1] - Taken(t[j], f[j - 1])
  BY LeftIsComputed
<1>2. n \in Nat /\ t[1].lo = 1
  BY DEF Ordered
<1>3. 0 \in good
  BY <1>2
<1>4. ASSUME NEW j \in 1 .. n, j - 1 \in good PROVE j \in good
  <2>1. CASE j = 1
    <3>1. start(1) = 0 /\ f[0] = units
      BY <1>1, <1>2
    <3>2. f[0] = IF units > start(1) THEN units - start(1) ELSE 0
      BY <3>1
    <3> QED BY <2>1, <3>2
  <2>2. CASE j # 1
    <3> DEFINE h == j - 1
               l == f[h - 1]
               lo == t[h].lo
               hi == t[h].hi
    <3>1. h \in 1 .. n /\ h \in 1 .. n - 1 /\ h + 1 = j
      BY <1>2, <2>2
    <3>2. l = IF units > start(h) THEN units - start(h) ELSE 0
      BY <1>4, <3>1
    <3>3. f[h] = l - Taken(t[h], l)
      BY <1>1, <3>1
    <3>4. hi >= lo /\ t[j].lo = hi + 1 /\ lo \in Nat /\ lo # 0 /\ hi \in Nat
      BY <3>1 DEF Ordered
    <3>5. start(h) = 2 * (lo - 1) /\ start(j) = 2 * hi /\ Width(t[h]) = 2 * (hi - lo + 1)
      BY <3>4 DEF Width
    <3>6. Taken(t[h], l) = IF l <= 0 THEN 0 ELSE IF hi = 0 \/ l < Width(t[h]) THEN l ELSE Width(t[h])
      BY DEF Taken
    <3> DEFINE w == Width(t[h])
               a == start(h)
               b == start(j)
               k == Taken(t[h], l)
    <3>7. a \in Nat /\ b \in Nat /\ w = b - a /\ b > a /\ hi # 0
      BY <3>4, <3>5
    <3>8. l = (IF units > a THEN units - a ELSE 0) /\ k = IF l <= 0 THEN 0 ELSE IF l < w THEN l ELSE w
      BY <3>2, <3>6, <3>7
    <3> HIDE DEF w, a, b, k, l, lo, hi, f
    <3>9. l - k = IF units > b THEN units - b ELSE 0
      BY <3>7, <3>8
    <3>10. f[j - 1] = IF units > start(j) THEN units - start(j) ELSE 0
      BY <3>3, <3>9 DEF b, k, l, h
    <3> QED BY <3>10
  <2> QED BY <2>1, <2>2
<1>5. i \in good
  <2> HIDE DEF good
  <2>1. 0 .. n \subseteq good
    BY <1>2, <1>3, <1>4, Induction
  <2>2. i \in 0 .. n
    BY <1>2
  <2> QED BY <2>1, <2>2
<1> QED BY <1>5

(* g has the sums of the first of n numbers; c numbers after the m-th are equal. *)
SumsUpTo(g, s, n) == g \in [0 .. n -> Nat] /\ \A k \in 1 .. n : g[k] = g[k - 1] + s[k]
Flat(s, m, c, price) == \A k \in m + 1 .. m + c : s[k] = price

(* A stretch of equal prices adds the price for every unit of it.          *)
LEMMA Stretch ==
  ASSUME NEW n \in Nat, NEW g, NEW s, SumsUpTo(g, s, n),
         NEW m \in Nat, NEW c \in Nat, m + c <= n, NEW price \in Nat, Flat(s, m, c, price),
         NEW worth, worth = c * price
  PROVE  g[m + c] = g[m] + worth
<1> g \in [0 .. n -> Nat] /\ \A k \in 1 .. n : g[k] = g[k - 1] + s[k]
  BY DEF SumsUpTo
<1> \A k \in m + 1 .. m + c : s[k] = price
  BY DEF Flat
<1> DEFINE good == {i \in 0 .. c : g[m + i] = g[m] + i * price}
<1>1. 0 \in good
  <2>1. g[m] \in Nat /\ m + 0 = m /\ 0 * price = 0
    OBVIOUS
  <2> QED BY <2>1
<1>2. ASSUME NEW i \in 1 .. c, i - 1 \in good PROVE i \in good
  <2>1. m + i \in 1 .. n /\ m + i \in m + 1 .. m + c /\ (m + i) - 1 = m + (i - 1)
    OBVIOUS
  <2>2. g[m + i] = g[m + (i - 1)] + price
    BY <2>1
  <2>3. g[m + (i - 1)] = g[m] + (i - 1) * price
    BY <1>2
  <2>4. (i - 1) * price + price = i * price
    OBVIOUS
  <2>5. (i - 1) * price \in Int /\ g[m] \in Nat
    OBVIOUS
  <2> DEFINE a == (i - 1) * price
             b == i * price
  <2>6. a + price = b /\ a \in Int /\ g[m + i] = (g[m] + a) + price
    BY <2>2, <2>3, <2>4, <2>5
  <2>7. g[m + i] = g[m] + b
    <3> HIDE DEF a, b
    <3> QED BY <2>5, <2>6
  <2> QED BY <2>7
<1>3. c \in good
  <2> HIDE DEF good
  <2>1. 0 .. c \subseteq good
    BY <1>1, <1>2, Induction
  <2> QED BY <2>1
<1> QED BY <1>3

(* A unit has the price of the tier it is in, and none beyond the last. *)
LEMMA PriceOfTier ==
  ASSUME NEW t, NEW n, Ordered(t, n), NEW i \in 1 .. n, NEW unit \in Nat, t[i].lo <= unit,
         t[i].hi = 0 \/ unit <= t[i].hi
  PROVE  PriceAt(t, unit) = t[i].price
<1> DEFINE hits == {j \in DOMAIN t : Contains_(t[j], unit)}
<1>1. /\ n \in Nat /\ DOMAIN t = 1 .. n /\ \A j \in 1 .. n : t[j].lo \in Nat /\ t[j].hi \in Nat
      /\ \A j, k \in 1 .. n : j < k => t[j].hi # 0 /\ t[j].hi < t[k].lo
  BY DEF Ordered
<1>2. i \in hits
  BY <1>1 DEF Contains_
<1>3. ASSUME NEW j \in hits PROVE j = i
  <2>1. j \in 1 .. n /\ t[j].lo <= unit /\ (t[j].hi = 0 \/ unit <= t[j].hi)
    BY <1>1 DEF Contains_
  <2>2. ~(i < j)
    BY <1>1, <2>1
  <2>3. ~(j < i)
    BY <1>1, <2>1
  <2> QED BY <1>1, <2>1, <2>2, <2>3
<1>4. (CHOOSE j \in hits : TRUE) = i /\ hits # {}
  <2> HIDE DEF hits
  <2> QED BY <1>2, <1>3
<1>5. PriceAt(t, unit) = IF hits = {} THEN 0 ELSE t[CHOOSE j \in hits : TRUE].price
  BY DEF PriceAt
<1> HIDE DEF hits
<1> QED BY <1>4, <1>5

LEMMA PriceBeyond ==
  ASSUME NEW t, NEW n, Ordered(t, n), NEW unit \in Nat, t[n].hi # 0, t[n].hi < unit
  PROVE  PriceAt(t, unit) = 0
<1>1. /\ n \in Nat /\ n > 0 /\ DOMAIN t = 1 .. n /\ \A j \in 1 .. n : t[j].lo \in Nat /\ t[j].hi \in Nat
      /\ \A j, k \in 1 .. n : j < k => t[j].hi # 0 /\ t[j].hi < t[k].lo
      /\ t[n].hi = 0 \/ t[n].hi >= t[n].lo
  BY DEF Ordered
<1>2. ASSUME NEW j \in DOMAIN t, Contains_(t[j], unit) PROVE FALSE
  <2>1. j \in 1 .. n /\ (t[j].hi = 0 \/ unit <= t[j].hi)
    BY <1>1, <1>2 DEF Contains_
  <2>2. j < n
    BY <1>1, <2>1
  <2>3. t[j].hi # 0 /\ t[j].hi < t[n].lo
    BY <1>1, <2>1, <2>2
  <2> QED BY <1>1, <2>1, <2>3
<1> QED BY <1>2 DEF PriceAt

(* Prices are naturals. *)
LEMMA PricesNatural ==
  ASSUME NEW t, NEW n, Ordered(t, n), NEW unit PROVE PriceAt(t, unit) \in Nat
<1> DEFINE hits == {j \in DOMAIN t : Contains_(t[j], unit)}
<1>1. \A j \in hits : t[j].price \in Nat
  BY DEF Ordered
<1>2. PriceAt(t, unit) = IF hits = {} THEN 0 ELSE t[CHOOSE j \in hits : TRUE].price
  BY DEF PriceAt
<1>3. hits # {} => (CHOOSE j \in hits : TRUE) \in hits
  <2> HIDE DEF hits
  <2> QED OBVIOUS
<1> HIDE DEF hits
<1> QED BY <1>1, <1>2, <1>3

(* Half units are in the whole unit they are part of. *)
LEMMA HalfUnits ==
  ASSUME NEW k \in Nat, NEW u \in Nat
  PROVE  (k + 1) \div 2 \in Nat /\ (2 * (u - 1) < k <=> u <= (k + 1) \div 2) /\ (k <= 2 * u <=> (k + 1) \div 2 <= u)
<1> DEFINE d == (k + 1) \div 2
<1>1. d \in Nat /\ 2 * d <= k + 1 /\ k + 1 < 2 * d + 2
  OBVIOUS
<1> HIDE DEF d
<1>2. (2 * (u - 1) < k <=> u <= d) /\ (k <= 2 * u <=> d <= u)
  BY <1>1
<1> QED BY <1>1, <1>2 DEF d

(* The graduated price is that of the units and the fees.                  *)
LEMMA GraduatedIsSum ==
  ASSUME NEW t, NEW n, Ordered(t, n), NEW units \in Nat
  PROVE  Graduated(t, units) = UnitPrices(t, units) + Fees(t, units)
<1> DEFINE left == LeftAfter(t, units)
           start(i) == 2 * (t[i].lo - 1)
           took(i) == Taken(t[i], left[i - 1])
           paid == [i \in 1 .. n |-> took(i) * t[i].price]
           fees == [i \in 1 .. n |-> IF units > start(i) THEN 2 * t[i].fee ELSE 0]
           charges == [i \in 1 .. n |-> Charge(t[i], left[i - 1])]
           prices == [k \in 1 .. units |-> PriceAt(t, (k + 1) \div 2)]
<1>1. /\ n \in Nat /\ n > 0 /\ Len(t) = n
      /\ \A i \in 1 .. n : t[i].lo \in Nat \ {0} /\ t[i].hi \in Nat /\ t[i].price \in Nat /\ t[i].fee \in Nat
      /\ \A i \in 1 .. n - 1 : t[i].hi >= t[i].lo /\ t[i + 1].lo = t[i].hi + 1
      /\ t[n].hi = 0 \/ t[n].hi >= t[n].lo
      /\ \A i, j \in 1 .. n : i < j => t[i].hi # 0 /\ t[i].hi < t[j].lo
  BY DEF Ordered
<1>2. left \in [0 .. n -> Int] /\ left[0] = units /\ \A i \in 1 .. n : left[i] = left[i - 1] - took(i)
  BY LeftIsComputed
<1>3. \A i \in 1 .. n : left[i - 1] = IF units > start(i) THEN units - start(i) ELSE 0
  BY LeftForTier
<1>4. ASSUME NEW i \in 1 .. n
      PROVE  /\ took(i) \in Nat /\ took(i) <= left[i - 1]
             /\ left[i - 1] \in Nat /\ start(i) \in Nat
             /\ took(i) # 0 => left[i - 1] = units - start(i) /\ units > start(i)
             /\ t[i].hi # 0 => took(i) <= 2 * t[i].hi - start(i)
             /\ charges[i] = paid[i] + fees[i]
  <2> DEFINE lo == t[i].lo
             hi == t[i].hi
             l == left[i - 1]
             a == start(i)
             w == Width(t[i])
             k == took(i)
  <2>1. lo \in Nat /\ lo # 0 /\ hi \in Nat /\ t[i].price \in Nat /\ t[i].fee \in Nat /\ (hi = 0 \/ hi >= lo)
    <3>1. CASE i = n
      BY <1>1, <3>1
    <3>2. CASE i # n
      <4>1. i \in 1 .. n - 1
        BY <1>1, <3>2
      <4> QED BY <1>1, <4>1
    <3> QED BY <3>1, <3>2
  <2>2. a \in Nat /\ a = 2 * (lo - 1) /\ w = 2 * (hi - lo + 1)
    BY <2>1 DEF Width
  <2>3. l = IF units > a THEN units - a ELSE 0
    BY <1>3
  <2>4. k = IF l <= 0 THEN 0 ELSE IF hi = 0 \/ l < w THEN l ELSE w
    BY DEF Taken
  <2>5. charges[i] = IF l <= 0 THEN 0 ELSE k * t[i].price + 2 * t[i].fee
    BY DEF Charge
  <2>6. paid[i] = k * t[i].price /\ fees[i] = IF units > a THEN 2 * t[i].fee ELSE 0
    OBVIOUS
  <2> HIDE DEF left, start, took, charges, paid, fees, lo, hi, l, a, w, k
  <2>7. l \in Nat /\ k \in Nat /\ k <= l /\ (k # 0 => l = units - a /\ units > a) /\ (hi # 0 => k <= 2 * hi - a)
    <3>1. hi # 0 => w \in Nat /\ w = 2 * hi - a
      BY <2>1, <2>2
    <3>2. l \in Nat
      BY <2>2, <2>3
    <3>3. a \in Nat /\ hi \in Nat /\ (hi # 0 => 2 * hi - a >= 0)
      BY <2>1, <2>2
    <3>4. k = 0 \/ (k = l /\ (hi = 0 \/ l < w)) \/ (k = w /\ hi # 0 /\ ~(l < w))
      BY <2>4
    <3>5. k \in Nat /\ k <= l
      BY <3>1, <3>2, <3>4
    <3>6. k # 0 => l # 0
      BY <2>4, <3>2
    <3>7. k # 0 => l = units - a /\ units > a
      BY <2>3, <3>6
    <3>8. hi # 0 => k <= 2 * hi - a
      BY <3>1, <3>2, <3>3, <3>4
    <3> QED BY <3>2, <3>5, <3>7, <3>8
  <2>8. charges[i] = paid[i] + fees[i]
    <3> DEFINE p == k * t[i].price
    <3>1. p \in Nat /\ (k = 0 => p = 0) /\ t[i].fee \in Nat
      BY <2>1, <2>7
    <3>2. charges[i] = (IF l <= 0 THEN 0 ELSE p + 2 * t[i].fee) /\ paid[i] = p
      BY <2>5, <2>6
    <3> HIDE DEF p
    <3>3. CASE l <= 0
      <4>1. k = 0 /\ ~(units > a)
        BY <2>2, <2>3, <2>4, <3>3
      <4> QED BY <2>6, <3>1, <3>2, <3>3, <4>1
    <3>4. CASE ~(l <= 0)
      <4>1. units > a
        BY <2>3, <3>4
      <4> QED BY <2>6, <3>1, <3>2, <3>4, <4>1
    <3> QED BY <3>3, <3>4
  <2> QED BY <2>2, <2>7, <2>8 DEF l, a, k, hi
<1>5. paid \in [1 .. n -> Nat] /\ fees \in [1 .. n -> Nat] /\ charges \in [1 .. n -> Nat]
  <2>1. ASSUME NEW i \in 1 .. n PROVE took(i) * t[i].price \in Nat /\ fees[i] \in Nat
    <3>1. took(i) \in Nat /\ t[i].price \in Nat /\ t[i].fee \in Nat
      BY <1>1, <1>4
    <3> HIDE DEF took, start
    <3> QED BY <3>1
  <2>2. \A i \in 1 .. n : paid[i] \in Nat /\ fees[i] \in Nat
    BY <2>1
  <2>3. \A i \in 1 .. n : charges[i] = paid[i] + fees[i]
    BY <1>4
  <2>4. \A i \in 1 .. n : charges[i] \in Nat
    <3> HIDE DEF charges, paid, fees
    <3> QED BY <2>2, <2>3
  <2>5. DOMAIN paid = 1 .. n /\ DOMAIN fees = 1 .. n /\ DOMAIN charges = 1 .. n
    OBVIOUS
  <2>6. paid = [i \in 1 .. n |-> paid[i]] /\ fees = [i \in 1 .. n |-> fees[i]] /\ charges = [i \in 1 .. n |-> charges[i]]
    OBVIOUS
  <2> HIDE DEF charges, paid, fees
  <2> QED BY <2>2, <2>4, <2>6
<1>6. Graduated(t, units) = SumOf(charges)
  BY <1>1 DEF Graduated
<1>7. SumOf(charges) = SumOf(paid) + SumOf(fees)
  <2>1. \A i \in 1 .. n : charges[i] = paid[i] + fees[i]
    BY <1>4
  <2>2. n \in Nat
    BY <1>1
  <2> HIDE DEF charges, paid, fees, start, took, left, prices
  <2> QED BY <1>5, <2>1, <2>2, SumOfSums
<1>8. SumOf(fees) = Fees(t, units)
  BY <1>1 DEF Fees
<1>9. prices \in [1 .. units -> Nat]
  BY PricesNatural
<1>10. PICK g \in [0 .. units -> Nat] :
         g[0] = 0 /\ SumsUpTo(g, prices, units) /\ SumOf(prices) = g[units]
  <2> HIDE DEF prices
  <2> QED BY <1>9, SumsOfFunction DEF SumsUpTo
<1>11. PICK f \in [0 .. n -> Nat] :
         f[0] = 0 /\ (\A i \in 1 .. n : f[i] = f[i - 1] + paid[i]) /\ SumOf(paid) = f[n]
  <2> HIDE DEF paid
  <2> QED BY <1>1, <1>5, SumsOfFunction
<1>12. ASSUME NEW i \in 1 .. n, NEW k \in 1 .. units, start(i) < k, k <= start(i) + took(i)
       PROVE  prices[k] = t[i].price
  <2> DEFINE u == (k + 1) \div 2
             lo == t[i].lo
             hi == t[i].hi
             a == start(i)
             c == took(i)
  <2>1. lo \in Nat /\ hi \in Nat
    BY <1>1
  <2>2. c \in Nat /\ a \in Nat /\ (hi # 0 => c <= 2 * hi - a)
    BY <1>4
  <2>3. k \in Nat /\ a < k /\ k <= a + c
    BY <1>12
  <2>4. a = 2 * (lo - 1)
    OBVIOUS
  <2> HIDE DEF lo, hi, a, c
  <2>5. u \in Nat /\ lo <= u
    <3>1. 2 * (lo - 1) < k
      BY <2>3, <2>4
    <3> QED BY <2>1, <2>3, <3>1, HalfUnits
  <2>6. hi = 0 \/ u <= hi
    <3> SUFFICES ASSUME hi # 0 PROVE u <= hi
      OBVIOUS
    <3>1. k <= 2 * hi
      BY <2>1, <2>2, <2>3
    <3> QED BY <2>1, <2>3, <3>1, HalfUnits
  <2>7. PriceAt(t, u) = t[i].price
    <3> HIDE DEF u
    <3> QED BY <2>5, <2>6, PriceOfTier DEF lo, hi
  <2> QED BY <2>7
<1> DEFINE good == {i \in 0 .. n : left[i] \in 0 .. units /\ f[i] = g[units - left[i]]}
<1>13. 0 \in good
  BY <1>1, <1>2, <1>10, <1>11
<1>14. ASSUME NEW i \in 1 .. n, i - 1 \in good PROVE i \in good
  <2> DEFINE l == left[i - 1]
             c == took(i)
             m == units - l
             p == t[i].price
  <2>1. l \in 0 .. units /\ f[i - 1] = g[m] /\ i - 1 \in 0 .. n
    BY <1>14
  <2>2. c \in Nat /\ c <= l /\ p \in Nat /\ left[i] = l - c /\ (c # 0 => m = start(i))
    <3>1. c # 0 => l = units - start(i)
      BY <1>4
    <3>2. start(i) \in Nat
      BY <1>4
    <3>3. c # 0 => m = start(i)
      <4> HIDE DEF start, c, left
      <4> QED BY <2>1, <3>1, <3>2
    <3> QED BY <1>1, <1>2, <1>4, <3>3
  <2>3. f[i] = f[i - 1] + c * p
    BY <1>11
  <2>4. Flat(prices, m, c, p)
    <3> SUFFICES ASSUME NEW k \in m + 1 .. m + c PROVE prices[k] = p
      BY DEF Flat
    <3>1. c # 0 /\ k \in 1 .. units /\ m < k /\ k <= m + c
      <4> HIDE DEF l, c
      <4> QED BY <2>1, <2>2
    <3>2. m = start(i)
      BY <2>2, <3>1
    <3>3. start(i) < k /\ k <= start(i) + c
      <4> HIDE DEF m, start, c
      <4> QED BY <3>1, <3>2
    <3> HIDE DEF prices, start
    <3> QED BY <1>12, <3>1, <3>3
  <2> HIDE DEF l, c, p, prices, left, start, good
  <2>5. m \in Nat /\ m + c <= units
    BY <2>1, <2>2
  <2>6. g[m + c] = g[m] + c * p
    <3> DEFINE worth == c * p
    <3>1. c \in Nat /\ p \in Nat /\ SumsUpTo(g, prices, units) /\ worth = c * p
      BY <1>10, <2>2
    <3> HIDE DEF m, worth
    <3>2. g[m + c] = g[m] + worth
      BY <2>4, <2>5, <3>1, Stretch
    <3> QED BY <3>2 DEF worth
  <2>7. left[i] \in 0 .. units /\ units - left[i] = m + c
    BY <2>1, <2>2
  <2>8. f[i] = g[units - left[i]]
    BY <2>1, <2>3, <2>6, <2>7
  <2> QED BY <2>7, <2>8 DEF good
<1>15. left[n] \in 0 .. units /\ f[n] = g[units - left[n]]
  <2> HIDE DEF good
  <2>1. 0 .. n \subseteq good
    BY <1>1, <1>13, <1>14, Induction
  <2>2. n \in good
    BY <1>1, <2>1
  <2> QED BY <2>2 DEF good
<1>16. g[units] = g[units - left[n]]
  <2> DEFINE c == left[n]
             m == units - c
             hi == t[n].hi
  <2>1. m \in Nat /\ c \in Nat /\ m + c = units
    BY <1>15
  <2>2. c > 0 => hi # 0 /\ m >= 2 * hi
    <3> SUFFICES ASSUME c > 0 PROVE hi # 0 /\ m >= 2 * hi
      OBVIOUS
    <3> DEFINE l == left[n - 1]
               a == start(n)
               lo == t[n].lo
               w == Width(t[n])
    <3>1. n \in 1 .. n /\ lo \in Nat /\ lo # 0 /\ hi \in Nat /\ (hi = 0 \/ hi >= lo)
      BY <1>1
    <3>2. c = l - Taken(t[n], l)
      BY <1>2, <3>1
    <3>3. l = IF units > a THEN units - a ELSE 0
      BY <1>3, <3>1
    <3>4. Taken(t[n], l) = IF l <= 0 THEN 0 ELSE IF hi = 0 \/ l < w THEN l ELSE w
      BY DEF Taken
    <3>5. a = 2 * (lo - 1) /\ w = 2 * (hi - lo + 1)
      BY DEF Width
    <3> HIDE DEF l, a, lo, w, c, hi, left
    <3>6. a \in Nat /\ w \in Int
      BY <3>1, <3>5
    <3>7. l \in Nat
      BY <3>3, <3>6
    <3>8. l > 0 /\ hi # 0 /\ c = l - w
      BY <2>1, <3>2, <3>4, <3>6, <3>7
    <3>9. units > a /\ c = (units - a) - w
      BY <3>3, <3>6, <3>8
    <3>10. units - c = 2 * hi
      BY <2>1, <3>1, <3>5, <3>9
    <3> QED BY <3>1, <3>8, <3>10
  <2>3. Flat(prices, m, c, 0)
    <3> SUFFICES ASSUME NEW k \in m + 1 .. m + c PROVE prices[k] = 0
      BY DEF Flat
    <3>1. k \in 1 .. units /\ k > m /\ c > 0
      <4> HIDE DEF c
      <4> QED BY <2>1
    <3>2. hi # 0 /\ hi \in Nat /\ k > 2 * hi /\ k \in Nat
      <4>1. hi \in Nat
        BY <1>1
      <4> HIDE DEF m, c, hi
      <4> QED BY <2>1, <2>2, <3>1, <4>1
    <3>3. (k + 1) \div 2 \in Nat /\ ~((k + 1) \div 2 <= hi)
      <4> HIDE DEF hi
      <4>1. ~(k <= 2 * hi)
        BY <3>2
      <4> QED BY <3>2, <4>1, HalfUnits
    <3> DEFINE u == (k + 1) \div 2
    <3>4. u \in Nat /\ hi < u
      BY <3>2, <3>3
    <3>5. PriceAt(t, u) = 0
      <4> HIDE DEF u
      <4> QED BY <3>2, <3>4, PriceBeyond
    <3> QED BY <3>1, <3>5
  <2> HIDE DEF c, prices
  <2>4. g[m + c] = g[m] + 0
    <3>1. m + c <= units /\ 0 = c * 0
      BY <2>1
    <3> HIDE DEF m
    <3> QED BY <1>10, <2>1, <2>3, <3>1, Stretch
  <2>5. g[m] \in Nat
    BY <1>10, <2>1 DEF SumsUpTo
  <2> QED BY <2>1, <2>4, <2>5 DEF c
<1>17. SumOf(paid) = SumOf(prices)
  <2> HIDE DEF paid, prices, left
  <2> QED BY <1>10, <1>11, <1>15, <1>16
<1> QED BY <1>6, <1>7, <1>8, <1>17 DEF UnitPrices

(* From the first whole unit on the tier that holds the units, or the last *)
(* one, is the last tier whose minimum is reached.                         *)
LEMMA SameTier ==
  ASSUME NEW t, NEW n, Ordered(t, n), NEW units \in Nat, units >= 2
  PROVE  TierFor(t, units) = VolumeTier(t, units) /\ VolumeTier(t, units) \in 1 .. n
<1> DEFINE u == units \div 2
           hits == {i \in DOMAIN t : Contains_(t[i], u)}
           reached == {i \in DOMAIN t : units >= 2 * t[i].lo}
<1>1. /\ n \in Nat /\ n > 0 /\ Len(t) = n /\ DOMAIN t = 1 .. n /\ t[1].lo = 1
      /\ \A i \in 1 .. n : t[i].lo \in Nat /\ t[i].hi \in Nat
      /\ \A i \in 1 .. n - 1 : t[i + 1].lo = t[i].hi + 1
      /\ \A i, j \in 1 .. n : i < j => t[i].hi # 0 /\ t[i].hi < t[j].lo
  BY DEF Ordered
<1>2. u \in Nat /\ \A m \in Nat : units >= 2 * m <=> m <= u
  OBVIOUS
<1>3. 1 \in reached /\ reached \subseteq 1 .. n
  BY <1>1
<1>4. \A i \in 1 .. n : /\ i \in reached <=> t[i].lo <= u
                        /\ i \in hits <=> t[i].lo <= u /\ (t[i].hi = 0 \/ u <= t[i].hi)
  BY <1>1, <1>2 DEF Contains_
<1>5. hits \subseteq 1 .. n
  BY <1>1
<1>6. VolumeTier(t, units) = IF reached = {} THEN 1 ELSE CHOOSE i \in reached : \A j \in reached : j <= i
  BY DEF VolumeTier
<1>7. TierFor(t, units) = IF hits = {} THEN n ELSE CHOOSE i \in hits : \A j \in hits : i <= j
  BY <1>1 DEF TierFor
<1> HIDE DEF u, hits, reached
<1>8. \E l \in reached : \A j \in reached : j <= l
  BY <1>1, <1>3, LastPosition
<1> DEFINE v == VolumeTier(t, units)
<1>9. v \in reached /\ \A j \in reached : j <= v
  BY <1>3, <1>6, <1>8
<1>10. v \in 1 .. n
  BY <1>3, <1>9
<1> HIDE DEF v
<1>11. ASSUME NEW i \in hits PROVE i = v
  <2>1. i \in 1 .. n /\ i \in reached /\ (t[i].hi = 0 \/ u <= t[i].hi)
    BY <1>4, <1>5
  <2>2. i <= v
    BY <1>9, <2>1
  <2>3. ~(i < v)
    <3> SUFFICES ASSUME i < v PROVE FALSE
      OBVIOUS
    <3>1. t[i].hi # 0 /\ t[i].hi < t[v].lo /\ t[v].lo <= u
      BY <1>1, <1>4, <1>9, <1>10, <2>1
    <3> QED BY <1>1, <1>2, <1>10, <2>1, <3>1
  <2> QED BY <1>10, <2>1, <2>2, <2>3
<1>12. v # n => v \in hits
  <2> SUFFICES ASSUME v # n PROVE v \in hits
    OBVIOUS
  <2>1. v \in 1 .. n - 1 /\ v + 1 \in 1 .. n /\ ~(v + 1 <= v)
    BY <1>1, <1>10
  <2>2. ~(t[v + 1].lo <= u)
    BY <1>4, <1>9, <2>1
  <2>3. t[v + 1].lo = t[v].hi + 1 /\ t[v].hi \in Nat
    BY <1>1, <1>10, <2>1
  <2>4. u <= t[v].hi
    BY <1>2, <2>2, <2>3
  <2> QED BY <1>4, <1>9, <1>10, <2>4
<1>13. TierFor(t, units) = v
  <2>1. CASE hits = {}
    BY <1>7, <1>12, <2>1
  <2>2. CASE hits # {}
    <3>1. hits = {v}
      BY <1>11, <2>2
    <3>2. (CHOOSE i \in {v} : \A j \in {v} : i <= j) = v
      <4>1. \A i \in {v} : i = v
        OBVIOUS
      <4>2. \E i \in {v} : \A j \in {v} : i <= j
        BY <1>10
      <4> QED BY <4>1, <4>2
    <3> QED BY <1>7, <2>2, <3>1, <3>2
  <2> QED BY <2>1, <2>2
<1> QED BY <1>10, <1>13 DEF v

(* The tiered price of whole units is the volume price and a fee.          *)
LEMMA TieredIsVolume ==
  ASSUME NEW t, NEW n, Ordered(t, n), NEW units \in Nat, units >= 2
  PROVE  Tiered(t, units) = Volume(t, units) + 2 * t[VolumeTier(t, units)].fee
<1>1. TierFor(t, units) = VolumeTier(t, units)
  BY SameTier
<1>2. Tiered(t, units) = units * t[TierFor(t, units)].price + 2 * t[TierFor(t, units)].fee
  BY DEF Tiered
<1> QED BY <1>1, <1>2 DEF Volume

(* Half a unit is in no tier, and the last one is taken. *)
LEMMA HalfAUnit ==
  ASSUME NEW t, NEW n, Ordered(t, n) PROVE TierFor(t, 1) = Len(t)
<1>1. 1 \div 2 = 0
  OBVIOUS
<1>2. \A i \in DOMAIN t : ~Contains_(t[i], 0)
  BY DEF Ordered, Contains_
<1>3. {i \in DOMAIN t : Contains_(t[i], 1 \div 2)} = {}
  BY <1>1, <1>2
<1> QED BY <1>3 DEF TierFor

(* More units are no cheaper under graduated prices. *)
LEMMA GraduatedRises ==
  ASSUME NEW t, NEW n, Ordered(t, n), NEW a \in Nat, NEW b \in Nat, a <= b
  PROVE  Graduated(t, b) >= Graduated(t, a)
<1> DEFINE prices(k) == [i \in 1 .. k |-> PriceAt(t, (i + 1) \div 2)]
           fees(k) == [i \in 1 .. n |-> IF k > 2 * (t[i].lo - 1) THEN 2 * t[i].fee ELSE 0]
<1>1. /\ n \in Nat /\ Len(t) = n
      /\ \A i \in 1 .. n : t[i].lo \in Nat \ {0} /\ t[i].fee \in Nat
  BY DEF Ordered
<1>2. \A k \in Nat : prices(k) \in [1 .. k -> Nat]
  BY PricesNatural
<1>3. \A k \in Nat : fees(k) \in [1 .. n -> Nat]
  BY <1>1
<1>4. \A i \in 1 .. n : fees(a)[i] <= fees(b)[i]
  <2> SUFFICES ASSUME NEW i \in 1 .. n PROVE fees(a)[i] <= fees(b)[i]
    OBVIOUS
  <2>1. t[i].lo \in Nat /\ t[i].fee \in Nat
    BY <1>1
  <2> DEFINE f == t[i].fee
             m == 2 * (t[i].lo - 1)
  <2>2. f \in Nat /\ m \in Int
    BY <2>1
  <2>3. fees(a)[i] = (IF a > m THEN 2 * f ELSE 0) /\ fees(b)[i] = IF b > m THEN 2 * f ELSE 0
    OBVIOUS
  <2> HIDE DEF f, m, fees
  <2> QED BY <2>2, <2>3
<1>5. \A i \in 1 .. a : prices(a)[i] <= prices(b)[i]
  <2> SUFFICES ASSUME NEW i \in 1 .. a PROVE prices(a)[i] <= prices(b)[i]
    OBVIOUS
  <2>1. i \in 1 .. b
    OBVIOUS
  <2>2. PriceAt(t, (i + 1) \div 2) \in Nat
    BY PricesNatural
  <2> QED BY <2>1, <2>2
<1>6. SumOf(prices(a)) <= SumOf(prices(b)) /\ SumOf(prices(a)) \in Nat /\ SumOf(prices(b)) \in Nat
  <2>1. prices(a) \in [1 .. a -> Nat] /\ prices(b) \in [1 .. b -> Nat]
    BY <1>2
  <2> HIDE DEF prices
  <2> QED BY <1>5, <2>1, SumGrows, SumNatural
<1>7. SumOf(fees(a)) <= SumOf(fees(b)) /\ SumOf(fees(a)) \in Nat /\ SumOf(fees(b)) \in Nat
  <2>1. fees(a) \in [1 .. n -> Nat] /\ fees(b) \in [1 .. n -> Nat] /\ n \in Nat /\ n <= n
    BY <1>1, <1>3
  <2> HIDE DEF fees
  <2> QED BY <1>4, <2>1, SumGrows, SumNatural
<1>8. \A k \in Nat : Graduated(t, k) = SumOf(prices(k)) + SumOf(fees(k))
  <2> SUFFICES ASSUME NEW k \in Nat PROVE Graduated(t, k) = SumOf(prices(k)) + SumOf(fees(k))
    OBVIOUS
  <2>1. UnitPrices(t, k) = SumOf(prices(k)) /\ Fees(t, k) = SumOf(fees(k))
    BY <1>1 DEF UnitPrices, Fees
  <2> HIDE DEF prices, fees
  <2> QED BY <2>1, GraduatedIsSum
<1> HIDE DEF prices, fees
<1> QED BY <1>6, <1>7, <1>8

(* A volume price falls only where another tier is reached. *)
LEMMA VolumeRises ==
  ASSUME NEW t, NEW n, Ordered(t, n), NEW a \in Nat, NEW b \in Nat, a <= b,
         Volume(t, b) < Volume(t, a)
  PROVE  VolumeTier(t, b) > VolumeTier(t, a)
<1> DEFINE reached(k) == {i \in DOMAIN t : k >= 2 * t[i].lo}
           v(k) == VolumeTier(t, k)
<1>1. /\ n \in Nat /\ n > 0 /\ DOMAIN t = 1 .. n
      /\ \A i \in 1 .. n : t[i].lo \in Nat /\ t[i].price \in Nat
  BY DEF Ordered
<1>2. \A k : v(k) = IF reached(k) = {} THEN 1 ELSE CHOOSE i \in reached(k) : \A j \in reached(k) : j <= i
  BY DEF VolumeTier
<1>3. reached(a) \subseteq reached(b) /\ reached(b) \subseteq 1 .. n
  BY <1>1
<1>4. \A k \in {a, b} : IF reached(k) = {} THEN v(k) = 1 ELSE v(k) \in reached(k) /\ \A j \in reached(k) : j <= v(k)
  <2> SUFFICES ASSUME NEW k \in {a, b}, reached(k) # {}
               PROVE  v(k) \in reached(k) /\ \A j \in reached(k) : j <= v(k)
    BY <1>2
  <2> DEFINE at == reached(k)
  <2>1. at \subseteq 1 .. n /\ at # {} /\ v(k) = CHOOSE i \in at : \A j \in at : j <= i
    BY <1>2, <1>3
  <2> HIDE DEF at
  <2>2. \E l \in at : \A j \in at : j <= l
    BY <1>1, <2>1, LastPosition
  <2>3. v(k) \in at /\ \A j \in at : j <= v(k)
    BY <2>1, <2>2
  <2> QED BY <2>3 DEF at
<1> HIDE DEF v, reached
<1>5. v(a) \in 1 .. n /\ v(b) \in 1 .. n /\ v(a) <= v(b)
  BY <1>1, <1>3, <1>4
<1>6. ASSUME v(a) = v(b) PROVE FALSE
  <2> DEFINE p == t[v(a)].price
  <2>1. p \in Nat
    BY <1>1, <1>5
  <2>2. Volume(t, a) = a * p /\ Volume(t, b) = b * p
    BY <1>6 DEF Volume, v
  <2> HIDE DEF p
  <2>3. a * p <= b * p /\ a * p \in Nat /\ b * p \in Nat
    <3>1. (b - a) * p \in Nat /\ b - a \in Nat
      BY <2>1
    <3>2. b * p = a * p + (b - a) * p
      BY <2>1
    <3>3. a * p \in Nat /\ b * p \in Nat
      BY <2>1
    <3> QED BY <3>1, <3>2, <3>3
  <2> QED BY <2>2, <2>3
<1> QED BY <1>5, <1>6 DEF v

(* The largest of some readings is one of them, and none is larger. *)
LEMMA LargestOf ==
  ASSUME NEW n \in Nat, n > 0, NEW s, DOMAIN s = 1 .. n, \A i \in 1 .. n : s[i] \in Nat
  PROVE  \E i \in 1 .. n : Largest(s) = s[i] /\ \A j \in 1 .. n : s[j] <= s[i]
<1> DEFINE items == {s[i] : i \in DOMAIN s}
<1>1. 1 .. n # {}
  <2>1. 1 \in 1 .. n
    OBVIOUS
  <2> QED BY <2>1
<1>2. \E i \in 1 .. n : \A j \in 1 .. n : s[j] <= s[i]
  BY <1>1, GreatestAt
<1>3. \E w \in items : \A j \in DOMAIN s : s[j] <= w
  BY <1>2
<1>4. Largest(s) \in items /\ \A j \in DOMAIN s : s[j] <= Largest(s)
  BY <1>3 DEF Largest
<1> QED BY <1>4

(* Another reading lowers neither a sum nor a maximum. *)
LEMMA AggregatedRises ==
  ASSUME NEW m, m.aggregation \in {"sum", "max"}, NEW s \in Seq(Nat), NEW v \in Nat
  PROVE  /\ Aggregated(m, s) \in Nat /\ Aggregated(m, Append(s, v)) \in Nat
         /\ Aggregated(m, s) <= Aggregated(m, Append(s, v))
<1> DEFINE r == Append(s, v)
           x == Aggregated(m, s)
           y == Aggregated(m, r)
           N == Len(s)
<1>1. /\ r \in Seq(Nat) /\ Len(r) = N + 1 /\ N \in Nat /\ r[N + 1] = v
      /\ \A i \in 1 .. N : r[i] = s[i]
  BY AppendProperties, LenProperties
<1>2. r # <<>> /\ DOMAIN r = 1 .. N + 1 /\ DOMAIN s = 1 .. N /\ (s # <<>> => N > 0)
  BY <1>1, EmptySeq, LenProperties
<1>3. (\A i \in 1 .. N : s[i] \in Nat) /\ \A i \in 1 .. N + 1 : r[i] \in Nat
  BY <1>1, ElementOfSeq
<1>4. s = <<>> => x = 0
  BY DEF Aggregated
<1>5. CASE m.aggregation = "sum"
  <2>1. y = SumOf(r) /\ (s # <<>> => x = SumOf(s))
    BY <1>2, <1>5 DEF Aggregated
  <2> HIDE DEF r, x, y
  <2>2. SumOf(r) \in Nat /\ SumOf(s) \in Nat
    BY <1>1, SumIsNatural
  <2>3. SumOf(r) = SumOf(s) + v
    BY <1>1, SumOfLonger
  <2>4. x \in Nat /\ y \in Nat /\ x <= y
    BY <1>4, <2>1, <2>2, <2>3
  <2> QED BY <2>4 DEF r, x, y
<1>6. CASE m.aggregation = "max"
  <2>1. y = Largest(r) /\ (s # <<>> => x = Largest(s))
    BY <1>2, <1>6 DEF Aggregated
  <2> HIDE DEF r, x, y
  <2>2. PICK i \in 1 .. N + 1 : Largest(r) = r[i] /\ \A j \in 1 .. N + 1 : r[j] <= r[i]
    <3>1. N + 1 \in Nat /\ N + 1 > 0
      BY <1>1
    <3> HIDE DEF N
    <3> QED BY <1>2, <1>3, <3>1, LargestOf
  <2>3. y \in Nat
    BY <1>3, <2>1, <2>2
  <2>4. CASE s = <<>>
    <3>1. x \in Nat /\ x <= y
      BY <1>4, <2>3, <2>4
    <3> QED BY <2>3, <3>1 DEF r, x, y
  <2>5. CASE s # <<>>
    <3>1. PICK k \in 1 .. N : Largest(s) = s[k]
      <4> HIDE DEF N
      <4> QED BY <1>1, <1>2, <1>3, <2>5, LargestOf
    <3>2. k \in 1 .. N + 1 /\ r[k] = s[k]
      BY <1>1, <3>1
    <3>3. x \in Nat /\ x <= y
      BY <1>3, <2>1, <2>2, <2>5, <3>1, <3>2
    <3> QED BY <2>3, <3>3 DEF r, x, y
  <2> QED BY <2>4, <2>5
<1> QED BY <1>5, <1>6

(* Then neither falls the estimate. *)
LEMMA EstimateRises ==
  ASSUME NEW m \in MeterDefs, m.aggregation \in {"sum", "max"}, NEW s \in Seq(Nat), NEW v \in Nat
  PROVE  Estimate(m, Append(s, v)) >= Estimate(m, s)
<1> DEFINE x == Aggregated(m, s)
           y == Aggregated(m, Append(s, v))
           free == m.free
           rate == m.rate
<1>1. free \in Nat /\ rate \in Nat
  BY PricingAssumption
<1>2. x \in Nat /\ y \in Nat /\ x <= y
  BY AggregatedRises
<1>3. /\ Estimate(m, s) = IF x > free THEN (x - free) * rate ELSE 0
      /\ Estimate(m, Append(s, v)) = IF y > free THEN (y - free) * rate ELSE 0
  BY DEF Estimate
<1> HIDE DEF x, y, free, rate
<1>4. CASE x > free
  <2>1. (y - free) * rate = (x - free) * rate + (y - x) * rate
    BY <1>1, <1>2
  <2>2. y - x \in Nat /\ x - free \in Nat /\ y > free
    BY <1>1, <1>2, <1>4
  <2>3. (y - x) * rate \in Nat /\ (x - free) * rate \in Nat
    BY <1>1, <2>2
  <2> DEFINE a == (x - free) * rate
             b == (y - x) * rate
             c == (y - free) * rate
  <2>4. c = a + b /\ a \in Nat /\ b \in Nat
    BY <2>1, <2>3
  <2>5. Estimate(m, s) = a /\ Estimate(m, Append(s, v)) = c
    BY <1>3, <1>4, <2>2
  <2> HIDE DEF a, b, c
  <2> QED BY <2>4, <2>5
<1>5. CASE ~(x > free)
  <2>1. y > free => y - free \in Nat
    BY <1>1, <1>2
  <2>2. y > free => (y - free) * rate \in Nat
    BY <1>1, <2>1
  <2> DEFINE c == (y - free) * rate
  <2>3. y > free => c \in Nat
    BY <2>2
  <2>4. Estimate(m, s) = 0 /\ Estimate(m, Append(s, v)) = IF y > free THEN c ELSE 0
    BY <1>3, <1>5
  <2> HIDE DEF c
  <2> QED BY <2>3, <2>4
<1> QED BY <1>4, <1>5

(* Prices are what their definitions say, and rise.                        *)
LEMMA PricingFollows == PricingInv => PricingSound /\ PricesRise
<1> SUFFICES ASSUME PricingInv PROVE PricingSound /\ PricesRise
  OBVIOUS
<1> DEFINE t == tiers
           n == Len(t)
<1>1. Readings \subseteq Nat /\ readings \in Seq(Readings) /\ tiers \in TierTables /\ meter \in MeterDefs
  BY PricingAssumption DEF PricingInv
<1>2. readings \in Seq(Nat) /\ Units \in Nat
  <2>1. \A i \in 1 .. Len(readings) : readings[i] \in Nat
    BY <1>1, ElementOfSeq
  <2>2. readings \in [1 .. Len(readings) -> Nat] /\ Len(readings) \in Nat
    BY <1>1, <2>1, LenProperties
  <2>3. readings \in Seq(Nat)
    BY <2>2, IsASeq
  <2> QED BY <2>3, SumIsNatural DEF Units
<1>3. Contiguous(t) => Ordered(t, n)
  BY <1>1, ContiguousOrdered
<1> HIDE DEF t, n
<1>4. Contiguous(t) =>
        /\ Graduated(t, Units) = UnitPrices(t, Units) + Fees(t, Units)
        /\ Units >= 2 => Tiered(t, Units) = Volume(t, Units) + 2 * t[VolumeTier(t, Units)].fee
        /\ Units = 1 => TierFor(t, Units) = Len(t)
  <2> SUFFICES ASSUME Contiguous(t)
               PROVE  /\ Graduated(t, Units) = UnitPrices(t, Units) + Fees(t, Units)
                      /\ Units >= 2 => Tiered(t, Units) = Volume(t, Units) + 2 * t[VolumeTier(t, Units)].fee
                      /\ Units = 1 => TierFor(t, Units) = Len(t)
    OBVIOUS
  <2>1. Ordered(t, n)
    BY <1>3
  <2>2. Graduated(t, Units) = UnitPrices(t, Units) + Fees(t, Units)
    BY <1>2, <2>1, GraduatedIsSum
  <2>3. Units >= 2 => Tiered(t, Units) = Volume(t, Units) + 2 * t[VolumeTier(t, Units)].fee
    BY <1>2, <2>1, TieredIsVolume
  <2>4. Units = 1 => TierFor(t, Units) = Len(t)
    BY <2>1, HalfAUnit
  <2> QED BY <2>2, <2>3, <2>4
<1>5. ASSUME NEW v \in Readings
      PROVE  /\ Contiguous(t) =>
                  /\ Graduated(t, Units + v) >= Graduated(t, Units)
                  /\ Volume(t, Units + v) < Volume(t, Units) =>
                       VolumeTier(t, Units + v) > VolumeTier(t, Units)
             /\ meter.aggregation \in {"sum", "max"} =>
                  Estimate(meter, Append(readings, v)) >= Estimate(meter, readings)
  <2>1. v \in Nat /\ Units + v \in Nat /\ Units <= Units + v
    BY <1>1, <1>2
  <2>2. Contiguous(t) => Graduated(t, Units + v) >= Graduated(t, Units)
    BY <1>2, <1>3, <2>1, GraduatedRises
  <2>3. Contiguous(t) /\ Volume(t, Units + v) < Volume(t, Units) =>
          VolumeTier(t, Units + v) > VolumeTier(t, Units)
    BY <1>2, <1>3, <2>1, VolumeRises
  <2>4. meter.aggregation \in {"sum", "max"} =>
          Estimate(meter, Append(readings, v)) >= Estimate(meter, readings)
    BY <1>1, <1>2, <2>1, EstimateRises
  <2> QED BY <2>2, <2>3, <2>4
<1> QED BY <1>4, <1>5 DEF t, PricingSound, PricesRise

-----------------------------------------------------------------------------
(* Types                                                                   *)

LEMMA TimesGrows ==
  ASSUME NEW a \in Nat, NEW b \in Nat, NEW c \in Nat, b <= c
  PROVE  a * b \in Nat /\ a * c \in Nat /\ a * b <= a * c
<1>1. PICK d \in Nat : c = b + d
  <2>1. c - b \in Nat /\ c = b + (c - b)
    OBVIOUS
  <2> QED BY <2>1
<1>2. a * b \in Nat /\ a * d \in Nat /\ a * c = a * b + a * d
  BY <1>1
<1> QED BY <1>2

(* The attempts the call in progress has left, of an operation. *)
Left(o) == IF call.op = o THEN MaxRetries - call.attempt + 1 ELSE 0

(* What the requests of a bounded number of calls may leave behind.        *)
CallsBounded ==
  /\ \A o \in Ops : calls[o] <= MaxCalls /\ late[o] + Left(o) <= MaxRetries * calls[o]
  /\ unread + Left("usage") <= MaxRetries * calls["usage"]
  /\ strays \subseteq Ops

(* Repeating an attempt uses it up, and giving up leaves none. *)
LEMMA RetryLeaves ==
  ASSUME CallsTypes, call # NoCall, NEW effect \in SUBSET Ops, RetryOrGiveUp(effect), strays \subseteq Ops
  PROVE  /\ \A o \in Ops : Left(o) \in Nat /\ Left(o)' \in Nat
         /\ \A o \in Ops : Left(o)' <= Left(o) /\ (o = call.op => Left(o)' <= Left(o) - 1)
         /\ strays' \subseteq Ops
<1> USE ClientAssumption
<1>1. call.op \in Ops /\ call.attempt \in 1 .. MaxRetries /\ call \in [op : Ops, attempt : 1 .. MaxRetries]
  BY DEF CallsTypes
<1>2. CASE call.attempt < MaxRetries
  <2>1. call' = [call EXCEPT !.attempt = @ + 1] /\ strays' = strays \cup effect
    BY <1>2 DEF RetryOrGiveUp
  <2>2. call'.op = call.op /\ call'.attempt = call.attempt + 1
    BY <1>1, <2>1
  <2> QED BY <1>1, <1>2, <2>1, <2>2 DEF Left
<1>3. CASE ~(call.attempt < MaxRetries)
  <2>1. call' = NoCall /\ strays' = {}
    BY <1>3 DEF RetryOrGiveUp, Return
  <2>2. \A o \in Ops : Left(o)' = 0
    BY <2>1 DEF Left, NoCall, Ops
  <2> QED BY <1>1, <1>3, <2>1, <2>2 DEF Left
<1> QED BY <1>2, <1>3

LEMMA CallsStayBounded == CallsInv /\ CallsBounded /\ ClientNext => CallsBounded'
<1> SUFFICES ASSUME CallsInv, CallsBounded, ClientNext PROVE CallsBounded'
  OBVIOUS
<1> USE ClientAssumption
<1>0. CallsTypes /\ unread \in Nat /\ \A o \in Ops : late[o] \in Nat /\ calls[o] \in Nat
  BY DEF CallsInv, CallsTypes
<1>1. \A o \in Ops : Left(o) \in Nat
  BY <1>0 DEF Left, CallsTypes, NoCall, Ops
<1>2. call # NoCall => call.op \in Ops
  BY <1>0 DEF CallsTypes
<1>3. "usage" \in Ops
  BY DEF Ops
<1>4. \A o \in Ops : MaxRetries * calls[o] \in Nat
  BY <1>0, OneMoreCall
<1>5. ASSUME NEW op \in Ops, StartCall(op) PROVE CallsBounded'
  <2>1. /\ call = NoCall /\ calls[op] < MaxCalls /\ call' = [op |-> op, attempt |-> 1]
        /\ calls' = [calls EXCEPT ![op] = @ + 1] /\ UNCHANGED <<late, unread, strays>>
    BY <1>5 DEF StartCall
  <2>2. \A o \in Ops : Left(o) = 0 /\ Left(o)' = (IF o = op THEN MaxRetries ELSE 0)
    BY <2>1 DEF Left, NoCall, Ops
  <2>3. \A o \in Ops : calls'[o] = IF o = op THEN calls[o] + 1 ELSE calls[o]
    BY <1>0, <2>1 DEF CallsTypes
  <2>4. MaxRetries * (calls[op] + 1) = MaxRetries * calls[op] + MaxRetries
    BY <1>0, OneMoreCall
  <2>5. ASSUME NEW o \in Ops
        PROVE  /\ calls'[o] <= MaxCalls
               /\ late'[o] + Left(o)' <= MaxRetries * calls'[o]
               /\ o = "usage" => unread' + Left(o)' <= MaxRetries * calls'[o]
    <3>1. CASE o = op
      <4>1. late[o] <= MaxRetries * calls[o] /\ (o = "usage" => unread <= MaxRetries * calls[o])
        BY <1>0, <2>2 DEF CallsBounded
      <4>2. /\ Left(o)' = MaxRetries /\ late'[o] = late[o] /\ unread' = unread
            /\ MaxRetries * calls'[o] = MaxRetries * calls[o] + MaxRetries
        BY <2>1, <2>2, <2>3, <2>4, <3>1
      <4> QED BY <1>0, <1>4, <2>1, <2>3, <3>1, <4>1, <4>2
    <3>2. CASE o # op
      <4>1. Left(o)' = 0 /\ Left(o) = 0 /\ late'[o] = late[o] /\ unread' = unread /\ calls'[o] = calls[o]
        BY <2>1, <2>2, <2>3, <3>2
      <4> QED BY <1>0, <4>1 DEF CallsBounded
    <3> QED BY <3>1, <3>2
  <2> QED BY <1>3, <2>1, <2>5 DEF CallsBounded
<1>a. /\ CallsTypes' /\ unread' \in Nat
      /\ \A o \in Ops : late'[o] \in Nat /\ Left(o)' \in Nat
  <2>1. CallsTypes'
    BY CallsPreserved DEF CallsInv
  <2> QED BY <2>1 DEF CallsTypes, Left, NoCall, Ops
<1>6. ASSUME UNCHANGED calls, strays' \subseteq Ops,
             \A o \in Ops : late'[o] + Left(o)' <= late[o] + Left(o),
             unread' + Left("usage")' <= unread + Left("usage")
      PROVE  CallsBounded'
  <2>1. ASSUME NEW o \in Ops
        PROVE  calls'[o] <= MaxCalls /\ late'[o] + Left(o)' <= MaxRetries * calls'[o]
    BY <1>0, <1>1, <1>4, <1>6, <1>a DEF CallsBounded
  <2>2. unread' + Left("usage")' <= MaxRetries * calls'["usage"]
    BY <1>0, <1>1, <1>3, <1>4, <1>6, <1>a DEF CallsBounded
  <2> QED BY <1>6, <2>1, <2>2 DEF CallsBounded
<1>7. ASSUME call # NoCall, \E code \in {"yes", "no", "error"} : Return(code), UNCHANGED <<calls, late>>,
             unread' <= unread + IfUsage(1)
      PROVE  CallsBounded'
  <2>1. strays' = {} /\ \A o \in Ops : Left(o)' = 0
    BY <1>7 DEF Return, Left, NoCall, Ops
  <2>2. IfUsage(1) <= Left("usage") /\ IfUsage(1) \in Nat
    BY <1>0, <1>7 DEF CallsTypes, IfUsage, Left
  <2>3. \A o \in Ops : late'[o] + Left(o)' <= late[o] + Left(o)
    BY <1>0, <1>1, <1>7, <2>1
  <2>4. unread' + Left("usage")' <= unread + Left("usage")
    BY <1>0, <1>1, <1>3, <1>7, <1>a, <2>1, <2>2
  <2> QED BY <1>6, <1>7, <2>1, <2>3, <2>4
<1>8. CASE Answered
  <2>1. /\ call # NoCall /\ (\E code \in {"yes", "no", "error"} : Return(code))
        /\ UNCHANGED <<calls, late, unread>>
    BY <1>8 DEF Answered
  <2>2. unread' <= unread + IfUsage(1)
    BY <1>0, <2>1 DEF IfUsage
  <2> QED BY <1>7, <2>1, <2>2
<1>9. CASE Unparseable
  <2>1. /\ call # NoCall /\ (\E code \in {"yes", "no", "error"} : Return(code))
        /\ UNCHANGED <<calls, late>> /\ unread' = unread + IfUsage(1)
    BY <1>9 DEF Unparseable
  <2>2. unread' <= unread + IfUsage(1)
    BY <1>0, <2>1 DEF IfUsage
  <2> QED BY <1>7, <2>1, <2>2
<1>10. CASE ClientError
  <2>1. /\ call # NoCall /\ (\E code \in {"yes", "no", "error"} : Return(code))
        /\ UNCHANGED <<calls, late, unread>>
    BY <1>10 DEF ClientError
  <2>2. unread' <= unread + IfUsage(1)
    BY <1>0, <2>1 DEF IfUsage
  <2> QED BY <1>7, <2>1, <2>2
<1>11. CASE ServerError \/ Unreached
  <2>1. call # NoCall /\ RetryOrGiveUp({}) /\ UNCHANGED <<late, calls, unread>>
    BY <1>11 DEF ServerError, Unreached
  <2>2. (\A o \in Ops : Left(o)' <= Left(o)) /\ strays' \subseteq Ops
    BY <1>0, <2>1, RetryLeaves DEF CallsBounded
  <2> QED BY <1>0, <1>1, <1>3, <1>6, <1>a, <2>1, <2>2
<1>12. CASE TimedOut
  <2>1. /\ call # NoCall /\ RetryOrGiveUp({}) /\ UNCHANGED calls
        /\ late' = [late EXCEPT ![call.op] = @ + 1] /\ unread' = unread + IfUsage(1)
    BY <1>12 DEF TimedOut
  <2>2. /\ \A o \in Ops : Left(o)' <= Left(o) /\ (o = call.op => Left(o)' <= Left(o) - 1)
        /\ strays' \subseteq Ops
    BY <1>0, <2>1, RetryLeaves DEF CallsBounded
  <2>3. \A o \in Ops : late'[o] = IF o = call.op THEN late[o] + 1 ELSE late[o]
    BY <1>0, <1>2, <2>1 DEF CallsTypes
  <2>4. \A o \in Ops : late'[o] + Left(o)' <= late[o] + Left(o)
    BY <1>0, <1>1, <1>a, <2>2, <2>3
  <2>5. unread' + Left("usage")' <= unread + Left("usage")
    BY <1>0, <1>1, <1>3, <1>a, <2>1, <2>2 DEF IfUsage
  <2> QED BY <1>6, <2>1, <2>2, <2>4, <2>5
<1>14. CASE HandledButFailed
  <2>1. /\ call # NoCall /\ RetryOrGiveUp({call.op}) /\ UNCHANGED <<late, calls>>
        /\ unread' = unread + IfUsage(1)
    BY <1>14 DEF HandledButFailed
  <2>2. /\ \A o \in Ops : Left(o)' <= Left(o) /\ (o = call.op => Left(o)' <= Left(o) - 1)
        /\ strays' \subseteq Ops
    BY <1>0, <1>2, <2>1, RetryLeaves DEF CallsBounded
  <2>3. \A o \in Ops : late'[o] + Left(o)' <= late[o] + Left(o)
    BY <1>0, <1>1, <1>a, <2>1, <2>2
  <2>4. unread' + Left("usage")' <= unread + Left("usage")
    BY <1>0, <1>1, <1>3, <1>a, <2>1, <2>2 DEF IfUsage
  <2> QED BY <1>6, <2>1, <2>2, <2>3, <2>4
<1>13. ASSUME NEW op \in Ops, Late(op) \/ LostRequest(op) PROVE CallsBounded'
  <2>1. /\ late[op] > 0 /\ late' = [late EXCEPT ![op] = @ - 1] /\ UNCHANGED <<call, calls, unread>>
        /\ strays' \subseteq Ops
    BY <1>13 DEF Late, LostRequest, CallsBounded
  <2>2. \A o \in Ops : late'[o] <= late[o] /\ Left(o)' = Left(o)
    BY <1>0, <2>1 DEF CallsTypes, Left
  <2> QED BY <1>0, <1>1, <1>3, <1>6, <1>a, <2>1, <2>2
<1> QED BY <1>5, <1>8, <1>9, <1>10, <1>11, <1>12, <1>13, <1>14 DEF ClientNext

(* The types of the calls, and the room their requests leave for counts.   *)
LEMMA CallsTyped == CallsInv /\ CallsBounded => ClientTypeOK
<1> SUFFICES ASSUME CallsInv, CallsBounded PROVE ClientTypeOK
  OBVIOUS
<1> USE ClientAssumption
<1>0. CallsTypes /\ UsageInv /\ Attempts \in Nat
  BY DEF CallsInv, CallsTypes, Attempts, NoCall
<1>1. \A o \in Ops : Left(o) \in Nat /\ late[o] \in Nat /\ calls[o] \in Nat
  BY <1>0 DEF Left, CallsTypes, NoCall, Ops
<1>2. \A o \in Ops : MaxRetries * calls[o] \in Nat /\ MaxRetries * MaxCalls \in Nat
                     /\ MaxRetries * calls[o] <= MaxRetries * MaxCalls
  BY <1>1, TimesGrows DEF CallsBounded
<1>3. "usage" \in Ops
  BY DEF Ops
<1>4. /\ unread <= MaxRetries * calls["usage"] /\ told <= counted
      /\ counted <= MaxRetries * calls["usage"] /\ unread \in Nat /\ told \in Nat /\ counted \in Nat
  BY <1>0, <1>1, <1>2, <1>3 DEF CallsBounded, UsageInv, CallsTypes
<1>5. unread \in Counts /\ told \in Counts /\ counted \in Counts
  BY <1>2, <1>3, <1>4 DEF Counts
<1>6. late \in [Ops -> Counts] /\ calls \in [Ops -> 0 .. MaxCalls]
  <2>1. \A o \in Ops : late[o] \in Counts /\ calls[o] \in 0 .. MaxCalls
    BY <1>1, <1>2 DEF CallsBounded, Counts
  <2> QED BY <1>0, <2>1 DEF CallsTypes
<1>7. call \in [op : Ops \cup {"none"}, attempt : 0 .. MaxRetries]
  BY <1>0 DEF CallsTypes, NoCall
<1> QED BY <1>0, <1>5, <1>6, <1>7 DEF ClientTypeOK, CallsTypes, CallsBounded

(* The breaker's counts are bounded by its guards. *)
LEMMA NexusStaysTyped == NexusTypeOK /\ NexusNext => NexusTypeOK'
<1> SUFFICES ASSUME NexusTypeOK, NexusNext PROVE NexusTypeOK'
  OBVIOUS
<1> USE BreakerAssumption DEF NexusTypeOK, Steps
<1>1. CASE Call
  BY <1>1 DEF Call
<1>2. CASE CallSucceeds
  BY <1>2 DEF CallSucceeds
<1>3. CASE CallFails
  BY <1>3 DEF CallFails
<1>4. CASE CallUnparseable
  BY <1>4 DEF CallUnparseable
<1>5. CASE StartHealth
  BY <1>5 DEF StartHealth
<1>6. CASE EndHealth
  BY <1>6 DEF EndHealth
<1> QED BY <1>1, <1>2, <1>3, <1>4, <1>5, <1>6 DEF NexusNext

(* No more events were processed, or failed, since the last restart than   *)
(* met that fate.                                                          *)
StripeCounted ==
  /\ stats \in [processed : Nat, errors : Nat]
  /\ stats.processed <= Cardinality(done["processed"])
  /\ stats.errors <= Cardinality(done["failed"])

(* Sets of events are no larger than the number of events. *)
LEMMA EventSets ==
  ASSUME NEW S \in SUBSET Events
  PROVE  IsFiniteSet(S) /\ Cardinality(S) \in 0 .. MaxEvents
<1>1. IsFiniteSet(Events) /\ Cardinality(Events) = MaxEvents
  <2>1. 1 \in Int /\ MaxEvents \in Int /\ (1 > MaxEvents \/ MaxEvents - 1 + 1 = MaxEvents)
        /\ (1 > MaxEvents => MaxEvents = 0)
    BY StripeAssumption
  <2> QED BY <2>1, FS_Interval DEF Events
<1>2. IsFiniteSet(S) /\ Cardinality(S) <= Cardinality(Events) /\ Cardinality(S) \in Nat
  BY <1>1, FS_Subset, FS_CardinalityType
<1> QED BY <1>1, <1>2, StripeAssumption

(* A fate only gains events; a new one makes it larger. *)
LEMMA FatesGrow ==
  ASSUME NEW S \in SUBSET Events, NEW T \in SUBSET Events, S \subseteq T
  PROVE  /\ Cardinality(S) \in Nat /\ Cardinality(T) \in Nat /\ Cardinality(S) <= Cardinality(T)
         /\ S # T => Cardinality(S) + 1 <= Cardinality(T)
<1>1. IsFiniteSet(S) /\ IsFiniteSet(T) /\ Cardinality(S) \in Nat /\ Cardinality(T) \in Nat
  BY EventSets
<1>2. Cardinality(S) <= Cardinality(T) /\ (S # T => Cardinality(S) < Cardinality(T))
  BY <1>1, FS_Subset
<1> QED BY <1>1, <1>2

LEMMA StripeStaysCounted == StripeInv /\ StripeCounted /\ StripeNext => StripeCounted'
<1>p. StripeInv /\ StripeNext => StripeTypes'
  BY StripePreserved DEF StripeInv
<1> SUFFICES ASSUME StripeInv, StripeCounted, StripeNext PROVE StripeCounted'
  OBVIOUS
<1>0. StripeTypes /\ StripeTypes' /\ EveryEvent
  BY <1>p, EventByEvent DEF StripeInv
<1>1. /\ done \in [Fates -> SUBSET Events] /\ done' \in [Fates -> SUBSET Events]
      /\ "processed" \in Fates /\ "failed" \in Fates
  BY <1>0 DEF StripeTypes, Fates
<1>2. ASSUME UNCHANGED stats, \A f \in {"processed", "failed"} : done[f] \subseteq done'[f]
      PROVE  StripeCounted'
  <2>1. /\ Cardinality(done["processed"]) \in Nat /\ Cardinality(done'["processed"]) \in Nat
        /\ Cardinality(done["processed"]) <= Cardinality(done'["processed"])
    BY <1>1, <1>2, FatesGrow
  <2>2. /\ Cardinality(done["failed"]) \in Nat /\ Cardinality(done'["failed"]) \in Nat
        /\ Cardinality(done["failed"]) <= Cardinality(done'["failed"])
    BY <1>1, <1>2, FatesGrow
  <2> QED BY <1>2, <2>1, <2>2 DEF StripeCounted
<1>3. CASE Enqueue \/ LoopCancelled
  <2>1. \E f \in {"dropped", "lost"} : (\E S : End(f, S)) \/ UNCHANGED done
    BY <1>3 DEF Enqueue, LoopCancelled
  <2>2. \A f \in {"processed", "failed"} : done[f] \subseteq done'[f]
    BY <1>1, <2>1 DEF End
  <2> QED BY <1>2, <1>3, <2>2 DEF Enqueue, LoopCancelled
<1>4. CASE StartStripe
  BY <1>2, <1>4 DEF StartStripe
<1>5. CASE StopStripe
  BY <1>2, <1>5 DEF StopStripe
<1>6. CASE RestartStripe
  <2>1. stats' = [processed |-> 0, errors |-> 0]
    BY <1>6 DEF RestartStripe
  <2>2. Cardinality(done'["processed"]) \in Nat /\ Cardinality(done'["failed"]) \in Nat
    BY <1>1, EventSets
  <2> QED BY <2>1, <2>2 DEF StripeCounted
<1>7. ASSUME NEW l \in Loops, Take(l) \/ LoopEnds(l) PROVE StripeCounted'
  BY <1>2, <1>7 DEF Take, LoopEnds
<1>8. ASSUME NEW l \in Loops, NEW fate \in {"processed", "failed", "skipped", "raised"}, ProcessEvent(l, fate)
      PROVE  StripeCounted'
  <2>1. PICK e : e = loops[l].event
    OBVIOUS
  <2>2. Busy(l) /\ fate \in Fates /\ done' = [done EXCEPT ![fate] = @ \cup {e}]
    BY <1>8, <2>1 DEF ProcessEvent, Busy, End, Fates
  <2>3. \A f \in Fates : e \notin done[f]
    BY <1>0, <2>1, <2>2 DEF EveryEvent
  <2>4. \A f \in Fates : done[f] \subseteq done'[f] /\ (f = fate => done[f] # done'[f])
    BY <1>1, <2>2, <2>3
  <2>5. stats' = [processed |-> stats.processed + (IF fate = "processed" THEN 1 ELSE 0),
                  errors |-> stats.errors + (IF fate = "failed" THEN 1 ELSE 0)]
    BY <1>8 DEF ProcessEvent
  <2>6. \A f \in {"processed", "failed"} :
          /\ Cardinality(done[f]) \in Nat /\ Cardinality(done'[f]) \in Nat
          /\ Cardinality(done[f]) <= Cardinality(done'[f])
          /\ f = fate => Cardinality(done[f]) + 1 <= Cardinality(done'[f])
    BY <1>1, <2>4, FatesGrow
  <2>7. stats.processed \in Nat /\ stats.errors \in Nat
    BY DEF StripeCounted
  <2>8. stats'.processed \in Nat /\ stats'.processed <= Cardinality(done'["processed"])
    BY <2>5, <2>6, <2>7 DEF StripeCounted
  <2>9. stats'.errors \in Nat /\ stats'.errors <= Cardinality(done'["failed"])
    BY <2>5, <2>6, <2>7 DEF StripeCounted
  <2>10. stats' \in [processed : Nat, errors : Nat]
    BY <2>5, <2>7
  <2> QED BY <2>8, <2>9, <2>10 DEF StripeCounted
<1> QED BY <1>3, <1>4, <1>5, <1>6, <1>7, <1>8 DEF StripeNext

(* The types of the Stripe processor. *)
LEMMA StripeTyped == StripeInv /\ StripeCounted => StripeTypeOK
<1> SUFFICES ASSUME StripeInv, StripeCounted PROVE StripeTypeOK
  OBVIOUS
<1>1. StripeTypes /\ "processed" \in Fates /\ "failed" \in Fates
  BY DEF StripeInv, Fates
<1>2. Cardinality(done["processed"]) \in 0 .. MaxEvents /\ Cardinality(done["failed"]) \in 0 .. MaxEvents
  BY <1>1, EventSets DEF StripeTypes
<1>3. stats.processed \in 0 .. MaxEvents /\ stats.errors \in 0 .. MaxEvents
  BY <1>2, StripeAssumption DEF StripeCounted
<1>4. stats \in [processed : 0 .. MaxEvents, errors : 0 .. MaxEvents]
  BY <1>3 DEF StripeCounted
<1>5. \A i \in DOMAIN queue : queue[i] \in Events
  BY <1>1 DEF StripeTypes
<1> QED BY <1>1, <1>4, <1>5 DEF StripeTypes, StripeTypeOK

(* The bounds of a case's score and of the counts of cases. *)
CasesBounded ==
  /\ opened <= MaxCases /\ closings <= MaxCases + 2
  /\ \A c \in DOMAIN cases : cases[c].score <= MaxScore + 10

LEMMA CasesStayBounded == CasesInv /\ CasesBounded /\ CasesNext => CasesBounded'
<1> SUFFICES ASSUME CasesInv, CasesBounded, CasesNext PROVE CasesBounded'
  OBVIOUS
<1> USE CaseAssumption
<1>0. CaseTypes
  BY DEF CasesInv
<1>1. CASE OpenCase
  <2> DEFINE fresh == [status |-> "open", score |-> 0, action |-> "none", manual |-> FALSE]
             new == [c \in DOMAIN cases \cup {opened + 1} |-> IF c = opened + 1 THEN fresh ELSE cases[c]]
             out == Evictable(new)
  <2>1. /\ opened < MaxCases /\ opened' = opened + 1 /\ UNCHANGED closings
        /\ cases' = Only(new, DOMAIN new \ out)
    BY <1>1 DEF OpenCase
  <2>2. fresh.score = 0 /\ \A c \in DOMAIN new : new[c] = fresh \/ (c \in DOMAIN cases /\ new[c] = cases[c])
    OBVIOUS
  <2> HIDE DEF new, fresh, out
  <2>3. \A c \in DOMAIN cases' : c \in DOMAIN new /\ cases'[c] = new[c]
    BY <2>1 DEF Only
  <2>4. \A c \in DOMAIN cases' : cases'[c].score <= MaxScore + 10
    BY <2>2, <2>3 DEF CasesBounded
  <2> QED BY <1>0, <2>1, <2>4 DEF CasesBounded, CaseTypes
<1>2. ASSUME NEW c \in DOMAIN cases, NEW w \in Weights, AddEvidence(c, w) PROVE CasesBounded'
  <2>1. w \in Nat /\ w <= 10
    BY <1>2 DEF Weights, AnomalyWeight, FraudWeight
  <2>2. cases[c].score \in Nat /\ cases[c].score < MaxScore
    BY <1>0, <1>2 DEF AddEvidence, CaseTypes
  <2>3. PICK r : /\ cases' = [cases EXCEPT ![c] = r] /\ r.score = cases[c].score + w
                 /\ UNCHANGED <<opened, closings>>
    BY <1>2 DEF AddEvidence, EvidenceIn
  <2>4. \A d \in DOMAIN cases' : cases'[d].score <= MaxScore + 10
    BY <2>1, <2>2, <2>3 DEF CasesBounded
  <2> QED BY <2>3, <2>4 DEF CasesBounded
<1>3. ASSUME NEW c \in DOMAIN cases, Escalate(c) PROVE CasesBounded'
  <2>1. UNCHANGED <<opened, closings>> /\ DOMAIN cases' = DOMAIN cases
        /\ \A d \in DOMAIN cases : cases'[d].score = cases[d].score
    BY <1>0, <1>3 DEF Escalate, CaseTypes
  <2> QED BY <2>1 DEF CasesBounded
<1>4. ASSUME NEW c \in DOMAIN cases, NEW how \in Closed, Close(c, how) PROVE CasesBounded'
  <2>1. UNCHANGED opened /\ closings < MaxCases + 2 /\ closings' = closings + 1 /\ DOMAIN cases' = DOMAIN cases
        /\ \A d \in DOMAIN cases : cases'[d].score = cases[d].score
    BY <1>0, <1>4 DEF Close, CaseTypes
  <2> QED BY <1>0, <2>1 DEF CasesBounded, CaseTypes
<1> QED BY <1>1, <1>2, <1>3, <1>4 DEF CasesNext

(* The types of the cases. *)
LEMMA CasesTyped == CasesInv /\ CasesBounded => CasesTypeOK
<1> SUFFICES ASSUME CasesInv, CasesBounded PROVE CasesTypeOK
  OBVIOUS
<1>1. CaseTypes /\ DOMAIN evicted \subseteq 1 .. opened
  BY DEF CasesInv, CasesSound
<1>2. ASSUME NEW c \in DOMAIN cases PROVE cases[c] \in CaseRecord
  <2>1. cases[c].score \in 0 .. MaxScore + 10
    BY <1>1, CaseAssumption DEF CaseTypes, CasesBounded
  <2> QED BY <1>1, <2>1 DEF CaseTypes, CaseRecord, Statuses
<1> QED BY <1>1, <1>2, CaseAssumption DEF CaseTypes, CasesBounded, CasesTypeOK

(* A plan is of keys that were issued, and what is marked is in it. *)
PlanTypes == DOMAIN migration \subseteq Keys /\ target \in Versions /\ marked \subseteq DOMAIN migration

LEMMA PlanStaysTyped == RotationInv /\ PlanTypes /\ RotationNext => PlanTypes'
<1> SUFFICES ASSUME RotationInv, PlanTypes, RotationNext PROVE PlanTypes'
  OBVIOUS
<1>1. CASE IssueKey \/ AddVersion \/ \E v \in Versions : RetireVersion(v)
  BY <1>1 DEF IssueKey, AddVersion, RetireVersion, PlanTypes
<1>2. ASSUME NEW t \in Versions \ {0}, NEW raw \in SUBSET issued, CreatePlan(t, raw) PROVE PlanTypes'
  BY <1>2 DEF CreatePlan, PlanTypes, RotationInv
<1>3. ASSUME NEW k \in DOMAIN migration, MarkMigrated(k) PROVE PlanTypes'
  BY <1>3 DEF MarkMigrated, PlanTypes
<1> QED BY <1>1, <1>2, <1>3 DEF RotationNext

(* The types of the keys. *)
LEMMA RotationTyped == RotationInv /\ PlanTypes => RotationTypeOK
BY DEF RotationInv, PlanTypes, RotationTypeOK

(* The variables of a component that is not run keep their types. *)
LEMMA TypesStay ==
  /\ UNCHANGED clientVars => (ClientTypeOK' <=> ClientTypeOK)
  /\ UNCHANGED leaseVars => (LeaseTypeOK' <=> LeaseTypeOK)
  /\ UNCHANGED offlineCacheVars => (OfflineCacheTypeOK' <=> OfflineCacheTypeOK)
  /\ UNCHANGED healthVars => (HealthTypeOK' <=> HealthTypeOK)
  /\ UNCHANGED nexusVars => (NexusTypeOK' <=> NexusTypeOK)
  /\ UNCHANGED stripeVars => (StripeTypeOK' <=> StripeTypeOK)
  /\ UNCHANGED meteringVars => (UsageTypeOK' <=> UsageTypeOK)
  /\ UNCHANGED caseVars => (CasesTypeOK' <=> CasesTypeOK)
  /\ UNCHANGED recoveryVars => (RecoveryTypeOK' <=> RecoveryTypeOK)
  /\ UNCHANGED schemaVars => (SchemaTypeOK' <=> SchemaTypeOK)
  /\ UNCHANGED held => (CompositionTypeOK' <=> CompositionTypeOK)
  /\ UNCHANGED rotationVars => (RotationTypeOK' <=> RotationTypeOK)
  /\ UNCHANGED fraudVars => (FraudTypeOK' <=> FraudTypeOK)
  /\ UNCHANGED pricingVars => (PricingTypeOK' <=> PricingTypeOK)
<1>1. UNCHANGED clientVars => (ClientTypeOK' <=> ClientTypeOK)
  BY DEF clientVars, ClientTypeOK
<1>2. UNCHANGED leaseVars => (LeaseTypeOK' <=> LeaseTypeOK)
  BY DEF leaseVars, LeaseTypeOK
<1>3. UNCHANGED offlineCacheVars => (OfflineCacheTypeOK' <=> OfflineCacheTypeOK)
  BY DEF offlineCacheVars, OfflineCacheTypeOK
<1>4. UNCHANGED healthVars => (HealthTypeOK' <=> HealthTypeOK)
  BY DEF healthVars, HealthTypeOK
<1>5. UNCHANGED nexusVars => (NexusTypeOK' <=> NexusTypeOK)
  BY DEF nexusVars, NexusTypeOK
<1>6. UNCHANGED stripeVars => (StripeTypeOK' <=> StripeTypeOK)
  BY DEF stripeVars, StripeTypeOK
<1>7. UNCHANGED meteringVars => (UsageTypeOK' <=> UsageTypeOK)
  BY DEF meteringVars, UsageTypeOK
<1>8. UNCHANGED caseVars => (CasesTypeOK' <=> CasesTypeOK)
  BY DEF caseVars, CasesTypeOK
<1>9. UNCHANGED recoveryVars => (RecoveryTypeOK' <=> RecoveryTypeOK)
  BY DEF recoveryVars, RecoveryTypeOK
<1>10. UNCHANGED schemaVars => (SchemaTypeOK' <=> SchemaTypeOK)
  BY DEF schemaVars, SchemaTypeOK
<1>11. UNCHANGED held => (CompositionTypeOK' <=> CompositionTypeOK)
  BY DEF CompositionTypeOK
<1>12. UNCHANGED rotationVars => (RotationTypeOK' <=> RotationTypeOK)
  BY DEF rotationVars, RotationTypeOK
<1>13. UNCHANGED fraudVars => (FraudTypeOK' <=> FraudTypeOK)
  BY DEF fraudVars, FraudTypeOK
<1>14. UNCHANGED pricingVars => (PricingTypeOK' <=> PricingTypeOK)
  BY DEF pricingVars, PricingTypeOK
<1> QED BY <1>1, <1>2, <1>3, <1>4, <1>5, <1>6, <1>7, <1>8, <1>9, <1>10, <1>11, <1>12, <1>13, <1>14

-----------------------------------------------------------------------------
(* All of them: a component moves in the behaviours that are its own.      *)

(* The inductive invariant of all components.                              *)
OperationsInv ==
  /\ Of("calls", CallsInv) /\ Of("lease", LeaseInv) /\ Of("health", HealthInv)
  /\ Of("nexus", NexusCounts) /\ Of("stripe", StripeInv) /\ Of("cases", CasesInv)
  /\ Of("rotation", RotationInv)
  /\ Of("offline", OfflineInv) /\ Of("metering", MeteringInv) /\ Of("recovery", RecoveryInv)
  /\ Of("fraud", FraudInv) /\ Of("schema", SchemaInv)
  /\ Of("composition", CompositionInv) /\ Of("pricing", PricingInv)

(* The variables of a component that is not run stay, and so does what its *)
(* invariant says of them.                                                 *)
LEMMA ListsStay ==
  /\ UNCHANGED <<now, offlineCacheVars>> => (OfflineInv' <=> OfflineInv)
  /\ UNCHANGED meteringVars => (MeteringInv' <=> MeteringInv)
  /\ UNCHANGED recoveryVars => (RecoveryInv' <=> RecoveryInv)
  /\ UNCHANGED fraudVars => (FraudInv' <=> FraudInv)
  /\ UNCHANGED schemaVars => (SchemaInv' <=> SchemaInv)
  /\ UNCHANGED held => (CompositionInv' <=> CompositionInv)
  /\ UNCHANGED pricingVars => (PricingInv' <=> PricingInv)
<1>1. UNCHANGED <<now, offlineCacheVars>> => (OfflineInv' <=> OfflineInv)
  BY DEF offlineCacheVars, OfflineInv, OfflineTypes, OfflineEntries, Lost
<1>2. UNCHANGED meteringVars => (MeteringInv' <=> MeteringInv)
  BY DEF meteringVars, MeteringInv, MeteringTypes, TxSound, Values, History
<1>3. UNCHANGED recoveryVars => (RecoveryInv' <=> RecoveryInv)
  BY DEF recoveryVars, RecoveryInv, TaskSound
<1>4. UNCHANGED fraudVars => (FraudInv' <=> FraudInv)
  BY DEF fraudVars, FraudInv, Mine, Analyzed
<1>5. UNCHANGED schemaVars => (SchemaInv' <=> SchemaInv)
  <2> SUFFICES ASSUME UNCHANGED schemaVars PROVE SchemaInv' <=> SchemaInv
    OBVIOUS
  <2>1. before' = before /\ after' = after /\ db' = db /\ done_up' = done_up /\ done_down' = done_down
    BY DEF schemaVars
  <2>2. Plan' = Plan
    BY <2>1 DEF Plan, NewTables, GoneTables, BothTables, AddTable, DropTable, ColumnOps, EachColumn,
                OnColumn, Op, Added, Dropped, Retyped, Has, TypesOf
  <2>3. FirstOps(done_up)' = FirstOps(done_up) /\ LastOps(done_down)' = LastOps(done_down)
    BY <2>1, <2>2 DEF FirstOps, LastOps
  <2>4. Migrated(db, FirstOps(done_up), LastOps(done_down))' <=> Migrated(db, FirstOps(done_up), LastOps(done_down))
    BY <2>1, <2>3 DEF Migrated, TableIs, ColumnIs, NewTables, GoneTables, BothTables, AddTable, DropTable,
              OnColumn, Op, Added, Dropped, Retyped, Has, TypesOf
  <2> QED BY <2>1, <2>2, <2>4 DEF SchemaInv
<1>6. UNCHANGED held => (CompositionInv' <=> CompositionInv)
  BY DEF CompositionInv
<1>7. UNCHANGED pricingVars => (PricingInv' <=> PricingInv)
  BY DEF pricingVars, PricingInv
<1> QED BY <1>1, <1>2, <1>3, <1>4, <1>5, <1>6, <1>7

(* Every component begins in its invariant. *)
LEMMA AllBegin ==
  Init => /\ CallsInv /\ LeaseInv /\ HealthInv /\ NexusCounts /\ StripeInv /\ CasesInv /\ RotationInv
          /\ OfflineInv /\ MeteringInv /\ RecoveryInv /\ FraudInv /\ SchemaInv
          /\ CompositionInv /\ PricingInv
<1> SUFFICES ASSUME Init
             PROVE  /\ CallsInv /\ LeaseInv /\ HealthInv /\ NexusCounts /\ StripeInv /\ CasesInv /\ RotationInv
                    /\ OfflineInv /\ MeteringInv /\ RecoveryInv /\ FraudInv /\ SchemaInv
                    /\ CompositionInv /\ PricingInv
  OBVIOUS
<1>1. CallsInv
  <2>1. ClientInit
    BY DEF Init
  <2>2. CallsTypes
    BY <2>1 DEF ClientInit, CallsTypes, NoCall
  <2>3. UsageInv
    <3>1. /\ told = 0 /\ counted = 0 /\ unread = 0 /\ late["usage"] = 0 /\ calls["usage"] = 0
          /\ Attempts = 0
      BY <2>1 DEF ClientInit, Attempts, NoCall, Ops
    <3>2. MaxRetries * 0 = 0
      BY ClientAssumption
    <3> QED BY <3>1, <3>2 DEF UsageInv
  <2>4. AnswerStands
    BY <2>1 DEF ClientInit, AnswerStands
  <2> QED BY <2>2, <2>3, <2>4 DEF CallsInv
<1>2. LeaseInv
  <2>1. LeaseInit /\ now = 0
    BY DEF Init
  <2>2. LeaseTypeOK
    <3>1. NoLease \in Leases /\ Never \in Never .. MaxTime
          /\ NoOffline \in [code : {"none", "OFFLINE_VALID", "LEASE_EXPIRED", "NO_LEASE"},
                            at : Never .. MaxTime, key : LeaseKeys \cup {"none"}]
      BY LeaseAssumption, MaxTimeAssumption DEF NoLease, Leases, Never, NoOffline
    <3> QED BY <2>1, <3>1 DEF LeaseInit, LeaseTypeOK
  <2> QED BY <2>1, <2>2, MaxTimeAssumption DEF LeaseInv, LeaseInit, Time, Backed, LeaseBounded, NoOffline
<1>3. HealthInv
  <2>1. HealthInit
    BY DEF Init
  <2>2. HealthTypeOK
    <3>1. 0 \in 0 .. MaxProbes
      BY HealthAssumption
    <3> QED BY <2>1, <3>1 DEF HealthInit, HealthTypeOK
  <2> QED BY <2>1, <2>2, HealthAssumption DEF HealthInit, HealthInv, InFlight
<1>4. NexusCounts
  BY DEF Init, NexusInit, NexusCounts
<1>5. StripeInv
  <2>1. StripeInit
    BY DEF Init
  <2>2. StripeTypes
    BY <2>1, StripeAssumption DEF StripeInit, StripeTypes, NoLoop
  <2>3. /\ stripe.received = 0 /\ queue = <<>> /\ \A l \in Loops : ~Busy(l)
        /\ \A f \in Fates : done[f] = {}
    BY <2>1 DEF StripeInit, Busy, NoLoop
  <2>4. EveryEvent
    BY <2>3 DEF EveryEvent, Queued, Ended
  <2> QED BY <2>2, <2>4, EventByEvent DEF StripeInv
<1>6. CasesInv
  <2>1. CasesInit
    BY DEF Init
  <2>2. DOMAIN cases = {} /\ DOMAIN evicted = {} /\ opened = 0 /\ closings = 0
    BY <2>1 DEF CasesInit
  <2>3. CaseTypes
    BY <2>2 DEF CaseTypes
  <2>4. Cardinality({c \in DOMAIN cases : cases[c].status \in Closed}) = 0 /\ Cardinality(DOMAIN evicted) = 0
    <3>1. {c \in DOMAIN cases : cases[c].status \in Closed} = {}
      BY <2>2
    <3> QED BY <2>2, <3>1, FS_EmptySet
  <2> QED BY <2>2, <2>3, <2>4 DEF CasesInv, CasesSound
<1>7. RotationInv
  <2>1. RotationInit
    BY DEF Init
  <2>2. ring = {0} /\ DOMAIN migration = {} /\ target = 0
        /\ issued = [char : LegacyChars, secret : {0}, legacy : {TRUE}]
    BY <2>1 DEF RotationInit
  <2>3. 0 \in Versions /\ LegacyChars \subseteq 0 .. Base - 1
    BY RotationAssumption DEF Versions
  <2>4. ring \subseteq Versions /\ ring # {} /\ issued \subseteq Keys
    BY <2>2, <2>3 DEF Keys
  <2>5. Current = 0
    BY <2>2, <2>4, CurrentIsHighest
  <2>6. \A k \in issued : k.secret <= Current
    <3>1. \A k \in issued : k.secret = 0
      BY <2>2
    <3> QED BY <2>5, <3>1
  <2>7. \A k \in issued : k.legacy /\ k.secret = 0
    BY <2>2
  <2> QED BY <2>2, <2>4, <2>6, <2>7 DEF RotationInv
<1>8. OfflineInv
  <2>1. OfflineCacheInit /\ now = 0
    BY DEF Init
  <2>2. /\ entries = <<>> /\ reply \in [key : KeyHashes, code : {"none"}] /\ usedAfter = [k \in KeyHashes |-> {}]
        /\ newest = [k \in KeyHashes |-> Nothing]
    BY <2>1, OfflineCacheAssumption DEF OfflineCacheInit
  <2>3. OfflineTypes
    <3>1. Unique(entries) /\ Len(entries) = 0 /\ entries \in Seq(OfflineEntry)
      BY <2>2 DEF Unique
    <3>2. now \in Time
      BY <2>1, MaxTimeAssumption DEF Time
    <3> QED BY <2>2, <3>1, <3>2, OfflineCacheAssumption DEF OfflineTypes, Codes
  <2>4. OfflineEntries
    BY <2>2 DEF OfflineEntries, Items, Precedes
  <2> QED BY <2>2, <2>3, <2>4, FS_EmptySet DEF OfflineInv
<1>9. MeteringInv
  <2>1. UsageInit
    BY DEF Init
  <2>2. Len(rows) = 0 /\ rows \in Seq(Row) /\ txs = [w \in Writers |-> NoTx]
    BY <2>1 DEF UsageInit
  <2>3. MeteringTypes
    BY <2>1, <2>2, UsageAssumption DEF UsageInit, MeteringTypes, NoTx, Severities
  <2>4. \A w \in Writers : TxSound(txs[w], rows)
    BY <2>2 DEF TxSound, NoTx
  <2>5. lastUsage.row = 0 /\ lastUsage.remaining = Remaining(lastUsage.total)
    BY <2>1, UsageAssumption DEF UsageInit, Remaining
  <2> QED BY <2>2, <2>3, <2>4, <2>5, UsageAssumption DEF MeteringInv
<1>10. RecoveryInv
  <2>1. RecoveryInit
    BY DEF Init
  <2> QED BY <2>1, RecoveryAssumption DEF RecoveryInit, RecoveryInv, Items
<1>11. FraudInv
  <2>1. FraudInit
    BY DEF Init
  <2> QED BY <2>1 DEF FraudInit, FraudInv
<1>12. SchemaInv
  BY SchemaBegins DEF Init
<1>13. CompositionInv /\ PricingInv
  BY CompositionBegins, PricingBegins DEF Init
<1> QED BY <1>1, <1>2, <1>3, <1>4, <1>5, <1>6, <1>7, <1>8, <1>9, <1>10, <1>11, <1>12, <1>13

LEMMA OperationsBegin == Init => OperationsInv
BY AllBegin DEF OperationsInv, Of

(* A step of one component keeps its invariant; the others need none. *)
LEMMA OperationsStep == OperationsInv /\ [Next]_vars => OperationsInv'
<1> SUFFICES ASSUME OperationsInv, [Next]_vars PROVE OperationsInv'
  OBVIOUS
<1>1. CASE UNCHANGED vars
  <2> USE <1>1 DEF vars
  <2>1. CallsInv' <=> CallsInv
    BY DEF clientVars, CallsInv, CallsTypes, UsageInv, Attempts, AnswerStands
  <2>2. LeaseInv' <=> LeaseInv
    BY DEF leaseVars, LeaseInv, LeaseTypeOK, Backed, LeaseBounded
  <2>3. HealthInv' <=> HealthInv
    BY DEF healthVars, HealthInv, HealthTypeOK, InFlight
  <2>4. NexusCounts' <=> NexusCounts
    BY DEF nexusVars, NexusCounts
  <2>5. StripeInv' <=> StripeInv
    BY DEF stripeVars, StripeInv, StripeTypes, Busy, EventsAccounted, Queued, InHand
  <2>6. CasesInv' <=> CasesInv
    BY DEF caseVars, CasesInv, CaseTypes, CasesSound
  <2>7. RotationInv' <=> RotationInv
    BY DEF rotationVars, RotationInv, Current
  <2>8. /\ OfflineInv' <=> OfflineInv
        /\ MeteringInv' <=> MeteringInv
        /\ RecoveryInv' <=> RecoveryInv
        /\ FraudInv' <=> FraudInv
        /\ SchemaInv' <=> SchemaInv
        /\ CompositionInv' <=> CompositionInv
        /\ PricingInv' <=> PricingInv
    BY ListsStay
  <2> QED BY <2>1, <2>2, <2>3, <2>4, <2>5, <2>6, <2>7, <2>8 DEF OperationsInv, Of
<1>2. CASE Next
  <2>1. UNCHANGED part
    BY <1>2 DEF Next
  <2>2. ASSUME part = "calls" PROVE CallsInv'
    BY <1>2, <2>2, CallsPreserved DEF Next, OperationsInv, Of
  <2>3. ASSUME part = "lease" PROVE LeaseInv'
    BY <1>2, <2>3, LeasePreserved DEF Next, OperationsInv, Of
  <2>4. ASSUME part = "health" PROVE HealthInv'
    BY <1>2, <2>4, HealthPreserved DEF Next, OperationsInv, Of
  <2>5. ASSUME part = "nexus" PROVE NexusCounts'
    BY <1>2, <2>5, NexusPreserved DEF Next, OperationsInv, Of
  <2>6. ASSUME part = "stripe" PROVE StripeInv'
    BY <1>2, <2>6, StripePreserved DEF Next, OperationsInv, Of
  <2>7. ASSUME part = "cases" PROVE CasesInv'
    BY <1>2, <2>7, CasesPreserved DEF Next, OperationsInv, Of
  <2>8. ASSUME part = "rotation" PROVE RotationInv'
    BY <1>2, <2>8, RotationPreserved DEF Next, OperationsInv, Of
  <2>9. ASSUME part = "offline" PROVE OfflineInv'
    BY <1>2, <2>9, OfflinePreserved DEF Next, OperationsInv, Of
  <2>10. ASSUME part = "metering" PROVE MeteringInv'
    BY <1>2, <2>10, MeteringPreserved DEF Next, OperationsInv, Of
  <2>11. ASSUME part = "recovery" PROVE RecoveryInv'
    BY <1>2, <2>11, RecoveryPreserved DEF Next, OperationsInv, Of
  <2>12. ASSUME part = "fraud" PROVE FraudInv'
    BY <1>2, <2>12, FraudPreserved DEF Next, OperationsInv, Of
  <2>13. ASSUME part = "schema" PROVE SchemaInv'
    BY <1>2, <2>13, SchemaPreserved DEF Next, OperationsInv, Of
  <2>14. ASSUME part = "composition" PROVE CompositionInv'
    BY <1>2, <2>14, CompositionGoesOn DEF Next, OperationsInv, Of
  <2>15. ASSUME part = "pricing" PROVE PricingInv'
    BY <1>2, <2>15, PricingGoesOn DEF Next, OperationsInv, Of
  <2> QED BY <2>1, <2>2, <2>3, <2>4, <2>5, <2>6, <2>7, <2>8, <2>9, <2>10, <2>11, <2>12, <2>13, <2>14, <2>15
          DEF OperationsInv, Of
<1> QED BY <1>1, <1>2

(* The types of the components that are not run, and what the one that is  *)
(* run adds to its invariant for its own.                                  *)
Otherwise(p, type) == part # p => type

TypesInv ==
  /\ part \in Parts
  /\ Of("calls", CallsBounded) /\ Of("nexus", NexusTypeOK) /\ Of("stripe", StripeCounted)
  /\ Of("cases", CasesBounded) /\ Of("rotation", PlanTypes)
  /\ Otherwise("calls", ClientTypeOK)
  /\ Otherwise("lease", LeaseTypeOK)
  /\ Otherwise("offline", OfflineCacheTypeOK)
  /\ Otherwise("health", HealthTypeOK)
  /\ Otherwise("nexus", NexusTypeOK)
  /\ Otherwise("stripe", StripeTypeOK)
  /\ Otherwise("metering", UsageTypeOK)
  /\ Otherwise("cases", CasesTypeOK)
  /\ Otherwise("recovery", RecoveryTypeOK)
  /\ Otherwise("schema", SchemaTypeOK)
  /\ Otherwise("composition", CompositionTypeOK)
  /\ Otherwise("rotation", RotationTypeOK)
  /\ Otherwise("fraud", FraudTypeOK)
  /\ Otherwise("pricing", PricingTypeOK)

LEMMA TypesBegin == Init => TypesInv
<1> SUFFICES ASSUME Init PROVE TypesInv
  OBVIOUS
<1>0. /\ CallsInv /\ LeaseInv /\ HealthInv /\ StripeInv /\ CasesInv /\ RotationInv
      /\ OfflineInv /\ MeteringInv /\ RecoveryInv /\ FraudInv /\ SchemaInv
      /\ CompositionInv /\ PricingInv
  BY AllBegin
<1>1. CallsBounded
  <2>1. ClientInit
    BY DEF Init
  <2>2. /\ strays = {} /\ unread = 0
        /\ \A o \in Ops : calls[o] = 0 /\ late[o] = 0 /\ Left(o) = 0
    BY <2>1 DEF ClientInit, Left, NoCall, Ops
  <2>3. MaxRetries * 0 = 0 /\ "usage" \in Ops
    BY ClientAssumption DEF Ops
  <2> QED BY <2>2, <2>3, ClientAssumption DEF CallsBounded
<1>2. NexusTypeOK
  BY BreakerAssumption DEF Init, NexusInit, NexusTypeOK, Steps
<1>3. StripeCounted
  <2>1. stats = [processed |-> 0, errors |-> 0] /\ done["processed"] = {} /\ done["failed"] = {}
    BY DEF Init, StripeInit, Fates
  <2> QED BY <2>1, FS_EmptySet DEF StripeCounted
<1>4. CasesBounded
  <2>1. opened = 0 /\ closings = 0 /\ DOMAIN cases = {}
    BY DEF Init, CasesInit
  <2> QED BY <2>1, CaseAssumption DEF CasesBounded
<1>5. PlanTypes
  <2>1. DOMAIN migration = {} /\ target = 0 /\ marked = {}
    BY DEF Init, RotationInit
  <2> QED BY <2>1, RotationAssumption DEF PlanTypes, Versions
<1>6. /\ ClientTypeOK /\ LeaseTypeOK /\ OfflineCacheTypeOK /\ HealthTypeOK /\ StripeTypeOK
      /\ UsageTypeOK /\ CasesTypeOK /\ RecoveryTypeOK /\ SchemaTypeOK /\ CompositionTypeOK
      /\ RotationTypeOK /\ FraudTypeOK /\ PricingTypeOK
  <2>1. ClientTypeOK /\ StripeTypeOK /\ CasesTypeOK /\ RotationTypeOK
    BY <1>0, <1>1, <1>3, <1>4, <1>5, CallsTyped, StripeTyped, CasesTyped, RotationTyped
  <2>2. LeaseTypeOK /\ HealthTypeOK
    BY <1>0 DEF LeaseInv, HealthInv
  <2>3. OfflineCacheTypeOK /\ UsageTypeOK /\ RecoveryTypeOK /\ FraudTypeOK /\ SchemaTypeOK
    BY <1>0, OfflineFollows, MeteringFollows, RecoveryFollows, FraudFollows, SchemaFollows
  <2>4. CompositionTypeOK /\ PricingTypeOK
    BY <1>0, CompositionTyped, PricingTyped
  <2> QED BY <2>1, <2>2, <2>3, <2>4
<1>7. part \in Parts
  BY DEF Init
<1> QED BY <1>1, <1>2, <1>3, <1>4, <1>5, <1>6, <1>7 DEF TypesInv, Of, Otherwise

(* A component that is not run keeps its types; the one that is run keeps  *)
(* what its types follow from.                                             *)
LEMMA TypesStep == OperationsInv /\ TypesInv /\ [Next]_vars => TypesInv'
<1> SUFFICES ASSUME OperationsInv, TypesInv, [Next]_vars PROVE TypesInv'
  OBVIOUS
<1>1. part' = part /\ part \in Parts
  BY DEF Next, vars, TypesInv
<1>2. ASSUME part = "calls" PROVE CallsBounded'
  <2>1. CallsInv /\ CallsBounded
    BY <1>2 DEF OperationsInv, TypesInv, Of
  <2>2. ClientNext \/ UNCHANGED clientVars
    BY <1>2 DEF Next, vars
  <2>3. UNCHANGED clientVars => CallsBounded'
    BY <2>1 DEF clientVars, CallsBounded, Left
  <2> QED BY <2>1, <2>2, <2>3, CallsStayBounded
<1>3. ASSUME part = "nexus" PROVE NexusTypeOK'
  <2>1. NexusTypeOK
    BY <1>3 DEF TypesInv, Of
  <2>2. NexusNext \/ UNCHANGED nexusVars
    BY <1>3 DEF Next, vars
  <2> QED BY <2>1, <2>2, NexusStaysTyped, TypesStay
<1>4. ASSUME part = "stripe" PROVE StripeCounted'
  <2>1. StripeInv /\ StripeCounted
    BY <1>4 DEF OperationsInv, TypesInv, Of
  <2>2. StripeNext \/ UNCHANGED stripeVars
    BY <1>4 DEF Next, vars
  <2>3. UNCHANGED stripeVars => StripeCounted'
    BY <2>1 DEF stripeVars, StripeCounted
  <2> QED BY <2>1, <2>2, <2>3, StripeStaysCounted
<1>5. ASSUME part = "cases" PROVE CasesBounded'
  <2>1. CasesInv /\ CasesBounded
    BY <1>5 DEF OperationsInv, TypesInv, Of
  <2>2. CasesNext \/ UNCHANGED caseVars
    BY <1>5 DEF Next, vars
  <2>3. UNCHANGED caseVars => CasesBounded'
    BY <2>1 DEF caseVars, CasesBounded
  <2> QED BY <2>1, <2>2, <2>3, CasesStayBounded
<1>6. ASSUME part = "rotation" PROVE PlanTypes'
  <2>1. RotationInv /\ PlanTypes
    BY <1>6 DEF OperationsInv, TypesInv, Of
  <2>2. RotationNext \/ UNCHANGED rotationVars
    BY <1>6 DEF Next, vars
  <2>3. UNCHANGED rotationVars => PlanTypes'
    BY <2>1 DEF rotationVars, PlanTypes
  <2> QED BY <2>1, <2>2, <2>3, PlanStaysTyped
<1>7. ASSUME part # "calls" PROVE ClientTypeOK'
  <2>1. UNCHANGED clientVars /\ ClientTypeOK
    BY <1>7 DEF Next, Still, vars, TypesInv, Otherwise
  <2> QED BY <2>1, TypesStay
<1>8. ASSUME part # "lease" PROVE LeaseTypeOK'
  <2>1. UNCHANGED leaseVars /\ LeaseTypeOK
    BY <1>8 DEF Next, Still, vars, TypesInv, Otherwise
  <2> QED BY <2>1, TypesStay
<1>9. ASSUME part # "offline" PROVE OfflineCacheTypeOK'
  <2>1. UNCHANGED offlineCacheVars /\ OfflineCacheTypeOK
    BY <1>9 DEF Next, Still, vars, TypesInv, Otherwise
  <2> QED BY <2>1, TypesStay
<1>10. ASSUME part # "health" PROVE HealthTypeOK'
  <2>1. UNCHANGED healthVars /\ HealthTypeOK
    BY <1>10 DEF Next, Still, vars, TypesInv, Otherwise
  <2> QED BY <2>1, TypesStay
<1>11. ASSUME part # "nexus" PROVE NexusTypeOK'
  <2>1. UNCHANGED nexusVars /\ NexusTypeOK
    BY <1>11 DEF Next, Still, vars, TypesInv, Otherwise
  <2> QED BY <2>1, TypesStay
<1>12. ASSUME part # "stripe" PROVE StripeTypeOK'
  <2>1. UNCHANGED stripeVars /\ StripeTypeOK
    BY <1>12 DEF Next, Still, vars, TypesInv, Otherwise
  <2> QED BY <2>1, TypesStay
<1>13. ASSUME part # "metering" PROVE UsageTypeOK'
  <2>1. UNCHANGED meteringVars /\ UsageTypeOK
    BY <1>13 DEF Next, Still, vars, TypesInv, Otherwise
  <2> QED BY <2>1, TypesStay
<1>14. ASSUME part # "cases" PROVE CasesTypeOK'
  <2>1. UNCHANGED caseVars /\ CasesTypeOK
    BY <1>14 DEF Next, Still, vars, TypesInv, Otherwise
  <2> QED BY <2>1, TypesStay
<1>15. ASSUME part # "recovery" PROVE RecoveryTypeOK'
  <2>1. UNCHANGED recoveryVars /\ RecoveryTypeOK
    BY <1>15 DEF Next, Still, vars, TypesInv, Otherwise
  <2> QED BY <2>1, TypesStay
<1>16. ASSUME part # "schema" PROVE SchemaTypeOK'
  <2>1. UNCHANGED schemaVars /\ SchemaTypeOK
    BY <1>16 DEF Next, Still, vars, TypesInv, Otherwise
  <2> QED BY <2>1, TypesStay
<1>17. ASSUME part # "composition" PROVE CompositionTypeOK'
  <2>1. UNCHANGED held /\ CompositionTypeOK
    BY <1>17 DEF Next, Still, vars, TypesInv, Otherwise
  <2> QED BY <2>1, TypesStay
<1>18. ASSUME part # "rotation" PROVE RotationTypeOK'
  <2>1. UNCHANGED rotationVars /\ RotationTypeOK
    BY <1>18 DEF Next, Still, vars, TypesInv, Otherwise
  <2> QED BY <2>1, TypesStay
<1>19. ASSUME part # "fraud" PROVE FraudTypeOK'
  <2>1. UNCHANGED fraudVars /\ FraudTypeOK
    BY <1>19 DEF Next, Still, vars, TypesInv, Otherwise
  <2> QED BY <2>1, TypesStay
<1>20. ASSUME part # "pricing" PROVE PricingTypeOK'
  <2>1. UNCHANGED pricingVars /\ PricingTypeOK
    BY <1>20 DEF Next, Still, vars, TypesInv, Otherwise
  <2> QED BY <2>1, TypesStay
<1> QED BY <1>1, <1>2, <1>3, <1>4, <1>5, <1>6, <1>7, <1>8, <1>9, <1>10, <1>11, <1>12, <1>13, <1>14, <1>15, <1>16, <1>17, <1>18, <1>19, <1>20
    DEF TypesInv, Of, Otherwise

LEMMA TypesFollow == OperationsInv /\ TypesInv => TypeOK
<1> SUFFICES ASSUME OperationsInv, TypesInv PROVE TypeOK
  OBVIOUS
<1>1. ClientTypeOK
  <2>1. CASE part = "calls"
    <3>1. CallsInv /\ CallsBounded
      BY <2>1 DEF OperationsInv, TypesInv, Of
    <3> QED BY <3>1, CallsTyped
  <2>2. CASE part # "calls"
    BY <2>2 DEF TypesInv, Otherwise
  <2> QED BY <2>1, <2>2
<1>2. LeaseTypeOK
  <2>1. CASE part = "lease"
    <3>1. LeaseInv
      BY <2>1 DEF OperationsInv, TypesInv, Of
    <3> QED BY <3>1 DEF LeaseInv
  <2>2. CASE part # "lease"
    BY <2>2 DEF TypesInv, Otherwise
  <2> QED BY <2>1, <2>2
<1>3. OfflineCacheTypeOK
  <2>1. CASE part = "offline"
    <3>1. OfflineInv
      BY <2>1 DEF OperationsInv, TypesInv, Of
    <3> QED BY <3>1, OfflineFollows
  <2>2. CASE part # "offline"
    BY <2>2 DEF TypesInv, Otherwise
  <2> QED BY <2>1, <2>2
<1>4. HealthTypeOK
  <2>1. CASE part = "health"
    <3>1. HealthInv
      BY <2>1 DEF OperationsInv, TypesInv, Of
    <3> QED BY <3>1 DEF HealthInv
  <2>2. CASE part # "health"
    BY <2>2 DEF TypesInv, Otherwise
  <2> QED BY <2>1, <2>2
<1>5. NexusTypeOK
  <2>1. CASE part = "nexus"
    <3>1. NexusTypeOK
      BY <2>1 DEF OperationsInv, TypesInv, Of
    <3> QED BY <3>1
  <2>2. CASE part # "nexus"
    BY <2>2 DEF TypesInv, Otherwise
  <2> QED BY <2>1, <2>2
<1>6. StripeTypeOK
  <2>1. CASE part = "stripe"
    <3>1. StripeInv /\ StripeCounted
      BY <2>1 DEF OperationsInv, TypesInv, Of
    <3> QED BY <3>1, StripeTyped
  <2>2. CASE part # "stripe"
    BY <2>2 DEF TypesInv, Otherwise
  <2> QED BY <2>1, <2>2
<1>7. UsageTypeOK
  <2>1. CASE part = "metering"
    <3>1. MeteringInv
      BY <2>1 DEF OperationsInv, TypesInv, Of
    <3> QED BY <3>1, MeteringFollows
  <2>2. CASE part # "metering"
    BY <2>2 DEF TypesInv, Otherwise
  <2> QED BY <2>1, <2>2
<1>8. CasesTypeOK
  <2>1. CASE part = "cases"
    <3>1. CasesInv /\ CasesBounded
      BY <2>1 DEF OperationsInv, TypesInv, Of
    <3> QED BY <3>1, CasesTyped
  <2>2. CASE part # "cases"
    BY <2>2 DEF TypesInv, Otherwise
  <2> QED BY <2>1, <2>2
<1>9. RecoveryTypeOK
  <2>1. CASE part = "recovery"
    <3>1. RecoveryInv
      BY <2>1 DEF OperationsInv, TypesInv, Of
    <3> QED BY <3>1, RecoveryFollows
  <2>2. CASE part # "recovery"
    BY <2>2 DEF TypesInv, Otherwise
  <2> QED BY <2>1, <2>2
<1>10. SchemaTypeOK
  <2>1. CASE part = "schema"
    <3>1. SchemaInv
      BY <2>1 DEF OperationsInv, TypesInv, Of
    <3> QED BY <3>1, SchemaFollows
  <2>2. CASE part # "schema"
    BY <2>2 DEF TypesInv, Otherwise
  <2> QED BY <2>1, <2>2
<1>11. CompositionTypeOK
  <2>1. CASE part = "composition"
    <3>1. CompositionInv
      BY <2>1 DEF OperationsInv, TypesInv, Of
    <3> QED BY <3>1, CompositionTyped
  <2>2. CASE part # "composition"
    BY <2>2 DEF TypesInv, Otherwise
  <2> QED BY <2>1, <2>2
<1>12. RotationTypeOK
  <2>1. CASE part = "rotation"
    <3>1. RotationInv /\ PlanTypes
      BY <2>1 DEF OperationsInv, TypesInv, Of
    <3> QED BY <3>1, RotationTyped
  <2>2. CASE part # "rotation"
    BY <2>2 DEF TypesInv, Otherwise
  <2> QED BY <2>1, <2>2
<1>13. FraudTypeOK
  <2>1. CASE part = "fraud"
    <3>1. FraudInv
      BY <2>1 DEF OperationsInv, TypesInv, Of
    <3> QED BY <3>1, FraudFollows
  <2>2. CASE part # "fraud"
    BY <2>2 DEF TypesInv, Otherwise
  <2> QED BY <2>1, <2>2
<1>14. PricingTypeOK
  <2>1. CASE part = "pricing"
    <3>1. PricingInv
      BY <2>1 DEF OperationsInv, TypesInv, Of
    <3> QED BY <3>1, PricingTyped
  <2>2. CASE part # "pricing"
    BY <2>2 DEF TypesInv, Otherwise
  <2> QED BY <2>1, <2>2
<1> QED BY <1>1, <1>2, <1>3, <1>4, <1>5, <1>6, <1>7, <1>8, <1>9, <1>10, <1>11, <1>12, <1>13, <1>14
    DEF TypeOK, TypesInv

(* Whatever the order of its steps, a component of MCOperations that waits *)
(* for others says and keeps what its history accounts for (ProtocolsHold),*)
(* and one that keeps lists or computes from them keeps and finds what a   *)
(* plain definition says of lists of any length (ListsHold).               *)
THEOREM ComponentsAlwaysHold == Spec => []ComponentsHold
<1>1. OperationsInv => ProtocolsHold
  BY CallsFollow, HealthFollows, RotationFollows
  DEF OperationsInv, ProtocolsHold, Of, LeaseInv, StripeInv, CasesInv
<1>2. OperationsInv => ListsHold
  BY OfflineFollows, MeteringFollows, RecoveryFollows, FraudFollows, SchemaFollows
  DEF OperationsInv, ListsHold, Of
<1>3. OperationsInv => ComponentsHold
  BY <1>1, <1>2 DEF ComponentsHold
<1> QED BY <1>3, OperationsBegin, OperationsStep, PTL DEF Spec

(* Composed entitlements and prices are what a plain definition says of    *)
(* them, for every limit, tier, tier table and meter, and another reading  *)
(* lowers no graduated price or estimate (ResultsHold).                    *)
THEOREM ResultsAlwaysHold == Spec => []ResultsHold
<1>1. OperationsInv => ResultsHold
  BY CompositionFollows, PricingFollows DEF OperationsInv, ResultsHold, Of
<1> QED BY <1>1, OperationsBegin, OperationsStep, PTL DEF Spec

(* Every variable of every component keeps its type (TypeOK): the counts   *)
(* stay within what the guards of the code leave room for, whatever the    *)
(* order of its steps.                                                     *)
THEOREM TypesAlwaysHold == Spec => []TypeOK
BY OperationsBegin, OperationsStep, TypesBegin, TypesStep, TypesFollow, PTL DEF Spec

(* No step undoes what only certain steps may undo (NothingUndone).        *)
THEOREM NothingIsUndone == Spec => NothingUndone
<1>1. OperationsInv /\ [Next]_vars => [Of("nexus", BreakerStep) /\ Of("cases", CaseStep)]_vars
  <2> SUFFICES ASSUME OperationsInv, Next PROVE Of("nexus", BreakerStep) /\ Of("cases", CaseStep)
    OBVIOUS
  <2>1. part = "nexus" => BreakerStep
    BY NexusPreserved DEF Next, OperationsInv, Of
  <2>2. part = "cases" => CaseStep
    BY CasesPreserved DEF Next, OperationsInv, Of
  <2> QED BY <2>1, <2>2 DEF Of
<1> QED BY <1>1, OperationsBegin, OperationsStep, PTL DEF Spec, NothingUndone

=============================================================================
