------------------------------ MODULE Activation ------------------------------
(***************************************************************************)
(* ActivationService on top of LicensingService: requests that activate,   *)
(* deactivate and heartbeat machines of the licence, concurrently with     *)
(* each other, with validations, edits and the expiration sweep.           *)
(*                                                                         *)
(* The service keeps the seat count twice: as rows of the machines table   *)
(* (UNIQUE on licence and fingerprint) and as the column machines_used,    *)
(* which it writes as an absolute value computed from the row its session  *)
(* read.  SQLAlchemy's identity map keeps that first read: a row loaded by *)
(* validate_license is not refreshed by the later SELECT.                  *)
(***************************************************************************)
EXTENDS Licensing, FiniteSets, Integers

CONSTANTS
  Fingerprints,  \* machines that may ask for a seat
  MaxLimit       \* bound of every machines_limit of the instance

ASSUME FingerprintsAssumption == IsFiniteSet(Fingerprints)
ASSUME MaxLimitAssumption == MaxLimit \in Nat /\ \A n \in Limits : n <= MaxLimit

SeatOps == {"activate", "deactivate", "heartbeat"}

(* What a seat request knows: its fingerprint, whether its session has     *)
(* loaded the licence row, whether it found the machine's row.             *)
(* `superseded' is history: another request has committed a change of the  *)
(* seats since the licence row was loaded.                                 *)
Call == [fp : SUBSET Fingerprints, loaded : BOOLEAN, found : BOOLEAN,
         superseded : BOOLEAN]
NoCall == [fp |-> {}, loaded |-> FALSE, found |-> FALSE, superseded |-> FALSE]

VARIABLES
  machines,  \* fingerprints with a committed row in the machines table
  act,       \* the seat part of every open request
  raced      \* history: a seat change was computed from a superseded row

seatVars == <<machines, act, raced>>
vars == <<licVars, seatVars>>

Init ==
  /\ LicInit
  /\ machines = {}
  /\ act = [p \in Procs |-> NoCall]
  /\ raced = FALSE

(* A closed session takes its objects with it. *)
ForgetClosed == act' = [p \in Procs |-> IF req'[p].pc = "idle" THEN NoCall ELSE act[p]]

Activates(p) == req[p].op = "activate" /\ ~act[p].found
Touches(p) == act[p].found /\ req[p].op \in {"activate", "heartbeat"}

-----------------------------------------------------------------------------
(* Mutant: activate without its validate_license call. *)
StartActivateUnchecked(p, fp) ==
  /\ Open(p, "lookup", "activate", NoEdit)
  /\ act' = [act EXCEPT ![p] = [NoCall EXCEPT !.fp = {fp}]]
  /\ UNCHANGED <<lic, cache, since, machines, raced>>

(* activate begins with validate_license; the other two do not validate.   *)
StartActivate(p, fp) ==
  /\ ValidateHit(p, "activate") \/ ValidateMiss(p, "activate")
  /\ act' = [act EXCEPT ![p] = [NoCall EXCEPT !.fp = {fp}]]
  /\ UNCHANGED <<machines, raced>>

StartSeatCall(p, op, fp) ==
  /\ Open(p, "lookup", op, NoEdit)
  /\ act' = [act EXCEPT ![p] = [NoCall EXCEPT !.fp = {fp}]]
  /\ UNCHANGED <<lic, cache, since, machines, raced>>

LoadInSession(p) ==
  /\ LoadValid(p)
  /\ act' = [act EXCEPT ![p].loaded = TRUE]
  /\ UNCHANGED <<machines, raced>>

(* get_license_by_key: no row, or a row the session may know already. *)
LookupMissing(p) ==
  /\ req[p].pc = "lookup" /\ lic.deleted
  /\ Close(p) /\ ForgetClosed
  /\ UNCHANGED <<lic, cache, since, machines, raced>>

Lookup(p) ==
  /\ req[p].pc = "lookup" /\ ~lic.deleted
  /\ req' = [req EXCEPT ![p].pc = "machine",
                        ![p].snap = IF act[p].loaded THEN @ ELSE lic]
  /\ act' = [act EXCEPT ![p].loaded = TRUE]
  /\ UNCHANGED <<lic, cache, since, machines, raced>>

Registered(p) == act[p].fp \subseteq machines
(* Mutant: > for >=. *)
FullOffByOne(p) == req[p].snap.used > req[p].snap.limit
Full(p) == req[p].snap.used >= req[p].snap.limit

(* No such machine to deactivate or to hear from; or no seat left. *)
SelectRefused(p) ==
  /\ req[p].pc = "machine" /\ ~Registered(p)
  /\ req[p].op = "activate" => Full(p)
  /\ Close(p) /\ ForgetClosed
  /\ UNCHANGED <<lic, cache, since, machines, raced>>

Select(p) ==
  /\ req[p].pc = "machine"
  /\ Registered(p) \/ (req[p].op = "activate" /\ ~Full(p))
  /\ Goto(p, "write")
  /\ act' = [act EXCEPT ![p].found = Registered(p)]
  /\ UNCHANGED <<lic, cache, since, machines, raced>>

(* IntegrityError of the unique constraint; StaleDataError of a heartbeat  *)
(* whose row has been deleted meanwhile.                                   *)
Conflict(p) ==
  \/ Activates(p) /\ Registered(p)
  \/ Touches(p) /\ ~Registered(p)

WriteConflict(p) ==
  /\ req[p].pc = "write" /\ req[p].op \in SeatOps
  /\ ~Locked /\ Conflict(p)
  /\ Close(p) /\ ForgetClosed
  /\ UNCHANGED <<lic, cache, since, machines, raced>>

WriteSeat(p) ==
  /\ req[p].pc = "write" /\ req[p].op \in SeatOps
  /\ ~Locked /\ ~Conflict(p)
  /\ Goto(p, "flushed")
  /\ UNCHANGED <<lic, cache, since, machines, act, raced>>

(* Mutants: deactivate without max(0, ...); deactivate without a decrement. *)
SeatCounterUnclamped(p) == req[p].snap.used + (IF Activates(p) THEN 1 ELSE -1)
SeatCounterNoRelease(p) == IF Activates(p) THEN req[p].snap.used + 1 ELSE lic.used

(* The absolute value written to machines_used.  A decrement from 0 leaves *)
(* the column as it was loaded, so the UPDATE does not name it.            *)
SeatCounter(p) ==
  LET n == req[p].snap.used
  IN  IF Activates(p) THEN n + 1 ELSE IF n = 0 THEN lic.used ELSE n - 1

(* The commit of a machine's row and of the counter. *)
CommitSeat(p) ==
  /\ req[p].pc = "flushed" /\ req[p].op \in SeatOps /\ ~Touches(p)
  /\ machines' = IF Activates(p) THEN machines \cup act[p].fp
                                 ELSE machines \ act[p].fp
  /\ lic' = [lic EXCEPT !.used = SeatCounter(p)]
  /\ raced' = (raced \/ act[p].superseded)
  /\ Close(p)
  /\ act' = [q \in Procs |->
               IF q = p THEN NoCall
               ELSE [act[q] EXCEPT !.superseded = act[q].loaded]]
  /\ UNCHANGED <<cache, since>>

(* Mutant: the row is written back as the session remembers it. *)
CommitTouchWholeRow(p) ==
  /\ req[p].pc = "flushed" /\ req[p].op \in SeatOps /\ Touches(p)
  /\ lic' = [lic EXCEPT !.used = req[p].snap.used]
  /\ Close(p) /\ ForgetClosed
  /\ UNCHANGED <<cache, since, machines, raced>>

(* last_heartbeat alone is written; nothing in the service reads it. *)
CommitTouch(p) ==
  /\ req[p].pc = "flushed" /\ req[p].op \in SeatOps /\ Touches(p)
  /\ Close(p) /\ ForgetClosed
  /\ UNCHANGED <<lic, cache, since, machines, raced>>

-----------------------------------------------------------------------------
StartSeat(p, fp) ==
  \/ "activate" \in Ops /\ StartActivate(p, fp)
  \/ \E op \in {"deactivate", "heartbeat"} \cap Ops : StartSeatCall(p, op, fp)

SeatStep(p) ==
  \/ LoadInSession(p)
  \/ LookupMissing(p) \/ Lookup(p)
  \/ SelectRefused(p) \/ Select(p)
  \/ WriteConflict(p) \/ WriteSeat(p)
  \/ CommitSeat(p) \/ CommitTouch(p)

(* A step of module Licensing, as this module sees it. *)
LicensingStep ==
  /\ \/ \E p \in Requests : StartLic(p) \/ LicStep(p)
     \/ \E p \in Procs : Abort(p)
     \/ Sweep \/ Evict \/ Restart \/ Expire \/ Tick
  /\ ForgetClosed
  /\ UNCHANGED <<machines, raced>>

Next ==
  \/ \E p \in Requests, fp \in Fingerprints : StartSeat(p, fp)
  \/ \E p \in Requests : SeatStep(p)
  \/ LicensingStep

Spec == Init /\ [][Next]_vars

-----------------------------------------------------------------------------
(* Properties                                                              *)

(* Type invariant of the machine rows and of the open seat requests. *)
TypeOK ==
  /\ LicTypeOK
  /\ machines \subseteq Fingerprints
  /\ act \in [Procs -> Call]
  /\ raced \in BOOLEAN

(* machines_used counts the rows of the machines table for as long as no   *)
(* request has committed a seat change computed from a row that another    *)
(* request had superseded: aborts, conflicts, refusals, heartbeats, edits  *)
(* and sweeps in any order never part the two.                             *)
CounterExactUnlessRaced == ~raced => lic.used = Cardinality(machines)

(* Without such a race the number of machines stays within the largest     *)
(* limit the licence has had.                                              *)
SeatLimitUnlessRaced == ~raced => Cardinality(machines) <= MaxLimit

(* A machine joins the licence only while validate_license's approval is   *)
(* within the staleness bound, although activate never looks at the        *)
(* licence's status itself once its validation came from the cache.        *)
ActivationAuthorised ==
  [][~ machines' \subseteq machines => since <= TTL + 2 * MaxLatency]_vars

(* The rows and the counter together implement the abstract ledger, seat   *)
(* by seat: no step but the commit of an activation or a deactivation      *)
(* moves either of them, and that commit moves both by the same machine.   *)
Ledger == INSTANCE SeatLedger WITH
  Machines <- Fingerprints, Seats <- MaxLimit,
  taken <- machines, free <- MaxLimit - lic.used, sound <- ~raced
ImplementsLedger == Ledger!Spec

(* test_concurrent_activations_respect_limit: "Activating more machines    *)
(* than allowed must fail."                                                *)
MachinesWithinLimit == Cardinality(machines) <= MaxLimit
=============================================================================
