---------------------------- MODULE LicenceTable ----------------------------
(***************************************************************************)
(* The licence rows of one customer as the caches and the background       *)
(* components see them: status, soft deletion and expiry.  A row changes   *)
(* here when its writer commits; the modules that use the table say what   *)
(* the writers and the readers do before and after.                        *)
(***************************************************************************)
EXTENDS Naturals, FiniteSets

CONSTANTS
  Licences,    \* the licences of one customer
  Requests,    \* requests that may have read a row and not yet cached it
  Expiries,    \* ticks at which a licence may run out
  Grace,       \* grace_days of LicenseCleanupService
  MaxLatency,  \* bound on the time from a request's SELECT to its store
  MaxTime      \* bound on the clock

ASSUME TableAssumption ==
  /\ IsFiniteSet(Licences) /\ Expiries \subseteq Nat
  /\ Grace \in Nat /\ MaxLatency \in Nat /\ MaxTime \in Nat

VARIABLES
  now,  \* the clock
  lic,  \* the licence rows
  up    \* whether the database answers

tableVars == <<now, lic, up>>

Licence == [here : BOOLEAN, status : {"active", "suspended", "expired"},
            deleted : BOOLEAN, deletedAt : 0 .. MaxTime, exp : Expiries]

TableTypeOK == now \in 0 .. MaxTime /\ lic \in [Licences -> Licence] /\ up \in BOOLEAN

(* Rows as create_license leaves them. *)
TableInit ==
  /\ now = 0 /\ up = TRUE
  /\ lic \in [Licences -> [here : {TRUE}, status : {"active"}, deleted : {FALSE},
                           deletedAt : {0}, exp : Expiries]]

Live(l) == lic[l].here /\ ~lic[l].deleted
Past(l) == lic[l].exp < now

(* What validate_license approves, and what the warmer and the composition *)
(* select: those two do not look at expires_at.                            *)
Active(l) == Live(l) /\ lic[l].status = "active"
Approvable(l) == Active(l) /\ ~Past(l)

Passes == now < MaxTime /\ now' = now + 1 /\ UNCHANGED <<lic, up>>

Turns == up' = ~up /\ UNCHANGED <<now, lic>>

(* What a request of update_license or soft_delete_license commits.        *)
Edited(l) ==
  /\ up /\ Live(l)
  /\ \/ \E s \in {"active", "suspended"} : lic' = [lic EXCEPT ![l].status = s]
     \/ lic' = [lic EXCEPT ![l].deleted = TRUE, ![l].deletedAt = now]
  /\ UNCHANGED <<now, up>>

(* A licence that has run out, marked so by a caller that commits. *)
Lapsed(l) ==
  /\ up /\ Active(l) /\ Past(l)
  /\ lic' = [lic EXCEPT ![l].status = "expired"]
  /\ UNCHANGED <<now, up>>

(* LicenseCleanupService.find_expired *)
RunOut == {l \in Licences : Live(l) /\ lic[l].exp + Grace < now}

(* cleanup under SOFT_DELETE and under ARCHIVE. *)
SoftlyCleaned ==
  /\ up /\ RunOut # {}
  /\ lic' = [l \in Licences |->
               IF l \in RunOut
               THEN [lic[l] EXCEPT !.status = "expired", !.deleted = TRUE, !.deletedAt = now]
               ELSE lic[l]]
  /\ UNCHANGED <<now, up>>
=============================================================================
