--------------------------- MODULE MCLicenceCaches ---------------------------
(***************************************************************************)
(* ApprovalCache and LicenceRemoval over the same licence table.  Neither  *)
(* cache is read by the other's component, so the run explores the two     *)
(* side by side: `part' chooses one, and the other's variables rest.       *)
(***************************************************************************)
EXTENDS ApprovalCache, LicenceRemoval

LOCAL INSTANCE TLC

VARIABLE part

Init ==
  /\ part \in {"approvals", "removal"}
  /\ ApprovalInit
  /\ IF part = "removal" THEN RemovalInit
     ELSE /\ ecache = <<>> /\ composing = {} /\ fk = FALSE
          /\ rows = [l \in Licences |-> {}]
          /\ changed = [l \in Licences |-> 0] /\ removed = [l \in Licences |-> "nobody"]

Next ==
  \/ part = "approvals" /\ ApprovalNext /\ UNCHANGED <<part, removalVars>>
  \/ part = "removal" /\ RemovalNext /\ UNCHANGED <<part, approvalVars>>

vars == <<tableVars, removalVars, approvalVars, part>>

Spec == Init /\ [][Next]_vars

(* The licences are interchangeable. *)
Symmetry == Permutations(Licences)

(* Every variable keeps to the values the two modules give it. *)
TypeOK == RemovalTypeOK /\ ApprovalTypeOK
=============================================================================
