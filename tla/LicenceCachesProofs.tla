------------------------- MODULE LicenceCachesProofs -------------------------
(***************************************************************************)
(* Theorems about the caches derived from the licence rows, for any set of *)
(* licences, any lifetimes and capacities and any grace and retention: how *)
(* old a served approval and a composed answer can be, and which rows      *)
(* outlive their licence.                                                  *)
(*                                                                         *)
(* The properties speak of entries that are served now.  The inductive     *)
(* invariant says the same of every entry that is stored, in terms of its  *)
(* expiry, and of every row that was read and has not been cached yet, by  *)
(* the warmer, by a validation or by a composition.                        *)
(***************************************************************************)
EXTENDS MCLicenceCaches, ListsProofs

ApprovalEntry == [key : Licences, exp : 0 .. MaxTime + ValTTL, val : Approval]
ComposedEntry == [key : {"composed"}, exp : 0 .. MaxTime + EntTTL, val : SUBSET Licences]

(* What is true of an approval wherever it is stored, served or not.  One  *)
(* that is stored while an edit of its licence is flushed and not          *)
(* committed was stored after the flush, which would have removed it.      *)
Recent(v, exp) == exp <= v.readAt + ValTTL + Delay(v) \/ v.renewed
Explained(l, v) == Active(l) \/ Past(l) \/ v.edited
Sound(e) ==
  /\ Recent(e.val, e.exp)
  /\ e.val.late => e.val.by = "warmer"
  /\ Explained(e.key, e.val)
  /\ e.key \in editing => e.val.edited

Good(s) ==
  /\ s \in Seq(ApprovalEntry) /\ Len(s) <= MaxSize /\ Unique(s)
  /\ \A e \in Items(s) : Sound(e)

(* The rows the warmer has read and not cached. *)
WarmingSound ==
  /\ warming \in [todo : SUBSET Licences, edited : SUBSET Licences, at : 0 .. MaxTime]
  /\ \A l \in warming.todo : Active(l) \/ Past(l) \/ l \in warming.edited
  /\ warming.todo # {} => warming.at <= now /\ now <= warming.at + MaxWarm

(* The rows validations have read, and not cached the answer. *)
AskingSound ==
  /\ asking \subseteq Asked
  /\ \A q \in asking : /\ ~q.late
                       /\ q.at <= now /\ now <= q.at + MaxLatency
                       /\ Active(q.of) \/ Past(q.of) \/ q.edited

ApprovalInv ==
  /\ TableTypeOK
  /\ heal \in [healthy : BOOLEAN, last : 0 .. MaxTime]
  /\ editing \subseteq Licences
  /\ Good(vcache)
  /\ WarmingSound
  /\ AskingSound

(* A composed answer that is wrong about a licence expires within one TTL  *)
(* and the latency of a request after the licence's last change.           *)
ComposedSound ==
  \A e \in Items(ecache) :
    /\ e.exp <= now + EntTTL
    /\ \A l \in Licences :
         (l \in e.val) # Active(l) => e.exp <= changed[l] + EntTTL + MaxLatency

(* A composition under way that is wrong about a licence had read the rows *)
(* by the time of the licence's last change.                               *)
ComposingSound ==
  \A q \in composing :
    /\ q.at <= now /\ now <= q.at + MaxLatency
    /\ \A l \in Licences : (l \in q.of) # Active(l) => q.at <= changed[l]

RemovalTypes ==
  /\ TableTypeOK
  /\ rows \in [Licences -> SUBSET Kinds] /\ fk \in BOOLEAN
  /\ changed \in [Licences -> 0 .. MaxTime]
  /\ removed \in [Licences -> {"nobody", "processor", "cleanup"}]
  /\ composing \subseteq [by : Requests, of : SUBSET Licences, at : 0 .. MaxTime]
  /\ ecache \in Seq(ComposedEntry) /\ Len(ecache) <= 1 /\ Unique(ecache)

RemovalInv == RemovalTypes /\ ComposedSound /\ ComposingSound /\ OrphansAreHistory

(* The part that is not explored is empty. *)
Parts ==
  /\ part \in {"approvals", "removal"}
  /\ part = "approvals" => ecache = <<>> /\ composing = {} /\ \A l \in Licences : rows[l] = {}
  /\ part = "removal" => vcache = <<>> /\ warming.todo = {} /\ asking = {}

(* The inductive invariant. *)
Inv == ApprovalInv /\ RemovalInv /\ Parts

-----------------------------------------------------------------------------
(* The licence rows                                                        *)

(* A row and the clock. *)
LEMMA TableRow ==
  ASSUME TableTypeOK, NEW l \in Licences
  PROVE  /\ now \in Nat /\ MaxTime \in Nat
         /\ lic[l] \in Licence /\ lic[l].exp \in Nat /\ lic[l].deletedAt \in Nat
<1>1. now \in 0 .. MaxTime /\ lic[l] \in Licence /\ MaxTime \in Nat
  BY TableAssumption DEF TableTypeOK
<1>2. now \in Nat
  BY <1>1
<1>3. lic[l].exp \in Expiries /\ lic[l].deletedAt \in 0 .. MaxTime
  BY <1>1 DEF Licence
<1>4. lic[l].deletedAt \in Nat
  BY <1>1, <1>3
<1> QED BY <1>1, <1>2, <1>3, <1>4, TableAssumption

(* What the table's own steps do: they keep its types, never turn the      *)
(* clock back and never remove a row.                                      *)
LEMMA TableSteps ==
  ASSUME TableTypeOK,
         \/ Passes \/ Turns \/ SoftlyCleaned
         \/ \E l \in Licences : Edited(l) \/ Lapsed(l)
  PROVE  /\ TableTypeOK' /\ now <= now'
         /\ \A l \in Licences : lic'[l].here = lic[l].here
<1>0. now \in 0 .. MaxTime /\ MaxTime \in Nat /\ now <= now
  BY TableAssumption DEF TableTypeOK
<1>1. CASE Passes
  <2>1. now' \in 0 .. MaxTime /\ now <= now'
    BY <1>0, <1>1 DEF Passes
  <2> QED BY <1>1, <2>1 DEF Passes, TableTypeOK
<1>2. CASE Turns
  <2>1. up' \in BOOLEAN
    BY <1>2 DEF Turns
  <2> QED BY <1>0, <1>2, <2>1 DEF Turns, TableTypeOK
<1>3. CASE SoftlyCleaned
  <2>1. \A l \in Licences :
          /\ [lic[l] EXCEPT !.status = "expired", !.deleted = TRUE, !.deletedAt = now] \in Licence
          /\ [lic[l] EXCEPT !.status = "expired", !.deleted = TRUE, !.deletedAt = now].here = lic[l].here
    BY <1>0 DEF TableTypeOK, Licence
  <2>2. /\ UNCHANGED <<now, up>>
        /\ lic' = [l \in Licences |->
                     IF l \in RunOut
                     THEN [lic[l] EXCEPT !.status = "expired", !.deleted = TRUE, !.deletedAt = now]
                     ELSE lic[l]]
    BY <1>3 DEF SoftlyCleaned
  <2>3. lic' \in [Licences -> Licence] /\ \A l \in Licences : lic'[l].here = lic[l].here
    BY <2>1, <2>2 DEF TableTypeOK
  <2> QED BY <1>0, <2>2, <2>3 DEF TableTypeOK
<1>4. ASSUME NEW l \in Licences, Edited(l) \/ Lapsed(l)
      PROVE  TableTypeOK' /\ now <= now' /\ \A m \in Licences : lic'[m].here = lic[m].here
  <2>1. UNCHANGED <<now, up>>
    BY <1>4 DEF Edited, Lapsed
  <2>2. PICK r \in Licence : r.here = lic[l].here /\ lic' = [lic EXCEPT ![l] = r]
    <3>0. lic \in [Licences -> Licence] /\ lic[l] \in Licence
      BY <1>4 DEF TableTypeOK
    <3>1. ASSUME NEW s \in {"active", "suspended", "expired"}, lic' = [lic EXCEPT ![l].status = s]
          PROVE  \E r \in Licence : r.here = lic[l].here /\ lic' = [lic EXCEPT ![l] = r]
      <4>1. [lic[l] EXCEPT !.status = s] \in Licence /\ [lic[l] EXCEPT !.status = s].here = lic[l].here
        BY <3>0 DEF Licence
      <4>2. lic' = [lic EXCEPT ![l] = [lic[l] EXCEPT !.status = s]]
        BY <3>0, <3>1
      <4> QED BY <4>1, <4>2
    <3>2. ASSUME lic' = [lic EXCEPT ![l].deleted = TRUE, ![l].deletedAt = now]
          PROVE  \E r \in Licence : r.here = lic[l].here /\ lic' = [lic EXCEPT ![l] = r]
      <4> DEFINE r == [lic[l] EXCEPT !.deleted = TRUE, !.deletedAt = now]
      <4>1. r \in Licence /\ r.here = lic[l].here
        BY <1>0, <3>0 DEF Licence
      <4>2. lic' = [lic EXCEPT ![l] = r]
        BY <3>0, <3>2
      <4> QED BY <4>1, <4>2
    <3> QED BY <1>4, <3>1, <3>2 DEF Edited, Lapsed
  <2>3. lic' \in [Licences -> Licence] /\ \A m \in Licences : lic'[m].here = lic[m].here
    BY <2>2 DEF TableTypeOK
  <2> QED BY <1>0, <2>1, <2>3 DEF TableTypeOK
<1> QED BY <1>1, <1>2, <1>3, <1>4

(* An approval that is explained stays so, unless its licence is edited.   *)
LEMMA TableExplains ==
  ASSUME TableTypeOK, NEW m \in Licences, Active(m) \/ Past(m),
         \/ Passes \/ Turns \/ SoftlyCleaned \/ UNCHANGED tableVars
         \/ \E l \in Licences : Lapsed(l) \/ (Edited(l) /\ l # m)
  PROVE  (Active(m) \/ Past(m))'
<1>0. now \in Nat /\ lic \in [Licences -> Licence] /\ lic[m].exp \in Nat
  BY TableRow DEF TableTypeOK
<1>1. CASE Passes
  <2>1. lic' = lic /\ now' = now + 1
    BY <1>1 DEF Passes
  <2> QED BY <1>0, <2>1 DEF Active, Live, Past
<1>2. CASE Turns \/ UNCHANGED tableVars
  BY <1>2 DEF Turns, tableVars, Active, Live, Past
<1>3. CASE SoftlyCleaned
  <2>1. CASE m \in RunOut
    <3>1. Past(m)
      BY <1>0, <2>1, TableAssumption DEF RunOut, Past
    <3>2. now' = now /\ lic'[m].exp = lic[m].exp
      BY <1>0, <1>3, <2>1 DEF SoftlyCleaned, Licence
    <3> QED BY <3>1, <3>2 DEF Past
  <2>2. CASE m \notin RunOut
    <3>1. now' = now /\ lic'[m] = lic[m]
      BY <1>3, <2>2 DEF SoftlyCleaned
    <3> QED BY <3>1 DEF Active, Live, Past
  <2> QED BY <2>1, <2>2
<1>4. ASSUME NEW l \in Licences, Lapsed(l) PROVE (Active(m) \/ Past(m))'
  <2>1. now' = now /\ lic'[m].exp = lic[m].exp /\ (m # l => lic'[m] = lic[m]) /\ Past(l)
    BY <1>0, <1>4 DEF Lapsed, Licence
  <2>2. CASE m = l
    BY <2>1, <2>2 DEF Past
  <2>3. CASE m # l
    BY <2>1, <2>3 DEF Active, Live, Past
  <2> QED BY <2>2, <2>3
<1>5. ASSUME NEW l \in Licences, Edited(l), l # m PROVE (Active(m) \/ Past(m))'
  <2>1. now' = now /\ lic'[m] = lic[m]
    BY <1>0, <1>5 DEF Edited
  <2> QED BY <2>1 DEF Active, Live, Past
<1> QED BY <1>1, <1>2, <1>3, <1>4, <1>5

-----------------------------------------------------------------------------
(* The validation cache                                                    *)

(* A lookup stores nothing that was not stored. *)
LEMMA GotGood ==
  ASSUME NEW s, Good(s), NEW l, NEW t
  PROVE  Good(Got(s, l, t))
<1>1. s \in Seq(ApprovalEntry) /\ Len(s) <= MaxSize /\ Unique(s)
  BY DEF Good
<1>2. /\ Got(s, l, t) \in Seq(ApprovalEntry) /\ Unique(Got(s, l, t))
      /\ Len(Got(s, l, t)) <= Len(s) /\ Items(Got(s, l, t)) \subseteq Items(s)
  BY <1>1, GotProperties
<1>3. Len(s) \in Nat /\ Len(Got(s, l, t)) \in Nat /\ MaxSize \in Nat
  BY <1>1, <1>2, LenProperties, ApprovalAssumption
<1> QED BY <1>1, <1>2, <1>3 DEF Good

(* An approval that is as it should be can be stored. *)
LEMMA StoredGood ==
  ASSUME now \in 0 .. MaxTime, NEW s, Good(s), NEW l \in Licences, NEW v \in Approval,
         Recent(v, now + ValTTL), v.late => v.by = "warmer", Explained(l, v),
         l \in editing => v.edited
  PROVE  /\ Good(Stored(s, l, v))
         /\ [key |-> l, exp |-> now + ValTTL, val |-> v] \in Items(Stored(s, l, v))
<1> DEFINE e == [key |-> l, exp |-> now + ValTTL, val |-> v]
<1>1. s \in Seq(ApprovalEntry) /\ Unique(s)
  BY DEF Good
<1>2. e \in ApprovalEntry
  <2>1. now + ValTTL \in 0 .. MaxTime + ValTTL
    BY TableAssumption, ApprovalAssumption
  <2> QED BY <2>1 DEF ApprovalEntry
<1>3. MaxSize \in Nat \ {0}
  BY ApprovalAssumption
<1> DEFINE q == Put(s, l, v, now + ValTTL, MaxSize)
<1>4. /\ q \in Seq(ApprovalEntry) /\ Unique(q) /\ Len(q) <= MaxSize /\ e \in Items(q)
      /\ \A x \in Items(q) : x = e \/ (x \in Items(s) /\ x.key # l)
  BY <1>1, <1>2, <1>3, PutProperties
<1>5. Stored(s, l, v) = q
  BY DEF Stored
<1>6. Sound(e)
  BY DEF Sound
<1> HIDE DEF q, e
<1>7. Good(q)
  BY <1>4, <1>6 DEF Good
<1> QED BY <1>4, <1>5, <1>7 DEF e

(* A cache stays as it should be when rows change: what it holds of a row  *)
(* whose edit commits was stored after the edit had flushed.               *)
LEMMA CacheKept ==
  ASSUME TableTypeOK, NEW c, Good(c), vcache' = c,
         \A e \in Items(c) : e.key \in editing' => e.key \in editing,
         \/ Passes \/ Turns \/ SoftlyCleaned \/ UNCHANGED tableVars
         \/ \E l \in Licences : Lapsed(l) \/ (Edited(l) /\ l \in editing)
  PROVE  Good(vcache)'
<1>1. c \in Seq(ApprovalEntry) /\ Items(c) \subseteq ApprovalEntry
  BY ItemsOfSeq DEF Good
<1>2. ASSUME NEW e \in Items(c) PROVE Sound(e)'
  <2>1. e.key \in Licences
    BY <1>1 DEF ApprovalEntry
  <2>2. Sound(e) /\ (e.key \in editing' => e.val.edited)
    <3>1. Sound(e)
      BY DEF Good
    <3> QED BY <3>1 DEF Sound
  <2>3. CASE e.val.edited
    BY <2>2, <2>3 DEF Sound, Recent, Explained, Delay
  <2>4. CASE ~e.val.edited
    <3>1. e.key \notin editing /\ (Active(e.key) \/ Past(e.key))
      BY <2>2, <2>4 DEF Sound, Explained
    <3>2. (Active(e.key) \/ Past(e.key))'
      <4> DEFINE m == e.key
      <4>1. m \in Licences /\ (Active(m) \/ Past(m)) /\ m \notin editing
        BY <2>1, <3>1
      <4>2. \/ Passes \/ Turns \/ SoftlyCleaned \/ UNCHANGED tableVars
            \/ \E l \in Licences : Lapsed(l) \/ (Edited(l) /\ l # m)
        BY <4>1
      <4> HIDE DEF m
      <4>3. (Active(m) \/ Past(m))'
        BY <4>1, <4>2, TableExplains
      <4> QED BY <4>3 DEF m
    <3> QED BY <2>2, <3>2 DEF Sound, Recent, Explained, Delay
  <2> QED BY <2>3, <2>4
<1> QED BY <1>2 DEF Good, Items

(* The rows the warmer holds, when it goes on holding them. *)
LEMMA WarmingKept ==
  ASSUME TableTypeOK, WarmingSound, warming' = warming,
         \/ Passes /\ Waits
         \/ Turns \/ SoftlyCleaned \/ UNCHANGED tableVars
         \/ \E l \in Licences : Lapsed(l)
  PROVE  WarmingSound'
<1>1. warming.todo \subseteq Licences /\ warming.at \in 0 .. MaxTime
  BY DEF WarmingSound
<1>2. ASSUME NEW m \in warming.todo PROVE (Active(m) \/ Past(m) \/ m \in warming.edited)'
  <2>1. CASE m \in warming.edited
    BY <2>1
  <2>2. CASE Active(m) \/ Past(m)
    <3>1. (Active(m) \/ Past(m))'
      BY <1>1, <2>2, TableExplains
    <3> QED BY <3>1
  <2> QED BY <2>1, <2>2 DEF WarmingSound
<1>3. warming.todo # {} => warming.at <= now' /\ now' <= warming.at + MaxWarm
  <2>1. now \in 0 .. MaxTime /\ MaxTime \in Nat /\ MaxWarm \in Nat
    BY TableAssumption, ApprovalAssumption DEF TableTypeOK
  <2>2. CASE Passes /\ Waits
    BY <1>1, <2>1, <2>2 DEF Passes, Waits, WarmingSound
  <2>3. CASE now' = now
    BY <2>3 DEF WarmingSound
  <2> QED BY <2>2, <2>3 DEF Turns, SoftlyCleaned, Lapsed, tableVars
<1> QED BY <1>1, <1>2, <1>3 DEF WarmingSound

(* The validations under way, when no edit commits. *)
LEMMA AskingKept ==
  ASSUME TableTypeOK, AskingSound, asking' \subseteq asking,
         \/ Passes /\ Waits
         \/ Turns \/ SoftlyCleaned \/ UNCHANGED tableVars
         \/ \E l \in Licences : Lapsed(l)
  PROVE  AskingSound'
<1>1. asking \subseteq Asked
  BY DEF AskingSound
<1>2. ASSUME NEW q \in asking
      PROVE  /\ ~q.late
             /\ q.at <= now' /\ now' <= q.at + MaxLatency
             /\ (Active(q.of) \/ Past(q.of))' \/ q.edited
  <2>1. ~q.late /\ q.at <= now /\ now <= q.at + MaxLatency /\ (Active(q.of) \/ Past(q.of) \/ q.edited)
    BY DEF AskingSound
  <2>2. q.at \in 0 .. MaxTime /\ q.of \in Licences
    BY <1>1 DEF Asked
  <2>3. now \in 0 .. MaxTime /\ MaxTime \in Nat /\ MaxLatency \in Nat
    BY TableAssumption DEF TableTypeOK
  <2>4. q.at <= now' /\ now' <= q.at + MaxLatency
    <3>1. CASE Passes /\ Waits
      <4>1. now' = now + 1 /\ now < q.at + MaxLatency
        BY <3>1 DEF Passes, Waits
      <4> QED BY <2>1, <2>2, <2>3, <4>1
    <3>2. CASE now' = now
      BY <2>1, <3>2
    <3> QED BY <3>1, <3>2 DEF Turns, SoftlyCleaned, Lapsed, tableVars
  <2>5. (Active(q.of) \/ Past(q.of))' \/ q.edited
    <3>1. CASE q.edited
      BY <3>1
    <3>2. CASE Active(q.of) \/ Past(q.of)
      <4> DEFINE m == q.of
      <4>1. m \in Licences /\ (Active(m) \/ Past(m))
        BY <2>2, <3>2
      <4> HIDE DEF m
      <4>2. (Active(m) \/ Past(m))'
        BY <4>1, TableExplains
      <4> QED BY <4>2 DEF m
    <3> QED BY <2>1, <3>1, <3>2
  <2> QED BY <2>1, <2>4, <2>5
<1> QED BY <1>1, <1>2 DEF AskingSound

(* The validator's view of the database. *)
LEMMA HealType ==
  ASSUME TableTypeOK, heal \in [healthy : BOOLEAN, last : 0 .. MaxTime],
         heal' = heal \/ heal' = Healthy \/ heal' = Unhealthy
  PROVE  heal' \in [healthy : BOOLEAN, last : 0 .. MaxTime]
<1>1. now \in 0 .. MaxTime /\ 0 \in 0 .. MaxTime
  BY TableAssumption DEF TableTypeOK
<1>2. Healthy \in [healthy : BOOLEAN, last : 0 .. MaxTime]
  BY <1>1 DEF Healthy
<1>3. Unhealthy \in [healthy : BOOLEAN, last : 0 .. MaxTime]
  BY <1>1 DEF Unhealthy
<1> QED BY <1>2, <1>3

-----------------------------------------------------------------------------
(* The steps of the approvals                                              *)

(* A validation that is served from the cache or finds nothing, by         *)
(* LicensingService or by the self-healing validator.                      *)
LEMMA LookupSteps ==
  ASSUME ApprovalInv, NEW l \in Licences,
         Validate(l) \/ HealRefused(l) \/ HealFails(l) \/ HealCached(l)
  PROVE  ApprovalInv'
<1>1. TableTypeOK /\ Good(vcache) /\ WarmingSound /\ AskingSound /\ editing \subseteq Licences
  BY DEF ApprovalInv
<1>2. UNCHANGED tableVars \/ Lapsed(l)
  BY DEF Validate, HealRefused, HealFails, HealCached
<1>3. UNCHANGED <<warming, asking, editing>>
  BY DEF Validate, HealRefused, HealFails, HealCached
<1>4. TableTypeOK'
  <2>1. CASE UNCHANGED tableVars
    BY <1>1, <2>1 DEF tableVars, TableTypeOK
  <2>2. CASE Lapsed(l)
    BY <1>1, <2>2, TableSteps
  <2> QED BY <1>2, <2>1, <2>2
<1>5. PICK c : Good(c) /\ vcache' = c
  <2>1. Good(Looked(l))
    BY <1>1, GotGood DEF Looked
  <2> QED BY <2>1 DEF Validate, HealRefused, HealFails, HealCached
<1>6. Good(vcache)'
  BY <1>1, <1>2, <1>3, <1>5, CacheKept
<1>7. WarmingSound' /\ AskingSound'
  BY <1>1, <1>2, <1>3, WarmingKept, AskingKept
<1>8. heal' \in [healthy : BOOLEAN, last : 0 .. MaxTime]
  <2>1. heal' = heal \/ heal' = Healthy \/ heal' = Unhealthy
    BY DEF Validate, HealRefused, HealFails, HealCached
  <2>2. heal \in [healthy : BOOLEAN, last : 0 .. MaxTime]
    BY DEF ApprovalInv
  <2> QED BY <1>1, <2>1, <2>2, HealType
<1> QED BY <1>1, <1>3, <1>4, <1>6, <1>7, <1>8 DEF ApprovalInv

(* A validation reads a row that is as it should be. *)
LEMMA AskStep ==
  ASSUME ApprovalInv, NEW r \in Requests, NEW l \in Licences, NEW healing \in BOOLEAN,
         Ask(r, l, healing)
  PROVE  ApprovalInv'
<1>1. TableTypeOK /\ Good(vcache) /\ WarmingSound /\ AskingSound /\ now \in 0 .. MaxTime
  BY DEF ApprovalInv, TableTypeOK
<1>2. UNCHANGED <<now, lic, up, heal, warming, editing>> /\ vcache' = Looked(l)
  BY DEF Ask, tableVars
<1>3. UNCHANGED tableVars
  BY <1>2 DEF tableVars
<1>4. PICK c : Good(c) /\ vcache' = c
  BY <1>1, <1>2, GotGood DEF Looked
<1>5. Good(vcache)'
  BY <1>1, <1>2, <1>3, <1>4, CacheKept
<1>6. WarmingSound'
  BY <1>1, <1>2, <1>3, WarmingKept
<1> DEFINE late == Past(l)
           new == [by |-> r, of |-> l, at |-> now, late |-> late,
                   edited |-> FALSE, healing |-> healing]
<1>7. Active(l) /\ late = FALSE
  <2>1. Active(l) /\ ~Past(l)
    BY DEF Ask, Granted, Approvable
  <2>2. lic[l].exp \in Nat /\ now \in Nat
    BY <1>1, TableRow
  <2> QED BY <2>1, <2>2 DEF Past
<1>8. asking' = asking \cup {new}
  BY DEF Ask
<1> HIDE DEF late
<1>9. /\ new \in Asked /\ ~new.late /\ new.at = now /\ new.of = l
  BY <1>1, <1>7 DEF Asked
<1> HIDE DEF new
<1>10. AskingSound'
  <2>1. asking \subseteq Asked /\ asking' \subseteq Asked
    BY <1>1, <1>8, <1>9 DEF AskingSound
  <2>2. ASSUME NEW q \in asking'
        PROVE  /\ ~q.late
               /\ q.at <= now /\ now <= q.at + MaxLatency
               /\ Active(q.of) \/ Past(q.of) \/ q.edited
    <3>1. CASE q = new
      BY <1>1, <1>7, <1>9, <3>1, TableAssumption
    <3>2. CASE q \in asking
      BY <1>1, <3>2 DEF AskingSound
    <3> QED BY <1>8, <3>1, <3>2
  <2> QED BY <1>2, <2>1, <2>2 DEF AskingSound, Active, Live, Past
<1>11. TableTypeOK'
  BY <1>1, <1>2 DEF TableTypeOK
<1> QED BY <1>2, <1>5, <1>6, <1>10, <1>11 DEF ApprovalInv

(* A validation caches what it read not long ago, or fails. *)
LEMMA AnswerStep ==
  ASSUME ApprovalInv, NEW q \in asking, Answer(q) \/ AskFails(q)
  PROVE  ApprovalInv'
<1>1. TableTypeOK /\ Good(vcache) /\ WarmingSound /\ AskingSound /\ now \in 0 .. MaxTime
  BY DEF ApprovalInv, TableTypeOK
<1>2. UNCHANGED tableVars /\ UNCHANGED <<warming, editing>> /\ asking' = asking \ {q}
  BY DEF Answer, AskFails
<1>3. q \in Asked /\ ~q.late /\ now <= q.at + MaxLatency /\ (Active(q.of) \/ Past(q.of) \/ q.edited)
  BY <1>1 DEF AskingSound
<1>4. q.of \in Licences /\ q.at \in 0 .. MaxTime /\ q.late \in BOOLEAN /\ q.edited \in BOOLEAN
  BY <1>3 DEF Asked
<1>5. ASSUME Answer(q) PROVE \E c : Good(c) /\ vcache' = c
  <2> DEFINE edited == q.edited \/ q.of \in editing
             v == [readAt |-> q.at, by |-> "validate", late |-> q.late,
                   edited |-> edited, renewed |-> FALSE]
  <2>1. vcache' = Stored(vcache, q.of, v)
    BY <1>5 DEF Answer
  <2>2. edited \in BOOLEAN
    BY <1>4
  <2>3. (q.of \in editing => edited) /\ (q.edited => edited)
    OBVIOUS
  <2> HIDE DEF edited
  <2>4. v \in Approval /\ v.readAt = q.at /\ v.by = "validate" /\ v.late = q.late /\ v.edited = edited
    BY <1>4, <2>2 DEF Approval
  <2> HIDE DEF v
  <2>5. Recent(v, now + ValTTL)
    <3>1. now \in Nat /\ q.at \in Nat /\ MaxLatency \in Nat /\ ValTTL \in Nat
      BY <1>1, <1>4, TableAssumption, ApprovalAssumption
    <3>2. now + ValTTL <= q.at + ValTTL + MaxLatency
      BY <1>3, <3>1
    <3> QED BY <2>4, <3>2 DEF Recent, Delay
  <2>6. Explained(q.of, v)
    BY <1>3, <2>3, <2>4 DEF Explained
  <2>7. (v.late => v.by = "warmer") /\ (q.of \in editing => v.edited)
    BY <1>3, <2>3, <2>4
  <2>8. Good(Stored(vcache, q.of, v))
    BY <1>1, <1>4, <2>4, <2>5, <2>6, <2>7, StoredGood
  <2> QED BY <2>1, <2>8
<1>6. ASSUME AskFails(q) PROVE \E c : Good(c) /\ vcache' = c
  BY <1>1, <1>6, GotGood DEF AskFails, Looked
<1>7. PICK c : Good(c) /\ vcache' = c
  BY <1>5, <1>6
<1>8. Good(vcache)'
  BY <1>1, <1>2, <1>7, CacheKept
<1>9. WarmingSound' /\ AskingSound'
  BY <1>1, <1>2, WarmingKept, AskingKept
<1>10. heal' \in [healthy : BOOLEAN, last : 0 .. MaxTime]
  <2>1. heal' = heal \/ heal' = Healthy \/ heal' = Unhealthy
    BY DEF Answer, AskFails
  <2>2. heal \in [healthy : BOOLEAN, last : 0 .. MaxTime]
    BY DEF ApprovalInv
  <2> QED BY <1>1, <2>1, <2>2, HealType
<1>11. TableTypeOK'
  BY <1>1, <1>2 DEF tableVars, TableTypeOK
<1> QED BY <1>2, <1>8, <1>9, <1>10, <1>11 DEF ApprovalInv

(* An edit flushes and takes the approval of its licence out of the cache, *)
(* or it is rolled back.                                                   *)
LEMMA FlushStep ==
  ASSUME ApprovalInv, NEW l \in Licences, EditFlush(l) \/ EditAborts(l)
  PROVE  ApprovalInv'
<1>1. TableTypeOK /\ Good(vcache) /\ WarmingSound /\ AskingSound /\ editing \subseteq Licences
  BY DEF ApprovalInv
<1>2. UNCHANGED tableVars /\ UNCHANGED <<heal, warming, asking>> /\ editing' \subseteq Licences
  BY <1>1 DEF EditFlush, EditAborts
<1>3. PICK c : /\ Good(c) /\ vcache' = c
               /\ \A e \in Items(c) : e.key \in editing' => e.key \in editing
  <2>1. CASE EditFlush(l)
    <3> DEFINE c == Without(vcache, l)
    <3>1. vcache \in Seq(ApprovalEntry) /\ Unique(vcache) /\ Len(vcache) <= MaxSize
      BY <1>1 DEF Good
    <3>2. /\ c \in Seq(ApprovalEntry) /\ Unique(c) /\ Items(c) = {e \in Items(vcache) : e.key # l}
          /\ Len(c) = IF l \in KeysOf(vcache) THEN Len(vcache) - 1 ELSE Len(vcache)
      BY <3>1, WithoutProperties
    <3>3. vcache' = c /\ editing' = editing \cup {l}
      BY <2>1 DEF EditFlush
    <3> HIDE DEF c
    <3>4. Len(c) <= MaxSize
      BY <3>1, <3>2, LenProperties, ApprovalAssumption
    <3>5. Good(c)
      BY <1>1, <3>2, <3>4 DEF Good
    <3> QED BY <3>2, <3>3, <3>5
  <2>2. CASE EditAborts(l)
    BY <1>1, <2>2 DEF EditAborts
  <2> QED BY <2>1, <2>2
<1>4. Good(vcache)'
  BY <1>1, <1>2, <1>3, CacheKept
<1>5. WarmingSound' /\ AskingSound'
  BY <1>1, <1>2, WarmingKept, AskingKept
<1>6. TableTypeOK'
  BY <1>1, <1>2 DEF tableVars, TableTypeOK
<1> QED BY <1>2, <1>4, <1>5, <1>6 DEF ApprovalInv

(* An edit commits: who has read the row and not cached it holds a row     *)
(* that is no longer the row.                                              *)
LEMMA CommitStep ==
  ASSUME ApprovalInv, NEW l \in Licences, EditCommit(l)
  PROVE  ApprovalInv'
<1>1. /\ TableTypeOK /\ Good(vcache) /\ WarmingSound /\ AskingSound /\ editing \subseteq Licences
      /\ Edited(l) /\ l \in editing /\ editing' = editing \ {l} /\ UNCHANGED <<vcache, heal>>
  BY DEF ApprovalInv, EditCommit
<1>2. TableTypeOK'
  BY <1>1, TableSteps
<1>3. now' = now
  BY <1>1 DEF Edited
<1>4. Good(vcache)'
  <2>1. PICK c : c = vcache
    OBVIOUS
  <2>2. /\ Good(c) /\ vcache' = c
        /\ \A e \in Items(c) : e.key \in editing' => e.key \in editing
    BY <1>1, <2>1
  <2> QED BY <1>1, <2>2, CacheKept
<1>5. warming \in [todo : SUBSET Licences, edited : SUBSET Licences, at : 0 .. MaxTime]
  BY <1>1 DEF WarmingSound
<1>6. /\ warming' \in [todo : SUBSET Licences, edited : SUBSET Licences, at : 0 .. MaxTime]
      /\ warming'.todo = warming.todo /\ warming'.at = warming.at
      /\ warming'.edited = warming.edited \cup ({l} \cap warming.todo)
  BY <1>5 DEF EditCommit
<1>7. ASSUME NEW m \in warming.todo PROVE (Active(m) \/ Past(m))' \/ m \in warming'.edited
  <2>1. CASE m = l \/ m \in warming.edited
    BY <1>6, <2>1
  <2>2. CASE m # l /\ m \notin warming.edited
    <3>1. (Active(m) \/ Past(m)) /\ m \in Licences
      BY <1>1, <1>5, <2>2 DEF WarmingSound
    <3>2. (Active(m) \/ Past(m))'
      BY <1>1, <2>2, <3>1, TableExplains
    <3> QED BY <3>2
  <2> QED BY <2>1, <2>2
<1>8. WarmingSound'
  <2>1. warming.todo # {} => warming.at <= now /\ now <= warming.at + MaxWarm
    BY <1>1 DEF WarmingSound
  <2>2. warming'.todo # {} => warming'.at <= now' /\ now' <= warming'.at + MaxWarm
    BY <1>3, <1>6, <2>1
  <2>3. \A m \in warming'.todo : (Active(m) \/ Past(m))' \/ m \in warming'.edited
    BY <1>6, <1>7
  <2> QED BY <1>6, <2>2, <2>3 DEF WarmingSound
<1>9. asking \subseteq Asked
  BY <1>1 DEF AskingSound
<1>10. ASSUME NEW q \in asking'
       PROVE  /\ q \in Asked /\ ~q.late
              /\ q.at <= now' /\ now' <= q.at + MaxLatency
              /\ (Active(q.of) \/ Past(q.of))' \/ q.edited
  <2>1. \/ q \in asking /\ q.of # l
        \/ \E p \in asking : q = [p EXCEPT !.edited = TRUE]
    BY <1>10 DEF EditCommit
  <2>2. CASE q \in asking /\ q.of # l
    <3>1. /\ q \in Asked /\ ~q.late /\ q.at <= now /\ now <= q.at + MaxLatency
          /\ Active(q.of) \/ Past(q.of) \/ q.edited
      BY <1>1, <1>9, <2>2 DEF AskingSound
    <3>2. CASE q.edited
      BY <1>3, <3>1, <3>2
    <3>3. CASE Active(q.of) \/ Past(q.of)
      <4> DEFINE m == q.of
      <4>1. m \in Licences /\ m # l /\ (Active(m) \/ Past(m))
        BY <2>2, <3>1, <3>3 DEF Asked
      <4> HIDE DEF m
      <4>2. (Active(m) \/ Past(m))'
        BY <1>1, <4>1, TableExplains
      <4> QED BY <1>3, <3>1, <4>2 DEF m
    <3> QED BY <3>1, <3>2, <3>3
  <2>3. CASE \E p \in asking : q = [p EXCEPT !.edited = TRUE]
    <3>1. PICK p \in asking : q = [p EXCEPT !.edited = TRUE]
      BY <2>3
    <3>2. p \in Asked /\ ~p.late /\ p.at <= now /\ now <= p.at + MaxLatency
      BY <1>1, <1>9 DEF AskingSound
    <3>3. q \in Asked /\ q.late = p.late /\ q.at = p.at /\ q.edited = TRUE
      BY <3>1, <3>2 DEF Asked
    <3> QED BY <1>3, <3>2, <3>3
  <2> QED BY <2>1, <2>2, <2>3
<1>11. AskingSound'
  BY <1>10 DEF AskingSound
<1> QED BY <1>1, <1>2, <1>4, <1>8, <1>11 DEF ApprovalInv

(* A self-healing validation stores the answer it got from the cache once  *)
(* more.                                                                   *)
LEMMA HealStep ==
  ASSUME ApprovalInv, NEW l \in Licences, Heal(l)
  PROVE  ApprovalInv'
<1>1. /\ TableTypeOK /\ now \in 0 .. MaxTime /\ Good(vcache) /\ WarmingSound /\ AskingSound
      /\ Hit(vcache, l, now)
  BY DEF ApprovalInv, Heal, TableTypeOK
<1> DEFINE entry == EntryOf(vcache, l)
           v == [entry.val EXCEPT !.renewed = TRUE]
<1>2. entry \in Items(vcache) /\ entry.key = l
  BY <1>1, HitProperties DEF Good
<1>3. entry \in ApprovalEntry /\ Sound(entry)
  <2>1. Items(vcache) \subseteq ApprovalEntry
    BY <1>1, ItemsOfSeq DEF Good
  <2> QED BY <1>1, <1>2, <2>1 DEF Good
<1>4. vcache' = Stored(Looked(l), l, v)
  BY DEF Heal
<1> HIDE DEF entry
<1>5. entry.val \in Approval
  BY <1>3 DEF ApprovalEntry
<1>6. /\ v \in Approval /\ v.by = entry.val.by
      /\ v.late = entry.val.late /\ v.edited = entry.val.edited /\ v.renewed = TRUE
  BY <1>5 DEF Approval
<1> HIDE DEF v
<1>7. Recent(v, now + ValTTL)
  BY <1>6 DEF Recent
<1>8. (v.late => v.by = "warmer") /\ Explained(l, v) /\ (l \in editing => v.edited)
  BY <1>2, <1>3, <1>6 DEF Sound, Explained
<1>9. Good(Looked(l))
  BY <1>1, GotGood DEF Looked
<1>10. PICK c : c = Stored(Looked(l), l, v)
  OBVIOUS
<1>11. Good(c)
  BY <1>1, <1>6, <1>7, <1>8, <1>9, <1>10, StoredGood
<1>12. UNCHANGED tableVars /\ UNCHANGED <<warming, asking, editing>>
  BY DEF Heal
<1>13. Good(vcache)'
  BY <1>1, <1>4, <1>10, <1>11, <1>12, CacheKept
<1>14. WarmingSound' /\ AskingSound'
  BY <1>1, <1>12, WarmingKept, AskingKept
<1>15. TableTypeOK'
  BY <1>1, <1>12 DEF tableVars, TableTypeOK
<1>16. heal' \in [healthy : BOOLEAN, last : 0 .. MaxTime]
  <2>1. 0 \in 0 .. MaxTime
    BY TableAssumption
  <2> QED BY <2>1 DEF Heal, Healthy
<1> QED BY <1>12, <1>13, <1>14, <1>15, <1>16 DEF ApprovalInv

(* The warmer caches a row it has read not long ago.                       *)
LEMMA WarmSetStep ==
  ASSUME ApprovalInv, NEW l \in Licences, WarmSet(l)
  PROVE  ApprovalInv'
<1>1. /\ TableTypeOK /\ now \in 0 .. MaxTime /\ Good(vcache) /\ WarmingSound /\ AskingSound
      /\ l \in warming.todo
  BY DEF ApprovalInv, WarmSet, TableTypeOK
<1>2. warming \in [todo : SUBSET Licences, edited : SUBSET Licences, at : 0 .. MaxTime]
  BY <1>1 DEF WarmingSound
<1> DEFINE late == lic[l].exp < warming.at
           edited == l \in warming.edited \cup editing
           v == [readAt |-> warming.at, by |-> "warmer", late |-> late,
                 edited |-> edited, renewed |-> FALSE]
<1>3. late \in BOOLEAN
  <2>1. warming.at \in 0 .. MaxTime
    BY <1>2
  <2>2. warming.at \in Nat
    BY <2>1, TableAssumption
  <2>3. lic[l].exp \in Nat
    BY <1>1, TableRow
  <2> QED BY <2>2, <2>3
<1>4. edited \in BOOLEAN
  OBVIOUS
<1>5. l \in editing => edited
  OBVIOUS
<1>6. l \in warming.edited => edited
  OBVIOUS
<1>7. vcache' = Stored(vcache, l, v)
  BY DEF WarmSet
<1> HIDE DEF late, edited
<1>8. /\ v \in Approval /\ v.readAt = warming.at /\ v.by = "warmer"
      /\ v.edited = edited
  BY <1>2, <1>3, <1>4 DEF Approval
<1> HIDE DEF v
<1>9. Recent(v, now + ValTTL)
  <2>1. now <= warming.at + MaxWarm
    BY <1>1 DEF WarmingSound
  <2>2. now \in Nat /\ warming.at \in Nat /\ MaxWarm \in Nat /\ ValTTL \in Nat
    BY <1>1, <1>2, TableAssumption, ApprovalAssumption
  <2>3. now + ValTTL <= warming.at + ValTTL + MaxWarm
    BY <2>1, <2>2
  <2> QED BY <1>8, <2>3 DEF Recent, Delay
<1>10. Explained(l, v) /\ (l \in editing => v.edited)
  BY <1>1, <1>5, <1>6, <1>8 DEF Explained, WarmingSound
<1>11. PICK c : c = Stored(vcache, l, v)
  OBVIOUS
<1>12. Good(c)
  BY <1>1, <1>2, <1>8, <1>9, <1>10, <1>11, StoredGood
<1>13. UNCHANGED tableVars /\ UNCHANGED <<heal, asking, editing>>
  BY DEF WarmSet
<1>14. Good(vcache)'
  BY <1>1, <1>7, <1>11, <1>12, <1>13, CacheKept
<1>15. /\ warming' \in [todo : SUBSET Licences, edited : SUBSET Licences, at : 0 .. MaxTime]
       /\ warming'.todo \subseteq warming.todo
       /\ warming'.todo # {} => warming'.edited = warming.edited /\ warming'.at = warming.at
  <2>1. 0 \in 0 .. MaxTime
    BY TableAssumption
  <2> QED BY <1>2, <2>1 DEF WarmSet, Cold
<1>16. WarmingSound'
  <2>1. ASSUME NEW m \in warming'.todo PROVE (Active(m) \/ Past(m) \/ m \in warming.edited)'
    BY <1>1, <1>13, <1>15 DEF WarmingSound, tableVars, Active, Live, Past
  <2>2. now' = now
    BY <1>13 DEF tableVars
  <2> QED BY <1>1, <1>15, <2>1, <2>2 DEF WarmingSound
<1>17. TableTypeOK'
  BY <1>1, <1>13 DEF tableVars, TableTypeOK
<1>18. AskingSound'
  BY <1>1, <1>13, AskingKept
<1> QED BY <1>13, <1>14, <1>16, <1>17, <1>18 DEF ApprovalInv

(* The warmer begins, gives up, or goes with its process. *)
LEMMA WarmerSteps ==
  ASSUME ApprovalInv, WarmSelect \/ WarmFails \/ Restart
  PROVE  ApprovalInv'
<1>1. /\ TableTypeOK /\ now \in 0 .. MaxTime /\ 0 \in 0 .. MaxTime /\ Good(vcache) /\ AskingSound
      /\ UNCHANGED tableVars /\ asking' \subseteq asking /\ editing' \subseteq editing
      /\ editing' \subseteq Licences
  BY TableAssumption DEF ApprovalInv, WarmSelect, WarmFails, Restart, TableTypeOK
<1>2. TableTypeOK'
  BY <1>1 DEF tableVars, TableTypeOK
<1>3. heal' \in [healthy : BOOLEAN, last : 0 .. MaxTime]
  <2>1. heal' = heal \/ heal' = Healthy
    BY DEF WarmSelect, WarmFails, Restart
  <2>2. heal \in [healthy : BOOLEAN, last : 0 .. MaxTime]
    BY DEF ApprovalInv
  <2>3. Healthy \in [healthy : BOOLEAN, last : 0 .. MaxTime]
    BY <1>1 DEF Healthy
  <2> QED BY <2>1, <2>2, <2>3
<1>4. Good(vcache)'
  <2>1. PICK c : Good(c) /\ vcache' = c
    <3>1. Good(<<>>)
      <4>1. <<>> \in Seq(ApprovalEntry) /\ Len(<<>>) = 0 /\ DOMAIN <<>> = {}
        BY EmptySeq, LenProperties
      <4> QED BY <4>1, ApprovalAssumption DEF Good, Unique, Items
    <3> QED BY <1>1, <3>1 DEF WarmSelect, WarmFails, Restart
  <2> QED BY <1>1, <2>1, CacheKept
<1>5. WarmingSound'
  <2>1. CASE WarmSelect
    <3>1. PICK read \in SUBSET {l \in Licences : Active(l)} :
            warming' = [todo |-> read, edited |-> {}, at |-> now]
      BY <2>1 DEF WarmSelect
    <3>2. now \in Nat /\ MaxWarm \in Nat
      BY <1>1, TableAssumption, ApprovalAssumption
    <3>3. /\ warming' \in [todo : SUBSET Licences, edited : SUBSET Licences, at : 0 .. MaxTime]
          /\ warming'.todo = read /\ warming'.at = now
      BY <1>1, <3>1
    <3>4. \A m \in read : Active(m)'
      BY <1>1 DEF tableVars, Active, Live
    <3>5. now' = now
      BY <1>1 DEF tableVars
    <3> QED BY <3>2, <3>3, <3>4, <3>5 DEF WarmingSound
  <2>2. CASE warming' = Cold
    BY <1>1, <2>2 DEF Cold, WarmingSound
  <2> QED BY <2>1, <2>2 DEF WarmFails, Restart
<1>6. AskingSound'
  BY <1>1, AskingKept
<1> QED BY <1>1, <1>2, <1>3, <1>4, <1>5, <1>6 DEF ApprovalInv

(* The rows change under the cache. *)
LEMMA RowsMoveOn ==
  ASSUME ApprovalInv, (Passes /\ Waits) \/ Turns \/ SoftlyCleaned, UNCHANGED approvalVars
  PROVE  ApprovalInv'
<1>1. /\ TableTypeOK /\ Good(vcache) /\ WarmingSound /\ AskingSound
      /\ UNCHANGED <<vcache, heal, warming, asking, editing>>
  BY DEF ApprovalInv, approvalVars
<1>2. TableTypeOK'
  BY <1>1, TableSteps
<1>3. Good(vcache)'
  <2>1. PICK c : c = vcache
    OBVIOUS
  <2> QED BY <1>1, <2>1, CacheKept
<1>4. WarmingSound' /\ AskingSound'
  BY <1>1, WarmingKept, AskingKept
<1> QED BY <1>1, <1>2, <1>3, <1>4 DEF ApprovalInv

(* A step keeps what the cached approvals rest on.                         *)
LEMMA ApprovalStep ==
  ASSUME ApprovalInv, ApprovalNext
  PROVE  ApprovalInv'
<1>1. CASE \/ ((Passes /\ Waits) \/ Turns) /\ UNCHANGED approvalVars
          \/ Cleanup
  BY <1>1, RowsMoveOn DEF Cleanup
<1>2. ASSUME NEW l \in Licences, Validate(l) \/ HealRefused(l) \/ HealFails(l) \/ HealCached(l)
      PROVE  ApprovalInv'
  BY <1>2, LookupSteps
<1>3. ASSUME NEW l \in Licences, EditFlush(l) \/ EditCommit(l) \/ EditAborts(l)
      PROVE  ApprovalInv'
  BY <1>3, FlushStep, CommitStep
<1>4. ASSUME NEW l \in Licences, Heal(l) PROVE ApprovalInv'
  BY <1>4, HealStep
<1>5. ASSUME NEW l \in Licences, WarmSet(l) PROVE ApprovalInv'
  BY <1>5, WarmSetStep
<1>6. CASE WarmSelect \/ WarmFails \/ Restart
  BY <1>6, WarmerSteps
<1>7. ASSUME NEW r \in Requests, NEW l \in Licences, NEW healing \in BOOLEAN, Ask(r, l, healing)
      PROVE  ApprovalInv'
  BY <1>7, AskStep
<1>8. ASSUME NEW q \in asking, Answer(q) \/ AskFails(q) PROVE ApprovalInv'
  BY <1>8, AnswerStep
<1> QED BY <1>1, <1>2, <1>3, <1>4, <1>5, <1>6, <1>7, <1>8 DEF ApprovalNext

-----------------------------------------------------------------------------
(* The steps of the removal                                                *)

(* What the composed answer says stays accounted for when the rows change, *)
(* if every change of what is active is noted.                             *)
LEMMA ComposedKept ==
  ASSUME RemovalTypes, ComposedSound, TableTypeOK', now <= now', ecache' = ecache,
         \/ Noted
         \/ changed' = changed /\ \A l \in Licences : Active(l)' = Active(l)
  PROVE  ComposedSound'
<1>1. now \in Nat /\ now' \in Nat /\ EntTTL \in Nat /\ MaxLatency \in Nat
  BY TableAssumption, RemovalAssumption DEF RemovalTypes, TableTypeOK
<1>2. ASSUME NEW e \in Items(ecache)
      PROVE  /\ e.exp <= now' + EntTTL
             /\ \A l \in Licences :
                  (l \in e.val) # Active(l)' => e.exp <= changed'[l] + EntTTL + MaxLatency
  <2>1. e \in ComposedEntry
    BY ItemsOfSeq DEF RemovalTypes
  <2>2. e.exp \in 0 .. MaxTime + EntTTL
    BY <2>1 DEF ComposedEntry
  <2>3. e.exp \in Nat
    BY <2>2, TableAssumption, RemovalAssumption
  <2>4. e.exp <= now + EntTTL
    BY DEF ComposedSound
  <2>5. ASSUME NEW l \in Licences, (l \in e.val) # Active(l)'
        PROVE  e.exp <= changed'[l] + EntTTL + MaxLatency
    <3>1. CASE Active(l)' = Active(l)
      <4>1. changed'[l] = changed[l]
        BY <3>1 DEF Noted
      <4> QED BY <2>5, <3>1, <4>1 DEF ComposedSound
    <3>2. CASE Active(l)' # Active(l)
      <4>1. changed'[l] = now
        BY <3>2 DEF Noted
      <4> QED BY <1>1, <2>3, <2>4, <4>1
    <3> QED BY <3>1, <3>2
  <2> QED BY <1>1, <2>3, <2>4, <2>5
<1> QED BY <1>2 DEF ComposedSound

(* So does what a composition under way has read. *)
LEMMA ComposingKept ==
  ASSUME RemovalTypes, ComposingSound, composing' \subseteq composing,
         now' = now \/ (Passes /\ ComposesInTime),
         \/ Noted
         \/ changed' = changed /\ \A l \in Licences : Active(l)' = Active(l)
  PROVE  ComposingSound'
<1>1. now \in Nat /\ MaxLatency \in Nat /\ MaxTime \in Nat
  BY TableAssumption DEF RemovalTypes, TableTypeOK
<1>2. ASSUME NEW q \in composing
      PROVE  /\ q.at <= now' /\ now' <= q.at + MaxLatency
             /\ \A l \in Licences : (l \in q.of) # Active(l)' => q.at <= changed'[l]
  <2>1. q.at \in 0 .. MaxTime
    BY DEF RemovalTypes
  <2>2. q.at <= now /\ now <= q.at + MaxLatency
    BY DEF ComposingSound
  <2>3. q.at <= now' /\ now' <= q.at + MaxLatency
    <3>1. CASE now' = now
      BY <2>2, <3>1
    <3>2. CASE Passes /\ ComposesInTime
      <4>1. now' = now + 1 /\ now < q.at + MaxLatency
        BY <3>2 DEF Passes, ComposesInTime
      <4> QED BY <1>1, <2>1, <2>2, <4>1
    <3> QED BY <3>1, <3>2
  <2>4. ASSUME NEW l \in Licences, (l \in q.of) # Active(l)'
        PROVE  q.at <= changed'[l]
    <3>1. CASE Active(l)' = Active(l)
      <4>1. changed'[l] = changed[l]
        BY <3>1 DEF Noted
      <4> QED BY <2>4, <3>1, <4>1 DEF ComposingSound
    <3>2. CASE Active(l)' # Active(l)
      <4>1. changed'[l] = now
        BY <3>2 DEF Noted
      <4> QED BY <2>2, <4>1
    <3> QED BY <3>1, <3>2
  <2> QED BY <2>3, <2>4
<1> QED BY <1>2 DEF ComposingSound

(* A change that is noted is noted at a time the clock has shown. *)
LEMMA NotedType ==
  ASSUME RemovalTypes, Noted \/ changed' = changed
  PROVE  changed' \in [Licences -> 0 .. MaxTime]
<1>1. now \in 0 .. MaxTime /\ changed \in [Licences -> 0 .. MaxTime]
  BY DEF RemovalTypes, TableTypeOK
<1> QED BY <1>1 DEF Noted

(* The clock, the database and the changes that leave every row there. *)
LEMMA RowsStay ==
  ASSUME RemovalInv,
         \/ ((Passes /\ ComposesInTime) \/ Turns) /\ UNCHANGED changed
         \/ SoftlyCleaned /\ Noted
         \/ \E l \in Licences : (Edited(l) \/ Lapsed(l)) /\ Noted,
         UNCHANGED <<ecache, composing, rows, fk, removed>>
  PROVE  RemovalInv'
<1>1. TableTypeOK' /\ now <= now' /\ \A l \in Licences : lic'[l].here = lic[l].here
  BY TableSteps DEF RemovalInv, RemovalTypes
<1>2. \/ Noted
      \/ changed' = changed /\ \A l \in Licences : Active(l)' = Active(l)
  BY DEF Passes, Turns, Active, Live
<1>3. RemovalTypes'
  <2>1. changed' \in [Licences -> 0 .. MaxTime]
    BY <1>2, NotedType DEF RemovalInv
  <2> QED BY <1>1, <2>1 DEF RemovalInv, RemovalTypes
<1>4. ComposedSound'
  BY <1>1, <1>2, ComposedKept DEF RemovalInv
<1>5. OrphansAreHistory'
  BY <1>1 DEF RemovalInv, OrphansAreHistory
<1>6. ComposingSound'
  <2>1. now' = now \/ (Passes /\ ComposesInTime)
    BY DEF Turns, SoftlyCleaned, Edited, Lapsed
  <2> QED BY <1>2, <2>1, ComposingKept DEF RemovalInv
<1> QED BY <1>3, <1>4, <1>5, <1>6 DEF RemovalInv

(* The cache after a lookup and after a store. *)
LEMMA ComposedStores ==
  ASSUME RemovalTypes, NEW set \in SUBSET Licences
  PROVE  LET e == [key |-> "composed", exp |-> now + EntTTL, val |-> set]
             put == Put(ecache, "composed", set, now + EntTTL, 1)
         IN  /\ LookedUp \in Seq(ComposedEntry) /\ Unique(LookedUp) /\ Len(LookedUp) <= 1
             /\ Items(LookedUp) \subseteq Items(ecache)
             /\ put \in Seq(ComposedEntry) /\ Unique(put) /\ Len(put) <= 1
             /\ \A x \in Items(put) : x = e \/ x \in Items(ecache)
<1> DEFINE e == [key |-> "composed", exp |-> now + EntTTL, val |-> set]
           put == Put(ecache, "composed", set, now + EntTTL, 1)
<1>1. /\ now \in 0 .. MaxTime /\ MaxTime \in Nat /\ EntTTL \in Nat
      /\ ecache \in Seq(ComposedEntry) /\ Unique(ecache) /\ Len(ecache) <= 1
  BY TableAssumption, RemovalAssumption DEF RemovalTypes, TableTypeOK
<1>2. e \in ComposedEntry
  <2>1. now + EntTTL \in 0 .. MaxTime + EntTTL
    BY <1>1
  <2> QED BY <2>1 DEF ComposedEntry
<1>3. /\ LookedUp \in Seq(ComposedEntry) /\ Unique(LookedUp) /\ Len(LookedUp) <= Len(ecache)
      /\ Items(LookedUp) \subseteq Items(ecache)
  BY <1>1, GotProperties DEF LookedUp
<1>4. Len(LookedUp) <= 1
  BY <1>1, <1>3, LenProperties
<1>5. /\ put \in Seq(ComposedEntry) /\ Unique(put) /\ Len(put) <= 1
      /\ \A x \in Items(put) : x = e \/ x \in Items(ecache)
  BY <1>1, <1>2, PutProperties
<1> QED BY <1>3, <1>4, <1>5

(* A composition is served, begins or fails: nothing new is cached. *)
LEMMA ComposeReads ==
  ASSUME RemovalInv,
         \/ ComposeServed
         \/ \E r \in Requests : ComposeRead(r)
         \/ \E q \in composing : ComposeFails(q)
  PROVE  RemovalInv'
<1>1. UNCHANGED <<tableVars, rows, fk, changed, removed>> /\ (ecache' = LookedUp \/ ecache' = ecache)
  BY DEF ComposeServed, ComposeRead, ComposeFails
<1>2. RemovalTypes /\ ComposedSound /\ ComposingSound /\ OrphansAreHistory
  BY DEF RemovalInv
<1>3. /\ ecache' \in Seq(ComposedEntry) /\ Unique(ecache') /\ Len(ecache') <= 1
      /\ Items(ecache') \subseteq Items(ecache)
  <2>1. CASE ecache' = LookedUp
    BY <1>2, <2>1, ComposedStores
  <2>2. CASE ecache' = ecache
    BY <1>2, <2>2 DEF RemovalTypes
  <2> QED BY <1>1, <2>1, <2>2
<1>4. now' = now /\ \A l \in Licences : Active(l)' = Active(l)
  BY <1>1 DEF tableVars, Active, Live
<1>5. now \in 0 .. MaxTime /\ now \in Nat /\ MaxLatency \in Nat
  BY <1>2, TableAssumption DEF RemovalTypes, TableTypeOK
<1>6. /\ composing' \subseteq [by : Requests, of : SUBSET Licences, at : 0 .. MaxTime]
      /\ ComposingSound'
  <2>1. CASE composing' \subseteq composing
    <3>1. ComposingSound'
      BY <1>1, <1>2, <1>4, <2>1, ComposingKept
    <3> QED BY <1>2, <2>1, <3>1 DEF RemovalTypes
  <2>2. ASSUME NEW r \in Requests, ComposeRead(r)
        PROVE  /\ composing' \subseteq [by : Requests, of : SUBSET Licences, at : 0 .. MaxTime]
               /\ ComposingSound'
    <3> DEFINE active == {l \in Licences : Active(l)}
               new == [by |-> r, of |-> active, at |-> now]
    <3>1. composing' = composing \cup {new}
      BY <2>2 DEF ComposeRead
    <3>2. active \in SUBSET Licences /\ \A l \in Licences : l \in active <=> Active(l)
      OBVIOUS
    <3> HIDE DEF active
    <3>3. /\ new \in [by : Requests, of : SUBSET Licences, at : 0 .. MaxTime]
          /\ new.at = now /\ new.of = active
      BY <1>5, <3>2
    <3> HIDE DEF new
    <3>4. ASSUME NEW q \in composing'
          PROVE  /\ q.at <= now /\ now <= q.at + MaxLatency
                 /\ \A l \in Licences : (l \in q.of) # Active(l) => q.at <= changed[l]
      <4>1. CASE q = new
        <5>1. q.at <= now /\ now <= q.at + MaxLatency
          BY <1>5, <3>3, <4>1
        <5>2. \A l \in Licences : (l \in q.of) = Active(l)
          BY <3>2, <3>3, <4>1 DEF Active
        <5> QED BY <5>1, <5>2
      <4>2. CASE q \in composing
        BY <1>2, <4>2 DEF ComposingSound
      <4> QED BY <3>1, <4>1, <4>2
    <3>5. ComposingSound'
      BY <1>1, <1>4, <3>4 DEF ComposingSound
    <3> QED BY <1>2, <3>1, <3>3, <3>5 DEF RemovalTypes
  <2>3. composing' \subseteq composing \/ \E r \in Requests : ComposeRead(r)
    BY DEF ComposeServed, ComposeFails
  <2> QED BY <2>1, <2>2, <2>3
<1>7. TableTypeOK'
  BY <1>1, <1>2 DEF RemovalTypes, tableVars, TableTypeOK
<1>8. RemovalTypes'
  BY <1>1, <1>2, <1>3, <1>6, <1>7 DEF RemovalTypes, Unique
<1>9. ComposedSound'
  BY <1>1, <1>2, <1>3, <1>4 DEF ComposedSound, Items
<1>10. OrphansAreHistory'
  BY <1>1, <1>2 DEF OrphansAreHistory, tableVars
<1> QED BY <1>6, <1>8, <1>9, <1>10 DEF RemovalInv

(* A composition caches what it read not long ago. *)
LEMMA ComposeStep ==
  ASSUME RemovalInv, NEW q \in composing, ComposeStore(q)
  PROVE  RemovalInv'
<1>1. /\ UNCHANGED <<tableVars, rows, fk, changed, removed>> /\ composing' \subseteq composing
      /\ ecache' = Put(ecache, "composed", q.of, now + EntTTL, 1)
  BY DEF ComposeStore
<1>2. RemovalTypes /\ ComposedSound /\ ComposingSound /\ OrphansAreHistory
  BY DEF RemovalInv
<1>3. q.of \in SUBSET Licences /\ q.at \in 0 .. MaxTime
  BY <1>2 DEF RemovalTypes
<1> DEFINE e == [key |-> "composed", exp |-> now + EntTTL, val |-> q.of]
<1>4. /\ ecache' \in Seq(ComposedEntry) /\ Unique(ecache') /\ Len(ecache') <= 1
      /\ \A x \in Items(ecache') : x = e \/ x \in Items(ecache)
  BY <1>1, <1>2, <1>3, ComposedStores
<1>5. e.val = q.of /\ e.exp = now + EntTTL
  OBVIOUS
<1> HIDE DEF e
<1>6. now' = now /\ \A l \in Licences : Active(l)' = Active(l)
  BY <1>1 DEF tableVars, Active, Live
<1>7. /\ now \in Nat /\ MaxLatency \in Nat /\ EntTTL \in Nat /\ q.at \in Nat
      /\ \A l \in Licences : changed[l] \in Nat
  <2>1. MaxTime \in Nat /\ \A l \in Licences : changed[l] \in 0 .. MaxTime
    BY <1>2, TableAssumption DEF RemovalTypes
  <2> QED BY <1>2, <1>3, <2>1, TableAssumption, RemovalAssumption DEF RemovalTypes, TableTypeOK
<1>8. ASSUME NEW x \in Items(ecache')
      PROVE  /\ x.exp <= now + EntTTL
             /\ \A l \in Licences :
                  (l \in x.val) # Active(l) => x.exp <= changed[l] + EntTTL + MaxLatency
  <2>1. CASE x = e
    <3>1. now <= q.at + MaxLatency
      BY <1>2 DEF ComposingSound
    <3>2. ASSUME NEW l \in Licences, (l \in q.of) # Active(l)
          PROVE  now + EntTTL <= changed[l] + EntTTL + MaxLatency
      <4>1. q.at <= changed[l]
        BY <1>2, <3>2 DEF ComposingSound
      <4> QED BY <1>7, <3>1, <4>1
    <3> QED BY <1>5, <1>7, <2>1, <3>2
  <2>2. CASE x \in Items(ecache)
    BY <1>2, <2>2 DEF ComposedSound
  <2> QED BY <1>4, <2>1, <2>2
<1>9. ComposedSound'
  BY <1>1, <1>6, <1>8 DEF ComposedSound, Items
<1>10. ComposingSound'
  BY <1>1, <1>2, <1>6, ComposingKept
<1>11. TableTypeOK'
  BY <1>1, <1>2 DEF RemovalTypes, tableVars, TableTypeOK
<1>12. RemovalTypes'
  BY <1>1, <1>2, <1>4, <1>11 DEF RemovalTypes, Unique
<1>13. OrphansAreHistory'
  BY <1>1, <1>2 DEF OrphansAreHistory, tableVars
<1> QED BY <1>9, <1>10, <1>12, <1>13 DEF RemovalInv

(* A row that is gone has the values it had. *)
LEMMA GoneType ==
  ASSUME TableTypeOK, NEW set \in SUBSET Licences, lic' = Gone(set), UNCHANGED <<now, up>>
  PROVE  TableTypeOK'
<1>1. \A l \in Licences : lic[l] \in Licence /\ [lic[l] EXCEPT !.here = FALSE] \in Licence
  BY DEF TableTypeOK, Licence
<1> QED BY <1>1 DEF Gone, TableTypeOK

(* The row is deleted by the cleanup. *)
LEMMA CleanupStep ==
  ASSUME RemovalInv, CleanupHard
  PROVE  RemovalInv'
<1>1. /\ lic' = Gone(RunOut) /\ UNCHANGED <<now, up, ecache, composing, rows, fk>> /\ Noted
      /\ removed' = [l \in Licences |-> IF l \in RunOut THEN "cleanup" ELSE removed[l]]
      /\ fk => \A l \in RunOut : rows[l] = {}
  BY DEF CleanupHard
<1>2. TableTypeOK'
  <2>1. RunOut \in SUBSET Licences
    BY DEF RunOut
  <2> QED BY <1>1, <2>1, GoneType DEF RemovalInv, RemovalTypes
<1>3. changed' \in [Licences -> 0 .. MaxTime]
  BY <1>1, NotedType DEF RemovalInv
<1>4. removed' \in [Licences -> {"nobody", "processor", "cleanup"}]
  BY <1>1 DEF RemovalInv, RemovalTypes
<1>5. RemovalTypes'
  BY <1>1, <1>2, <1>3, <1>4 DEF RemovalInv, RemovalTypes
<1>6. now <= now'
  BY <1>1, TableAssumption DEF RemovalInv, RemovalTypes, TableTypeOK
<1>7. ComposedSound'
  BY <1>1, <1>2, <1>6, ComposedKept DEF RemovalInv
<1>8. ASSUME NEW l \in Licences, ~lic'[l].here
      PROVE  IF fk THEN rows[l] = {} ELSE "owned" \in rows[l] => removed'[l] = "cleanup"
  <2>1. CASE l \in RunOut
    BY <1>1, <2>1
  <2>2. CASE l \notin RunOut
    <3>1. lic'[l] = lic[l] /\ removed'[l] = removed[l]
      BY <1>1, <2>2 DEF Gone
    <3> QED BY <1>8, <3>1 DEF RemovalInv, OrphansAreHistory
  <2> QED BY <2>1, <2>2
<1>9. OrphansAreHistory'
  BY <1>1, <1>8 DEF OrphansAreHistory
<1>10. ComposingSound'
  BY <1>1, ComposingKept DEF RemovalInv
<1> QED BY <1>5, <1>7, <1>9, <1>10 DEF RemovalInv

(* The processor deletes rows that are composed no more, with what they own. *)
LEMMA HardDeleteStep ==
  ASSUME RemovalInv, HardDelete
  PROVE  RemovalInv'
<1>1. PICK b \in SUBSET Eligible :
        /\ fk => \A l \in b : "history" \notin rows[l]
        /\ lic' = Gone(b) /\ rows' = RowsAfter(b)
        /\ removed' = [l \in Licences |-> IF l \in b THEN "processor" ELSE removed[l]]
  BY DEF HardDelete, Batches
<1>2. UNCHANGED <<now, up, ecache, composing, fk, changed>>
  BY DEF HardDelete
<1>3. b \subseteq Licences
  BY DEF Eligible
<1>4. TableTypeOK'
  BY <1>1, <1>2, <1>3, GoneType DEF RemovalInv, RemovalTypes
<1>5. RemovalTypes'
  <2>1. rows' \in [Licences -> SUBSET Kinds]
    BY <1>1 DEF RemovalInv, RemovalTypes, RowsAfter
  <2>2. removed' \in [Licences -> {"nobody", "processor", "cleanup"}]
    BY <1>1 DEF RemovalInv, RemovalTypes
  <2> QED BY <1>2, <1>4, <2>1, <2>2 DEF RemovalInv, RemovalTypes
<1>6. \A l \in Licences : Active(l)' = Active(l)
  <2>1. ASSUME NEW l \in Licences PROVE Active(l)' = Active(l)
    <3>1. CASE l \in b
      <4>1. lic[l].deleted
        BY <1>1, <3>1 DEF Eligible
      <4>2. lic[l] \in Licence
        BY DEF RemovalInv, RemovalTypes, TableTypeOK
      <4>3. lic'[l] = [lic[l] EXCEPT !.here = FALSE]
        BY <1>1, <3>1 DEF Gone
      <4>4. ~lic'[l].here
        BY <4>2, <4>3 DEF Licence
      <4> QED BY <4>1, <4>4 DEF Active, Live
    <3>2. CASE l \notin b
      <4>1. lic'[l] = lic[l]
        BY <1>1, <3>2 DEF Gone
      <4> QED BY <4>1 DEF Active, Live
    <3> QED BY <3>1, <3>2
  <2> QED BY <2>1
<1>7. now <= now'
  BY <1>2, TableAssumption DEF RemovalInv, RemovalTypes, TableTypeOK
<1>8. ComposedSound'
  BY <1>2, <1>4, <1>6, <1>7, ComposedKept DEF RemovalInv
<1>9. ASSUME NEW l \in Licences, ~lic'[l].here
      PROVE  IF fk THEN rows'[l] = {} ELSE "owned" \in rows'[l] => removed'[l] = "cleanup"
  <2>1. CASE l \in b
    <3>1. rows'[l] = rows[l] \ {"owned"} /\ rows[l] \subseteq Kinds
      BY <1>1, <2>1 DEF RowsAfter, RemovalInv, RemovalTypes
    <3> QED BY <1>1, <2>1, <3>1 DEF Kinds
  <2>2. CASE l \notin b
    <3>1. lic'[l] = lic[l] /\ removed'[l] = removed[l] /\ rows'[l] = rows[l]
      BY <1>1, <2>2 DEF Gone, RowsAfter
    <3> QED BY <1>9, <3>1 DEF RemovalInv, OrphansAreHistory
  <2> QED BY <2>1, <2>2
<1>10. OrphansAreHistory'
  BY <1>2, <1>9 DEF OrphansAreHistory
<1>11. ComposingSound'
  BY <1>2, <1>6, ComposingKept DEF RemovalInv
<1> QED BY <1>5, <1>8, <1>10, <1>11 DEF RemovalInv

(* A step keeps what the composed entitlements and the removals rest on.   *)
LEMMA RemovalStep ==
  ASSUME RemovalInv, RemovalNext
  PROVE  RemovalInv'
<1>1. CASE ((Passes /\ ComposesInTime) \/ Turns) /\ UNCHANGED removalVars
  BY <1>1, RowsStay DEF removalVars
<1>2. CASE CleanupSoft
  BY <1>2, RowsStay DEF CleanupSoft
<1>3. ASSUME NEW l \in Licences, Change(l) PROVE RemovalInv'
  BY <1>3, RowsStay DEF Change
<1>4. CASE ComposeServed \/ (\E r \in Requests : ComposeRead(r)) \/ (\E q \in composing : ComposeFails(q))
  BY <1>4, ComposeReads
<1>7. ASSUME NEW q \in composing, ComposeStore(q) PROVE RemovalInv'
  BY <1>7, ComposeStep
<1>5. CASE CleanupHard
  BY <1>5, CleanupStep
<1>6. CASE HardDelete
  BY <1>6, HardDeleteStep
<1> QED BY <1>1, <1>2, <1>3, <1>4, <1>5, <1>6, <1>7 DEF RemovalNext

-----------------------------------------------------------------------------
(* The invariant                                                           *)

(* A step of one part keeps its own half, and the other half because its   *)
(* stores are empty there.                                                 *)
LEMMA InvStep ==
  ASSUME Inv, Next
  PROVE  Inv'
<1>1. CASE part = "approvals" /\ ApprovalNext /\ UNCHANGED <<part, removalVars>>
  <2>1. ApprovalInv'
    BY <1>1, ApprovalStep DEF Inv
  <2>2. UNCHANGED <<part, ecache, composing, rows, fk, changed, removed>>
    BY <1>1 DEF removalVars
  <2>3. ecache = <<>> /\ composing = {} /\ \A l \in Licences : rows[l] = {}
    BY <1>1 DEF Inv, Parts
  <2>4. RemovalTypes'
    BY <2>1, <2>2 DEF Inv, ApprovalInv, RemovalInv, RemovalTypes, Unique
  <2>5. ComposedSound' /\ ComposingSound'
    BY <2>2, <2>3 DEF ComposedSound, ComposingSound, Items
  <2>6. OrphansAreHistory'
    BY <2>2, <2>3 DEF OrphansAreHistory
  <2>7. Parts'
    BY <1>1, <2>2, <2>3 DEF Parts
  <2> QED BY <2>1, <2>4, <2>5, <2>6, <2>7 DEF Inv, RemovalInv
<1>2. CASE part = "removal" /\ RemovalNext /\ UNCHANGED <<part, approvalVars>>
  <2>1. RemovalInv'
    BY <1>2, RemovalStep DEF Inv
  <2>2. UNCHANGED <<part, vcache, heal, warming, asking, editing>>
    BY <1>2 DEF approvalVars
  <2>3. vcache = <<>> /\ warming.todo = {} /\ asking = {}
    BY <1>2 DEF Inv, Parts
  <2>4. Good(vcache)'
    BY <2>2, <2>3 DEF Inv, ApprovalInv, Good, Items, Unique
  <2>5. WarmingSound' /\ AskingSound'
    BY <2>2, <2>3 DEF Inv, ApprovalInv, WarmingSound, AskingSound
  <2>6. Parts'
    BY <1>2, <2>2, <2>3 DEF Parts
  <2> QED BY <2>1, <2>2, <2>4, <2>5, <2>6 DEF Inv, ApprovalInv, RemovalInv, RemovalTypes
<1> QED BY <1>1, <1>2 DEF Next

(* The caches begin in the inductive invariant.                            *)
LEMMA InvInit ==
  ASSUME Init
  PROVE  Inv
<1>1. 0 \in 0 .. MaxTime
  BY TableAssumption
<1>2. TableTypeOK
  <2>1. ApprovalInit /\ TableInit
    BY DEF Init, ApprovalInit
  <2>2. [here : {TRUE}, status : {"active"}, deleted : {FALSE}, deletedAt : {0}, exp : Expiries]
          \subseteq Licence
    BY <1>1 DEF Licence
  <2>3. lic \in [Licences -> Licence]
    BY <2>1, <2>2 DEF TableInit
  <2> QED BY <1>1, <2>1, <2>3 DEF TableInit, TableTypeOK
<1>3. vcache = <<>> /\ heal = Healthy /\ warming = Cold /\ asking = {} /\ editing = {}
  BY DEF Init, ApprovalInit
<1>4. ApprovalInv
  <2>1. vcache \in Seq(ApprovalEntry) /\ Len(vcache) <= MaxSize /\ DOMAIN vcache = {}
    <3>1. <<>> \in Seq(ApprovalEntry) /\ Len(<<>>) = 0 /\ DOMAIN <<>> = {}
      BY EmptySeq, LenProperties
    <3> QED BY <1>3, <3>1, ApprovalAssumption
  <2>2. Good(vcache)
    BY <2>1 DEF Good, Items, Unique
  <2>3. WarmingSound /\ AskingSound
    BY <1>1, <1>3 DEF WarmingSound, AskingSound, Cold
  <2>4. heal \in [healthy : BOOLEAN, last : 0 .. MaxTime]
    BY <1>1, <1>3 DEF Healthy
  <2> QED BY <1>2, <1>3, <2>2, <2>3, <2>4 DEF ApprovalInv
<1>5. /\ ecache = <<>> /\ composing = {} /\ fk \in BOOLEAN
      /\ changed = [l \in Licences |-> 0] /\ removed = [l \in Licences |-> "nobody"]
      /\ rows \in [Licences -> SUBSET Kinds]
      /\ part \in {"approvals", "removal"}
      /\ part = "approvals" => \A l \in Licences : rows[l] = {}
  BY DEF Init, RemovalInit, Kinds
<1>6. RemovalTypes
  <2>1. ecache \in Seq(ComposedEntry) /\ Len(ecache) <= 1 /\ DOMAIN ecache = {}
    <3>1. <<>> \in Seq(ComposedEntry) /\ Len(<<>>) = 0 /\ DOMAIN <<>> = {}
      BY EmptySeq, LenProperties
    <3> QED BY <1>5, <3>1
  <2> QED BY <1>1, <1>2, <1>5, <2>1 DEF RemovalTypes, Unique
<1>7. ComposedSound /\ ComposingSound
  BY <1>5 DEF ComposedSound, ComposingSound, Items
<1>8. OrphansAreHistory
  <2>1. \A l \in Licences : lic[l].here
    BY DEF Init, ApprovalInit, TableInit
  <2> QED BY <2>1 DEF OrphansAreHistory
<1>9. Parts
  BY <1>3, <1>5 DEF Parts, Cold
<1> QED BY <1>4, <1>6, <1>7, <1>8, <1>9 DEF Inv, RemovalInv

(* The inductive invariant holds in every state.                           *)
LEMMA InvInvariant == Spec => []Inv
<1>1. Inv /\ UNCHANGED vars => Inv'
  <2> SUFFICES ASSUME Inv, UNCHANGED vars PROVE Inv'
    OBVIOUS
  <2>1. /\ UNCHANGED <<now, lic, up, vcache, heal, warming, asking, editing>>
        /\ UNCHANGED <<ecache, composing, rows, fk, changed, removed, part>>
    BY DEF vars, tableVars, removalVars, approvalVars
  <2>2. TableTypeOK'
    BY <2>1 DEF Inv, ApprovalInv, TableTypeOK
  <2>3. \A l \in Licences : Active(l)' = Active(l) /\ Past(l)' = Past(l)
    BY <2>1 DEF Active, Live, Past
  <2>4. Good(vcache)'
    BY <2>1, <2>3 DEF Inv, ApprovalInv, Good, Unique, Items, Sound, Recent, Delay,
                Explained, Active, Live, Past
  <2>5. WarmingSound' /\ AskingSound' /\ editing' \subseteq Licences
    BY <2>1 DEF Inv, ApprovalInv, WarmingSound, AskingSound, Active, Live, Past
  <2>6. RemovalTypes'
    BY <2>1, <2>2 DEF Inv, RemovalInv, RemovalTypes, Unique
  <2>7. ComposedSound' /\ ComposingSound'
    BY <2>1 DEF Inv, RemovalInv, ComposedSound, ComposingSound, Items, Active, Live
  <2>8. OrphansAreHistory' /\ Parts'
    BY <2>1 DEF Inv, RemovalInv, OrphansAreHistory, Parts
  <2> QED BY <2>1, <2>2, <2>4, <2>5, <2>6, <2>7, <2>8 DEF Inv, ApprovalInv, RemovalInv
<1> QED BY <1>1, InvInit, InvStep, PTL DEF Spec

(* An entry that is served is an item of its store. *)
LEMMA ServedItem ==
  ASSUME Inv, NEW l \in Licences, Served(l)
  PROVE  LET e == EntryOf(vcache, l)
         IN  e \in ApprovalEntry /\ Sound(e) /\ e.key = l /\ now <= e.exp
<1> DEFINE e == EntryOf(vcache, l)
<1>1. Good(vcache)
  BY DEF Inv, ApprovalInv
<1>2. e \in Items(vcache) /\ e.key = l /\ now <= e.exp
  BY <1>1, HitProperties DEF Served, Good
<1>3. Items(vcache) \subseteq ApprovalEntry
  BY <1>1, ItemsOfSeq DEF Good
<1> QED BY <1>1, <1>2, <1>3 DEF Good

-----------------------------------------------------------------------------
(* The theorems                                                            *)

(* The variables of both modules keep to the values they may have; the     *)
(* caches keep to their capacity and hold a key once (caching.py:58-131).  *)
THEOREM TypesHold == Spec => []TypeOK
<1>1. Inv => TypeOK
  <2> SUFFICES ASSUME Inv PROVE TypeOK
    OBVIOUS
  <2>1. \A i \in DOMAIN vcache : vcache[i] \in ApprovalEntry
    BY ElementOfSeq, LenProperties DEF Inv, ApprovalInv, Good
  <2>2. \A i \in DOMAIN vcache : /\ vcache[i].key \in Licences
                                 /\ vcache[i].val \in Approval
                                 /\ vcache[i].exp \in 0 .. MaxTime + ValTTL
    BY <2>1 DEF ApprovalEntry
  <2>3. \A i \in DOMAIN ecache : ecache[i] \in ComposedEntry
    BY ElementOfSeq, LenProperties DEF Inv, RemovalInv, RemovalTypes
  <2>4. \A i \in DOMAIN ecache : /\ ecache[i].val \in SUBSET Licences
                                 /\ ecache[i].exp \in 0 .. MaxTime + EntTTL
    BY <2>3 DEF ComposedEntry
  <2>5. ApprovalTypeOK
    BY <2>2 DEF Inv, ApprovalInv, Good, Unique, WarmingSound, AskingSound, ApprovalTypeOK
  <2>6. RemovalTypeOK
    BY <2>4 DEF Inv, RemovalInv, RemovalTypes, RemovalTypeOK
  <2> QED BY <2>5, <2>6 DEF TypeOK
<1> QED BY <1>1, InvInvariant, PTL

(* A cached approval is served for one TTL and the time its component took *)
(* after its row was read, unless a self-healing validation stored it once *)
(* more (self_healing.py:101).                                             *)
THEOREM ApprovalsAreRecent == Spec => []ApprovalIsRecent
<1>1. Inv => ApprovalIsRecent
  <2> SUFFICES ASSUME Inv, NEW l \in Licences, Served(l)
               PROVE  LET v == EntryOf(vcache, l).val
                      IN  now - v.readAt <= ValTTL + Delay(v) \/ v.renewed
    BY DEF ApprovalIsRecent
  <2> DEFINE e == EntryOf(vcache, l)
             slack == Delay(e.val)
  <2>1. e \in ApprovalEntry /\ Sound(e) /\ now <= e.exp
    BY ServedItem
  <2>2. e.val \in Approval /\ e.exp \in 0 .. MaxTime + ValTTL
    BY <2>1 DEF ApprovalEntry
  <2>3. e.val.readAt \in 0 .. MaxTime
    BY <2>2 DEF Approval
  <2>4. MaxTime \in Nat /\ ValTTL \in Nat /\ MaxWarm \in Nat /\ MaxLatency \in Nat
    BY TableAssumption, ApprovalAssumption
  <2>5. now \in Nat
    BY <2>4 DEF Inv, ApprovalInv, TableTypeOK
  <2>6. e.exp <= e.val.readAt + ValTTL + slack \/ e.val.renewed
    BY <2>1 DEF Sound, Recent
  <2>7. e.exp \in Nat /\ e.val.readAt \in Nat /\ slack \in Nat
    BY <2>2, <2>3, <2>4 DEF Delay
  <2> HIDE DEF e, slack
  <2>8. now - e.val.readAt <= ValTTL + slack \/ e.val.renewed
    BY <2>1, <2>4, <2>5, <2>6, <2>7
  <2> QED BY <2>8 DEF e, slack
<1> QED BY <1>1, InvInvariant, PTL

(* Only the warmer caches the approval of a licence that had run out when  *)
(* its row was read (cache_warmer.py:60-86).                               *)
THEOREM LateIsWarmed == Spec => []OnlyWarmerApprovesLate
<1>1. Inv => OnlyWarmerApprovesLate
  BY ServedItem DEF OnlyWarmerApprovesLate, Sound
<1> QED BY <1>1, InvInvariant, PTL

(* An approval that validate_license would now refuse is one the clock ran *)
(* out on, or one that a validation or the warmer had read before an edit  *)
(* committed and cached after the edit had cleared the cache: an edit that *)
(* nothing overlaps leaves no approval (licensing/service.py:320, 353 and  *)
(* 517).                                                                   *)
THEOREM StaleIsExplained == Spec => []StaleApprovalRanOut
<1>1. Inv => StaleApprovalRanOut
  BY ServedItem DEF StaleApprovalRanOut, Sound, Explained, Approvable
<1> QED BY <1>1, InvInvariant, PTL

(* A composed answer is wrong about a licence for one TTL and the latency  *)
(* of a request after the licence's last change and no longer              *)
(* (caching.py:216-236, service.py:585-617).                               *)
THEOREM ComposedIsBounded == Spec => []ComposedCatchesUp
<1>1. Inv => ComposedCatchesUp
  <2> SUFFICES ASSUME Inv, Hit(ecache, "composed", now), NEW l \in Licences,
                      (l \in EntryOf(ecache, "composed").val) # Active(l)
               PROVE  now - changed[l] <= EntTTL + MaxLatency
    BY DEF ComposedCatchesUp, Cached
  <2> DEFINE e == EntryOf(ecache, "composed")
  <2>1. ecache \in Seq(ComposedEntry) /\ Unique(ecache)
    BY DEF Inv, RemovalInv, RemovalTypes
  <2>2. e \in Items(ecache) /\ now <= e.exp
    BY <2>1, HitProperties
  <2>3. e.exp \in 0 .. MaxTime + EntTTL
    <3>1. e \in ComposedEntry
      BY <2>1, <2>2, ItemsOfSeq
    <3> QED BY <3>1 DEF ComposedEntry
  <2>4. e.exp <= changed[l] + EntTTL + MaxLatency
    BY <2>2 DEF Inv, RemovalInv, ComposedSound
  <2>5. MaxTime \in Nat /\ EntTTL \in Nat /\ MaxLatency \in Nat /\ changed[l] \in 0 .. MaxTime /\ now \in 0 .. MaxTime
    BY TableAssumption, RemovalAssumption DEF Inv, RemovalInv, RemovalTypes, TableTypeOK
  <2> HIDE DEF e
  <2> QED BY <2>2, <2>3, <2>4, <2>5
<1> QED BY <1>1, InvInvariant, PTL

(* With foreign keys enforced no row outlives its licence; without, the    *)
(* hard-delete processor leaves usage records and anomalies, and only the  *)
(* cleanup's HARD_DELETE policy leaves the rows a licence owns.            *)
THEOREM OrphansAreExplained == Spec => []OrphansAreHistory
<1>1. Inv => OrphansAreHistory
  BY DEF Inv, RemovalInv
<1> QED BY <1>1, InvInvariant, PTL
=============================================================================
