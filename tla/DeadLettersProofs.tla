-------------------------- MODULE DeadLettersProofs --------------------------
(***************************************************************************)
(* Proofs about DeadLetters: the queue and the table agree on what has     *)
(* been given up, for every number of deliveries, replays and retries and  *)
(* every size of the queue.                                                *)
(*                                                                         *)
(* The properties are not inductive.  They rest on what a pass may rely on *)
(* while it is open, whoever writes its rows: none of them is given up in  *)
(* the table, and no replay is between its read and its mark on one of     *)
(* them, unless the delivery is raced.                                     *)
(***************************************************************************)
EXTENDS DeadLetters, SequenceTheorems, WellFoundedInduction, TLAPS

(* No two entries of one delivery. *)
Distinct(q) == \A i, j \in DOMAIN q : q[i].id = q[j].id => i = j

(* A pass read failed rows; those it has not dealt with are as it read     *)
(* them.                                                                   *)
Batch ==
  /\ pass.todo \subseteq pass.batch
  /\ \A d \in pass.batch : pass.read[d].status = "failed"
  /\ \A d \in pass.todo : pass.new[d] = pass.read[d]

(* A replay is about one delivery. *)
Single == \A r \in Replays : \A d, e \in replay[r].id : d = e

(* Nobody gives up a row that a pass holds. *)
Kept == \A d \in pass.batch : row[d].status # "dead_letter"

(* A replay that has read its row is not about one a pass holds; the row   *)
(* is not given up when it commits and when it marks the entry.            *)
Apart ==
  \A r \in Replays : \A d \in replay[r].id \ raced :
    replay[r].pc \in {"write", "mark"} =>
      /\ d \notin pass.batch
      /\ \/ row[d].status # "dead_letter"
         \/ replay[r].pc = "write" /\ "status" \in replay[r].sets

(* What a pass has entered waits in the queue or is lost. *)
EnteredWaits == Entered \ raced \subseteq Waiting(queue) \cup lost

(* The inductive invariant. *)
Inv ==
  /\ TypeOK /\ Batch /\ Single /\ Kept /\ Apart /\ EnteredWaits
  /\ DeadIsReplayableUnlessRaced /\ EntryIsDeadUnlessTaken

-----------------------------------------------------------------------------
(* The queue                                                               *)

(* Removing a delivery removes its entry and keeps the others as they are. *)
LEMMA WithoutProperties ==
  ASSUME NEW q \in Seq(Entry), Distinct(q), NEW d
  PROVE  /\ Without(d, q) \in Seq(Entry) /\ Distinct(Without(d, q))
         /\ Ids(Without(d, q)) = Ids(q) \ {d}
         /\ Waiting(Without(d, q)) = Waiting(q) \ {d}
         /\ Len(Without(d, q)) = IF d \in Ids(q) THEN Len(q) - 1 ELSE Len(q)
<1>0. Len(q) \in Nat /\ DOMAIN q = 1 .. Len(q)
  BY LenProperties
<1>1. CASE d \notin Ids(q)
  <2>1. Without(d, q) = q
    BY <1>1 DEF Without
  <2>2. Ids(q) = Ids(q) \ {d} /\ Waiting(q) = Waiting(q) \ {d}
    BY <1>1 DEF Ids, Waiting
  <2> QED BY <1>1, <2>1, <2>2
<1>2. CASE d \in Ids(q)
  <2> DEFINE w == [i \in 1 .. Len(q) - 1 |-> IF \A j \in 1 .. i : q[j].id # d THEN q[i] ELSE q[i + 1]]
  <2>1. Without(d, q) = w
    BY <1>2 DEF Without
  <2>2. PICK k \in 1 .. Len(q) : q[k].id = d
    BY <1>0, <1>2 DEF Ids
  <2>3. \A j \in 1 .. Len(q) : q[j].id = d <=> j = k
    BY <1>0, <2>2 DEF Distinct
  <2>4. \A i \in 1 .. Len(q) - 1 : w[i] = q[IF i < k THEN i ELSE i + 1]
    <3> SUFFICES ASSUME NEW i \in 1 .. Len(q) - 1
                 PROVE  w[i] = q[IF i < k THEN i ELSE i + 1]
      OBVIOUS
    <3>1. (\A j \in 1 .. i : q[j].id # d) <=> i < k
      BY <1>0, <2>3
    <3> QED BY <3>1
  <2>5. DOMAIN w = 1 .. Len(q) - 1
    OBVIOUS
  <2>6. w \in [1 .. Len(q) - 1 -> Entry]
    BY <1>0, <2>4, ElementOfSeq
  <2>7. w \in Seq(Entry) /\ Len(w) = Len(q) - 1
    BY <1>0, <2>2, <2>6, LenProperties
  <2> HIDE DEF w
  <2>8. \A i \in DOMAIN w : \E j \in 1 .. Len(q) : j # k /\ w[i] = q[j]
    BY <1>0, <2>4, <2>5
  <2>9. \A j \in 1 .. Len(q) : j # k => \E i \in DOMAIN w : w[i] = q[j]
    <3> SUFFICES ASSUME NEW j \in 1 .. Len(q), j # k
                 PROVE  \E i \in DOMAIN w : w[i] = q[j]
      OBVIOUS
    <3>1. CASE j < k
      BY <1>0, <2>4, <2>5, <3>1
    <3>2. CASE j > k
      <4>1. j - 1 \in DOMAIN w /\ w[j - 1] = q[j]
        BY <1>0, <2>4, <2>5, <3>2
      <4> QED BY <4>1
    <3> QED BY <3>1, <3>2
  <2>10. Distinct(w)
    <3> SUFFICES ASSUME NEW i \in DOMAIN w, NEW j \in DOMAIN w, w[i].id = w[j].id
                 PROVE  i = j
      BY DEF Distinct
    <3> DEFINE a == IF i < k THEN i ELSE i + 1
               b == IF j < k THEN j ELSE j + 1
    <3>1. a \in 1 .. Len(q) /\ b \in 1 .. Len(q) /\ w[i] = q[a] /\ w[j] = q[b]
      BY <1>0, <2>4, <2>5
    <3>2. a = b
      BY <1>0, <3>1 DEF Distinct
    <3> QED BY <1>0, <2>5, <3>2
  <2>11. Ids(w) = Ids(q) \ {d}
    <3>1. \A e : e \in Ids(w) <=> \E j \in 1 .. Len(q) : j # k /\ q[j].id = e
      BY <2>8, <2>9 DEF Ids
    <3>2. \A e : e \in Ids(q) <=> \E j \in 1 .. Len(q) : q[j].id = e
      BY <1>0 DEF Ids
    <3> QED BY <2>3, <3>1, <3>2
  <2>12. Waiting(w) = Waiting(q) \ {d}
    BY <1>0, <2>2, <2>3, <2>8, <2>9 DEF Waiting
  <2> QED BY <1>2, <2>1, <2>7, <2>10, <2>11, <2>12
<1> QED BY <1>1, <1>2

(* A set of positions that is not empty has a first one. *)
LEMMA FirstIsMember ==
  ASSUME NEW s, s \subseteq Nat, s # {}
  PROVE  First(s) \in s
<1> DEFINE below == {p \in Nat \X Nat : p[1] < p[2]}
<1>1. IsWellFoundedOn(below, Nat)
  BY NatLessThanWellFounded DEF OpToRel
<1>2. PICK i \in s : \A j \in s : ~(<<j, i>> \in below)
  BY <1>1, WFMin
<1>3. ASSUME NEW j \in s PROVE i <= j
  <2>1. i \in Nat /\ j \in Nat /\ <<j, i>> \notin below
    BY <1>2
  <2> QED BY <2>1
<1> QED BY <1>3 DEF First

(* The entry that makes room is one of the queue. *)
LEMMA OldestIsEntered ==
  ASSUME NEW q \in Seq(Entry), q # <<>>
  PROVE  Oldest(q) \in Ids(q)
<1> DEFINE waiting == {i \in DOMAIN q : ~q[i].replayed}
<1>1. Len(q) \in Nat \ {0} /\ DOMAIN q = 1 .. Len(q)
  BY EmptySeq, LenProperties
<1>2. waiting # {} => First(waiting) \in waiting
  <2>1. waiting \subseteq Nat
    BY <1>1
  <2> HIDE DEF waiting
  <2> QED BY <2>1, FirstIsMember
<1>3. (IF waiting = {} THEN 1 ELSE First(waiting)) \in DOMAIN q
  BY <1>1, <1>2
<1> QED BY <1>3 DEF Oldest, Ids

(* The queue q may become n: everything that waited and stays, still does. *)
Keeps(q, n) == Waiting(q) \cap Ids(n) \subseteq Waiting(n)

(* Adding a delivery keeps the bound, makes it wait, and every other entry *)
(* stays as it is or leaves.                                               *)
LEMMA AddProperties ==
  ASSUME NEW q \in Seq(Entry), Distinct(q), Len(q) <= MaxSize, NEW d \in Deliveries
  PROVE  /\ Add(d, q) \in Seq(Entry) /\ Distinct(Add(d, q)) /\ Len(Add(d, q)) <= MaxSize
         /\ Waiting(Add(d, q)) \subseteq Waiting(q) \cup {d}
         /\ d \in Waiting(Add(d, q))
         /\ Keeps(q, Add(d, q))
<1> DEFINE room == IF Len(q) >= MaxSize THEN Without(Oldest(q), q) ELSE q
           rest == Without(d, room)
           new == [id |-> d, replayed |-> FALSE]
           a == Append(rest, new)
<1>1. Len(q) \in Nat /\ MaxSize \in Nat \ {0}
  BY SizesAssumption, LenProperties
<1>2. /\ room \in Seq(Entry) /\ Distinct(room) /\ Len(room) < MaxSize
      /\ Waiting(room) \subseteq Waiting(q) /\ Waiting(q) \cap Ids(room) \subseteq Waiting(room)
  <2>1. CASE Len(q) >= MaxSize
    <3>1. q # <<>>
      BY <1>1, <2>1, EmptySeq
    <3>2. room = Without(Oldest(q), q) /\ Oldest(q) \in Ids(q)
      BY <2>1, <3>1, OldestIsEntered
    <3>3. Len(room) = Len(q) - 1
      BY <3>2, WithoutProperties
    <3>4. Len(room) < MaxSize
      BY <1>1, <3>3
    <3>5. /\ room \in Seq(Entry) /\ Distinct(room) /\ Ids(room) = Ids(q) \ {Oldest(q)}
          /\ Waiting(room) = Waiting(q) \ {Oldest(q)}
      BY <3>2, WithoutProperties
    <3> QED BY <3>4, <3>5
  <2>2. CASE ~(Len(q) >= MaxSize)
    BY <1>1, <2>2
  <2> QED BY <2>1, <2>2
<1> HIDE DEF room
<1>3. /\ rest \in Seq(Entry) /\ Distinct(rest) /\ Len(rest) <= Len(room)
      /\ Ids(rest) = Ids(room) \ {d} /\ Waiting(rest) = Waiting(room) \ {d}
  <2>1. Len(room) \in Nat
    BY <1>2, LenProperties
  <2> QED BY <1>2, <2>1, WithoutProperties
<1> HIDE DEF rest
<1>4. new \in Entry /\ new.id = d /\ new.replayed = FALSE
  BY DEF Entry
<1> HIDE DEF new
<1>5. /\ a \in Seq(Entry) /\ Len(a) = Len(rest) + 1
      /\ \A i \in 1 .. Len(rest) : a[i] = rest[i]
      /\ a[Len(rest) + 1] = new
  BY <1>3, <1>4, AppendProperties
<1>6. Len(rest) \in Nat /\ Len(room) \in Nat /\ DOMAIN rest = 1 .. Len(rest) /\ DOMAIN a = 1 .. Len(rest) + 1
  BY <1>2, <1>3, <1>5, LenProperties
<1>7. Add(d, q) = a
  BY DEF Add, a, rest, room, new
<1> HIDE DEF a
<1>8. Len(a) <= MaxSize
  BY <1>1, <1>2, <1>3, <1>5, <1>6
<1>9. Distinct(a)
  <2>1. \A i \in 1 .. Len(rest) : rest[i].id # d
    BY <1>3, <1>6 DEF Ids
  <2> SUFFICES ASSUME NEW i \in DOMAIN a, NEW j \in DOMAIN a, a[i].id = a[j].id
               PROVE  i = j
    BY DEF Distinct
  <2>2. CASE i \in 1 .. Len(rest) /\ j \in 1 .. Len(rest)
    BY <1>3, <1>5, <1>6, <2>2 DEF Distinct
  <2>3. CASE i = Len(rest) + 1 \/ j = Len(rest) + 1
    BY <1>4, <1>5, <1>6, <2>1, <2>3
  <2> QED BY <1>6, <2>2, <2>3
<1>10. \A e : e \in Ids(a) <=> e \in Ids(rest) \/ e = d
  <2>1. \A e : e \in Ids(a) <=> \E i \in 1 .. Len(rest) + 1 : a[i].id = e
    BY <1>6 DEF Ids
  <2>2. \A e : e \in Ids(rest) <=> \E i \in 1 .. Len(rest) : rest[i].id = e
    BY <1>6 DEF Ids
  <2> QED BY <1>4, <1>5, <1>6, <2>1, <2>2
<1>11. \A e : e \in Waiting(a) <=> e \in Waiting(rest) \/ e = d
  <2>1. \A e : e \in Waiting(a) <=> \E i \in 1 .. Len(rest) + 1 : a[i].id = e /\ ~a[i].replayed
    BY <1>6 DEF Waiting
  <2>2. \A e : e \in Waiting(rest) <=> \E i \in 1 .. Len(rest) : rest[i].id = e /\ ~rest[i].replayed
    BY <1>6 DEF Waiting
  <2> QED BY <1>4, <1>5, <1>6, <2>1, <2>2
<1>12. Waiting(a) \subseteq Waiting(q) \cup {d} /\ d \in Waiting(a)
  BY <1>2, <1>3, <1>11
<1>13. Keeps(q, a)
  BY <1>2, <1>3, <1>10, <1>11 DEF Keeps
<1> QED BY <1>5, <1>7, <1>8, <1>9, <1>12, <1>13

(* A purge keeps the end of the queue. *)
LEMMA PurgeProperties ==
  ASSUME NEW q \in Seq(Entry), Distinct(q), NEW n \in DOMAIN q
  PROVE  /\ SubSeq(q, n + 1, Len(q)) \in Seq(Entry) /\ Distinct(SubSeq(q, n + 1, Len(q)))
         /\ Len(SubSeq(q, n + 1, Len(q))) <= Len(q)
         /\ Waiting(SubSeq(q, n + 1, Len(q))) \subseteq Waiting(q)
         /\ Keeps(q, SubSeq(q, n + 1, Len(q)))
<1> DEFINE s == SubSeq(q, n + 1, Len(q))
<1>1. Len(q) \in Nat /\ DOMAIN q = 1 .. Len(q) /\ n \in 1 .. Len(q)
  BY LenProperties
<1>2. \A i \in n + 1 .. Len(q) : q[i] \in Entry
  BY <1>1, ElementOfSeq
<1>3. /\ s \in Seq(Entry) /\ Len(s) = Len(q) - n
      /\ \A i \in 1 .. Len(q) - n : s[i] = q[n + i]
  <2>1. n + 1 \in Int /\ Len(q) \in Int
    BY <1>1
  <2>2. /\ s \in Seq(Entry)
        /\ Len(s) = IF n + 1 <= Len(q) THEN Len(q) - (n + 1) + 1 ELSE 0
        /\ \A i \in 1 .. Len(q) - (n + 1) + 1 : s[i] = q[n + 1 + i - 1]
    BY <1>2, <2>1, SubSeqProperties
  <2> HIDE DEF s
  <2>3. Len(s) = Len(q) - n
    BY <1>1, <2>2
  <2>4. ASSUME NEW i \in 1 .. Len(q) - n PROVE s[i] = q[n + i]
    <3>1. i \in 1 .. Len(q) - (n + 1) + 1 /\ n + 1 + i - 1 = n + i
      BY <1>1
    <3> QED BY <2>2, <3>1
  <2> QED BY <2>2, <2>3, <2>4
<1> HIDE DEF s
<1>4. DOMAIN s = 1 .. Len(q) - n
  BY <1>3, LenProperties
<1>5. Distinct(s)
  <2> SUFFICES ASSUME NEW i \in DOMAIN s, NEW j \in DOMAIN s, s[i].id = s[j].id
               PROVE  i = j
    BY DEF Distinct
  <2>1. n + i \in DOMAIN q /\ n + j \in DOMAIN q /\ q[n + i].id = q[n + j].id
    BY <1>1, <1>3, <1>4
  <2>2. n + i = n + j
    BY <2>1 DEF Distinct
  <2> QED BY <1>1, <1>4, <2>2
<1>6. Waiting(s) \subseteq Waiting(q)
  <2> SUFFICES ASSUME NEW i \in DOMAIN s, ~s[i].replayed
               PROVE  s[i].id \in Waiting(q)
    BY DEF Waiting
  <2>1. n + i \in DOMAIN q /\ s[i] = q[n + i]
    BY <1>1, <1>3, <1>4
  <2> QED BY <2>1 DEF Waiting
<1>7. Keeps(q, s)
  <2> SUFFICES ASSUME NEW j \in DOMAIN q, ~q[j].replayed, NEW i \in DOMAIN s, s[i].id = q[j].id
               PROVE  s[i].id \in Waiting(s)
    BY DEF Keeps, Waiting, Ids
  <2>1. n + i \in DOMAIN q /\ s[i] = q[n + i]
    BY <1>1, <1>3, <1>4
  <2>2. n + i = j
    BY <2>1 DEF Distinct
  <2> QED BY <2>1, <2>2 DEF Waiting
<1>8. Len(s) <= Len(q)
  BY <1>1, <1>3
<1> QED BY <1>3, <1>5, <1>6, <1>7, <1>8 DEF s

(* Marking entries as replayed stops them waiting and changes nothing else. *)
LEMMA MarkedProperties ==
  ASSUME NEW q \in Seq(Entry), Distinct(q), NEW ids
  PROVE  /\ Marked(q, ids) \in Seq(Entry) /\ Distinct(Marked(q, ids))
         /\ Len(Marked(q, ids)) = Len(q)
         /\ Waiting(Marked(q, ids)) = Waiting(q) \ ids
<1> DEFINE m == Marked(q, ids)
<1>1. Len(q) \in Nat /\ DOMAIN q = 1 .. Len(q) /\ \A i \in DOMAIN q : q[i] \in Entry
  BY LenProperties, ElementOfSeq
<1>2. DOMAIN m = DOMAIN q
  BY DEF Marked
<1>3. \A i \in DOMAIN q : m[i] \in Entry /\ m[i].id = q[i].id
                          /\ (m[i].replayed <=> q[i].replayed \/ q[i].id \in ids)
  <2> SUFFICES ASSUME NEW i \in DOMAIN q
               PROVE  m[i] \in Entry /\ m[i].id = q[i].id
                      /\ (m[i].replayed <=> q[i].replayed \/ q[i].id \in ids)
    OBVIOUS
  <2>1. m[i] = [q[i] EXCEPT !.replayed = @ \/ q[i].id \in ids]
    BY DEF Marked
  <2> QED BY <1>1, <2>1 DEF Entry
<1>4. m \in [1 .. Len(q) -> Entry]
  BY <1>1, <1>2, <1>3 DEF Marked
<1>5. m \in Seq(Entry) /\ Len(m) = Len(q)
  BY <1>1, <1>4, LenProperties
<1> HIDE DEF m
<1>6. Distinct(m)
  BY <1>2, <1>3 DEF Distinct
<1>7. Waiting(m) = Waiting(q) \ ids
  <2>1. \A e : e \in Waiting(m) <=> \E i \in DOMAIN q : m[i].id = e /\ ~m[i].replayed
    BY <1>2 DEF Waiting
  <2>2. \A e : e \in Waiting(q) <=> \E i \in DOMAIN q : q[i].id = e /\ ~q[i].replayed
    BY DEF Waiting
  <2>3. \A e : e \in Waiting(m) <=> e \in Waiting(q) /\ e \notin ids
    BY <1>3, <2>1, <2>2
  <2> QED BY <2>3
<1> QED BY <1>5, <1>6, <1>7 DEF m

-----------------------------------------------------------------------------
(* What the steps leave                                                    *)

(* Nothing that waited or was lost is forgotten when the queue becomes n.  *)
LEMMA BecomeForgetsNothing ==
  ASSUME NEW n, Become(n), Keeps(queue, n)
  PROVE  /\ queue' = n
         /\ Waiting(queue) \cup lost \subseteq Waiting(queue') \cup lost'
         /\ lost' \subseteq Waiting(queue) \cup lost
<1>1. queue' = n /\ lost' = (lost \cup (Waiting(queue) \ Ids(n))) \ Waiting(n)
  BY DEF Become
<1> QED BY <1>1 DEF Keeps

(* Waiting entries are of deliveries. *)
LEMMA WaitingAreDeliveries ==
  ASSUME NEW q \in Seq(Entry)
  PROVE  Waiting(q) \subseteq Deliveries
<1>1. DOMAIN q = 1 .. Len(q)
  BY LenProperties
<1>2. \A i \in DOMAIN q : q[i].id \in Deliveries
  <2>1. \A i \in DOMAIN q : q[i] \in Entry
    BY <1>1, ElementOfSeq
  <2> QED BY <2>1 DEF Entry
<1> QED BY <1>2 DEF Waiting

(* A row after an UPDATE: the status is the new one if the writer changed  *)
(* it and otherwise stays.                                                 *)
LEMMA WrittenColumns ==
  ASSUME NEW old \in Row, NEW new \in Row, NEW snap \in Row
  PROVE  /\ Written(old, new, snap) \in Row
         /\ Written(old, new, snap).status =
              IF new.status # snap.status THEN new.status ELSE old.status
<1> USE DEF Row, Columns
<1> DEFINE w == Written(old, new, snap)
<1>1. w = [status |-> w.status, attempts |-> w.attempts]
  BY DEF Written
<1>2. /\ w.status = IF new.status # snap.status THEN new.status ELSE old.status
      /\ w.attempts = IF new.attempts # snap.attempts THEN new.attempts ELSE old.attempts
  BY DEF Written
<1> HIDE DEF w
<1>3. w \in Row
  BY <1>1, <1>2
<1> QED BY <1>2, <1>3 DEF w

(* A replay resets the columns it found changed. *)
LEMMA ResetColumns ==
  ASSUME NEW old \in Row, NEW r
  PROVE  /\ Reset(r, old) \in Row
         /\ Reset(r, old).status = IF "status" \in replay[r].sets THEN "pending" ELSE old.status
<1> USE DEF Row, Columns
<1> DEFINE w == Reset(r, old)
<1>1. w = [status |-> w.status, attempts |-> w.attempts]
  BY DEF Reset
<1>2. /\ w.status = IF "status" \in replay[r].sets THEN "pending" ELSE old.status
      /\ w.attempts = IF "attempts" \in replay[r].sets THEN 0 ELSE old.attempts
  BY DEF Reset, NewRow
<1> HIDE DEF w
<1>3. w \in Row
  BY <1>1, <1>2, SizesAssumption
<1> QED BY <1>2, <1>3 DEF w

(* Rows and passes to begin with. *)
LEMMA BlankTypes == NewRow \in Row /\ Blank \in [Deliveries -> Row] /\ NoPass \in Pass /\ NoReplay \in Replay
<1>1. NewRow \in Row
  BY SizesAssumption DEF NewRow, Row
<1>2. Blank \in [Deliveries -> Row]
  BY <1>1 DEF Blank
<1> QED BY <1>1, <1>2 DEF NoPass, Pass, NoReplay, Replay

(* The two ways a pass counts an attempt in a row. *)
LEMMA RowEdits ==
  ASSUME NEW n \in Row, n.attempts + 1 <= MaxRetries
  PROVE  /\ [n EXCEPT !.status = "success", !.attempts = @ + 1] \in Row
         /\ [n EXCEPT !.status = "success", !.attempts = @ + 1].status = "success"
         /\ [n EXCEPT !.attempts = @ + 1] \in Row
         /\ [n EXCEPT !.attempts = @ + 1].status = n.status
<1> DEFINE a == n.attempts + 1
<1>1. a \in 0 .. MaxRetries
  BY SizesAssumption DEF Row
<1> HIDE DEF a
<1>2. /\ [n EXCEPT !.status = "success", !.attempts = a] \in Row
      /\ [n EXCEPT !.status = "success", !.attempts = a].status = "success"
      /\ [n EXCEPT !.attempts = a] \in Row
      /\ [n EXCEPT !.attempts = a].status = n.status
  BY <1>1 DEF Row
<1> QED BY <1>2 DEF a

(* A pass deals with one of its deliveries: the row gets a status that is  *)
(* dead_letter exactly when the queue gets an entry.                       *)
Deals(d) == PassGiveUp(d) \/ PassSucceed(d) \/ PassFail(d)

LEMMA PassDeals ==
  ASSUME TypeOK, Batch, NEW d \in Deliveries, Deals(d)
  PROVE  /\ d \in pass.todo
         /\ \E r \in Row :
              /\ Done(d, r)
              /\ IF r.status = "dead_letter" THEN Become(Add(d, queue)) ELSE UNCHANGED <<queue, lost>>
         /\ UNCHANGED <<row, replay, raced, loose>>
<1> DEFINE n == pass.new[d]
<1>1. n \in Row /\ n.attempts \in 0 .. MaxRetries /\ MaxRetries \in Nat
  BY SizesAssumption DEF TypeOK, Pass, Row
<1>2. d \in pass.todo => n.status = "failed"
  BY DEF Batch
<1>3. CASE PassGiveUp(d)
  <2> DEFINE r == [status |-> "dead_letter", attempts |-> n.attempts]
  <2>1. r \in Row /\ r.status = "dead_letter"
    BY <1>1 DEF Row
  <2> QED BY <1>3, <2>1 DEF PassGiveUp, MoveToDlq
<1>4. CASE PassSucceed(d)
  <2> DEFINE r == [n EXCEPT !.status = "success", !.attempts = @ + 1]
  <2>1. n.attempts + 1 <= MaxRetries
    BY <1>1, <1>4 DEF PassSucceed, Tries
  <2>2. r \in Row /\ r.status = "success"
    BY <1>1, <2>1, RowEdits
  <2> QED BY <1>4, <2>2 DEF PassSucceed
<1>5. CASE PassFail(d)
  <2>1. n.attempts + 1 <= MaxRetries
    BY <1>1, <1>5 DEF PassFail, Tries
  <2>2. CASE Tries(d) >= MaxRetries
    <3> DEFINE r == [status |-> "dead_letter", attempts |-> Tries(d)]
    <3>1. r \in Row /\ r.status = "dead_letter"
      BY <1>1, <2>1 DEF Row, Tries
    <3> QED BY <1>5, <2>2, <3>1 DEF PassFail, MoveToDlq
  <2>3. CASE ~(Tries(d) >= MaxRetries)
    <3> DEFINE r == [n EXCEPT !.attempts = @ + 1]
    <3>1. r \in Row /\ r.status = n.status
      BY <1>1, <2>1, RowEdits
    <3> QED BY <1>2, <1>5, <2>3, <3>1 DEF PassFail
  <2> QED BY <2>2, <2>3
<1> QED BY <1>3, <1>4, <1>5 DEF Deals

(* Dealing with d changes the pass at d alone. *)
LEMMA DoneLeaves ==
  ASSUME TypeOK, NEW d \in Deliveries, NEW r \in Row, Done(d, r)
  PROVE  /\ pass' \in Pass
         /\ pass'.batch = pass.batch /\ pass'.todo = pass.todo \ {d} /\ pass'.read = pass.read
         /\ pass'.new[d] = r /\ \A e \in Deliveries \ {d} : pass'.new[e] = pass.new[e]
BY DEF TypeOK, Done, Pass

(* A commit of a pass or of a replay gives rows. *)
LEMMA CommitsLeave ==
  ASSUME TypeOK, Batch, Single
  PROVE  /\ PassCommit => /\ row' \in [Deliveries -> Row]
                          /\ \A d \in Deliveries \ pass.batch : row'[d] = row[d]
                          /\ \A d \in pass.batch :
                               row'[d].status = IF pass.new[d].status # "failed"
                                                THEN pass.new[d].status ELSE row[d].status
         /\ \A r \in Replays : ReplayCommit(r) =>
              /\ row' \in [Deliveries -> Row]
              /\ \A d \in Deliveries \ replay[r].id : row'[d] = row[d]
              /\ \A d \in replay[r].id :
                   row'[d].status = IF "status" \in replay[r].sets THEN "pending" ELSE row[d].status
<1>1. ASSUME PassCommit
      PROVE  /\ row' \in [Deliveries -> Row]
             /\ \A d \in Deliveries \ pass.batch : row'[d] = row[d]
             /\ \A d \in pass.batch :
                  row'[d].status = IF pass.new[d].status # "failed"
                                   THEN pass.new[d].status ELSE row[d].status
  <2>1. pass.batch \subseteq Deliveries /\ \A d \in Deliveries : row[d] \in Row /\ pass.new[d] \in Row /\ pass.read[d] \in Row
    BY DEF TypeOK, Pass
  <2>2. \A d \in Deliveries :
          row'[d] = IF d \in pass.batch THEN Written(row[d], pass.new[d], pass.read[d]) ELSE row[d]
    BY <1>1 DEF PassCommit
  <2>3. \A d \in Deliveries : row'[d] \in Row
    BY <2>1, <2>2, WrittenColumns
  <2>4. row' \in [Deliveries -> Row]
    BY <1>1, <2>3 DEF PassCommit
  <2>5. ASSUME NEW d \in pass.batch
        PROVE  row'[d].status = IF pass.new[d].status # "failed" THEN pass.new[d].status ELSE row[d].status
    <3>1. pass.read[d].status = "failed"
      BY DEF Batch
    <3> QED BY <2>1, <2>2, <3>1, WrittenColumns
  <2> QED BY <2>2, <2>4, <2>5
<1>2. ASSUME NEW r \in Replays, ReplayCommit(r)
      PROVE  /\ row' \in [Deliveries -> Row]
             /\ \A d \in Deliveries \ replay[r].id : row'[d] = row[d]
             /\ \A d \in replay[r].id :
                  row'[d].status = IF "status" \in replay[r].sets THEN "pending" ELSE row[d].status
  <2>1. replay[r].id \subseteq Deliveries /\ \A d \in Deliveries : row[d] \in Row
    BY DEF TypeOK, Replay
  <2>2. \A d \in Deliveries :
          row'[d] = IF d \in replay[r].id THEN Reset(r, row[d]) ELSE row[d]
    BY <1>2 DEF ReplayCommit
  <2>3. \A d \in Deliveries : row'[d] \in Row
    BY <2>1, <2>2, ResetColumns
  <2>4. row' \in [Deliveries -> Row]
    BY <1>2, <2>3 DEF ReplayCommit
  <2>5. ASSUME NEW d \in replay[r].id
        PROVE  row'[d].status = IF "status" \in replay[r].sets THEN "pending" ELSE row[d].status
    BY <2>1, <2>2, <2>5, ResetColumns
  <2> QED BY <2>2, <2>4, <2>5
<1> QED BY <1>1, <1>2

-----------------------------------------------------------------------------
(* The inductive step, one lemma for the actions of each kind              *)

(* A pass begins: the rows it reads are the committed ones, and those that *)
(* a replay has read become raced.                                         *)
LEMMA SelectPreserves ==
  ASSUME Inv, PassSelect
  PROVE  Inv'
<1> USE DEF Inv
<1>1. PICK batch \in SUBSET {d \in Deliveries : MayBeDue(d)}, rows \in [Deliveries -> Row] :
        /\ rows = [d \in Deliveries |-> IF d \in batch THEN row[d] ELSE NewRow]
        /\ pass' = [batch |-> batch, todo |-> batch, read |-> rows, new |-> rows]
        /\ raced' = raced \cup (batch \cap Reading)
  <2>1. PICK batch \in SUBSET {d \in Deliveries : MayBeDue(d)} :
          /\ LET rows == [d \in Deliveries |-> IF d \in batch THEN row[d] ELSE NewRow]
             IN  pass' = [batch |-> batch, todo |-> batch, read |-> rows, new |-> rows]
          /\ raced' = raced \cup (batch \cap Reading)
    BY DEF PassSelect
  <2>2. [d \in Deliveries |-> IF d \in batch THEN row[d] ELSE NewRow] \in [Deliveries -> Row]
    BY BlankTypes DEF TypeOK
  <2> QED BY <2>1, <2>2
<1>2. /\ UNCHANGED <<row, queue, replay, lost, loose>> /\ pass.batch = {}
      /\ batch \subseteq Deliveries /\ \A d \in batch : rows[d] = row[d] /\ row[d].status = "failed"
  BY <1>1 DEF PassSelect, NoPass, MayBeDue
<1>3. /\ pass'.batch = batch /\ pass'.todo = batch /\ pass'.read = rows /\ pass'.new = rows
      /\ pass' \in Pass
  BY <1>1, <1>2 DEF Pass
<1>4. raced' \subseteq Deliveries /\ raced \subseteq raced'
  BY <1>1, <1>2 DEF TypeOK
<1>5. TypeOK'
  BY <1>2, <1>3, <1>4 DEF TypeOK
<1>6. Batch'
  BY <1>2, <1>3 DEF Batch
<1>7. Single' /\ Kept'
  BY <1>2, <1>3 DEF Single, Kept
<1>8. Apart'
  <2> SUFFICES ASSUME NEW r \in Replays, NEW d \in replay[r].id \ raced', replay[r].pc \in {"write", "mark"}
               PROVE  /\ d \notin batch
                      /\ \/ row[d].status # "dead_letter"
                         \/ replay[r].pc = "write" /\ "status" \in replay[r].sets
    BY <1>2, <1>3 DEF Apart
  <2>1. d \in batch => d \in Reading
    BY <1>2 DEF Reading
  <2>2. d \notin batch
    BY <1>1, <2>1
  <2> QED BY <1>4, <2>2 DEF Apart
<1>9. Entered = {} /\ Entered' = {}
  BY <1>2, <1>3 DEF Entered
<1>10. EnteredWaits'
  BY <1>9 DEF EnteredWaits
<1>11. DeadIsReplayableUnlessRaced'
  BY <1>2, <1>4 DEF DeadIsReplayableUnlessRaced
<1>12. EntryIsDeadUnlessTaken'
  BY <1>2, <1>4, <1>9 DEF EntryIsDeadUnlessTaken
<1> QED BY <1>5, <1>6, <1>7, <1>8, <1>10, <1>11, <1>12

(* A pass deals with a delivery. *)
LEMMA DealPreserves ==
  ASSUME Inv, NEW d \in Deliveries, Deals(d)
  PROVE  Inv'
<1> USE DEF Inv
<1>1. PICK r \in Row :
        /\ Done(d, r)
        /\ IF r.status = "dead_letter" THEN Become(Add(d, queue)) ELSE UNCHANGED <<queue, lost>>
  BY PassDeals
<1>2. d \in pass.todo /\ d \in pass.batch /\ pass.new[d].status = "failed" /\ UNCHANGED <<row, replay, raced, loose>>
  BY PassDeals DEF Batch
<1>3. /\ pass' \in Pass
      /\ pass'.batch = pass.batch /\ pass'.todo = pass.todo \ {d} /\ pass'.read = pass.read
      /\ pass'.new[d] = r /\ \A e \in Deliveries \ {d} : pass'.new[e] = pass.new[e]
  BY <1>1, DoneLeaves
<1>4. pass.batch \subseteq Deliveries
  BY DEF TypeOK, Pass
<1>5. queue \in Seq(Entry) /\ Distinct(queue) /\ Len(queue) <= MaxSize /\ lost \subseteq Deliveries
  BY DEF TypeOK, Distinct
<1>6. /\ queue' \in Seq(Entry) /\ Distinct(queue') /\ Len(queue') <= MaxSize
      /\ Waiting(queue') \subseteq Waiting(queue) \cup (IF r.status = "dead_letter" THEN {d} ELSE {})
      /\ r.status = "dead_letter" => d \in Waiting(queue')
      /\ Waiting(queue) \cup lost \subseteq Waiting(queue') \cup lost'
      /\ lost' \subseteq Waiting(queue) \cup lost
  <2>1. CASE r.status = "dead_letter"
    BY <1>1, <1>5, <2>1, AddProperties, BecomeForgetsNothing
  <2>2. CASE r.status # "dead_letter"
    BY <1>1, <1>5, <2>2
  <2> QED BY <2>1, <2>2
<1>7. TypeOK'
  <2>1. lost' \subseteq Deliveries
    BY <1>5, <1>6, WaitingAreDeliveries
  <2> QED BY <1>2, <1>3, <1>6, <2>1 DEF TypeOK, Distinct
<1>8. Batch'
  BY <1>3, <1>4 DEF Batch
<1>9. Single' /\ Kept' /\ Apart'
  BY <1>2, <1>3 DEF Single, Kept, Apart
<1>10. Entered' = IF r.status = "dead_letter" THEN Entered \cup {d} ELSE Entered
  <2>1. \A e \in pass.batch : pass'.new[e].status = "dead_letter" <=>
          \/ pass.new[e].status = "dead_letter"
          \/ e = d /\ r.status = "dead_letter"
    BY <1>2, <1>3, <1>4
  <2>2. Entered' = {e \in pass.batch : pass'.new[e].status = "dead_letter"}
    BY <1>3 DEF Entered
  <2> QED BY <1>2, <2>1, <2>2 DEF Entered
<1>11. EnteredWaits'
  BY <1>2, <1>6, <1>10 DEF EnteredWaits
<1>12. DeadIsReplayableUnlessRaced'
  BY <1>2, <1>6 DEF DeadIsReplayableUnlessRaced
<1>13. EntryIsDeadUnlessTaken'
  BY <1>2, <1>6, <1>10 DEF EntryIsDeadUnlessTaken
<1> QED BY <1>7, <1>8, <1>9, <1>11, <1>12, <1>13

(* Without a pass there is nothing to keep. *)
LEMMA NoPassLeft ==
  ASSUME pass' = NoPass
  PROVE  pass' \in Pass /\ pass'.batch = {} /\ Entered' = {} /\ Batch' /\ Kept' /\ EnteredWaits'
<1>1. pass' \in Pass /\ pass'.batch = {} /\ pass'.todo = {}
  BY BlankTypes DEF NoPass
<1> QED BY <1>1 DEF Entered, Batch, Kept, EnteredWaits

(* A pass commits: the rows get what it decided. *)
LEMMA PassCommitPreserves ==
  ASSUME Inv, PassCommit
  PROVE  Inv'
<1> USE DEF Inv
<1>1. /\ row' \in [Deliveries -> Row]
      /\ \A d \in Deliveries \ pass.batch : row'[d] = row[d]
      /\ \A d \in pass.batch :
           row'[d].status = IF pass.new[d].status # "failed" THEN pass.new[d].status ELSE row[d].status
  BY CommitsLeave
<1>2. pass' = NoPass /\ loose' = loose \ Entered /\ UNCHANGED <<queue, replay, lost, raced>>
  BY DEF PassCommit
<1>3. pass' \in Pass /\ pass'.batch = {} /\ Entered' = {} /\ Batch' /\ Kept' /\ EnteredWaits'
  BY <1>2, NoPassLeft
<1>4. TypeOK'
  BY <1>1, <1>2, <1>3 DEF TypeOK
<1>5. Single'
  BY <1>2 DEF Single
<1>6. Apart'
  <2>1. \A r \in Replays : replay[r].id \subseteq Deliveries
    BY DEF TypeOK, Replay
  <2> QED BY <1>1, <1>2, <1>3, <2>1 DEF Apart
<1>7. \A d \in pass.batch : row[d].status # "dead_letter"
  BY DEF Kept
<1>8. \A d \in Deliveries : row'[d].status = "dead_letter" <=> row[d].status = "dead_letter" \/ d \in Entered
  BY <1>1, <1>7 DEF Entered
<1>9. DeadIsReplayableUnlessRaced'
  BY <1>2, <1>8 DEF DeadIsReplayableUnlessRaced, EnteredWaits
<1>10. EntryIsDeadUnlessTaken'
  <2>1. Waiting(queue) \subseteq Deliveries
    BY WaitingAreDeliveries DEF TypeOK
  <2> QED BY <1>2, <1>8, <2>1 DEF EntryIsDeadUnlessTaken
<1> QED BY <1>3, <1>4, <1>5, <1>6, <1>9, <1>10

(* A pass ends without a commit. *)
LEMMA PassAbortPreserves ==
  ASSUME Inv, PassAbort
  PROVE  Inv'
<1> USE DEF Inv
<1>1. pass' = NoPass /\ loose' = loose \cup Entered /\ UNCHANGED <<row, queue, replay, lost, raced>>
  BY DEF PassAbort
<1>2. pass' \in Pass /\ pass'.batch = {} /\ Entered' = {} /\ Batch' /\ Kept' /\ EnteredWaits'
  BY <1>1, NoPassLeft
<1>3. Entered \subseteq Deliveries
  BY DEF TypeOK, Pass, Entered
<1>4. TypeOK'
  BY <1>1, <1>2, <1>3 DEF TypeOK
<1>5. Single' /\ Apart'
  BY <1>1, <1>2 DEF Single, Apart
<1>6. DeadIsReplayableUnlessRaced' /\ EntryIsDeadUnlessTaken'
  BY <1>1 DEF DeadIsReplayableUnlessRaced, EntryIsDeadUnlessTaken
<1> QED BY <1>2, <1>4, <1>5, <1>6

(* The process restarts: the queue, the pass and the replays are gone. *)
LEMMA RestartPreserves ==
  ASSUME Inv, Restart
  PROVE  Inv'
<1> USE DEF Inv
<1>1. /\ pass' = NoPass /\ loose' = loose \cup Entered /\ UNCHANGED <<row, raced>>
      /\ replay' = [r \in Replays |-> NoReplay] /\ Become(<<>>)
  BY DEF Restart
<1>2. pass' \in Pass /\ pass'.batch = {} /\ Entered' = {} /\ Batch' /\ Kept' /\ EnteredWaits'
  BY <1>1, NoPassLeft
<1>3. Entered \subseteq Deliveries
  BY DEF TypeOK, Pass, Entered
<1>4. <<>> \in Seq(Entry) /\ Len(<<>>) = 0 /\ DOMAIN <<>> = {}
  BY EmptySeq
<1>5. Waiting(<<>>) = {} /\ Ids(<<>>) = {}
  BY <1>4 DEF Waiting, Ids
<1>6. queue' = <<>> /\ Waiting(queue) \cup lost \subseteq lost' /\ lost' \subseteq Waiting(queue) \cup lost
  BY <1>1, <1>5, BecomeForgetsNothing DEF Keeps
<1>7. TypeOK'
  <2>1. lost' \subseteq Deliveries
    BY <1>6, WaitingAreDeliveries DEF TypeOK
  <2>2. replay' \in [Replays -> Replay]
    BY <1>1, BlankTypes
  <2>3. queue' \in Seq(Entry) /\ Len(queue') <= MaxSize /\ \A i, j \in DOMAIN queue' : queue'[i].id = queue'[j].id => i = j
    BY <1>4, <1>6, SizesAssumption
  <2> QED BY <1>1, <1>2, <1>3, <2>1, <2>2, <2>3 DEF TypeOK
<1>8. Single' /\ Apart'
  BY <1>1, <1>2 DEF Single, Apart, NoReplay
<1>9. DeadIsReplayableUnlessRaced' /\ EntryIsDeadUnlessTaken'
  BY <1>1, <1>5, <1>6 DEF DeadIsReplayableUnlessRaced, EntryIsDeadUnlessTaken
<1> QED BY <1>2, <1>7, <1>8, <1>9

(* A purge moves what waited to what is lost. *)
LEMMA PurgePreserves ==
  ASSUME Inv, Purge
  PROVE  Inv'
<1> USE DEF Inv
<1>1. PICK n \in DOMAIN queue : Become(SubSeq(queue, n + 1, Len(queue)))
  BY DEF Purge
<1>2. UNCHANGED <<row, pass, replay, raced, loose>>
  BY DEF Purge
<1>3. queue \in Seq(Entry) /\ Distinct(queue) /\ Len(queue) <= MaxSize /\ Len(queue) \in Nat
  BY LenProperties DEF TypeOK, Distinct
<1>4. /\ queue' \in Seq(Entry) /\ Distinct(queue') /\ Len(queue') <= Len(queue)
      /\ Waiting(queue') \subseteq Waiting(queue)
      /\ Waiting(queue) \cup lost \subseteq Waiting(queue') \cup lost'
      /\ lost' \subseteq Waiting(queue) \cup lost
  <2> DEFINE s == SubSeq(queue, n + 1, Len(queue))
  <2>1. /\ s \in Seq(Entry) /\ Distinct(s) /\ Len(s) <= Len(queue)
        /\ Waiting(s) \subseteq Waiting(queue) /\ Keeps(queue, s)
    BY <1>3, PurgeProperties
  <2>2. Become(s)
    BY <1>1
  <2> HIDE DEF s
  <2> QED BY <2>1, <2>2, BecomeForgetsNothing
<1>5. TypeOK'
  <2>1. lost' \subseteq Deliveries
    BY <1>3, <1>4, WaitingAreDeliveries DEF TypeOK
  <2>2. Len(queue') <= MaxSize
    BY <1>3, <1>4, LenProperties, SizesAssumption
  <2> QED BY <1>2, <1>4, <2>1, <2>2 DEF TypeOK, Distinct
<1>6. Batch' /\ Single' /\ Kept' /\ Apart' /\ Entered' = Entered
  BY <1>2 DEF Batch, Single, Kept, Apart, Entered
<1>7. EnteredWaits' /\ DeadIsReplayableUnlessRaced' /\ EntryIsDeadUnlessTaken'
  BY <1>2, <1>4, <1>6 DEF EnteredWaits, DeadIsReplayableUnlessRaced, EntryIsDeadUnlessTaken
<1> QED BY <1>5, <1>6, <1>7

(* A replay begins, reads its row, or is rolled back. *)
LEMMA ReplayReadsPreserve ==
  ASSUME Inv, NEW r \in Replays,
         (\E d \in Deliveries : ReplayStart(r, d)) \/ ReplayRead(r) \/ ReplayAbort(r)
  PROVE  Inv'
<1> USE DEF Inv
<1> DEFINE Left ==
       /\ replay' \in [Replays -> Replay]
       /\ \A s \in Replays \ {r} : replay'[s] = replay[s]
       /\ replay[r].pc # "mark" /\ replay'[r].pc # "mark"
       /\ \A d, e \in replay'[r].id : d = e
       /\ \A d \in replay'[r].id \ raced' : replay'[r].pc = "write" =>
            /\ d \notin pass.batch
            /\ row[d].status # "dead_letter" \/ "status" \in replay'[r].sets
<1>1. UNCHANGED <<row, queue, pass, lost, loose>> /\ raced \subseteq raced' /\ raced' \subseteq Deliveries
  <2>1. replay[r].id \subseteq Deliveries /\ raced \subseteq Deliveries
    BY DEF TypeOK, Replay
  <2> QED BY <2>1 DEF ReplayStart, ReplayRead, ReplayAbort
<1>2. Left
  <2>1. ASSUME NEW d \in Deliveries, ReplayStart(r, d) PROVE Left
    <3> DEFINE start == [NoReplay EXCEPT !.pc = "read", !.id = {d}]
    <3>1. start \in Replay /\ start.pc = "read" /\ start.id = {d}
      BY BlankTypes DEF NoReplay, Replay
    <3> HIDE DEF start
    <3>2. replay' = [replay EXCEPT ![r] = start] /\ replay[r].pc = "idle"
      BY <2>1 DEF ReplayStart, start
    <3> QED BY <3>1, <3>2 DEF TypeOK
  <2>2. CASE ReplayRead(r)
    <3> DEFINE changed(d) == {c \in Columns : row[d][c] # NewRow[c]}
    <3>1. PICK d \in replay[r].id :
            /\ replay' = [replay EXCEPT ![r].pc = "write", ![r].sets = changed(d)]
            /\ raced' = IF d \in pass.batch THEN raced \cup {d} ELSE raced
      BY <2>2 DEF ReplayRead
    <3>2. /\ d \in Deliveries /\ row[d] \in Row /\ replay[r].pc = "read"
          /\ changed(d) \in SUBSET Columns
          /\ row[d].status = "dead_letter" => "status" \in changed(d)
      BY <2>2 DEF TypeOK, Replay, ReplayRead, Columns, NewRow
    <3> HIDE DEF changed
    <3>3. /\ replay' \in [Replays -> Replay] /\ \A s \in Replays \ {r} : replay'[s] = replay[s]
          /\ replay'[r].pc = "write" /\ replay'[r].id = replay[r].id /\ replay'[r].sets = changed(d)
      BY <3>1, <3>2 DEF TypeOK, Replay
    <3>4. \A e \in replay[r].id : e = d
      BY DEF Single
    <3> QED BY <3>1, <3>2, <3>3, <3>4
  <2>3. CASE ReplayAbort(r)
    <3>1. replay' = [replay EXCEPT ![r] = NoReplay] /\ replay[r].pc # "mark"
      BY <2>3 DEF ReplayAbort
    <3>2. NoReplay.pc = "idle" /\ NoReplay.id = {}
      BY DEF NoReplay
    <3> QED BY <3>1, <3>2, BlankTypes DEF TypeOK
  <2> QED BY <2>1, <2>2, <2>3
<1>3. TypeOK'
  BY <1>1, <1>2 DEF TypeOK
<1>4. Batch' /\ Kept' /\ Entered' = Entered
  BY <1>1 DEF Batch, Kept, Entered
<1>5. Single'
  BY <1>2 DEF Single
<1>6. Apart'
  BY <1>1, <1>2 DEF Apart
<1>7. EnteredWaits' /\ DeadIsReplayableUnlessRaced'
  BY <1>1, <1>4 DEF EnteredWaits, DeadIsReplayableUnlessRaced
<1>8. EntryIsDeadUnlessTaken'
  <2>1. ASSUME NEW d, NEW s \in Replays, replay[s].pc = "mark" /\ d \in replay[s].id
        PROVE  \E t \in Replays : replay'[t].pc = "mark" /\ d \in replay'[t].id
    BY <1>2, <2>1
  <2> QED BY <1>1, <1>4, <2>1 DEF EntryIsDeadUnlessTaken
<1> QED BY <1>3, <1>4, <1>5, <1>6, <1>7, <1>8

(* A replay commits: its row is no longer given up. *)
LEMMA ReplayCommitPreserves ==
  ASSUME Inv, NEW r \in Replays, ReplayCommit(r)
  PROVE  Inv'
<1> USE DEF Inv
<1>1. /\ row' \in [Deliveries -> Row]
      /\ \A d \in Deliveries \ replay[r].id : row'[d] = row[d]
      /\ \A d \in replay[r].id :
           row'[d].status = IF "status" \in replay[r].sets THEN "pending" ELSE row[d].status
  BY CommitsLeave
<1>2. /\ UNCHANGED <<queue, pass, lost, raced, loose>> /\ replay[r].pc = "write"
      /\ replay' = [replay EXCEPT ![r].pc = "mark", ![r].sets = {}]
  BY DEF ReplayCommit
<1>3. /\ replay' \in [Replays -> Replay] /\ \A s \in Replays \ {r} : replay'[s] = replay[s]
      /\ replay'[r].pc = "mark" /\ replay'[r].id = replay[r].id
  BY <1>2 DEF TypeOK, Replay
<1>4. \A s \in Replays : replay[s].id \subseteq Deliveries /\ replay'[s].id = replay[s].id
  BY <1>3 DEF TypeOK, Replay
<1>5. TypeOK'
  BY <1>1, <1>2, <1>3 DEF TypeOK
<1>6. Batch' /\ Single' /\ Entered' = Entered
  BY <1>2, <1>4 DEF Batch, Single, Entered
<1>7. \A d \in replay[r].id \ raced : d \notin pass.batch /\ row'[d].status # "dead_letter"
  BY <1>1, <1>2 DEF Apart
<1>8. Kept'
  <2>1. pass.batch \subseteq Deliveries
    BY DEF TypeOK, Pass
  <2> QED BY <1>1, <1>2, <2>1 DEF Kept
<1>9. \A d \in Deliveries : row'[d].status = "dead_letter" => row[d].status = "dead_letter"
  BY <1>1
<1>10. Apart'
  <2> SUFFICES ASSUME NEW s \in Replays, NEW d \in replay[s].id \ raced, replay'[s].pc \in {"write", "mark"}
               PROVE  /\ d \notin pass.batch
                      /\ \/ row'[d].status # "dead_letter"
                         \/ replay'[s].pc = "write" /\ "status" \in replay'[s].sets
    BY <1>2, <1>4 DEF Apart
  <2>1. CASE s = r
    BY <1>7, <2>1
  <2>2. CASE s # r
    BY <1>3, <1>4, <1>9, <2>2 DEF Apart
  <2> QED BY <2>1, <2>2
<1>11. EnteredWaits' /\ DeadIsReplayableUnlessRaced'
  BY <1>2, <1>6, <1>9 DEF EnteredWaits, DeadIsReplayableUnlessRaced
<1>12. EntryIsDeadUnlessTaken'
  <2> SUFFICES ASSUME NEW d \in Waiting(queue) \ (raced \cup loose)
               PROVE  \/ row'[d].status = "dead_letter" \/ d \in Entered
                      \/ \E s \in Replays : replay'[s].pc = "mark" /\ d \in replay'[s].id
    BY <1>2, <1>6 DEF EntryIsDeadUnlessTaken
  <2>1. CASE d \in replay[r].id
    BY <1>3, <2>1
  <2>2. CASE d \notin replay[r].id
    <3>1. d \in Deliveries
      BY WaitingAreDeliveries DEF TypeOK
    <3>2. row'[d] = row[d]
      BY <1>1, <2>2, <3>1
    <3> QED BY <1>3, <2>2, <3>2 DEF EntryIsDeadUnlessTaken
  <2> QED BY <2>1, <2>2
<1> QED BY <1>5, <1>6, <1>8, <1>10, <1>11, <1>12

(* A replay marks its entry. *)
LEMMA ReplayMarkPreserves ==
  ASSUME Inv, NEW r \in Replays, ReplayMark(r)
  PROVE  Inv'
<1> USE DEF Inv
<1>1. /\ UNCHANGED <<row, pass, lost, raced, loose>> /\ replay[r].pc = "mark"
      /\ queue' = Marked(queue, replay[r].id) /\ replay' = [replay EXCEPT ![r] = NoReplay]
  BY DEF ReplayMark
<1>2. queue \in Seq(Entry) /\ Distinct(queue) /\ Len(queue) <= MaxSize
  BY DEF TypeOK, Distinct
<1>3. /\ queue' \in Seq(Entry) /\ Distinct(queue') /\ Len(queue') <= MaxSize
      /\ Waiting(queue') = Waiting(queue) \ replay[r].id
  BY <1>1, <1>2, MarkedProperties
<1>4. /\ replay' \in [Replays -> Replay] /\ \A s \in Replays \ {r} : replay'[s] = replay[s]
      /\ replay'[r].pc = "idle" /\ replay'[r].id = {}
  BY <1>1, BlankTypes DEF TypeOK, NoReplay
<1>5. TypeOK'
  BY <1>1, <1>3, <1>4 DEF TypeOK, Distinct
<1>6. Batch' /\ Kept' /\ Entered' = Entered
  BY <1>1 DEF Batch, Kept, Entered
<1>7. Single' /\ Apart'
  BY <1>1, <1>4 DEF Single, Apart
<1>8. \A d \in replay[r].id \ raced : d \notin pass.batch /\ row[d].status # "dead_letter"
  BY <1>1 DEF Apart
<1>9. EnteredWaits' /\ DeadIsReplayableUnlessRaced'
  BY <1>1, <1>3, <1>6, <1>8 DEF EnteredWaits, DeadIsReplayableUnlessRaced, Entered
<1>10. EntryIsDeadUnlessTaken'
  BY <1>1, <1>3, <1>4, <1>6 DEF EntryIsDeadUnlessTaken
<1> QED BY <1>5, <1>6, <1>7, <1>9, <1>10

(* The others write any row, and give up none. *)
LEMMA OthersPreserve ==
  ASSUME Inv, NEW d \in Deliveries, Others(d)
  PROVE  Inv'
<1> USE DEF Inv
<1>1. /\ UNCHANGED <<queue, pass, replay, lost, raced>>
      /\ loose' = IF row[d].status = "dead_letter" THEN loose \cup {d} ELSE loose
  BY DEF Others
<1>2. /\ row' \in [Deliveries -> Row] /\ \A e \in Deliveries \ {d} : row'[e] = row[e]
      /\ row'[d].status # "dead_letter"
  <2>0. row \in [Deliveries -> Row] /\ row[d] \in Row /\ MaxRetries \in Nat \ {0}
    BY SizesAssumption DEF TypeOK
  <2>1. PICK r \in Row : row' = [row EXCEPT ![d] = r] /\ r.status # "dead_letter"
    <3>1. CASE row' = [row EXCEPT ![d] = [status |-> "success", attempts |-> 1]]
      <4>1. [status |-> "success", attempts |-> 1] \in Row
        BY <2>0 DEF Row
      <4> QED BY <3>1, <4>1
    <3>2. ASSUME NEW n \in 0 .. MaxRetries, row' = [row EXCEPT ![d] = [status |-> "failed", attempts |-> n]]
          PROVE  \E r \in Row : row' = [row EXCEPT ![d] = r] /\ r.status # "dead_letter"
      <4>1. [status |-> "failed", attempts |-> n] \in Row
        BY <3>2 DEF Row
      <4> QED BY <3>2, <4>1
    <3>3. CASE row' = [row EXCEPT ![d] = NewRow]
      <4>1. NewRow.status # "dead_letter"
        BY DEF NewRow
      <4> QED BY <3>3, <4>1, BlankTypes
    <3> QED BY <3>1, <3>2, <3>3 DEF Others
  <2> QED BY <2>0, <2>1
<1>3. TypeOK'
  BY <1>1, <1>2 DEF TypeOK
<1>4. Batch' /\ Single' /\ Entered' = Entered
  BY <1>1 DEF Batch, Single, Entered
<1>5. \A e \in Deliveries : row'[e].status = "dead_letter" <=> row[e].status = "dead_letter" /\ e # d
  BY <1>2
<1>6. Kept'
  <2>1. pass.batch \subseteq Deliveries
    BY DEF TypeOK, Pass
  <2> QED BY <1>1, <1>5, <2>1 DEF Kept
<1>7. Apart'
  <2>1. \A r \in Replays : replay[r].id \subseteq Deliveries
    BY DEF TypeOK, Replay
  <2> QED BY <1>1, <1>5, <2>1 DEF Apart
<1>8. EnteredWaits' /\ DeadIsReplayableUnlessRaced'
  BY <1>1, <1>4, <1>5 DEF EnteredWaits, DeadIsReplayableUnlessRaced
<1>9. EntryIsDeadUnlessTaken'
  <2>1. Waiting(queue) \subseteq Deliveries
    BY WaitingAreDeliveries DEF TypeOK
  <2> QED BY <1>1, <1>4, <1>5, <2>1 DEF EntryIsDeadUnlessTaken
<1> QED BY <1>3, <1>4, <1>6, <1>7, <1>8, <1>9

-----------------------------------------------------------------------------
(* The inductive invariant holds in every reachable state. *)
LEMMA InvInvariant == Spec => []Inv
<1>1. Init => Inv
  <2> SUFFICES ASSUME Init PROVE Inv
    OBVIOUS
  <2> USE DEF Init
  <2>1. queue \in Seq(Entry) /\ Len(queue) = 0 /\ DOMAIN queue = {}
    BY EmptySeq
  <2>2. row \in [Deliveries -> Row] /\ \A d \in Deliveries : row[d].status = "pending"
    BY BlankTypes DEF NewRow
  <2>3. replay \in [Replays -> Replay] /\ \A r \in Replays : replay[r].pc = "idle" /\ replay[r].id = {}
    BY BlankTypes DEF NoReplay
  <2>4. pass \in Pass /\ pass.batch = {} /\ pass.todo = {}
    BY BlankTypes DEF NoPass
  <2>5. TypeOK
    BY <2>1, <2>2, <2>3, <2>4, SizesAssumption DEF TypeOK
  <2>6. Waiting(queue) = {} /\ Entered = {}
    BY <2>1, <2>4 DEF Waiting, Entered
  <2>7. Batch /\ Single /\ Kept /\ Apart
    BY <2>3, <2>4 DEF Batch, Single, Kept, Apart
  <2>8. EnteredWaits /\ DeadIsReplayableUnlessRaced /\ EntryIsDeadUnlessTaken
    BY <2>2, <2>6 DEF EnteredWaits, DeadIsReplayableUnlessRaced, EntryIsDeadUnlessTaken
  <2> QED BY <2>5, <2>7, <2>8 DEF Inv
<1>2. Inv /\ [Next]_vars => Inv'
  <2> SUFFICES ASSUME Inv, [Next]_vars PROVE Inv'
    OBVIOUS
  <2>1. CASE UNCHANGED vars
    BY <2>1 DEF vars, Inv, TypeOK, Batch, Single, Kept, Apart, EnteredWaits, Entered,
                DeadIsReplayableUnlessRaced, EntryIsDeadUnlessTaken
  <2>2. CASE PassSelect \/ PassCommit \/ PassAbort
    BY <2>2, SelectPreserves, PassCommitPreserves, PassAbortPreserves
  <2>3. ASSUME NEW d \in Deliveries, Deals(d) \/ Others(d) PROVE Inv'
    BY <2>3, DealPreserves, OthersPreserve
  <2>4. ASSUME NEW r \in Replays,
               \/ \E d \in Deliveries : ReplayStart(r, d)
               \/ ReplayRead(r) \/ ReplayCommit(r) \/ ReplayMark(r) \/ ReplayAbort(r)
        PROVE  Inv'
    BY <2>4, ReplayReadsPreserve, ReplayCommitPreserves, ReplayMarkPreserves
  <2>5. CASE Purge \/ Restart
    BY <2>5, PurgePreserves, RestartPreserves
  <2> QED BY <2>1, <2>2, <2>3, <2>4, <2>5 DEF Next, Deals
<1> QED BY <1>1, <1>2, PTL DEF Spec

(* The queue keeps its bound and has one entry for a delivery, and rows,   *)
(* pass and replays keep their types.                                      *)
THEOREM TypesAlwaysHold == Spec => []TypeOK
<1>1. Inv => TypeOK
  BY DEF Inv
<1> QED BY <1>1, InvInvariant, PTL

(* A delivery given up in the table waits for replay, unless its entry was *)
(* evicted, purged or lost, or a replay overlapped a pass.                 *)
THEOREM DeadCanBeReplayed == Spec => []DeadIsReplayableUnlessRaced
<1>1. Inv => DeadIsReplayableUnlessRaced
  BY DEF Inv
<1> QED BY <1>1, InvInvariant, PTL

(* What waits for replay has been given up, unless a pass was cut short,   *)
(* a replay overlapped one, or the sender, the delivery processor or a     *)
(* manual retry has written the row that was given up.                     *)
THEOREM EntriesAreDead == Spec => []EntryIsDeadUnlessTaken
<1>1. Inv => EntryIsDeadUnlessTaken
  BY DEF Inv
<1> QED BY <1>1, InvInvariant, PTL
=============================================================================
