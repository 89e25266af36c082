-------------------------------- MODULE Lists --------------------------------
(***************************************************************************)
(* The code's lists and ordered dictionaries as sequences.  TTLCache of    *)
(* common/caching.py is a sequence of entries, the least recently used     *)
(* one first.  An entry is served up to and including the tick `exp'       *)
(* (time.monotonic() > expires_at drops it).  A lookup moves the entry to  *)
(* the end and leaves its expiry alone; a store moves it to the end and    *)
(* gives it a new expiry.                                                  *)
(***************************************************************************)
EXTENDS Naturals, Sequences

(* [x for x in s if x in wanted] *)
Kept(s, wanted) ==
  LET kept[i \in 0 .. Len(s)] ==
        IF i = 0 THEN <<>>
        ELSE IF s[i] \in wanted THEN Append(kept[i - 1], s[i]) ELSE kept[i - 1]
  IN kept[Len(s)]

(* sum(s) *)
SumOf(s) == LET sum[i \in 0 .. Len(s)] == IF i = 0 THEN 0 ELSE sum[i - 1] + s[i] IN sum[Len(s)]

(* s[-n:], or deque(s, maxlen=n) *)
LastOf(s, n) == SubSeq(s, IF Len(s) > n THEN Len(s) - n + 1 ELSE 1, Len(s))

(* The lists of a list one after the other. *)
Joined(s) == LET all[i \in 0 .. Len(s)] == IF i = 0 THEN <<>> ELSE all[i - 1] \o s[i] IN all[Len(s)]

KeysOf(s) == {s[i].key : i \in DOMAIN s}

(* A key has one entry at most. *)
Without(s, k) ==
  IF k \notin KeysOf(s) THEN s
  ELSE [i \in 1 .. Len(s) - 1 |-> IF \A j \in 1 .. i : s[j].key # k THEN s[i] ELSE s[i + 1]]

Hit(s, k, t) == \E i \in DOMAIN s : s[i].key = k /\ t <= s[i].exp

EntryOf(s, k) == s[CHOOSE i \in DOMAIN s : s[i].key = k]

(* The store after get: an expired entry is deleted on access. *)
Got(s, k, t) ==
  IF Hit(s, k, t) THEN Append(Without(s, k), EntryOf(s, k)) ELSE Without(s, k)

PutUncut(s, k, v, exp, max) == Append(Without(s, k), [key |-> k, exp |-> exp, val |-> v])

(* The store after set: the oldest entries go while there are more than max. *)
Put(s, k, v, exp, max) ==
  LET new == Append(Without(s, k), [key |-> k, exp |-> exp, val |-> v])
      cut == IF Len(new) > max THEN Len(new) - max ELSE 0
  IN SubSeq(new, cut + 1, Len(new))
=============================================================================
