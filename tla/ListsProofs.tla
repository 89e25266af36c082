----------------------------- MODULE ListsProofs -----------------------------
(***************************************************************************)
(* Lemmas about lists, their sums and ordered dictionaries, for every      *)
(* length: what the theorems about the components that keep such lists     *)
(* rest on.                                                                *)
(*                                                                         *)
(* The functions on lists are recursive in the length.  That such a        *)
(* function exists, and what it computes, follows from the naturals being  *)
(* well founded: a set of naturals with 0 and with the successor of each   *)
(* of its elements lacks none, or the least it lacks would have a          *)
(* predecessor (Least, Induction, Recursion).                              *)
(***************************************************************************)
EXTENDS Lists, Integers, SequenceTheorems, FiniteSetTheorems, WellFoundedInduction, TLAPS

(* A set of naturals has a least element: the naturals are well founded. *)
LEMMA Least ==
  ASSUME NEW set, set \subseteq Nat, set # {}
  PROVE  \E l \in set : \A k \in set : l <= k
<1> DEFINE below == {p \in Nat \X Nat : p[1] < p[2]}
<1>1. IsWellFoundedOn(below, Nat)
  BY NatLessThanWellFounded DEF OpToRel
<1>2. PICK l \in set : \A k \in set : ~(<<k, l>> \in below)
  BY <1>1, WFMin
<1>3. ASSUME NEW k \in set PROVE l <= k
  <2>1. l \in Nat /\ k \in Nat /\ <<k, l>> \notin below
    BY <1>2
  <2> QED BY <2>1
<1> QED BY <1>3

(* What holds at 0, and of each number if of the one before it, holds up   *)
(* to N.                                                                   *)
LEMMA Induction ==
  ASSUME NEW N \in Nat, NEW good, 0 \in good,
         \A n \in 1 .. N : n - 1 \in good => n \in good
  PROVE  0 .. N \subseteq good
<1> DEFINE bad == {n \in 0 .. N : n \notin good}
<1> SUFFICES ASSUME bad # {} PROVE FALSE
  OBVIOUS
<1>1. bad \subseteq Nat
  OBVIOUS
<1>2. PICK l \in bad : \A k \in bad : l <= k
  BY <1>1, Least
<1>3. l \in 0 .. N /\ l \notin good
  BY <1>2
<1>4. l \in 1 .. N /\ l - 1 \in 0 .. N
  BY <1>3
<1>5. l - 1 \notin bad
  BY <1>2, <1>4
<1> QED BY <1>3, <1>4, <1>5

(* f begins at x0 and goes on as next says.                                *)
Computed(f, N, x0, next) == f[0] = x0 /\ \A i \in 1 .. N : f[i] = next[<<i, f[i - 1]>>]

(* A function on 0 .. N may be defined by recursion. *)
LEMMA Recursion ==
  ASSUME NEW N \in Nat, NEW X, NEW x0 \in X, NEW next \in [(1 .. N) \X X -> X]
  PROVE  \E f \in [0 .. N -> X] : Computed(f, N, x0, next)
<1> DEFINE upTo(n) == {f \in [0 .. n -> X] : f[0] = x0 /\ \A i \in 1 .. n : f[i] = next[<<i, f[i - 1]>>]}
           good == {n \in 0 .. N : upTo(n) # {}}
<1>1. 0 \in good
  <2>1. [i \in 0 .. 0 |-> x0] \in upTo(0)
    OBVIOUS
  <2> QED BY <2>1
<1>2. ASSUME NEW n \in 1 .. N, n - 1 \in good PROVE n \in good
  <2>1. PICK f \in upTo(n - 1) : TRUE
    BY <1>2
  <2>2. f \in [0 .. n - 1 -> X] /\ f[0] = x0 /\ \A i \in 1 .. n - 1 : f[i] = next[<<i, f[i - 1]>>]
    BY <2>1
  <2> DEFINE g == [i \in 0 .. n |-> IF i = n THEN next[<<n, f[n - 1]>>] ELSE f[i]]
  <2>3. n - 1 \in 0 .. n - 1 /\ f[n - 1] \in X
    BY <2>2
  <2>4. next[<<n, f[n - 1]>>] \in X
    BY <2>3
  <2>5. g \in [0 .. n -> X]
    BY <2>2, <2>4
  <2>6. g[0] = x0
    BY <2>2
  <2>7. \A i \in 0 .. n - 1 : g[i] = f[i]
    OBVIOUS
  <2>8. g[n] = next[<<n, f[n - 1]>>]
    OBVIOUS
  <2> HIDE DEF g
  <2>9. ASSUME NEW i \in 1 .. n PROVE g[i] = next[<<i, g[i - 1]>>]
    <3>1. g[i - 1] = f[i - 1]
      BY <2>7
    <3>2. CASE i = n
      BY <2>8, <3>1, <3>2
    <3>3. CASE i # n
      BY <2>2, <2>7, <3>1, <3>3
    <3> QED BY <3>2, <3>3
  <2>10. g \in upTo(n)
    BY <2>5, <2>6, <2>9
  <2> QED BY <2>10
<1>3. N \in good
  <2> HIDE DEF good
  <2>1. N \in 0 .. N
    OBVIOUS
  <2>2. 0 .. N \subseteq good
    BY <1>1, <1>2, Induction
  <2> QED BY <2>1, <2>2
<1> QED BY <1>3 DEF Computed

-----------------------------------------------------------------------------
(* Lists                                                                   *)

(* The items of a list.                                                    *)
Items(s) == {s[i] : i \in DOMAIN s}

(* An item is at a position. *)
LEMMA ItemsOfSeq ==
  ASSUME NEW E, NEW s \in Seq(E)
  PROVE  /\ Len(s) \in Nat /\ DOMAIN s = 1 .. Len(s) /\ Items(s) \subseteq E
         /\ \A e : e \in Items(s) <=> \E i \in 1 .. Len(s) : s[i] = e
<1>1. Len(s) \in Nat /\ DOMAIN s = 1 .. Len(s)
  BY LenProperties
<1>2. \A i \in 1 .. Len(s) : s[i] \in E
  BY ElementOfSeq
<1> QED BY <1>1, <1>2 DEF Items

(* What Kept has kept after each element. *)
KeptAfter(f, s, wanted) ==
  /\ DOMAIN f = 0 .. Len(s) /\ f[0] = <<>>
  /\ \A i \in 1 .. Len(s) : f[i] = IF s[i] \in wanted THEN Append(f[i - 1], s[i]) ELSE f[i - 1]

(* Kept is the end of a recursion over the list.                           *)
LEMMA KeptByRecursion ==
  ASSUME NEW E, NEW s \in Seq(E), NEW wanted
  PROVE  \E f \in [0 .. Len(s) -> Seq(E)] : KeptAfter(f, s, wanted) /\ Kept(s, wanted) = f[Len(s)]
<1>1. Len(s) \in Nat /\ \A i \in 1 .. Len(s) : s[i] \in E
  BY LenProperties, ElementOfSeq
<1> DEFINE N == Len(s)
           next == [p \in (1 .. N) \X Seq(E) |-> IF s[p[1]] \in wanted THEN Append(p[2], s[p[1]]) ELSE p[2]]
           Is(g) == g = [i \in 0 .. N |-> IF i = 0 THEN <<>>
                         ELSE IF s[i] \in wanted THEN Append(g[i - 1], s[i]) ELSE g[i - 1]]
<1>2. <<>> \in Seq(E)
  BY EmptySeq
<1>3. next \in [(1 .. N) \X Seq(E) -> Seq(E)]
  <2> SUFFICES ASSUME NEW p \in (1 .. N) \X Seq(E)
               PROVE  (IF s[p[1]] \in wanted THEN Append(p[2], s[p[1]]) ELSE p[2]) \in Seq(E)
    OBVIOUS
  <2>1. s[p[1]] \in E /\ p[2] \in Seq(E)
    BY <1>1
  <2> QED BY <2>1, AppendProperties
<1>4. PICK f \in [0 .. N -> Seq(E)] : Computed(f, N, <<>>, next)
  <2>1. N \in Nat
    BY <1>1
  <2> DEFINE X == Seq(E)
  <2> HIDE DEF next, N, X
  <2>2. <<>> \in X /\ next \in [(1 .. N) \X X -> X]
    BY <1>2, <1>3 DEF X
  <2>3. \E f \in [0 .. N -> X] : Computed(f, N, <<>>, next)
    BY <2>1, <2>2, Recursion, Zenon
  <2> QED BY <2>3 DEF X
<1>5. ASSUME NEW i \in 1 .. N
      PROVE  f[i] = IF s[i] \in wanted THEN Append(f[i - 1], s[i]) ELSE f[i - 1]
  <2>1. f[i - 1] \in Seq(E)
    BY <1>1, <1>4
  <2>2. next[<<i, f[i - 1]>>] = IF s[i] \in wanted THEN Append(f[i - 1], s[i]) ELSE f[i - 1]
    BY <2>1
  <2> QED BY <1>4, <2>2 DEF Computed
<1>6. Is(f)
  <2>1. f = [i \in 0 .. N |-> f[i]]
    BY <1>4
  <2>2. \A i \in 0 .. N : f[i] = IF i = 0 THEN <<>>
           ELSE IF s[i] \in wanted THEN Append(f[i - 1], s[i]) ELSE f[i - 1]
    <3> SUFFICES ASSUME NEW i \in 0 .. N
                 PROVE  f[i] = IF i = 0 THEN <<>>
                          ELSE IF s[i] \in wanted THEN Append(f[i - 1], s[i]) ELSE f[i - 1]
      OBVIOUS
    <3>1. CASE i = 0
      BY <1>4, <3>1 DEF Computed
    <3>2. CASE i # 0
      <4>1. i \in 1 .. N
        BY <1>1, <3>2
      <4> HIDE DEF N
      <4> QED BY <1>5, <3>2, <4>1
    <3> QED BY <3>1, <3>2
  <2> QED BY <2>1, <2>2
<1>7. ASSUME NEW g, Is(g) PROVE g = f
  <2>1. DOMAIN g = 0 .. N /\ g[0] = <<>>
    BY <1>1, <1>7
  <2>2. \A i \in 1 .. N : g[i] = IF s[i] \in wanted THEN Append(g[i - 1], s[i]) ELSE g[i - 1]
    <3> SUFFICES ASSUME NEW i \in 1 .. N
                 PROVE  g[i] = IF s[i] \in wanted THEN Append(g[i - 1], s[i]) ELSE g[i - 1]
      OBVIOUS
    <3>1. i \in 0 .. N /\ i # 0
      BY <1>1
    <3> QED BY <1>7, <3>1
  <2> DEFINE good == {n \in 0 .. N : g[n] = f[n]}
  <2>3. 0 \in good
    BY <1>1, <1>4, <2>1 DEF Computed
  <2>4. \A n \in 1 .. N : n - 1 \in good => n \in good
    BY <1>5, <2>2
  <2>5. 0 .. N \subseteq good
    <3> HIDE DEF good
    <3> QED BY <1>1, <2>3, <2>4, Induction
  <2>6. g = [i \in 0 .. N |-> g[i]] /\ f = [i \in 0 .. N |-> f[i]]
    BY <1>4, <1>7
  <2> QED BY <2>5, <2>6
<1>8. (CHOOSE g : Is(g)) = f
  <2> HIDE DEF Is
  <2> QED BY <1>6, <1>7
<1>9. Kept(s, wanted) = f[N]
  BY <1>8 DEF Kept
<1>10. KeptAfter(f, s, wanted)
  BY <1>4, <1>5 DEF KeptAfter, Computed
<1> QED BY <1>9, <1>10

(* Another element at the end is kept there, or is not. *)
LEMMA KeptOfAppend ==
  ASSUME NEW E, NEW s \in Seq(E), NEW e \in E, NEW wanted
  PROVE  Kept(Append(s, e), wanted) = IF e \in wanted THEN Append(Kept(s, wanted), e) ELSE Kept(s, wanted)
<1> DEFINE t == Append(s, e)
           N == Len(s)
<1>1. /\ t \in Seq(E) /\ Len(t) = N + 1 /\ N \in Nat
      /\ \A i \in 1 .. N : t[i] = s[i]
      /\ t[N + 1] = e
  BY AppendProperties, LenProperties
<1> HIDE DEF t
<1>2. PICK f : KeptAfter(f, s, wanted) /\ Kept(s, wanted) = f[N]
  BY KeptByRecursion
<1>3. PICK g : KeptAfter(g, t, wanted) /\ Kept(t, wanted) = g[N + 1]
  BY <1>1, KeptByRecursion
<1> DEFINE good == {n \in 0 .. N : g[n] = f[n]}
<1>4. 0 \in good
  BY <1>1, <1>2, <1>3 DEF KeptAfter
<1>5. ASSUME NEW n \in 1 .. N, n - 1 \in good PROVE n \in good
  <2>1. f[n] = IF s[n] \in wanted THEN Append(f[n - 1], s[n]) ELSE f[n - 1]
    BY <1>2 DEF KeptAfter
  <2>2. n \in 1 .. Len(t) /\ t[n] = s[n]
    BY <1>1
  <2>3. g[n] = IF s[n] \in wanted THEN Append(g[n - 1], s[n]) ELSE g[n - 1]
    BY <1>3, <2>2 DEF KeptAfter
  <2> QED BY <1>5, <2>1, <2>3
<1>6. g[N] = f[N]
  <2> HIDE DEF good
  <2>1. 0 .. N \subseteq good
    BY <1>1, <1>4, <1>5, Induction
  <2> HIDE DEF N
  <2>2. N \in good
    BY <1>1, <2>1
  <2> QED BY <2>2 DEF good
<1>7. N + 1 \in 1 .. Len(t) /\ N + 1 - 1 = N
  BY <1>1
<1>8. g[N + 1] = IF e \in wanted THEN Append(g[N], e) ELSE g[N]
  BY <1>1, <1>3, <1>7 DEF KeptAfter
<1> QED BY <1>2, <1>3, <1>6, <1>8 DEF t

(* What is kept of the first n elements: those wanted, in their order. *)
KeptOfFirst(t, s, wanted, n) ==
  \E at \in [1 .. Len(t) -> 1 .. n] :
    /\ \A i \in 1 .. Len(t) : t[i] = s[at[i]] /\ s[at[i]] \in wanted
    /\ \A i, j \in 1 .. Len(t) : i < j => at[i] < at[j]
    /\ \A m \in 1 .. n : s[m] \in wanted => \E i \in 1 .. Len(t) : at[i] = m

(* By induction on the length: Kept has the wanted items at increasing     *)
(* positions, and no other.                                                *)
LEMMA KeptStepByStep ==
  ASSUME NEW E, NEW s \in Seq(E), NEW wanted
  PROVE  /\ Kept(s, wanted) \in Seq(E) /\ Len(Kept(s, wanted)) <= Len(s)
         /\ KeptOfFirst(Kept(s, wanted), s, wanted, Len(s))
<1> DEFINE N == Len(s)
<1>1. N \in Nat /\ \A i \in 1 .. N : s[i] \in E
  BY LenProperties, ElementOfSeq
<1>2. PICK f \in [0 .. N -> Seq(E)] : KeptAfter(f, s, wanted) /\ Kept(s, wanted) = f[N]
  BY KeptByRecursion
<1> DEFINE good == {n \in 0 .. N : Len(f[n]) <= n /\ KeptOfFirst(f[n], s, wanted, n)}
<1>3. 0 \in good
  <2>1. f[0] = <<>> /\ Len(<<>>) = 0
    BY <1>2, EmptySeq DEF KeptAfter
  <2>2. [i \in 1 .. 0 |-> 0] \in [1 .. 0 -> 1 .. 0]
    OBVIOUS
  <2>3. KeptOfFirst(<<>>, s, wanted, 0)
    BY <2>1, <2>2 DEF KeptOfFirst
  <2> QED BY <1>1, <2>1, <2>3
<1>4. ASSUME NEW n \in 1 .. N, n - 1 \in good PROVE n \in good
  <2> DEFINE t == f[n - 1]
  <2>1. n - 1 \in 0 .. N /\ n - 1 \in Nat /\ n \in Nat /\ n \in 0 .. N
    BY <1>1
  <2>2. t \in Seq(E) /\ Len(t) \in Nat /\ Len(t) <= n - 1 /\ KeptOfFirst(t, s, wanted, n - 1)
    BY <1>2, <1>4, <2>1, LenProperties
  <2>3. f[n] = IF s[n] \in wanted THEN Append(t, s[n]) ELSE t
    BY <1>2 DEF KeptAfter
  <2>4. s[n] \in E
    BY <1>1
  <2> HIDE DEF t
  <2>5. PICK at \in [1 .. Len(t) -> 1 .. n - 1] :
          /\ \A i \in 1 .. Len(t) : t[i] = s[at[i]] /\ s[at[i]] \in wanted
          /\ \A i, j \in 1 .. Len(t) : i < j => at[i] < at[j]
          /\ \A m \in 1 .. n - 1 : s[m] \in wanted => \E i \in 1 .. Len(t) : at[i] = m
    BY <2>2 DEF KeptOfFirst
  <2>6. CASE s[n] \notin wanted
    <3>1. at \in [1 .. Len(t) -> 1 .. n]
      BY <2>1, <2>5
    <3>2. \A m \in 1 .. n : s[m] \in wanted => m \in 1 .. n - 1
      BY <2>1, <2>6
    <3>3. KeptOfFirst(t, s, wanted, n)
      BY <2>5, <3>1, <3>2 DEF KeptOfFirst
    <3> QED BY <2>1, <2>2, <2>3, <2>6, <3>3
  <2>7. CASE s[n] \in wanted
    <3> DEFINE u == Append(t, s[n])
               to == [i \in 1 .. Len(t) + 1 |-> IF i = Len(t) + 1 THEN n ELSE at[i]]
    <3>1. /\ Len(u) = Len(t) + 1 /\ \A i \in 1 .. Len(t) : u[i] = t[i]
          /\ u[Len(t) + 1] = s[n]
      BY <2>2, <2>4, AppendProperties
    <3> HIDE DEF u
    <3>2. /\ \A i \in 1 .. Len(t) : to[i] = at[i] /\ at[i] \in 1 .. n - 1
          /\ to[Len(t) + 1] = n
      BY <2>2, <2>5
    <3>3. to \in [1 .. Len(u) -> 1 .. n]
      BY <2>1, <2>2, <2>5, <3>1
    <3> HIDE DEF to
    <3>4. \A i \in 1 .. Len(u) : i \in 1 .. Len(t) \/ i = Len(t) + 1
      BY <2>2, <3>1
    <3>5. \A i \in 1 .. Len(u) : u[i] = s[to[i]] /\ s[to[i]] \in wanted
      BY <2>5, <2>7, <3>1, <3>2, <3>4
    <3>6. ASSUME NEW i \in 1 .. Len(u), NEW j \in 1 .. Len(u), i < j PROVE to[i] < to[j]
      <4>1. i \in 1 .. Len(t)
        BY <2>2, <3>1, <3>6
      <4>2. CASE j \in 1 .. Len(t)
        BY <2>5, <3>2, <3>6, <4>1, <4>2
      <4>3. CASE j = Len(t) + 1
        BY <2>1, <3>2, <4>1, <4>3
      <4> QED BY <3>4, <4>2, <4>3
    <3>7. ASSUME NEW m \in 1 .. n, s[m] \in wanted PROVE \E i \in 1 .. Len(u) : to[i] = m
      <4>1. CASE m = n
        BY <2>2, <3>1, <3>2, <4>1
      <4>2. CASE m # n
        <5>1. m \in 1 .. n - 1
          BY <2>1, <4>2
        <5>2. PICK i \in 1 .. Len(t) : at[i] = m
          BY <2>5, <3>7, <5>1
        <5>3. i \in 1 .. Len(u) /\ to[i] = m
          BY <2>2, <3>1, <3>2, <5>2
        <5> QED BY <5>3
      <4> QED BY <4>1, <4>2
    <3>8. KeptOfFirst(u, s, wanted, n)
      BY <3>3, <3>5, <3>6, <3>7 DEF KeptOfFirst
    <3>9. Len(u) <= n
      BY <2>1, <2>2, <3>1
    <3> QED BY <2>1, <2>3, <2>7, <3>8, <3>9 DEF u
  <2> QED BY <2>6, <2>7
<1>5. N \in good
  <2> HIDE DEF good
  <2>1. 0 .. N \subseteq good
    BY <1>1, <1>3, <1>4, Induction
  <2> QED BY <1>1, <2>1
<1> QED BY <1>1, <1>2, <1>5

(* One item comes before another. *)
Precedes(s, e, f) == \E i, j \in DOMAIN s : i < j /\ s[i] = e /\ s[j] = f

(* Kept keeps the elements wanted, in their order. *)
LEMMA KeptProperties ==
  ASSUME NEW E, NEW s \in Seq(E), NEW wanted
  PROVE  /\ Kept(s, wanted) \in Seq(E) /\ Len(Kept(s, wanted)) <= Len(s)
         /\ Items(Kept(s, wanted)) = Items(s) \cap wanted
         /\ \A e, f : Precedes(Kept(s, wanted), e, f) => Precedes(s, e, f)
<1> DEFINE t == Kept(s, wanted)
<1>1. /\ t \in Seq(E) /\ Len(t) <= Len(s)
      /\ KeptOfFirst(t, s, wanted, Len(s))
  BY KeptStepByStep
<1> HIDE DEF t
<1>2. DOMAIN s = 1 .. Len(s) /\ DOMAIN t = 1 .. Len(t)
  BY <1>1, LenProperties
<1>3. PICK at \in [1 .. Len(t) -> 1 .. Len(s)] :
        /\ \A i \in 1 .. Len(t) : t[i] = s[at[i]] /\ s[at[i]] \in wanted
        /\ \A i, j \in 1 .. Len(t) : i < j => at[i] < at[j]
        /\ \A m \in 1 .. Len(s) : s[m] \in wanted => \E i \in 1 .. Len(t) : at[i] = m
  BY <1>1 DEF KeptOfFirst
<1>4. \A i \in 1 .. Len(t) : at[i] \in 1 .. Len(s)
  BY <1>3
<1>5. Items(t) = Items(s) \cap wanted
  <2>1. \A e \in Items(t) : e \in Items(s) \cap wanted
    BY <1>2, <1>3, <1>4 DEF Items
  <2>2. \A m \in 1 .. Len(s) : s[m] \in wanted => s[m] \in Items(t)
    BY <1>2, <1>3 DEF Items
  <2>3. \A e \in Items(s) : e \in wanted => e \in Items(t)
    BY <1>2, <2>2 DEF Items
  <2> QED BY <2>1, <2>3
<1>6. ASSUME NEW e, NEW f, Precedes(t, e, f) PROVE Precedes(s, e, f)
  <2>1. PICK i \in 1 .. Len(t), j \in 1 .. Len(t) : i < j /\ t[i] = e /\ t[j] = f
    BY <1>2, <1>6 DEF Precedes
  <2>2. at[i] < at[j] /\ s[at[i]] = e /\ s[at[j]] = f
    BY <1>3, <2>1
  <2> QED BY <1>2, <1>4, <2>2 DEF Precedes
<1> QED BY <1>1, <1>5, <1>6 DEF t

(* No element twice. *)
Once(s) == \A i, j \in DOMAIN s : s[i] = s[j] => i = j

(* Two lists without repetition that share no element make one without     *)
(* repetition.                                                             *)
LEMMA ConcatOnce ==
  ASSUME NEW E, NEW s \in Seq(E), NEW t \in Seq(E), Once(s), Once(t), Items(s) \cap Items(t) = {}
  PROVE  s \o t \in Seq(E) /\ Once(s \o t) /\ Items(s \o t) = Items(s) \cup Items(t)
<1> DEFINE c == s \o t
           m == Len(s)
           n == Len(t)
<1>1. /\ c \in Seq(E) /\ Len(c) = m + n
      /\ \A i \in 1 .. m + n : c[i] = IF i <= m THEN s[i] ELSE t[i - m]
  BY ConcatProperties
<1>2. m \in Nat /\ n \in Nat /\ DOMAIN s = 1 .. m /\ DOMAIN t = 1 .. n /\ DOMAIN c = 1 .. m + n
  BY <1>1, LenProperties
<1> HIDE DEF c, m, n
<1>3. ASSUME NEW i \in 1 .. m + n
      PROVE  (i \in 1 .. m /\ c[i] = s[i] /\ c[i] \in Items(s)) \/ (i - m \in 1 .. n /\ i > m /\ c[i] = t[i - m] /\ c[i] \in Items(t))
  <2>1. CASE i <= m
    <3>1. i \in 1 .. m /\ c[i] = s[i]
      BY <1>1, <1>2, <2>1
    <3> QED BY <1>2, <3>1 DEF Items
  <2>2. CASE ~(i <= m)
    <3>1. i - m \in 1 .. n /\ i > m /\ c[i] = t[i - m]
      BY <1>1, <1>2, <2>2
    <3> QED BY <1>2, <3>1 DEF Items
  <2> QED BY <2>1, <2>2
<1>4. ASSUME NEW i \in 1 .. m + n, NEW j \in 1 .. m + n, c[i] = c[j] PROVE i = j
  <2>1. CASE i \in 1 .. m /\ c[i] = s[i] /\ c[i] \in Items(s)
    <3>1. c[j] \notin Items(t)
      BY <1>4, <2>1
    <3>2. j \in 1 .. m /\ c[j] = s[j]
      BY <1>3, <3>1
    <3> QED BY <1>2, <1>4, <2>1, <3>2 DEF Once
  <2>2. CASE i - m \in 1 .. n /\ c[i] = t[i - m] /\ c[i] \in Items(t)
    <3>1. c[j] \notin Items(s)
      BY <1>4, <2>2
    <3>2. j - m \in 1 .. n /\ c[j] = t[j - m]
      BY <1>3, <3>1
    <3>3. i - m = j - m
      BY <1>2, <1>4, <2>2, <3>2 DEF Once
    <3> QED BY <1>2, <3>3
  <2> QED BY <1>3, <2>1, <2>2
<1>5. \A e \in Items(c) : e \in Items(s) \cup Items(t)
  BY <1>2, <1>3 DEF Items
<1>6. ASSUME NEW e \in Items(s) PROVE e \in Items(c)
  <2>1. PICK i \in 1 .. m : e = s[i]
    BY <1>2 DEF Items
  <2>2. i \in 1 .. m + n /\ c[i] = e
    BY <1>1, <1>2, <2>1
  <2> QED BY <1>2, <2>2 DEF Items
<1>7. ASSUME NEW e \in Items(t) PROVE e \in Items(c)
  <2>1. PICK i \in 1 .. n : e = t[i]
    BY <1>2 DEF Items
  <2> DEFINE k == m + i
  <2>2. k \in 1 .. m + n /\ ~(k <= m) /\ k - m = i
    BY <1>2
  <2> HIDE DEF k
  <2>3. c[k] = e
    BY <1>1, <2>1, <2>2
  <2> QED BY <1>2, <2>2, <2>3 DEF Items
<1> QED BY <1>1, <1>2, <1>4, <1>5, <1>6, <1>7 DEF c, Once

(* What the lists joined so far come to. *)
JoinedAfter(f, s) == f[0] = <<>> /\ \A i \in 1 .. Len(s) : f[i] = f[i - 1] \o s[i]

(* Joined is the end of a recursion over the lists.                        *)
LEMMA JoinedByRecursion ==
  ASSUME NEW E, NEW s \in Seq(Seq(E))
  PROVE  \E f \in [0 .. Len(s) -> Seq(E)] : JoinedAfter(f, s) /\ Joined(s) = f[Len(s)]
<1>1. Len(s) \in Nat /\ \A i \in 1 .. Len(s) : s[i] \in Seq(E)
  BY LenProperties, ElementOfSeq
<1> DEFINE N == Len(s)
           X == Seq(E)
           next == [p \in (1 .. N) \X X |-> p[2] \o s[p[1]]]
           Is(g) == g = [i \in 0 .. N |-> IF i = 0 THEN <<>> ELSE g[i - 1] \o s[i]]
<1>2. <<>> \in X
  BY EmptySeq
<1>3. next \in [(1 .. N) \X X -> X]
  <2> SUFFICES ASSUME NEW p \in (1 .. N) \X X PROVE p[2] \o s[p[1]] \in X
    OBVIOUS
  <2>1. s[p[1]] \in Seq(E) /\ p[2] \in Seq(E)
    BY <1>1
  <2> QED BY <2>1, ConcatProperties
<1>4. PICK f \in [0 .. N -> X] : Computed(f, N, <<>>, next)
  <2>1. N \in Nat
    BY <1>1
  <2>2. <<>> \in X
    BY <1>2
  <2> HIDE DEF next, N, X
  <2>3. next \in [(1 .. N) \X X -> X]
    BY <1>3 DEF X
  <2>4. \E f \in [0 .. N -> X] : Computed(f, N, <<>>, next)
    BY <2>1, <2>2, <2>3, Recursion, Zenon
  <2> QED BY <2>4 DEF X
<1>5. ASSUME NEW i \in 1 .. N PROVE f[i] = f[i - 1] \o s[i]
  <2>1. f[i - 1] \in X
    <3>1. i - 1 \in 0 .. N
      BY <1>1
    <3> HIDE DEF X, N
    <3> QED BY <1>4, <3>1
  <2>2. next[<<i, f[i - 1]>>] = f[i - 1] \o s[i]
    BY <2>1
  <2> QED BY <1>4, <2>2 DEF Computed
<1>6. Is(f)
  <2>1. f = [i \in 0 .. N |-> f[i]]
    BY <1>4
  <2>2. \A i \in 0 .. N : f[i] = IF i = 0 THEN <<>> ELSE f[i - 1] \o s[i]
    <3> SUFFICES ASSUME NEW i \in 0 .. N PROVE f[i] = IF i = 0 THEN <<>> ELSE f[i - 1] \o s[i]
      OBVIOUS
    <3>1. CASE i = 0
      BY <1>4, <3>1 DEF Computed
    <3>2. CASE i # 0
      <4>1. i \in 1 .. N
        BY <1>1, <3>2
      <4> HIDE DEF N
      <4> QED BY <1>5, <3>2, <4>1
    <3> QED BY <3>1, <3>2
  <2> QED BY <2>1, <2>2
<1>7. ASSUME NEW g, Is(g) PROVE g = f
  <2>1. DOMAIN g = 0 .. N /\ g[0] = <<>>
    BY <1>1, <1>7
  <2>2. \A i \in 1 .. N : g[i] = g[i - 1] \o s[i]
    <3> SUFFICES ASSUME NEW i \in 1 .. N PROVE g[i] = g[i - 1] \o s[i]
      OBVIOUS
    <3>1. i \in 0 .. N /\ i # 0
      BY <1>1
    <3> QED BY <1>7, <3>1
  <2> DEFINE good == {n \in 0 .. N : g[n] = f[n]}
  <2>3. 0 \in good
    BY <1>1, <1>4, <2>1 DEF Computed
  <2>4. ASSUME NEW n \in 1 .. N, n - 1 \in good PROVE n \in good
    <3>1. g[n] = g[n - 1] \o s[n] /\ f[n] = f[n - 1] \o s[n]
      BY <1>5, <2>2
    <3>2. g[n - 1] = f[n - 1] /\ n \in 0 .. N
      BY <1>1, <2>4
    <3> HIDE DEF N
    <3> QED BY <3>1, <3>2
  <2>5. 0 .. N \subseteq good
    <3> HIDE DEF good
    <3> QED BY <1>1, <2>3, <2>4, Induction
  <2>6. g = [i \in 0 .. N |-> g[i]] /\ f = [i \in 0 .. N |-> f[i]]
    BY <1>4, <1>7
  <2> QED BY <2>5, <2>6
<1>8. (CHOOSE g : Is(g)) = f
  <2> HIDE DEF Is
  <2> QED BY <1>6, <1>7
<1>9. Joined(s) = f[N]
  BY <1>8 DEF Joined
<1>10. JoinedAfter(f, s)
  BY <1>4, <1>5 DEF JoinedAfter, Computed
<1> QED BY <1>9, <1>10

(* Lists without repetition that share no element are joined without       *)
(* repetition.                                                             *)
LEMMA JoinedOnce ==
  ASSUME NEW E, NEW s \in Seq(Seq(E)), \A i \in 1 .. Len(s) : Once(s[i]),
         \A i, j \in 1 .. Len(s) : i # j => Items(s[i]) \cap Items(s[j]) = {}
  PROVE  Joined(s) \in Seq(E) /\ Once(Joined(s)) /\ Items(Joined(s)) = UNION {Items(s[i]) : i \in 1 .. Len(s)}
<1> DEFINE N == Len(s)
           Upto(n) == UNION {Items(s[i]) : i \in 1 .. n}
<1>1. N \in Nat /\ \A i \in 1 .. N : s[i] \in Seq(E)
  BY LenProperties, ElementOfSeq
<1>2. PICK f \in [0 .. N -> Seq(E)] : JoinedAfter(f, s) /\ Joined(s) = f[N]
  BY JoinedByRecursion
<1> DEFINE good == {n \in 0 .. N : Once(f[n]) /\ Items(f[n]) = Upto(n)}
<1>3. 0 \in good
  <2>1. f[0] = <<>>
    BY <1>2 DEF JoinedAfter
  <2>2. Once(f[0]) /\ Items(f[0]) = {}
    BY <2>1 DEF Once, Items
  <2>3. Upto(0) = {}
    OBVIOUS
  <2> QED BY <1>1, <2>2, <2>3
<1>4. ASSUME NEW n \in 1 .. N, n - 1 \in good PROVE n \in good
  <2>1. n - 1 \in 0 .. N /\ Once(f[n - 1]) /\ Items(f[n - 1]) = Upto(n - 1)
    BY <1>4
  <2> DEFINE a == f[n - 1]
             b == s[n]
  <2>2. a \in Seq(E) /\ b \in Seq(E) /\ Once(b) /\ f[n] = a \o b
    BY <1>1, <1>2, <2>1 DEF JoinedAfter
  <2>3. Items(a) \cap Items(b) = {}
    <3>1. \A i \in 1 .. n - 1 : i \in 1 .. N /\ i # n
      BY <1>1
    <3>2. \A i \in 1 .. n - 1 : Items(s[i]) \cap Items(s[n]) = {}
      BY <3>1
    <3> QED BY <2>1, <3>2
  <2> HIDE DEF a, b, good, N
  <2>4. Once(f[n]) /\ Items(f[n]) = Items(a) \cup Items(b)
    BY <2>1, <2>2, <2>3, ConcatOnce DEF a
  <2>5. Upto(n) = Upto(n - 1) \cup Items(b)
    <3>1. 1 .. n = (1 .. n - 1) \cup {n}
      BY <1>1
    <3> QED BY <3>1 DEF b
  <2>6. Items(f[n]) = Upto(n)
    BY <2>1, <2>4, <2>5 DEF a
  <2> HIDE DEF Upto
  <2>7. n \in 0 .. N
    BY <1>1
  <2> QED BY <2>4, <2>6, <2>7 DEF good
<1>5. N \in good
  <2> HIDE DEF good
  <2>1. 0 .. N \subseteq good
    BY <1>1, <1>3, <1>4, Induction
  <2> QED BY <1>1, <2>1
<1>6. f[N] \in Seq(E)
  BY <1>1
<1> QED BY <1>2, <1>5, <1>6

-----------------------------------------------------------------------------
(* Sums                                                                    *)

(* f has the sum of the first i elements at i.                             *)
SumsOf(f, s) == f[0] = 0 /\ \A i \in 1 .. Len(s) : f[i] = f[i - 1] + s[i]

(* SumOf is the end of a recursion over the list.                          *)
LEMMA SumByRecursion ==
  ASSUME NEW s \in Seq(Nat)
  PROVE  \E f \in [0 .. Len(s) -> Nat] : SumsOf(f, s) /\ SumOf(s) = f[Len(s)]
<1> DEFINE N == Len(s)
           next == [p \in (1 .. N) \X Nat |-> p[2] + s[p[1]]]
           Is(g) == g = [i \in 0 .. N |-> IF i = 0 THEN 0 ELSE g[i - 1] + s[i]]
<1>1. N \in Nat /\ \A i \in 1 .. N : s[i] \in Nat
  BY LenProperties, ElementOfSeq
<1>2. next \in [(1 .. N) \X Nat -> Nat]
  <2> SUFFICES ASSUME NEW p \in (1 .. N) \X Nat PROVE p[2] + s[p[1]] \in Nat
    OBVIOUS
  <2>1. s[p[1]] \in Nat /\ p[2] \in Nat
    BY <1>1
  <2> QED BY <2>1
<1>3. PICK f \in [0 .. N -> Nat] : Computed(f, N, 0, next)
  <2>1. N \in Nat /\ 0 \in Nat
    BY <1>1
  <2> HIDE DEF next, N
  <2> QED BY <1>2, <2>1, Recursion, Zenon
<1>4. f[0] = 0
  BY <1>3 DEF Computed
<1>5. ASSUME NEW i \in 1 .. N PROVE f[i] = f[i - 1] + s[i]
  <2>1. f[i - 1] \in Nat
    <3>1. i - 1 \in 0 .. N
      BY <1>1
    <3> QED BY <1>3, <3>1
  <2>2. next[<<i, f[i - 1]>>] = f[i - 1] + s[i]
    BY <2>1
  <2> QED BY <1>3, <2>2 DEF Computed
<1>6. Is(f)
  <2>1. f = [i \in 0 .. N |-> f[i]]
    BY <1>3
  <2>2. ASSUME NEW i \in 0 .. N PROVE f[i] = IF i = 0 THEN 0 ELSE f[i - 1] + s[i]
    <3>1. CASE i = 0
      BY <1>4, <3>1
    <3>2. CASE i # 0
      <4>1. i \in 1 .. N
        BY <1>1, <3>2
      <4> HIDE DEF N
      <4> QED BY <1>5, <3>2, <4>1
    <3> QED BY <3>1, <3>2
  <2> QED BY <2>1, <2>2
<1>7. ASSUME NEW g, Is(g) PROVE g = f
  <2>1. g[0] = 0
    BY <1>1, <1>7
  <2>2. ASSUME NEW i \in 1 .. N PROVE g[i] = g[i - 1] + s[i]
    <3>1. i \in 0 .. N /\ i # 0
      BY <1>1
    <3> QED BY <1>7, <3>1
  <2> DEFINE good == {n \in 0 .. N : g[n] = f[n]}
  <2>3. 0 \in good
    BY <1>1, <1>4, <2>1
  <2>4. ASSUME NEW n \in 1 .. N, n - 1 \in good PROVE n \in good
    <3>1. g[n] = f[n]
      BY <1>5, <2>2, <2>4
    <3> QED BY <1>1, <3>1
  <2>5. 0 .. N \subseteq good
    <3> HIDE DEF good
    <3> QED BY <1>1, <2>3, <2>4, Induction
  <2>6. g = [i \in 0 .. N |-> g[i]] /\ f = [i \in 0 .. N |-> f[i]]
    BY <1>3, <1>7
  <2> QED BY <2>5, <2>6
<1>8. (CHOOSE g : Is(g)) = f
  <2> HIDE DEF Is
  <2> QED BY <1>6, <1>7
<1>9. SumOf(s) = f[N]
  BY <1>8 DEF SumOf
<1> QED BY <1>3, <1>4, <1>5, <1>9 DEF SumsOf

(* The sum of naturals is a natural.                                       *)
LEMMA SumIsNatural ==
  ASSUME NEW s \in Seq(Nat)
  PROVE  SumOf(s) \in Nat
<1>1. PICK f \in [0 .. Len(s) -> Nat] : SumOf(s) = f[Len(s)]
  BY SumByRecursion
<1>2. Len(s) \in Nat
  BY LenProperties
<1> QED BY <1>1, <1>2

(* The sum of a longer list. *)
LEMMA SumOfLonger ==
  ASSUME NEW s \in Seq(Nat), NEW t \in Seq(Nat), Len(t) = Len(s) + 1,
         \A i \in 1 .. Len(s) : t[i] = s[i]
  PROVE  SumOf(t) = SumOf(s) + t[Len(t)]
<1> DEFINE N == Len(s)
<1>1. N \in Nat
  BY LenProperties
<1>2. PICK f \in [0 .. N -> Nat] : SumsOf(f, s) /\ SumOf(s) = f[N]
  BY SumByRecursion
<1>3. PICK g \in [0 .. Len(t) -> Nat] : SumsOf(g, t) /\ SumOf(t) = g[Len(t)]
  BY SumByRecursion
<1> DEFINE good == {n \in 0 .. N : g[n] = f[n]}
<1>4. 0 \in good
  BY <1>1, <1>2, <1>3 DEF SumsOf
<1>5. ASSUME NEW n \in 1 .. N, n - 1 \in good PROVE n \in good
  <2>1. f[n] = f[n - 1] + s[n]
    BY <1>2 DEF SumsOf
  <2>2. n \in 1 .. Len(t) /\ t[n] = s[n]
    <3>1. n \in 1 .. Len(s)
      OBVIOUS
    <3>2. Len(s) \in Nat
      BY <1>1
    <3> HIDE DEF N
    <3> QED BY <3>1, <3>2
  <2>3. g[n] = g[n - 1] + t[n]
    BY <1>3, <2>2 DEF SumsOf
  <2>4. g[n] = f[n]
    BY <1>5, <2>1, <2>2, <2>3
  <2> QED BY <1>1, <2>4
<1>6. g[N] = f[N]
  <2> HIDE DEF good
  <2>1. 0 .. N \subseteq good
    BY <1>1, <1>4, <1>5, Induction
  <2> HIDE DEF N
  <2>2. N \in good
    BY <1>1, <2>1
  <2> QED BY <2>2 DEF good
<1>7. N + 1 \in 1 .. Len(t) /\ N + 1 - 1 = N
  BY <1>1
<1>8. g[N + 1] = g[N] + t[N + 1]
  BY <1>3, <1>7 DEF SumsOf
<1> QED BY <1>2, <1>3, <1>6, <1>8

(* The sum of a list of equal elements. *)
LEMMA SumOfConstant ==
  ASSUME NEW s \in Seq(Nat), NEW c \in Nat, \A i \in 1 .. Len(s) : s[i] = c
  PROVE  SumOf(s) = Len(s) * c
<1> DEFINE N == Len(s)
<1>1. N \in Nat
  BY LenProperties
<1>2. PICK f \in [0 .. N -> Nat] : SumsOf(f, s) /\ SumOf(s) = f[N]
  BY SumByRecursion
<1> DEFINE good == {n \in 0 .. N : f[n] = n * c}
<1>3. 0 \in good
  BY <1>1, <1>2 DEF SumsOf
<1>4. ASSUME NEW n \in 1 .. N, n - 1 \in good PROVE n \in good
  <2>1. f[n] = f[n - 1] + c
    BY <1>2 DEF SumsOf
  <2>2. f[n - 1] = (n - 1) * c
    BY <1>4
  <2>3. (n - 1) * c + c = n * c
    <3>1. n \in Nat
      BY <1>1
    <3> HIDE DEF N
    <3> QED BY <3>1
  <2> QED BY <1>1, <2>1, <2>2, <2>3
<1>5. N \in good
  <2> HIDE DEF good
  <2>1. 0 .. N \subseteq good
    BY <1>1, <1>3, <1>4, Induction
  <2> QED BY <1>1, <2>1
<1> QED BY <1>2, <1>5

(* The last elements of a list. *)
LEMMA LastProperties ==
  ASSUME NEW E, NEW s \in Seq(E), NEW n \in Nat
  PROVE  /\ LastOf(s, n) \in Seq(E) /\ Len(LastOf(s, n)) <= n /\ Len(LastOf(s, n)) <= Len(s)
         /\ Len(s) <= n => Len(LastOf(s, n)) = Len(s)
         /\ \A i \in 1 .. Len(LastOf(s, n)) :
              /\ Len(s) - Len(LastOf(s, n)) + i \in 1 .. Len(s)
              /\ LastOf(s, n)[i] = s[Len(s) - Len(LastOf(s, n)) + i]
<1> DEFINE a == IF Len(s) > n THEN Len(s) - n + 1 ELSE 1
           q == SubSeq(s, a, Len(s))
<1>1. Len(s) \in Nat /\ a \in 1 .. Len(s) + 1 /\ Len(s) - a + 1 <= n /\ (Len(s) <= n => a = 1)
  BY LenProperties
<1>2. LastOf(s, n) = q
  BY DEF LastOf
<1> HIDE DEF a
<1>3. /\ q \in Seq(E) /\ Len(q) = IF a <= Len(s) THEN Len(s) - a + 1 ELSE 0
      /\ \A i \in 1 .. Len(s) - a + 1 : q[i] = s[a + i - 1]
  BY <1>1, SubSeqProperties
<1> HIDE DEF q
<1>4. Len(q) = Len(s) - a + 1
  BY <1>1, <1>3
<1>5. ASSUME NEW i \in 1 .. Len(q)
      PROVE  Len(s) - Len(q) + i \in 1 .. Len(s) /\ q[i] = s[Len(s) - Len(q) + i]
  <2> DEFINE m == a + i - 1
  <2>1. i \in Nat /\ i \in 1 .. Len(s) - a + 1 /\ q[i] = s[m]
    BY <1>1, <1>3, <1>4
  <2>2. m \in 1 .. Len(s) /\ m = Len(s) - Len(q) + i
    BY <1>1, <1>4, <2>1
  <2> QED BY <2>1, <2>2
<1>6. Len(q) <= n /\ Len(q) <= Len(s) /\ (Len(s) <= n => Len(q) = Len(s))
  BY <1>1, <1>4
<1> QED BY <1>2, <1>3, <1>5, <1>6

-----------------------------------------------------------------------------
(* Ordered dictionaries                                                    *)

(* An OrderedDict has one entry for a key. *)
Unique(s) == \A i, j \in DOMAIN s : s[i].key = s[j].key => i = j

(* Removing a key removes its entry and keeps the others as they are. *)
LEMMA WithoutProperties ==
  ASSUME NEW E, NEW s \in Seq(E), Unique(s), NEW k
  PROVE  /\ Without(s, k) \in Seq(E) /\ Unique(Without(s, k))
         /\ Items(Without(s, k)) = {e \in Items(s) : e.key # k}
         /\ Len(Without(s, k)) = IF k \in KeysOf(s) THEN Len(s) - 1 ELSE Len(s)
         /\ \A e, f : Precedes(Without(s, k), e, f) => Precedes(s, e, f)
<1>0. Len(s) \in Nat /\ DOMAIN s = 1 .. Len(s)
  BY LenProperties
<1>1. CASE k \notin KeysOf(s)
  <2>1. Without(s, k) = s
    BY <1>1 DEF Without
  <2>2. Items(s) = {e \in Items(s) : e.key # k}
    BY <1>1 DEF KeysOf, Items
  <2> QED BY <1>1, <2>1, <2>2
<1>2. CASE k \in KeysOf(s)
  <2> DEFINE w == [i \in 1 .. Len(s) - 1 |-> IF \A j \in 1 .. i : s[j].key # k THEN s[i] ELSE s[i + 1]]
  <2>1. Without(s, k) = w
    BY <1>2 DEF Without
  <2>2. PICK p \in 1 .. Len(s) : s[p].key = k
    BY <1>0, <1>2 DEF KeysOf
  <2>3. \A j \in 1 .. Len(s) : s[j].key = k <=> j = p
    BY <1>0, <2>2 DEF Unique
  <2>4. \A i \in 1 .. Len(s) - 1 : w[i] = s[IF i < p THEN i ELSE i + 1]
    <3> SUFFICES ASSUME NEW i \in 1 .. Len(s) - 1
                 PROVE  w[i] = s[IF i < p THEN i ELSE i + 1]
      OBVIOUS
    <3>1. (\A j \in 1 .. i : s[j].key # k) <=> i < p
      BY <1>0, <2>3
    <3> QED BY <3>1
  <2>5. DOMAIN w = 1 .. Len(s) - 1
    OBVIOUS
  <2>6. w \in [1 .. Len(s) - 1 -> E]
    BY <1>0, <2>4, ElementOfSeq
  <2>7. w \in Seq(E) /\ Len(w) = Len(s) - 1
    BY <1>0, <2>2, <2>6, LenProperties
  <2> HIDE DEF w
  <2>8. \A i \in DOMAIN w : \E j \in 1 .. Len(s) : j # p /\ w[i] = s[j]
    BY <1>0, <2>4, <2>5
  <2>9. \A j \in 1 .. Len(s) : j # p => \E i \in DOMAIN w : w[i] = s[j]
    <3> SUFFICES ASSUME NEW j \in 1 .. Len(s), j # p
                 PROVE  \E i \in DOMAIN w : w[i] = s[j]
      OBVIOUS
    <3>1. CASE j < p
      BY <1>0, <2>4, <2>5, <3>1
    <3>2. CASE j > p
      <4>1. j - 1 \in DOMAIN w /\ w[j - 1] = s[j]
        BY <1>0, <2>4, <2>5, <3>2
      <4> QED BY <4>1
    <3> QED BY <3>1, <3>2
  <2>10. Unique(w)
    <3> SUFFICES ASSUME NEW i \in DOMAIN w, NEW j \in DOMAIN w, w[i].key = w[j].key
                 PROVE  i = j
      BY DEF Unique
    <3> DEFINE a == IF i < p THEN i ELSE i + 1
               b == IF j < p THEN j ELSE j + 1
    <3>1. a \in 1 .. Len(s) /\ b \in 1 .. Len(s) /\ w[i] = s[a] /\ w[j] = s[b]
      BY <1>0, <2>4, <2>5
    <3>2. a = b
      BY <1>0, <3>1 DEF Unique
    <3> QED BY <1>0, <2>5, <3>2
  <2>11. Items(w) = {e \in Items(s) : e.key # k}
    <3>1. \A e : e \in Items(w) <=> \E j \in 1 .. Len(s) : j # p /\ s[j] = e
      BY <2>8, <2>9 DEF Items
    <3>2. \A e : e \in Items(s) <=> \E j \in 1 .. Len(s) : s[j] = e
      BY <1>0 DEF Items
    <3> QED BY <2>3, <3>1, <3>2
  <2>12. ASSUME NEW e, NEW f, Precedes(w, e, f) PROVE Precedes(s, e, f)
    <3>1. PICK i \in DOMAIN w, j \in DOMAIN w : i < j /\ w[i] = e /\ w[j] = f
      BY <2>12 DEF Precedes
    <3> DEFINE a == IF i < p THEN i ELSE i + 1
               b == IF j < p THEN j ELSE j + 1
    <3>2. a \in DOMAIN s /\ b \in DOMAIN s /\ a < b
      BY <1>0, <2>5, <3>1
    <3>3. s[a] = e /\ s[b] = f
      BY <2>4, <2>5, <3>1
    <3> HIDE DEF a, b
    <3> QED BY <3>2, <3>3 DEF Precedes
  <2> QED BY <1>2, <2>1, <2>7, <2>10, <2>11, <2>12
<1> QED BY <1>1, <1>2

(* Appending an entry with a key of its own. *)
LEMMA AppendProperty ==
  ASSUME NEW E, NEW s \in Seq(E), Unique(s), NEW e \in E, \A x \in Items(s) : x.key # e.key
  PROVE  /\ Append(s, e) \in Seq(E) /\ Unique(Append(s, e))
         /\ Items(Append(s, e)) = Items(s) \cup {e}
         /\ Len(Append(s, e)) = Len(s) + 1 /\ Append(s, e)[Len(s) + 1] = e
         /\ \A x, y : Precedes(Append(s, e), x, y) => x \in Items(s) /\ (y = e \/ Precedes(s, x, y))
<1> DEFINE a == Append(s, e)
<1>1. /\ a \in Seq(E) /\ Len(a) = Len(s) + 1
      /\ \A i \in 1 .. Len(s) : a[i] = s[i]
      /\ a[Len(s) + 1] = e
  BY AppendProperties
<1> HIDE DEF a
<1>2. Len(s) \in Nat /\ DOMAIN s = 1 .. Len(s) /\ DOMAIN a = 1 .. Len(s) + 1
  BY <1>1, LenProperties
<1>3. \A i \in 1 .. Len(s) : s[i].key # e.key
  BY <1>2 DEF Items
<1>4. Unique(a)
  <2> SUFFICES ASSUME NEW i \in DOMAIN a, NEW j \in DOMAIN a, a[i].key = a[j].key
               PROVE  i = j
    BY DEF Unique
  <2>1. CASE i \in 1 .. Len(s) /\ j \in 1 .. Len(s)
    BY <1>1, <1>2, <2>1 DEF Unique
  <2>2. CASE i = Len(s) + 1 \/ j = Len(s) + 1
    BY <1>1, <1>2, <1>3, <2>2
  <2> QED BY <1>2, <2>1, <2>2
<1>5. Items(a) = Items(s) \cup {e}
  <2>1. \A x : x \in Items(a) <=> \E i \in 1 .. Len(s) + 1 : a[i] = x
    BY <1>2 DEF Items
  <2>2. \A x : x \in Items(s) <=> \E i \in 1 .. Len(s) : s[i] = x
    BY <1>2 DEF Items
  <2>3. \A x : x \in Items(a) <=> x \in Items(s) \/ x = e
    BY <1>1, <1>2, <2>1, <2>2
  <2> QED BY <2>3
<1>6. ASSUME NEW x, NEW y, Precedes(a, x, y)
      PROVE  x \in Items(s) /\ (y = e \/ Precedes(s, x, y))
  <2>1. PICK i \in DOMAIN a, j \in DOMAIN a : i < j /\ a[i] = x /\ a[j] = y
    BY <1>6 DEF Precedes
  <2>2. i \in DOMAIN s /\ x = s[i]
    BY <1>1, <1>2, <2>1
  <2>3. j = Len(s) + 1 \/ (j \in DOMAIN s /\ y = s[j])
    BY <1>1, <1>2, <2>1
  <2> QED BY <1>1, <2>1, <2>2, <2>3 DEF Items, Precedes
<1> QED BY <1>1, <1>4, <1>5, <1>6 DEF a

(* set keeps the bound, stores the new entry, and keeps entries of other   *)
(* keys or drops them.                                                     *)
LEMMA PutProperties ==
  ASSUME NEW E, NEW s \in Seq(E), Unique(s), NEW k, NEW v, NEW exp, NEW max \in Nat \ {0},
         [key |-> k, exp |-> exp, val |-> v] \in E
  PROVE  /\ Put(s, k, v, exp, max) \in Seq(E) /\ Unique(Put(s, k, v, exp, max))
         /\ Len(Put(s, k, v, exp, max)) <= max
         /\ [key |-> k, exp |-> exp, val |-> v] \in Items(Put(s, k, v, exp, max))
         /\ \A e \in Items(Put(s, k, v, exp, max)) :
              e = [key |-> k, exp |-> exp, val |-> v] \/ (e \in Items(s) /\ e.key # k)
         /\ \A e, f : Precedes(Put(s, k, v, exp, max), e, f) =>
              e \in Items(s) /\ e.key # k /\ (f = [key |-> k, exp |-> exp, val |-> v] \/ Precedes(s, e, f))
         /\ \A e \in Items(s) : e.key # k /\ e \notin Items(Put(s, k, v, exp, max)) =>
              /\ Len(Put(s, k, v, exp, max)) = max
              /\ \A f \in Items(Put(s, k, v, exp, max)) :
                   f = [key |-> k, exp |-> exp, val |-> v] \/ Precedes(s, e, f)
<1> DEFINE new == [key |-> k, exp |-> exp, val |-> v]
           rest == Without(s, k)
           a == Append(rest, new)
           cut == IF Len(a) > max THEN Len(a) - max ELSE 0
           q == SubSeq(a, cut + 1, Len(a))
<1>1. /\ rest \in Seq(E) /\ Unique(rest) /\ Items(rest) = {e \in Items(s) : e.key # k}
      /\ \A e, f : Precedes(rest, e, f) => Precedes(s, e, f)
  BY WithoutProperties
<1>2. new.key = k
  OBVIOUS
<1> HIDE DEF rest, new
<1>3. /\ a \in Seq(E) /\ Unique(a) /\ Items(a) = Items(rest) \cup {new}
      /\ Len(a) = Len(rest) + 1 /\ a[Len(rest) + 1] = new
      /\ \A e, f : Precedes(a, e, f) => e \in Items(rest) /\ (f = new \/ Precedes(rest, e, f))
  BY <1>1, <1>2, AppendProperty DEF new
<1> HIDE DEF a
<1>13. Len(rest) \in Nat
  BY <1>1, LenProperties
<1>4. Len(a) \in Nat /\ DOMAIN a = 1 .. Len(a) /\ \A i \in 1 .. Len(a) : a[i] \in E
  BY <1>3, LenProperties, ElementOfSeq
<1>5. cut \in 0 .. Len(a) /\ Len(a) - cut <= max
  BY <1>4
<1> HIDE DEF cut
<1>6. /\ q \in Seq(E) /\ Len(q) = Len(a) - cut
      /\ \A i \in 1 .. Len(a) - cut : q[i] = a[cut + i]
  <2>1. cut + 1 \in Int /\ Len(a) \in Int /\ \A i \in cut + 1 .. Len(a) : a[i] \in E
    BY <1>4, <1>5
  <2>2. /\ q \in Seq(E)
        /\ Len(q) = IF cut + 1 <= Len(a) THEN Len(a) - (cut + 1) + 1 ELSE 0
        /\ \A i \in 1 .. Len(a) - (cut + 1) + 1 : q[i] = a[cut + 1 + i - 1]
    BY <2>1, SubSeqProperties
  <2> HIDE DEF q
  <2>3. Len(q) = Len(a) - cut
    <3>1. Len(q) = IF cut + 1 <= Len(a) THEN Len(a) - (cut + 1) + 1 ELSE 0
      BY <2>2
    <3>2. CASE cut + 1 <= Len(a)
      BY <1>4, <1>5, <3>1, <3>2
    <3>3. CASE ~(cut + 1 <= Len(a))
      <4>1. cut \in Int /\ Len(a) \in Int /\ cut <= Len(a)
        BY <1>4, <1>5
      <4>2. Len(a) - cut = 0
        BY <3>3, <4>1
      <4> QED BY <3>1, <3>3, <4>2
    <3> QED BY <3>2, <3>3
  <2>4. ASSUME NEW i \in 1 .. Len(a) - cut PROVE q[i] = a[cut + i]
    <3>1. i \in 1 .. Len(a) - (cut + 1) + 1 /\ cut + 1 + i - 1 = cut + i
      BY <1>4, <1>5
    <3> QED BY <2>2, <3>1
  <2> QED BY <2>2, <2>3, <2>4
<1>7. Put(s, k, v, exp, max) = q
  BY DEF Put, q, a, cut, rest, new
<1> HIDE DEF q
<1>8. DOMAIN q = 1 .. Len(a) - cut /\ Len(q) <= max
  BY <1>5, <1>6, LenProperties
<1>9. Unique(q)
  <2> SUFFICES ASSUME NEW i \in DOMAIN q, NEW j \in DOMAIN q, q[i].key = q[j].key
               PROVE  i = j
    BY DEF Unique
  <2>1. cut + i \in DOMAIN a /\ cut + j \in DOMAIN a
    BY <1>4, <1>5, <1>8
  <2>3. q[i] = a[cut + i] /\ q[j] = a[cut + j]
    BY <1>6, <1>8
  <2>2. cut + i = cut + j
    BY <1>3, <2>1, <2>3 DEF Unique
  <2> QED BY <1>5, <1>8, <2>2
<1>10. Items(q) \subseteq Items(a)
  <2> SUFFICES ASSUME NEW i \in DOMAIN q PROVE q[i] \in Items(a)
    BY DEF Items
  <2>1. cut + i \in DOMAIN a /\ q[i] = a[cut + i]
    BY <1>4, <1>5, <1>6, <1>8
  <2> QED BY <2>1 DEF Items
<1>11. new \in Items(q)
  <2>1. cut < Len(a)
    BY <1>3, <1>4, <1>13 DEF cut
  <2>2. Len(a) - cut \in DOMAIN q /\ q[Len(a) - cut] = a[cut + (Len(a) - cut)]
    BY <1>4, <1>5, <1>6, <1>8, <2>1
  <2>3. cut + (Len(a) - cut) = Len(a)
    BY <1>4, <1>5
  <2>4. q[Len(a) - cut] = new
    BY <1>3, <2>2, <2>3
  <2> QED BY <2>2, <2>4 DEF Items
<1>12. \A e, f : Precedes(a, e, f) => e \in Items(s) /\ e.key # k /\ (f = new \/ Precedes(s, e, f))
  BY <1>1, <1>3
<1>14. ASSUME NEW e, NEW f, Precedes(q, e, f) PROVE Precedes(a, e, f)
  <2>1. PICK i \in DOMAIN q, j \in DOMAIN q : i < j /\ q[i] = e /\ q[j] = f
    BY <1>14 DEF Precedes
  <2>2. /\ cut + i \in DOMAIN a /\ cut + j \in DOMAIN a /\ cut + i < cut + j
        /\ a[cut + i] = e /\ a[cut + j] = f
    BY <1>4, <1>5, <1>6, <1>8, <2>1
  <2> QED BY <2>2 DEF Precedes
<1>15. ASSUME NEW e \in Items(s), e.key # k, e \notin Items(q)
       PROVE  Len(q) = max /\ \A f \in Items(q) : f = new \/ Precedes(s, e, f)
  <2>1. e \in Items(a)
    BY <1>1, <1>3, <1>15
  <2>2. PICK p \in 1 .. Len(a) : a[p] = e
    BY <1>4, <2>1 DEF Items
  <2>3. p <= cut
    <3> SUFFICES ASSUME p > cut PROVE FALSE
      BY <1>4, <1>5, <2>2
    <3>1. p - cut \in DOMAIN q /\ q[p - cut] = a[cut + (p - cut)] /\ cut + (p - cut) = p
      BY <1>4, <1>5, <1>6, <1>8
    <3>2. q[p - cut] = e
      BY <2>2, <3>1
    <3> QED BY <1>15, <3>1, <3>2 DEF Items
  <2>4. Len(a) > max /\ cut = Len(a) - max
    <3>1. cut # 0
      BY <1>4, <2>2, <2>3
    <3> QED BY <3>1 DEF cut
  <2>5. Len(q) = max
    BY <1>4, <1>6, <2>4
  <2>6. ASSUME NEW f \in Items(q) PROVE f = new \/ Precedes(s, e, f)
    <3>1. PICK i \in DOMAIN q : q[i] = f
      BY DEF Items
    <3>2. cut + i \in DOMAIN a /\ a[cut + i] = f /\ p < cut + i
      BY <1>4, <1>5, <1>6, <1>8, <2>2, <2>3, <3>1
    <3>3. Precedes(a, e, f)
      BY <1>4, <2>2, <3>2 DEF Precedes
    <3> QED BY <1>12, <3>3
  <2> QED BY <2>5, <2>6
<1> QED BY <1>1, <1>3, <1>6, <1>7, <1>8, <1>9, <1>10, <1>11, <1>12, <1>14, <1>15 DEF new

(* Two items with the same key are one. *)
LEMMA OneItem ==
  ASSUME NEW s, Unique(s), NEW e \in Items(s), NEW f \in Items(s), e.key = f.key
  PROVE  e = f
BY DEF Unique, Items

(* The entry of a hit. *)
LEMMA HitProperties ==
  ASSUME NEW s, Unique(s), NEW k, NEW t, Hit(s, k, t)
  PROVE  EntryOf(s, k) \in Items(s) /\ EntryOf(s, k).key = k /\ t <= EntryOf(s, k).exp
<1>1. PICK i \in DOMAIN s : s[i].key = k /\ t <= s[i].exp
  BY DEF Hit
<1>2. \A j \in DOMAIN s : s[j].key = k => j = i
  BY <1>1 DEF Unique
<1>3. EntryOf(s, k) = s[i]
  BY <1>1, <1>2 DEF EntryOf
<1> QED BY <1>1, <1>3 DEF Items

(* get moves an entry or drops it, and adds none. *)
LEMMA GotProperties ==
  ASSUME NEW E, NEW s \in Seq(E), Unique(s), NEW k, NEW t
  PROVE  /\ Got(s, k, t) \in Seq(E) /\ Unique(Got(s, k, t)) /\ Len(Got(s, k, t)) <= Len(s)
         /\ Items(Got(s, k, t)) \subseteq Items(s)
         /\ Hit(s, k, t) => k \in KeysOf(Got(s, k, t))
         /\ \A e \in Items(s) : e.key # k \/ Hit(s, k, t) => e \in Items(Got(s, k, t))
         /\ \A e, f : Precedes(Got(s, k, t), e, f) =>
              (e.key # k /\ f.key = k /\ Hit(s, k, t)) \/ (Precedes(s, e, f) /\ e.key # k)
<1> DEFINE rest == Without(s, k)
<1>1. /\ rest \in Seq(E) /\ Unique(rest) /\ Items(rest) = {e \in Items(s) : e.key # k}
      /\ Len(rest) = IF k \in KeysOf(s) THEN Len(s) - 1 ELSE Len(s)
      /\ \A e, f : Precedes(rest, e, f) => Precedes(s, e, f)
  BY WithoutProperties
<1>2. Len(s) \in Nat /\ Items(s) \subseteq E
  BY ItemsOfSeq
<1>3. CASE Hit(s, k, t)
  <2>1. EntryOf(s, k) \in Items(s) /\ EntryOf(s, k).key = k
    BY <1>3, HitProperties
  <2>2. k \in KeysOf(s)
    BY <1>3 DEF Hit, KeysOf
  <2>3. Got(s, k, t) = Append(rest, EntryOf(s, k))
    BY <1>3 DEF Got
  <2> HIDE DEF rest
  <2> DEFINE e == EntryOf(s, k)
  <2>4. e \in E /\ \A x \in Items(rest) : x.key # e.key
    BY <1>1, <1>2, <2>1
  <2>5. e \in Items(s)
    BY <2>1
  <2>6. Got(s, k, t) = Append(rest, e)
    BY <2>3
  <2> HIDE DEF e
  <2>7. /\ Append(rest, e) \in Seq(E) /\ Unique(Append(rest, e)) /\ Items(Append(rest, e)) = Items(rest) \cup {e}
        /\ Len(Append(rest, e)) = Len(rest) + 1
        /\ \A x, y : Precedes(Append(rest, e), x, y) => x \in Items(rest) /\ (y = e \/ Precedes(rest, x, y))
    BY <1>1, <2>4, AppendProperty
  <2>8. e \in Items(Append(rest, e)) /\ e.key = k
    BY <2>1, <2>7 DEF e
  <2>9. k \in KeysOf(Append(rest, e))
    BY <2>8 DEF Items, KeysOf
  <2>10. ASSUME NEW x \in Items(s) PROVE x \in Items(Append(rest, e))
    <3>1. CASE x.key = k
      BY <2>1, <2>5, <2>7, <2>8, <3>1, OneItem
    <3>2. CASE x.key # k
      BY <1>1, <2>7, <3>2
    <3> QED BY <3>1, <3>2
  <2>11. ASSUME NEW x, NEW y, Precedes(Append(rest, e), x, y)
         PROVE  x.key # k /\ (y.key = k \/ Precedes(s, x, y))
    BY <1>1, <2>7, <2>8, <2>11
  <2> QED BY <1>1, <1>2, <1>3, <2>2, <2>5, <2>6, <2>7, <2>9, <2>10, <2>11
<1>4. CASE ~Hit(s, k, t)
  <2>1. Got(s, k, t) = rest
    BY <1>4 DEF Got
  <2> HIDE DEF rest
  <2>2. ASSUME NEW x, NEW y, Precedes(rest, x, y) PROVE x.key # k /\ Precedes(s, x, y)
    <3>1. x \in Items(rest)
      BY <2>2 DEF Precedes, Items
    <3> QED BY <1>1, <2>2, <3>1
  <2> QED BY <1>1, <1>2, <1>4, <2>1, <2>2
<1> QED BY <1>3, <1>4

(* The entry of a key that is there. *)
LEMMA EntryProperties ==
  ASSUME NEW s, NEW k, k \in KeysOf(s)
  PROVE  EntryOf(s, k) \in Items(s) /\ EntryOf(s, k).key = k
<1>1. \E i \in DOMAIN s : s[i].key = k
  BY DEF KeysOf
<1> QED BY <1>1 DEF EntryOf, Items

(* A key with an entry has an item, and conversely. *)
LEMMA KeysAreItems == \A s, k : k \in KeysOf(s) <=> \E e \in Items(s) : e.key = k
BY DEF KeysOf, Items

(* A full cache that keeps entries of other keys, all used after one, is    *)
(* as many keys.                                                           *)
LEMMA EnoughUsed ==
  ASSUME NEW E, NEW s \in Seq(E), Unique(s), NEW used, IsFiniteSet(used),
         \A e \in Items(s) : e.key \in used
  PROVE  Cardinality(used) >= Len(s)
<1> DEFINE n == Len(s)
           f == [i \in 1 .. n |-> s[i].key]
<1>1. n \in Nat /\ DOMAIN s = 1 .. n
  BY LenProperties
<1>2. \A i \in 1 .. n : s[i] \in Items(s)
  BY <1>1 DEF Items
<1>3. f \in Injection(1 .. n, used)
  <2>1. f \in [1 .. n -> used]
    BY <1>2
  <2>2. \A i, j \in 1 .. n : f[i] = f[j] => i = j
    BY <1>1 DEF Unique
  <2> HIDE DEF f
  <2>3. DOMAIN f = 1 .. n
    BY <2>1
  <2>4. IsInjective(f)
    BY <2>2, <2>3 DEF IsInjective
  <2> QED BY <2>1, <2>4 DEF Injection
<1>4. IsFiniteSet(1 .. n) /\ Cardinality(1 .. n) = n
  <2>1. n \in Int /\ 1 \in Int
    BY <1>1
  <2> HIDE DEF n
  <2>2. IsFiniteSet(1 .. n) /\ Cardinality(1 .. n) = IF 1 > n THEN 0 ELSE n - 1 + 1
    BY <2>1, FS_Interval
  <2> QED BY <1>1, <2>2
<1>5. Cardinality(1 .. n) <= Cardinality(used)
  BY <1>3, <1>4, FS_Injection
<1> QED BY <1>1, <1>4, <1>5, FS_CardinalityType

(* Dropping elements drops no uniqueness. *)
LEMMA KeptIsUnique ==
  ASSUME NEW E, NEW s \in Seq(E), Unique(s), NEW wanted
  PROVE  Unique(Kept(s, wanted))
<1> DEFINE t == Kept(s, wanted)
<1>1. t \in Seq(E) /\ KeptOfFirst(t, s, wanted, Len(s))
  BY KeptStepByStep
<1> HIDE DEF t
<1>2. DOMAIN s = 1 .. Len(s) /\ DOMAIN t = 1 .. Len(t) /\ Len(t) \in Nat /\ Len(s) \in Nat
  BY <1>1, LenProperties
<1>3. PICK at \in [1 .. Len(t) -> 1 .. Len(s)] :
        /\ \A i \in 1 .. Len(t) : t[i] = s[at[i]]
        /\ \A i, j \in 1 .. Len(t) : i < j => at[i] < at[j]
  BY <1>1 DEF KeptOfFirst
<1>4. ASSUME NEW i \in 1 .. Len(t), NEW j \in 1 .. Len(t), t[i].key = t[j].key PROVE i = j
  <2>1. at[i] = at[j]
    BY <1>2, <1>3, <1>4 DEF Unique
  <2> QED BY <1>2, <1>3, <2>1
<1> QED BY <1>2, <1>4 DEF Unique, t

-----------------------------------------------------------------------------
(* Sums and permutations                                                   *)

(* The sums of the first elements of a list of n numbers. *)
LEMMA SumsOfFunction ==
  ASSUME NEW n \in Nat, NEW s \in [1 .. n -> Nat]
  PROVE  \E f \in [0 .. n -> Nat] :
           f[0] = 0 /\ (\A i \in 1 .. n : f[i] = f[i - 1] + s[i]) /\ SumOf(s) = f[n]
<1>1. s \in Seq(Nat) /\ Len(s) = n
  BY IsASeq, LenProperties
<1>2. PICK f \in [0 .. Len(s) -> Nat] : SumsOf(f, s) /\ SumOf(s) = f[Len(s)]
  BY <1>1, SumByRecursion
<1> QED BY <1>1, <1>2 DEF SumsOf

(* A sum of naturals is a natural. *)
LEMMA SumNatural ==
  ASSUME NEW n \in Nat, NEW s \in [1 .. n -> Nat]
  PROVE  SumOf(s) \in Nat
<1>1. PICK f \in [0 .. n -> Nat] :
        f[0] = 0 /\ (\A i \in 1 .. n : f[i] = f[i - 1] + s[i]) /\ SumOf(s) = f[n]
  BY SumsOfFunction
<1> QED BY <1>1

(* A longer list of numbers that are no smaller has no smaller sum. *)
LEMMA SumGrows ==
  ASSUME NEW m \in Nat, NEW n \in Nat, m <= n, NEW s \in [1 .. m -> Nat], NEW t \in [1 .. n -> Nat],
         \A i \in 1 .. m : s[i] <= t[i]
  PROVE  SumOf(s) <= SumOf(t)
<1>1. PICK f \in [0 .. m -> Nat] :
        f[0] = 0 /\ (\A i \in 1 .. m : f[i] = f[i - 1] + s[i]) /\ SumOf(s) = f[m]
  BY SumsOfFunction
<1>2. PICK g \in [0 .. n -> Nat] :
        g[0] = 0 /\ (\A i \in 1 .. n : g[i] = g[i - 1] + t[i]) /\ SumOf(t) = g[n]
  BY SumsOfFunction
<1> DEFINE good == {i \in 0 .. n : (i <= m => f[i] <= g[i]) /\ (i >= m => f[m] <= g[i])}
<1>3. 0 \in good
  BY <1>1, <1>2
<1>4. ASSUME NEW i \in 1 .. n, i - 1 \in good PROVE i \in good
  <2>1. i - 1 \in 0 .. n /\ g[i - 1] \in Nat /\ t[i] \in Nat /\ g[i] = g[i - 1] + t[i]
    BY <1>2
  <2>2. CASE i <= m
    <3>1. i \in 1 .. m /\ i - 1 \in 0 .. m /\ f[i - 1] \in Nat /\ s[i] \in Nat
      BY <1>1, <2>2
    <3>2. f[i] = f[i - 1] + s[i] /\ s[i] <= t[i] /\ f[i - 1] <= g[i - 1]
      BY <1>1, <1>4, <3>1
    <3>3. f[i] <= g[i]
      BY <2>1, <3>1, <3>2
    <3> QED BY <2>2, <3>3
  <2>3. CASE i > m
    <3>1. f[m] <= g[i - 1] /\ f[m] \in Nat
      BY <1>1, <1>4, <2>3
    <3> QED BY <2>1, <2>3, <3>1
  <2> QED BY <2>2, <2>3
<1>5. n \in good
  <2> HIDE DEF good
  <2>1. 0 .. n \subseteq good
    BY <1>3, <1>4, Induction
  <2> QED BY <2>1
<1> QED BY <1>1, <1>2, <1>5

(* Sums of two lists add up. *)
LEMMA SumOfSums ==
  ASSUME NEW n \in Nat, NEW s \in [1 .. n -> Nat], NEW t \in [1 .. n -> Nat], NEW u \in [1 .. n -> Nat],
         \A i \in 1 .. n : u[i] = s[i] + t[i]
  PROVE  SumOf(u) = SumOf(s) + SumOf(t)
<1>1. PICK f \in [0 .. n -> Nat] :
        f[0] = 0 /\ (\A i \in 1 .. n : f[i] = f[i - 1] + s[i]) /\ SumOf(s) = f[n]
  BY SumsOfFunction
<1>2. PICK g \in [0 .. n -> Nat] :
        g[0] = 0 /\ (\A i \in 1 .. n : g[i] = g[i - 1] + t[i]) /\ SumOf(t) = g[n]
  BY SumsOfFunction
<1>3. PICK h \in [0 .. n -> Nat] :
        h[0] = 0 /\ (\A i \in 1 .. n : h[i] = h[i - 1] + u[i]) /\ SumOf(u) = h[n]
  BY SumsOfFunction
<1> DEFINE good == {i \in 0 .. n : h[i] = f[i] + g[i]}
<1>4. 0 \in good
  BY <1>1, <1>2, <1>3
<1>5. ASSUME NEW i \in 1 .. n, i - 1 \in good PROVE i \in good
  <2>1. /\ i - 1 \in 0 .. n /\ i \in 0 .. n
        /\ f[i - 1] \in Nat /\ g[i - 1] \in Nat /\ s[i] \in Nat /\ t[i] \in Nat
    <3>1. i - 1 \in 0 .. n /\ i \in 0 .. n
      OBVIOUS
    <3> HIDE DEF good
    <3> QED BY <3>1
  <2>2. h[i - 1] = f[i - 1] + g[i - 1]
    BY <1>5
  <2>3. h[i] = h[i - 1] + u[i] /\ f[i] = f[i - 1] + s[i] /\ g[i] = g[i - 1] + t[i] /\ u[i] = s[i] + t[i]
    BY <1>1, <1>2, <1>3
  <2> QED BY <2>1, <2>2, <2>3
<1>6. n \in good
  <2> HIDE DEF good
  <2>1. 0 .. n \subseteq good
    BY <1>4, <1>5, Induction
  <2> QED BY <2>1
<1> QED BY <1>1, <1>2, <1>3, <1>6

(* Another number at one position. *)
LEMMA SumOfChanged ==
  ASSUME NEW n \in Nat, NEW s \in [1 .. n -> Nat], NEW t \in [1 .. n -> Nat], NEW m \in 1 .. n,
         \A i \in 1 .. n : i # m => t[i] = s[i]
  PROVE  SumOf(t) + s[m] = SumOf(s) + t[m]
<1>1. PICK f \in [0 .. n -> Nat] :
        f[0] = 0 /\ (\A i \in 1 .. n : f[i] = f[i - 1] + s[i]) /\ SumOf(s) = f[n]
  BY SumsOfFunction
<1>2. PICK g \in [0 .. n -> Nat] :
        g[0] = 0 /\ (\A i \in 1 .. n : g[i] = g[i - 1] + t[i]) /\ SumOf(t) = g[n]
  BY SumsOfFunction
<1> DEFINE good == {i \in 0 .. n : IF i < m THEN g[i] = f[i] ELSE g[i] + s[m] = f[i] + t[m]}
<1>3. 0 \in good
  BY <1>1, <1>2
<1>4. ASSUME NEW i \in 1 .. n, i - 1 \in good PROVE i \in good
  <2>1. /\ i - 1 \in 0 .. n /\ f[i - 1] \in Nat /\ g[i - 1] \in Nat
        /\ s[i] \in Nat /\ t[i] \in Nat /\ s[m] \in Nat /\ t[m] \in Nat
    BY <1>1, <1>2
  <2>2. f[i] = f[i - 1] + s[i] /\ g[i] = g[i - 1] + t[i] /\ (i # m => t[i] = s[i])
    BY <1>1, <1>2
  <2>3. IF i - 1 < m THEN g[i - 1] = f[i - 1] ELSE g[i - 1] + s[m] = f[i - 1] + t[m]
    BY <1>4
  <2>4. CASE i < m
    BY <2>1, <2>2, <2>3, <2>4
  <2>5. CASE i = m
    BY <2>1, <2>2, <2>3, <2>5
  <2>6. CASE i > m
    <3>1. g[i - 1] + s[m] = f[i - 1] + t[m] /\ t[i] = s[i]
      BY <2>2, <2>3, <2>6
    <3>2. g[i] + s[m] = f[i] + t[m]
      <4> DEFINE a == g[i - 1]
                 b == f[i - 1]
                 c == s[i]
                 x == s[m]
                 y == t[m]
      <4>1. a \in Nat /\ b \in Nat /\ c \in Nat /\ x \in Nat /\ y \in Nat
        BY <2>1
      <4>2. g[i] = a + c /\ f[i] = b + c
        BY <2>2, <3>1
      <4>3. a + x = b + y
        BY <3>1
      <4> HIDE DEF a, b, c, x, y, good
      <4>4. (a + c) + x = (b + c) + y
        BY <4>1, <4>3
      <4>5. g[i] + x = f[i] + y
        BY <4>2, <4>4
      <4> QED BY <4>5 DEF x, y
    <3>3. i \in 0 .. n /\ ~(i < m)
      BY <2>6
    <3> QED BY <3>2, <3>3
  <2> QED BY <2>4, <2>5, <2>6
<1>5. n \in good
  <2> HIDE DEF good
  <2>1. 0 .. n \subseteq good
    BY <1>3, <1>4, Induction
  <2> QED BY <2>1
<1> QED BY <1>1, <1>2, <1>5

(* A number of a list is no greater than the sum. *)
LEMMA SumHasEach ==
  ASSUME NEW n \in Nat, NEW s \in [1 .. n -> Nat], NEW m \in 1 .. n
  PROVE  s[m] <= SumOf(s)
<1> DEFINE t == [i \in 1 .. n |-> IF i = m THEN 0 ELSE s[i]]
<1>1. t \in [1 .. n -> Nat] /\ t[m] = 0 /\ \A i \in 1 .. n : i # m => t[i] = s[i]
  OBVIOUS
<1> HIDE DEF t
<1>2. SumOf(t) + s[m] = SumOf(s) + 0
  BY <1>1, SumOfChanged
<1>3. SumOf(t) \in Nat /\ SumOf(s) \in Nat
  BY <1>1, SumNatural
<1> QED BY <1>1, <1>2, <1>3

(* The last number of a list of n. *)
LEMMA SumAndLast ==
  ASSUME NEW n \in Nat, n > 0, NEW s \in [1 .. n -> Nat], NEW t \in [1 .. n - 1 -> Nat],
         \A i \in 1 .. n - 1 : t[i] = s[i]
  PROVE  SumOf(s) = SumOf(t) + s[n]
<1>1. n - 1 \in Nat
  OBVIOUS
<1>2. s \in Seq(Nat) /\ Len(s) = n /\ t \in Seq(Nat) /\ Len(t) = n - 1
  BY <1>1, IsASeq, LenProperties
<1> QED BY <1>2, SumOfLonger

(* A rearrangement of n positions. *)
Rearranges(p, n) == p \in [1 .. n -> 1 .. n] /\ \A i, j \in 1 .. n : i # j => p[i] # p[j]

(* The order of a list does not change its sum. *)
LEMMA SumInAnyOrder ==
  ASSUME NEW N \in Nat, NEW s \in [1 .. N -> Nat], NEW p, Rearranges(p, N)
  PROVE  SumOf([i \in 1 .. N |-> s[p[i]]]) = SumOf(s)
<1> DEFINE Same(n) == \A r \in [1 .. n -> Nat] : \A q \in [1 .. n -> 1 .. n] :
                        Rearranges(q, n) => SumOf([i \in 1 .. n |-> r[q[i]]]) = SumOf(r)
           good == {n \in 0 .. N : Same(n)}
<1>1. 0 \in good
  <2>1. ASSUME NEW r \in [1 .. 0 -> Nat], NEW q \in [1 .. 0 -> 1 .. 0]
        PROVE  [i \in 1 .. 0 |-> r[q[i]]] = r
    OBVIOUS
  <2> QED BY <2>1
<1>2. ASSUME NEW n \in 1 .. N, Same(n - 1),
             NEW r \in [1 .. n -> Nat], NEW q \in [1 .. n -> 1 .. n], Rearranges(q, n)
      PROVE  SumOf([i \in 1 .. n |-> r[q[i]]]) = SumOf(r)
  <2> DEFINE m == q[n]
             w == [i \in 1 .. n |-> r[q[i]]]
             front == [i \in 1 .. n - 1 |-> r[i]]
             rest == [i \in 1 .. n - 1 |-> IF i = m THEN r[n] ELSE r[i]]
             o == [i \in 1 .. n - 1 |-> IF q[i] = n THEN m ELSE q[i]]
             shuffled == [i \in 1 .. n - 1 |-> rest[o[i]]]
  <2>1. n \in Nat /\ n > 0 /\ n - 1 \in Nat /\ m \in 1 .. n
    OBVIOUS
  <2>2. \A i \in 1 .. n : r[i] \in Nat /\ q[i] \in 1 .. n
    OBVIOUS
  <2>3. \A i, j \in 1 .. n : i # j => q[i] # q[j]
    BY <1>2 DEF Rearranges
  <2>4. w \in [1 .. n -> Nat] /\ front \in [1 .. n - 1 -> Nat] /\ rest \in [1 .. n - 1 -> Nat]
    <3>1. \A i \in 1 .. n : r[q[i]] \in Nat
      BY <2>2
    <3>2. \A i \in 1 .. n - 1 : r[i] \in Nat
      BY <2>1, <2>2
    <3>3. n \in 1 .. n
      BY <2>1
    <3> QED BY <2>2, <3>1, <3>2, <3>3
  <2>5. \A i \in 1 .. n - 1 : i \in 1 .. n /\ i # n /\ q[i] # m
    BY <2>1, <2>3
  <2>6. ASSUME NEW i \in 1 .. n - 1 PROVE o[i] \in 1 .. n - 1
    <3>1. q[i] \in 1 .. n /\ q[i] # m
      BY <2>2, <2>5
    <3>2. CASE q[i] = n
      BY <2>1, <3>1, <3>2
    <3>3. CASE q[i] # n
      BY <2>1, <3>1, <3>3
    <3> QED BY <3>2, <3>3
  <2>7. ASSUME NEW i \in 1 .. n - 1, NEW j \in 1 .. n - 1, i # j PROVE o[i] # o[j]
    BY <2>3, <2>5, <2>7
  <2>8. o \in [1 .. n - 1 -> 1 .. n - 1] /\ Rearranges(o, n - 1)
    <3>1. o \in [1 .. n - 1 -> 1 .. n - 1]
      BY <2>6
    <3> HIDE DEF o
    <3> QED BY <2>7, <3>1 DEF Rearranges
  <2>9. SumOf(shuffled) = SumOf(rest)
    <3> HIDE DEF o, rest
    <3> QED BY <1>2, <2>4, <2>8
  <2>10. shuffled \in [1 .. n - 1 -> Nat] /\ \A i \in 1 .. n - 1 : shuffled[i] = w[i]
    <3>1. ASSUME NEW i \in 1 .. n - 1 PROVE shuffled[i] = w[i] /\ shuffled[i] \in Nat
      <4>1. o[i] \in 1 .. n - 1 /\ shuffled[i] = rest[o[i]]
        BY <2>6
      <4>2. rest[o[i]] = IF o[i] = m THEN r[n] ELSE r[o[i]]
        BY <4>1
      <4>3. w[i] = r[q[i]] /\ w[i] \in Nat
        BY <2>2, <2>5
      <4>4. CASE q[i] = n
        BY <4>1, <4>2, <4>3, <4>4
      <4>5. CASE q[i] # n
        <5>1. o[i] = q[i] /\ q[i] # m
          BY <2>5, <4>5
        <5> QED BY <4>1, <4>2, <4>3, <5>1
      <4> QED BY <4>4, <4>5
    <3> QED BY <3>1
  <2>11. SumOf(w) = SumOf(rest) + r[m]
    <3>1. w[n] = r[m]
      BY <2>1
    <3> HIDE DEF w, shuffled, rest, o
    <3>2. SumOf(w) = SumOf(shuffled) + w[n]
      BY <2>1, <2>4, <2>10, SumAndLast
    <3> QED BY <2>9, <3>1, <3>2
  <2>12. SumOf(r) = SumOf(front) + r[n]
    <3>1. \A i \in 1 .. n - 1 : front[i] = r[i]
      OBVIOUS
    <3> HIDE DEF front
    <3> QED BY <2>1, <2>4, <3>1, SumAndLast
  <2>13. SumOf(rest) + r[m] = SumOf(front) + r[n]
    <3>1. CASE m = n
      <4>1. rest = front
        BY <3>1
      <4> QED BY <3>1, <4>1
    <3>2. CASE m # n
      <4>1. m \in 1 .. n - 1
        BY <2>1, <3>2
      <4>2. front[m] = r[m] /\ rest[m] = r[n] /\ \A i \in 1 .. n - 1 : i # m => rest[i] = front[i]
        BY <4>1
      <4> HIDE DEF front, rest, m
      <4>3. SumOf(rest) + front[m] = SumOf(front) + rest[m]
        BY <2>1, <2>4, <4>1, <4>2, SumOfChanged
      <4> QED BY <4>2, <4>3
    <3> QED BY <3>1, <3>2
  <2>14. SumOf(w) = SumOf(r)
    BY <2>11, <2>12, <2>13
  <2> QED BY <2>14
<1>5. ASSUME NEW n \in 1 .. N, n - 1 \in good PROVE n \in good
  <2>1. Same(n - 1)
    BY <1>5
  <2>2. Same(n)
    BY <1>2, <2>1
  <2> HIDE DEF Same
  <2> QED BY <2>2
<1>3. Same(N)
  <2>1. N \in good
    <3> HIDE DEF good
    <3>1. 0 .. N \subseteq good
      BY <1>1, <1>5, Induction
    <3> QED BY <3>1
  <2> QED BY <2>1
<1>4. p \in [1 .. N -> 1 .. N]
  BY DEF Rearranges
<1> QED BY <1>3, <1>4

(* A rearrangement reaches every position. *)
LEMMA RearrangesAll ==
  ASSUME NEW n \in Nat, NEW p, Rearranges(p, n)
  PROVE  \A j \in 1 .. n : \E i \in 1 .. n : p[i] = j
<1>1. p \in [1 .. n -> 1 .. n] /\ DOMAIN p = 1 .. n
  BY DEF Rearranges
<1>2. IsInjective(p)
  BY <1>1 DEF IsInjective, Rearranges
<1>3. p \in Injection(1 .. n, 1 .. n)
  BY <1>1, <1>2 DEF Injection
<1>4. IsFiniteSet(1 .. n)
  BY FS_Interval
<1>5. p \in Surjection(1 .. n, 1 .. n)
  BY <1>3, <1>4, FS_Injection
<1> QED BY <1>5 DEF Surjection

-----------------------------------------------------------------------------
(* The least and the greatest                                              *)

(* Some positions of a list have a last one. *)
LEMMA LastPosition ==
  ASSUME NEW n \in Nat, NEW at, at \subseteq 1 .. n, at # {}
  PROVE  \E l \in at : \A j \in at : j <= l
<1> DEFINE back == {k \in 0 .. n : n - k \in at}
<1>1. back \subseteq Nat /\ back # {}
  <2>1. PICK i \in at : TRUE
    OBVIOUS
  <2>2. n - i \in 0 .. n /\ n - (n - i) = i
    BY <2>1
  <2>3. n - i \in back
    BY <2>2
  <2>4. back \subseteq Nat
    OBVIOUS
  <2> HIDE DEF back
  <2> QED BY <2>3, <2>4
<1>2. PICK k \in back : \A j \in back : k <= j
  <2> HIDE DEF back
  <2> QED BY <1>1, Least
<1>3. n - k \in at
  BY <1>2
<1>4. ASSUME NEW j \in at PROVE j <= n - k
  <2>1. n - j \in 0 .. n /\ n - (n - j) = j
    OBVIOUS
  <2>2. n - j \in back
    BY <2>1
  <2>3. k <= n - j
    BY <1>2, <2>2
  <2> QED BY <1>2, <2>3
<1> QED BY <1>3, <1>4

(* Of the numbers at some positions one is the greatest. *)
LEMMA GreatestAt ==
  ASSUME NEW n \in Nat, NEW at, at \subseteq 1 .. n, at # {}, NEW s, \A i \in at : s[i] \in Nat
  PROVE  \E i \in at : \A j \in at : s[j] <= s[i]
<1> DEFINE good == {m \in 0 .. n :
             at \cap 1 .. m # {} => \E i \in at \cap 1 .. m : \A j \in at \cap 1 .. m : s[j] <= s[i]}
<1>1. 0 \in good
  OBVIOUS
<1>2. ASSUME NEW m \in 1 .. n, m - 1 \in good PROVE m \in good
  <2> SUFFICES ASSUME at \cap 1 .. m # {}
               PROVE  \E i \in at \cap 1 .. m : \A j \in at \cap 1 .. m : s[j] <= s[i]
    OBVIOUS
  <2>1. \A j \in at \cap 1 .. m : j = m \/ j \in at \cap 1 .. m - 1
    OBVIOUS
  <2>2. \A j \in at \cap 1 .. m - 1 : j \in at \cap 1 .. m
    OBVIOUS
  <2>3. CASE at \cap 1 .. m - 1 = {}
    <3>1. \A j \in at \cap 1 .. m : j = m
      BY <2>1, <2>3
    <3>2. m \in at
      BY <3>1
    <3> QED BY <3>1, <3>2
  <2>4. CASE at \cap 1 .. m - 1 # {}
    <3>1. PICK i \in at \cap 1 .. m - 1 : \A j \in at \cap 1 .. m - 1 : s[j] <= s[i]
      BY <1>2, <2>4
    <3>2. CASE m \in at /\ s[i] < s[m]
      <4>1. \A j \in at \cap 1 .. m - 1 : s[j] <= s[m]
        BY <3>1, <3>2
      <4> QED BY <2>1, <3>2, <4>1
    <3>3. CASE ~(m \in at /\ s[i] < s[m])
      <4>1. m \in at => s[m] <= s[i]
        BY <3>1, <3>3
      <4> QED BY <2>1, <2>2, <3>1, <4>1
    <3> QED BY <3>2, <3>3
  <2> QED BY <2>3, <2>4
<1>3. n \in good
  <2> HIDE DEF good
  <2>1. 0 .. n \subseteq good
    BY <1>1, <1>2, Induction
  <2> QED BY <2>1
<1>4. at \cap 1 .. n = at
  OBVIOUS
<1> QED BY <1>3, <1>4

=============================================================================
