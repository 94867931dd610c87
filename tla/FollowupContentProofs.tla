----------------------- MODULE FollowupContentProofs -----------------------
(***************************************************************************)
(* Proofs about what the queue objects, the drains and the histories of    *)
(* FollowupQueue hold, for all sets of messages, settings, routes and      *)
(* authorizations: no message is lost, none is answered twice, followups   *)
(* run in the order they came in, a prompt combines only what it may.      *)
(*                                                                         *)
(* FInv is the inductive invariant.  ObjectsInv says that two objects have *)
(* no message in common and that what a drain holds in its hand is older   *)
(* than what came to its object since; AnsweredInv that nothing answered   *)
(* is held again; OrderInv that nothing held is older than what was        *)
(* answered.  A removed object that is still drained is an object like any *)
(* other: only the order is lost with it, after a /stop.                   *)
(*                                                                         *)
(* What the recursive function of Without keeps of a sequence is shown by  *)
(* UpTo, an induction over the set of lengths for which it holds.          *)
(***************************************************************************)
EXTENDS FollowupQueueProofs, WellFoundedInduction, FiniteSetTheorems

-----------------------------------------------------------------------------
(* Induction, over sets *)

\* A set of naturals has a least element.
LEMMA Least ==
  ASSUME NEW T \in SUBSET Nat, T # {}
  PROVE  \E n \in T : \A m \in T : n =< m
<1>. DEFINE R == OpToRel(<, Nat)
<1>1. IsWellFoundedOn(R, Nat)
  BY NatLessThanWellFounded
<1>2. \A x, y \in Nat : y < x => <<y, x>> \in R
  BY DEF OpToRel
<1>. HIDE DEF R
<1>3. PICK x \in T : \A y \in T : ~ (<<y, x>> \in R)
  BY <1>1, WFMin
<1>4. \A y \in T : ~(y < x)
  BY <1>2, <1>3
<1>. QED  BY <1>4

\* A set with zero, and with the next of each number below n it has, has all up to n.
LEMMA UpTo ==
  ASSUME NEW n \in Nat, NEW S, 0 \in S, \A k \in 0..(n - 1) : k \in S => k + 1 \in S
  PROVE  \A k \in 0..n : k \in S
<1>. DEFINE T == {k \in 0..n : k \notin S}
<1>1. SUFFICES ASSUME T # {} PROVE FALSE
  OBVIOUS
<1>2. T \in SUBSET Nat
  OBVIOUS
<1>. HIDE DEF T
<1>3. PICK k \in T : \A m \in T : k =< m
  BY <1>1, <1>2, Least
<1>4. k # 0 /\ k \in 0..n /\ k \notin S
  BY DEF T
<1>5. k - 1 \in 0..(n - 1) /\ k - 1 \in 0..n /\ (k - 1) + 1 = k
  BY <1>4
<1>6. k - 1 \in S
  BY <1>3, <1>5 DEF T
<1>. QED  BY <1>4, <1>5, <1>6

-----------------------------------------------------------------------------
(* Positions *)

\* The place of m in e.  IndexOf is the one in the sequence of the messages enqueued.
Pos(e, m) == CHOOSE i \in DOMAIN e : e[i] = m

\* The messages of s stand in the order they have in e.
Rising(e, s) ==
  \A i, j \in 1..Len(s) : i < j => Pos(e, s[i]) < Pos(e, s[j])

LEMMA Emptied == ToSet(<<>>) = {}
BY DEF ToSet

LEMMA Longer ==
  ASSUME NEW M, NEW s \in Seq(M), NEW x
  PROVE  ToSet(Append(s, x)) = ToSet(s) \cup {x}
<1>1. s \in Seq(M \cup {x})
  OBVIOUS
<1>2. /\ Append(s, x) \in Seq(M \cup {x}) /\ Len(Append(s, x)) = Len(s) + 1 /\ Len(s) \in Nat
      /\ Append(s, x)[Len(s) + 1] = x
      /\ \A i \in 1..Len(s) : Append(s, x)[i] = s[i]
  BY <1>1
<1>3. DOMAIN Append(s, x) = 1..(Len(s) + 1) /\ DOMAIN s = 1..Len(s)
  BY <1>1, <1>2
<1>. DEFINE t == Append(s, x)
<1>4. ToSet(t) = {t[i] : i \in 1..(Len(s) + 1)} /\ ToSet(s) = {s[i] : i \in 1..Len(s)}
  BY <1>3 DEF ToSet
<1>. HIDE DEF t
<1>5. ASSUME NEW i \in 1..(Len(s) + 1) PROVE t[i] \in ToSet(s) \cup {x}
  <2>1. CASE i = Len(s) + 1
    BY <1>2, <2>1 DEF t
  <2>2. CASE i # Len(s) + 1
    BY <1>2, <1>4, <2>2 DEF t
  <2>. QED  BY <2>1, <2>2
<1>6. ASSUME NEW y \in ToSet(s) \cup {x} PROVE y \in ToSet(t)
  <2>1. CASE y = x
    BY <1>2, <1>4, <2>1 DEF t
  <2>2. CASE y # x
    <3>1. PICK i \in 1..Len(s) : y = s[i]
      BY <1>4, <2>2
    <3>2. i \in 1..(Len(s) + 1) /\ t[i] = y
      BY <1>2, <3>1 DEF t
    <3>. QED  BY <1>4, <3>2
  <2>. QED  BY <2>1, <2>2
<1>. QED  BY <1>4, <1>5, <1>6 DEF t

LEMMA RisingAppend ==
  ASSUME NEW M, NEW s \in Seq(M), NEW x, NEW e, Rising(e, s),
         \A y \in ToSet(s) : Pos(e, y) < Pos(e, x)
  PROVE  Rising(e, Append(s, x))
<1>1. s \in Seq(M \cup {x})
  OBVIOUS
<1>. DEFINE t == Append(s, x)
<1>2. /\ Len(t) = Len(s) + 1 /\ Len(s) \in Nat /\ t[Len(s) + 1] = x
      /\ \A i \in 1..Len(s) : t[i] = s[i]
  BY <1>1
<1>3. \A i \in 1..Len(s) : s[i] \in ToSet(s)
  BY DEF ToSet
<1>. HIDE DEF t
<1>4. ASSUME NEW i \in 1..Len(t), NEW j \in 1..Len(t), i < j PROVE Pos(e, t[i]) < Pos(e, t[j])
  <2>1. i \in 1..Len(s) /\ t[i] = s[i]
    BY <1>2, <1>4
  <2>2. CASE j = Len(s) + 1
    BY <1>2, <1>3, <2>1, <2>2
  <2>3. CASE j # Len(s) + 1
    <3>1. j \in 1..Len(s) /\ t[j] = s[j]
      BY <1>2, <2>3
    <3>. QED  BY <1>4, <2>1, <3>1 DEF Rising
  <2>. QED  BY <2>2, <2>3
<1>5. Rising(e, t)
  BY <1>4 DEF Rising
<1>. QED  BY <1>5 DEF t

\* What Without has made of the first k of the items.
IsKept(f, items, B, k) ==
  f = [n \in 0..k |-> IF n = 0 THEN <<>>
                      ELSE IF items[n] \in B THEN f[n - 1]
                      ELSE Append(f[n - 1], items[n])]

LEMMA KeptExists ==
  ASSUME NEW items, NEW B, NEW n \in Nat
  PROVE  \E f : IsKept(f, items, B, n)
<1>. DEFINE S == {k \in Nat : \E f : IsKept(f, items, B, k)}
<1>1. 0 \in S
  <2>. DEFINE f == [m \in 0..0 |-> <<>>]
  <2>1. IsKept(f, items, B, 0)
    BY DEF IsKept
  <2>. QED  BY <2>1
<1>2. ASSUME NEW k \in 0..(n - 1), k \in S PROVE k + 1 \in S
  <2>1. PICK f : IsKept(f, items, B, k)
    BY <1>2
  <2>. DEFINE last == IF items[k + 1] \in B THEN f[k] ELSE Append(f[k], items[k + 1])
              h == [m \in 0..(k + 1) |-> IF m = k + 1 THEN last ELSE f[m]]
  <2>2. \A m \in 0..k : f[m] = IF m = 0 THEN <<>>
                               ELSE IF items[m] \in B THEN f[m - 1]
                               ELSE Append(f[m - 1], items[m])
    BY <2>1 DEF IsKept
  <2>3. \A m \in 0..(k + 1) : h[m] = IF m = 0 THEN <<>>
                                     ELSE IF items[m] \in B THEN h[m - 1]
                                     ELSE Append(h[m - 1], items[m])
    <3>. TAKE m \in 0..(k + 1)
    <3>1. CASE m = k + 1
      BY <3>1
    <3>2. CASE m # k + 1
      BY <2>2, <3>2
    <3>. QED  BY <3>1, <3>2
  <2>4. IsKept(h, items, B, k + 1)
    <3>1. h = [m \in 0..(k + 1) |-> h[m]]
      OBVIOUS
    <3>. HIDE DEF h
    <3>. QED  BY <2>3, <3>1 DEF IsKept
  <2>. HIDE DEF h
  <2>. QED  BY <2>4
<1>. HIDE DEF S
<1>3. n \in S
  BY <1>1, <1>2, UpTo
<1>. QED  BY <1>3 DEF S

LEMMA WithoutEquals ==
  ASSUME NEW items, Len(items) \in Nat, NEW batch
  PROVE  \E f : IsKept(f, items, ToSet(batch), Len(items)) /\ Without(items, batch) = f[Len(items)]
<1>. DEFINE B == ToSet(batch)
            K == CHOOSE f : IsKept(f, items, B, Len(items))
<1>1. IsKept(K, items, B, Len(items))
  BY KeptExists
<1>2. Without(items, batch) = K[Len(items)]
  BY DEF Without, IsKept
<1>. QED  BY <1>1, <1>2

LEMMA WithoutKeeps ==
  ASSUME NEW M, NEW items \in Seq(M), NEW batch
  PROVE  /\ Without(items, batch) \in Seq(M)
         /\ ToSet(Without(items, batch)) = ToSet(items) \ ToSet(batch)
         /\ \A e : Rising(e, items) => Rising(e, Without(items, batch))
<1>. DEFINE B == ToSet(batch)
            n == Len(items)
            Kept(k, t) == /\ t \in Seq(M)
                          /\ ToSet(t) = {items[i] : i \in 1..k} \ B
                          /\ \A e : Rising(e, items) => Rising(e, t)
<1>0. n \in Nat /\ \A i \in 1..n : items[i] \in M
  OBVIOUS
<1>1. PICK f : IsKept(f, items, B, n) /\ Without(items, batch) = f[n]
  BY <1>0, WithoutEquals
<1>. HIDE DEF B, n
<1>2. f = [k \in 0..n |-> IF k = 0 THEN <<>>
                          ELSE IF items[k] \in B THEN f[k - 1]
                          ELSE Append(f[k - 1], items[k])]
  BY <1>1 DEF IsKept
<1>3. f[0] = <<>>
  BY <1>0, <1>2
<1>4. \A k \in 1..n : f[k] = IF items[k] \in B THEN f[k - 1] ELSE Append(f[k - 1], items[k])
  <2>1. \A k \in 0..n : f[k] = IF k = 0 THEN <<>>
                                ELSE IF items[k] \in B THEN f[k - 1]
                                ELSE Append(f[k - 1], items[k])
    BY <1>2
  <2>. QED  BY <1>0, <2>1
<1>. DEFINE S == {k \in 0..n : Kept(k, f[k])}
<1>5. 0 \in S
  <2>1. Kept(0, <<>>)
    BY Emptied DEF Rising
  <2>. HIDE DEF Kept
  <2>. QED  BY <1>0, <1>3, <2>1
<1>6. ASSUME NEW k \in 0..(n - 1), Kept(k, f[k]) PROVE Kept(k + 1, f[k + 1])
  <2>. DEFINE t == f[k]
              u == f[k + 1]
              x == items[k + 1]
              old == {items[i] : i \in 1..k}
  <2>1. /\ k + 1 \in 1..n /\ x \in M /\ k \in Nat /\ 1..k \subseteq 1..n
        /\ t \in Seq(M) /\ ToSet(t) = old \ B
        /\ \A e : Rising(e, items) => Rising(e, t)
    BY <1>0, <1>6
  <2>2. u = IF x \in B THEN t ELSE Append(t, x)
    BY <1>4, <2>1
  <2>3. {items[i] : i \in 1..(k + 1)} = old \cup {x}
    BY <2>1
  <2>. HIDE DEF t, u, x
  <2>4. u \in Seq(M) /\ ToSet(u) = (old \cup {x}) \ B
    <3>1. CASE x \in B
      BY <2>1, <2>2, <3>1
    <3>2. CASE x \notin B
      <4>1. ToSet(u) = ToSet(t) \cup {x}
        BY <2>1, <2>2, <3>2, Longer
      <4>. HIDE DEF old
      <4>. QED  BY <2>1, <2>2, <3>2, <4>1
    <3>. QED  BY <3>1, <3>2
  <2>5. ASSUME NEW e, Rising(e, items) PROVE Rising(e, u)
    <3>1. Rising(e, t)
      BY <2>1, <2>5
    <3>2. ASSUME NEW y \in ToSet(t) PROVE Pos(e, y) < Pos(e, x)
      <4>1. PICK a \in 1..k : y = items[a]
        BY <2>1
      <4>2. a \in 1..n /\ a < k + 1
        BY <2>1, <4>1
      <4>. QED  BY <2>1, <2>5, <4>1, <4>2 DEF Rising, x, n
    <3>. QED  BY <2>1, <2>2, <3>1, <3>2, RisingAppend
  <2>. QED  BY <2>3, <2>4, <2>5 DEF u
<1>. HIDE DEF Kept
<1>7. \A k \in 0..(n - 1) : k \in S => k + 1 \in S
  BY <1>0, <1>6
<1>. HIDE DEF S
<1>8. n \in S
  <2>1. n \in Nat /\ n \in 0..n
    BY <1>0
  <2>. QED  BY <1>5, <1>7, <2>1, UpTo
<1>9. ToSet(items) = {items[i] : i \in 1..n}
  BY DEF ToSet, n
<1>. QED  BY <1>1, <1>8, <1>9 DEF B, n, S, Kept

-----------------------------------------------------------------------------
(* Parts of a sequence *)

\* The messages of A come before those of B.
Before(e, A, B) == \A x \in A, y \in B : Pos(e, x) < Pos(e, y)

LEMMA AsSet ==
  ASSUME NEW M, NEW s \in Seq(M)
  PROVE  ToSet(s) = {s[i] : i \in 1..Len(s)}
BY DEF ToSet

LEMMA Slice ==
  ASSUME NEW M, NEW s \in Seq(M), NEW a \in 1..(Len(s) + 1), NEW b \in 0..Len(s)
  PROVE  /\ SubSeq(s, a, b) \in Seq(M) /\ ToSet(SubSeq(s, a, b)) \subseteq ToSet(s)
         /\ ToSet(SubSeq(s, a, b)) = {s[i] : i \in a..b}
         /\ \A e : Rising(e, s) => Rising(e, SubSeq(s, a, b))
<1>. DEFINE t == SubSeq(s, a, b)
            k == IF a =< b THEN b - a + 1 ELSE 0
<1>1. /\ t \in Seq(M) /\ Len(t) = k /\ k \in Nat /\ Len(s) \in Nat
      /\ \A i \in 1..k : t[i] = s[a + i - 1] /\ a + i - 1 \in a..b
      /\ a..b \subseteq 1..Len(s)
  OBVIOUS
<1>2. ToSet(t) = {t[i] : i \in 1..k} /\ ToSet(s) = {s[i] : i \in 1..Len(s)}
  <2>. HIDE DEF k, t
  <2>. QED  BY <1>1, AsSet
<1>3. \A i \in a..b : i - a + 1 \in 1..k /\ a + (i - a + 1) - 1 = i
  OBVIOUS
<1>. HIDE DEF t, k
<1>4. \A i \in a..b : t[i - a + 1] = s[i]
  BY <1>1, <1>3
<1>5. ToSet(t) = {s[i] : i \in a..b}
  <2>1. ASSUME NEW i \in 1..k PROVE t[i] \in {s[j] : j \in a..b}
    BY <1>1
  <2>2. ASSUME NEW i \in a..b PROVE s[i] \in {t[j] : j \in 1..k}
    BY <1>3, <1>4
  <2>. QED  BY <1>2, <2>1, <2>2
<1>6. ASSUME NEW e, Rising(e, s) PROVE Rising(e, t)
  <2>. SUFFICES ASSUME NEW i \in 1..k, NEW j \in 1..k, i < j PROVE Pos(e, t[i]) < Pos(e, t[j])
    BY <1>1 DEF Rising
  <2>1. a + i - 1 \in 1..Len(s) /\ a + j - 1 \in 1..Len(s) /\ a + i - 1 < a + j - 1
    BY <1>1
  <2>. QED  BY <1>1, <1>6, <2>1 DEF Rising
<1>. QED  BY <1>1, <1>2, <1>5, <1>6 DEF t

LEMMA Parts ==
  ASSUME NEW M, NEW s \in Seq(M), NEW k \in 0..Len(s)
  PROVE  LET p == SubSeq(s, 1, k)
             r == SubSeq(s, k + 1, Len(s))
         IN /\ p \in Seq(M) /\ r \in Seq(M) /\ ToSet(s) = ToSet(p) \cup ToSet(r)
            /\ \A e : Rising(e, s) => /\ Rising(e, p) /\ Rising(e, r)
                                      /\ Before(e, ToSet(p), ToSet(r))
<1>1. /\ 1 \in 1..(Len(s) + 1) /\ k + 1 \in 1..(Len(s) + 1) /\ Len(s) \in 0..Len(s)
      /\ 1..Len(s) = (1..k) \cup ((k + 1)..Len(s))
      /\ k \in 0..Len(s) /\ ToSet(s) = {s[i] : i \in 1..Len(s)}
  BY DEF ToSet
<1>. DEFINE p == SubSeq(s, 1, k)
            r == SubSeq(s, k + 1, Len(s))
<1>2. /\ p \in Seq(M) /\ ToSet(p) = {s[i] : i \in 1..k}
      /\ \A e : Rising(e, s) => Rising(e, p)
  BY <1>1, Slice
<1>3. /\ r \in Seq(M) /\ ToSet(r) = {s[i] : i \in (k + 1)..Len(s)}
      /\ \A e : Rising(e, s) => Rising(e, r)
  BY <1>1, Slice
<1>. HIDE DEF p, r
<1>4. ToSet(s) = ToSet(p) \cup ToSet(r)
  BY <1>1, <1>2, <1>3
<1>5. ASSUME NEW e, Rising(e, s) PROVE Before(e, ToSet(p), ToSet(r))
  BY <1>1, <1>2, <1>3, <1>5 DEF Before, Rising
<1>. QED  BY <1>2, <1>3, <1>4, <1>5 DEF p, r

LEMMA Joined ==
  ASSUME NEW M, NEW s \in Seq(M), NEW t \in Seq(M)
  PROVE  /\ s \o t \in Seq(M) /\ ToSet(s \o t) = ToSet(s) \cup ToSet(t)
         /\ \A e : Rising(e, s \o t)
                  <=> Rising(e, s) /\ Rising(e, t) /\ Before(e, ToSet(s), ToSet(t))
<1>. DEFINE u == s \o t
            a == Len(s)
            b == Len(t)
<1>1. /\ u \in Seq(M) /\ Len(u) = a + b /\ a \in Nat /\ b \in Nat
      /\ \A i \in 1..a : u[i] = s[i]
      /\ \A i \in 1..b : u[a + i] = t[i]
  OBVIOUS
<1>2. ToSet(s) = {s[i] : i \in 1..a} /\ ToSet(t) = {t[i] : i \in 1..b}
  BY DEF ToSet
<1>. HIDE DEF u, a, b
<1>3. ToSet(u) = {u[i] : i \in 1..(a + b)}
  <2>1. ToSet(u) = {u[i] : i \in 1..Len(u)}
    BY <1>1, AsSet
  <2>. QED  BY <1>1, <2>1
<1>4. \A i \in 1..(a + b) : i \in 1..a \/ (i - a \in 1..b /\ i = a + (i - a))
  BY <1>1
<1>5. \A i \in 1..b : a + i \in 1..(a + b)
  BY <1>1
<1>6. 1..a \subseteq 1..(a + b)
  BY <1>1
<1>7. ToSet(u) = ToSet(s) \cup ToSet(t)
  <2>1. ASSUME NEW x \in ToSet(u) PROVE x \in ToSet(s) \cup ToSet(t)
    <3>1. PICK i \in 1..(a + b) : x = u[i]
      BY <1>3
    <3>2. CASE i \in 1..a
      BY <1>1, <1>2, <3>1, <3>2
    <3>3. CASE i - a \in 1..b /\ i = a + (i - a)
      BY <1>1, <1>2, <3>1, <3>3
    <3>. QED  BY <1>4, <3>2, <3>3
  <2>2. ASSUME NEW x \in ToSet(s) PROVE x \in ToSet(u)
    BY <1>1, <1>2, <1>3, <1>6
  <2>3. ASSUME NEW x \in ToSet(t) PROVE x \in ToSet(u)
    <3>1. PICK i \in 1..b : x = t[i]
      BY <1>2
    <3>. QED  BY <1>1, <1>3, <1>5, <3>1
  <2>. QED  BY <2>1, <2>2, <2>3
<1>8. ASSUME NEW e, Rising(e, u)
      PROVE  Rising(e, s) /\ Rising(e, t) /\ Before(e, ToSet(s), ToSet(t))
  <2>1. Rising(e, s)
    BY <1>1, <1>6, <1>8 DEF Rising, a
  <2>2. Rising(e, t)
    <3>. SUFFICES ASSUME NEW i \in 1..b, NEW j \in 1..b, i < j PROVE Pos(e, t[i]) < Pos(e, t[j])
      BY DEF Rising, b
    <3>1. a + i < a + j
      BY <1>1
    <3>. QED  BY <1>1, <1>5, <1>8, <3>1 DEF Rising
  <2>3. ASSUME NEW i \in 1..a, NEW j \in 1..b PROVE Pos(e, s[i]) < Pos(e, t[j])
    <3>1. i < a + j
      BY <1>1
    <3>. QED  BY <1>1, <1>5, <1>6, <1>8, <3>1 DEF Rising
  <2>. QED  BY <1>2, <2>1, <2>2, <2>3 DEF Before
<1>9. ASSUME NEW e, Rising(e, s), Rising(e, t), Before(e, ToSet(s), ToSet(t)) PROVE Rising(e, u)
  <2>. SUFFICES ASSUME NEW i \in 1..(a + b), NEW j \in 1..(a + b), i < j
                PROVE  Pos(e, u[i]) < Pos(e, u[j])
    BY <1>1 DEF Rising
  <2>1. CASE j \in 1..a
    <3>1. i \in 1..a
      BY <1>1, <2>1
    <3>. QED  BY <1>1, <1>9, <2>1, <3>1 DEF Rising, a
  <2>2. CASE i \in 1..a /\ j \notin 1..a
    <3>1. j - a \in 1..b /\ u[j] = t[j - a]
      BY <1>1, <1>4, <2>2
    <3>. QED  BY <1>1, <1>2, <1>9, <2>2, <3>1 DEF Before
  <2>3. CASE i \notin 1..a /\ j \notin 1..a
    <3>1. /\ j - a \in 1..b /\ u[j] = t[j - a] /\ i - a \in 1..b /\ u[i] = t[i - a]
          /\ i - a < j - a
      BY <1>1, <1>4, <2>3
    <3>. QED  BY <1>9, <3>1 DEF Rising, b
  <2>. QED  BY <2>1, <2>2, <2>3
<1>. QED  BY <1>1, <1>7, <1>8, <1>9 DEF u

-----------------------------------------------------------------------------
(* The messages enqueued *)

Distinct(s) == \A i, j \in 1..Len(s) : s[i] = s[j] => i = j

LEMMA PosIs ==
  ASSUME NEW M, NEW e \in Seq(M), Distinct(e), NEW i \in 1..Len(e)
  PROVE  Pos(e, e[i]) = i
BY DEF Pos, Distinct

LEMMA PosNat ==
  ASSUME NEW M, NEW e \in Seq(M), Distinct(e)
  PROVE  \A x \in ToSet(e) : Pos(e, x) \in Nat
<1>. TAKE x \in ToSet(e)
<1>1. PICK i \in 1..Len(e) : x = e[i]
  BY DEF ToSet
<1>. QED  BY <1>1, PosIs

\* A new message stands behind all others, whose places stay.
LEMMA PosAppended ==
  ASSUME NEW M, NEW e \in Seq(M), Distinct(e), NEW m \in M, m \notin ToSet(e)
  PROVE  /\ Append(e, m) \in Seq(M) /\ Distinct(Append(e, m))
         /\ ToSet(Append(e, m)) = ToSet(e) \cup {m}
         /\ \A x \in ToSet(e) : /\ Pos(Append(e, m), x) = Pos(e, x)
                                 /\ Pos(Append(e, m), x) < Pos(Append(e, m), m)
<1>. DEFINE t == Append(e, m)
            n == Len(e)
<1>1. /\ t \in Seq(M) /\ Len(t) = n + 1 /\ n \in Nat /\ t[n + 1] = m
      /\ \A i \in 1..n : t[i] = e[i]
  OBVIOUS
<1>2. \A i \in 1..n : e[i] \in ToSet(e)
  BY DEF ToSet
<1>3. ToSet(t) = ToSet(e) \cup {m}
  BY Longer
<1>. HIDE DEF t
<1>4. Distinct(t)
  <2>. SUFFICES ASSUME NEW i \in 1..(n + 1), NEW j \in 1..(n + 1), t[i] = t[j] PROVE i = j
    BY <1>1 DEF Distinct
  <2>1. CASE i \in 1..n /\ j \in 1..n
    BY <1>1, <2>1 DEF Distinct
  <2>2. CASE ~(i \in 1..n /\ j \in 1..n)
    BY <1>1, <1>2, <2>2
  <2>. QED  BY <2>1, <2>2
<1>5. Pos(t, m) = n + 1
  <2>1. n + 1 \in 1..Len(t)
    BY <1>1
  <2>. QED  BY <1>1, <1>4, <2>1, PosIs
<1>6. ASSUME NEW x \in ToSet(e) PROVE Pos(t, x) = Pos(e, x) /\ Pos(t, x) < Pos(t, m)
  <2>1. PICK i \in 1..n : x = e[i]
    BY DEF ToSet
  <2>2. Pos(e, x) = i
    BY <2>1, PosIs
  <2>3. i \in 1..Len(t) /\ t[i] = x
    BY <1>1, <2>1
  <2>4. Pos(t, x) = i
    BY <1>1, <1>4, <2>3, PosIs
  <2>. QED  BY <1>1, <1>5, <2>2, <2>4
<1>. QED  BY <1>1, <1>3, <1>4, <1>6 DEF t

\* Positions of messages that were there before are the same.
LEMMA RisingStays ==
  ASSUME NEW e, NEW f, NEW M, NEW s \in Seq(M), ToSet(s) \subseteq ToSet(e),
         \A x \in ToSet(e) : Pos(f, x) = Pos(e, x), Rising(e, s)
  PROVE  Rising(f, s)
<1>1. \A i \in 1..Len(s) : s[i] \in ToSet(e)
  BY DEF ToSet
<1>. QED  BY <1>1 DEF Rising

\* A message whose place is known by its rank is there once.
LEMMA RisingDistinct ==
  ASSUME NEW M, NEW e \in Seq(M), Distinct(e), NEW s \in Seq(M), ToSet(s) \subseteq ToSet(e),
         Rising(e, s)
  PROVE  Distinct(s)
<1>1. \A i \in 1..Len(s) : s[i] \in ToSet(e)
  BY DEF ToSet
<1>2. \A x \in ToSet(e) : Pos(e, x) \in Nat
  BY PosNat
<1>. SUFFICES ASSUME NEW i \in 1..Len(s), NEW j \in 1..Len(s), s[i] = s[j], i # j PROVE FALSE
  BY DEF Distinct
<1>3. i < j \/ j < i
  OBVIOUS
<1>. QED  BY <1>1, <1>2, <1>3 DEF Rising

LEMMA DistinctJoined ==
  ASSUME NEW M, NEW s \in Seq(M), NEW t \in Seq(M), Distinct(s), Distinct(t),
         ToSet(s) \cap ToSet(t) = {}
  PROVE  Distinct(s \o t)
<1>. DEFINE u == s \o t
            a == Len(s)
            b == Len(t)
<1>1. /\ Len(u) = a + b /\ a \in Nat /\ b \in Nat
      /\ \A i \in 1..a : u[i] = s[i]
      /\ \A i \in 1..b : u[a + i] = t[i]
  OBVIOUS
<1>2. \A i \in 1..a, j \in 1..b : s[i] # t[j]
  BY DEF ToSet
<1>3. \A i \in 1..(a + b) : i \in 1..a \/ (i - a \in 1..b /\ u[i] = t[i - a])
  <2>. TAKE i \in 1..(a + b)
  <2>. HIDE DEF u, a, b
  <2>1. CASE i \notin 1..a
    <3>1. i - a \in 1..b /\ a + (i - a) = i
      BY <1>1, <2>1
    <3>. QED  BY <1>1, <3>1
  <2>. QED  BY <2>1
<1>. HIDE DEF u, a, b
<1>. SUFFICES ASSUME NEW i \in 1..(a + b), NEW j \in 1..(a + b), u[i] = u[j] PROVE i = j
  BY <1>1 DEF Distinct, u
<1>4. CASE i \in 1..a /\ j \in 1..a
  BY <1>1, <1>4 DEF Distinct, a
<1>5. CASE i \notin 1..a /\ j \notin 1..a
  <2>1. i - a = j - a
    BY <1>3, <1>5 DEF Distinct, b
  <2>. QED  BY <1>1, <2>1
<1>6. CASE ~(i \in 1..a <=> j \in 1..a)
  BY <1>1, <1>2, <1>3, <1>6
<1>. QED  BY <1>4, <1>5, <1>6

\* A sequence without repetition has as many members as places.
LEMMA DistinctCardinality ==
  ASSUME NEW M, NEW s \in Seq(M), Distinct(s)
  PROVE  Cardinality(ToSet(s)) = Len(s)
<1>1. Len(s) \in Nat /\ ToSet(s) = {s[i] : i \in 1..Len(s)}
  BY AsSet
<1>. DEFINE f == [i \in 1..Len(s) |-> s[i]]
<1>2. f \in Bijection(1..Len(s), ToSet(s))
  BY <1>1 DEF Bijection, Injection, Surjection, IsInjective, Distinct
<1>3. ExistsBijection(1..Len(s), ToSet(s))
  BY <1>2 DEF ExistsBijection
<1>. QED  BY <1>1, <1>3, FS_CountingElements

-----------------------------------------------------------------------------
(* The calls of a drain *)

\* The first group of a snapshot is a part of it from its front.
LEMMA FirstGroupIs ==
  ASSUME NEW M, NEW items \in Seq(M), items # <<>>
  PROVE  \E k \in 1..Len(items) :
           /\ FirstGroup(items) = SubSeq(items, 1, k) /\ Len(FirstGroup(items)) = k
           /\ \A i \in 1..k : AuthOf[items[i]] = AuthOf[items[1]]
<1>. DEFINE T == {n \in 1..Len(items) : \A i \in 1..n : AuthOf[items[i]] = AuthOf[items[1]]}
            N == Len(items)
            D == {d \in 0..N : N - d \in T}
<1>1. N \in Nat /\ N # 0
  OBVIOUS
<1>2. 1 \in T
  BY <1>1
<1>3. T \subseteq 1..N
  OBVIOUS
<1>. HIDE DEF T, N
<1>4. D \in SUBSET Nat /\ D # {}
  <2>1. N - 1 \in 0..N /\ N - (N - 1) = 1
    BY <1>1
  <2>2. N - 1 \in D
    BY <1>2, <2>1
  <2>. QED  BY <2>2
<1>5. \A n \in T : N - n \in D /\ n \in 1..N
  <2>1. \A n \in 1..N : N - n \in 0..N /\ N - (N - n) = n
    BY <1>1
  <2>. QED  BY <1>3, <2>1
<1>. HIDE DEF D
<1>6. PICK d \in D : \A c \in D : d =< c
  BY <1>4, Least
<1>7. N - d \in T /\ d \in 0..N
  BY DEF D
<1>8. \A n \in T : n =< N - d
  BY <1>1, <1>5, <1>6, <1>7
<1>9. Max(T) \in T
  <2>1. \A n \in T : N - d >= n
    BY <1>1, <1>3, <1>7, <1>8
  <2>. QED  BY <1>7, <2>1, Zenon DEF Max
<1>10. Max(T) \in 1..N
  BY <1>3, <1>9
<1>11. FirstGroup(items) = SubSeq(items, 1, Max(T))
  BY DEF FirstGroup, T
<1>12. Len(SubSeq(items, 1, Max(T))) = Max(T)
  BY <1>10 DEF N
<1>13. \A i \in 1..Max(T) : AuthOf[items[i]] = AuthOf[items[1]]
  BY <1>9 DEF T
<1>. QED  BY <1>10, <1>11, <1>12, <1>13 DEF N

-----------------------------------------------------------------------------
(* The invariant *)

QueueRec == [items : Seq(Messages), lines : Seq(Messages), mode : Modes,
             cap : Nat \ {0}, drop : {"summarize", "old", "new"}]

IsCall(c) ==
  /\ c.kind \in {"item", "summary"} /\ c.summary \in Seq(Messages)
  /\ c.items \in Seq(Messages) /\ c.rest \in Seq(Messages)

\* What a drain has in its hands of the queue, and what the two have between them.
Hand(d) == d.call.items \o d.call.rest
Holds(q, d) == ToSet(q.items) \cup ToSet(Hand(d))
Held(g) == Holds(queues[g], drains[g])

\* The items and the hand of a drain are in the order e of arrival, and what came
\* to the queue since the drain took its snapshot is behind the snapshot.
Content(e, q, d) ==
  /\ q \in QueueRec /\ IsCall(d.call)
  /\ Holds(q, d) \subseteq ToSet(e)
  /\ Rising(e, q.items) /\ Rising(e, Hand(d))
  /\ Before(e, ToSet(Hand(d)), ToSet(q.items) \ ToSet(Hand(d)))

EnqueuedInv ==
  /\ enqueued \in Seq(Messages) /\ Distinct(enqueued)
  /\ \A m \in ToSet(enqueued) : turns[m].pc = "done"

ObjectsInv ==
  /\ queues \in Seq(QueueRec)
  /\ \A g \in Queues : Content(enqueued, queues[g], drains[g])
  /\ \A g, h \in Queues : g # h => Held(g) \cap Held(h) = {}

AnsweredInv ==
  /\ answered \in Seq(Messages) /\ Distinct(answered)
  /\ ToSet(answered) \subseteq ToSet(enqueued)
  /\ \A g \in Queues : Held(g) \cap ToSet(answered) = {}

\* Until a /stop only the object in the map and its drain hold messages, and none
\* that came before one that was answered.
OrderInv ==
  faults.stops = 0 =>
    /\ Rising(enqueued, answered)
    /\ \A g \in Queues : /\ g # current => Held(g) = {}
                         /\ Before(enqueued, ToSet(answered), Held(g))

FatesInv ==
  /\ summarised \in SUBSET Messages /\ elided \in SUBSET Messages
  /\ taken \in SUBSET Messages /\ forgotten \in SUBSET Messages
  /\ discarded \in SUBSET Messages /\ cleared \in SUBSET Messages

SeenInv == \A m \in Messages : turns[m].seen =< Len(operations)

CInv == EnqueuedInv /\ ObjectsInv /\ AnsweredInv /\ OrderInv

-----------------------------------------------------------------------------
(* What a step does to one object and its drain *)

\* The object and the drain have no more than they had, in the same order.
Shrunk(e, q, d, qq, dd) ==
  Content(e, qq, dd) /\ Holds(qq, dd) \subseteq Holds(q, d)

\* A drain in whose hand nothing is.
Emptyhanded(d) == d.call = NoCall

LEMMA NothingHeld ==
  ASSUME NEW d, Emptyhanded(d)
  PROVE  IsCall(d.call) /\ Hand(d) = <<>> /\ ToSet(Hand(d)) = {}
<1>1. /\ NoCall.kind = "item" /\ NoCall.items = <<>> /\ NoCall.rest = <<>>
      /\ NoCall.summary = <<>>
  BY DEF NoCall
<1>2. IsCall(NoCall)
  BY <1>1 DEF IsCall
<1>3. <<>> \o <<>> = <<>>
  OBVIOUS
<1>. QED  BY <1>1, <1>2, <1>3, Emptied DEF Emptyhanded, Hand

LEMMA HandSeq ==
  ASSUME NEW d, IsCall(d.call)
  PROVE  /\ Hand(d) \in Seq(Messages)
         /\ ToSet(Hand(d)) = ToSet(d.call.items) \cup ToSet(d.call.rest)
         /\ \A e : Rising(e, Hand(d))
              <=> /\ Rising(e, d.call.items) /\ Rising(e, d.call.rest)
                  /\ Before(e, ToSet(d.call.items), ToSet(d.call.rest))
BY Joined DEF IsCall, Hand

LEMMA NothingRises == \A e : Rising(e, <<>>) /\ \A A : Before(e, {}, A) /\ Before(e, A, {})
BY DEF Rising, Before

\* The drain goes on with what it has, and the items are the same.
LEMMA SameHand ==
  ASSUME NEW e, NEW q, NEW d, Content(e, q, d), NEW qq, qq \in QueueRec, qq.items = q.items,
         NEW dd, dd.call = d.call
  PROVE  Shrunk(e, q, d, qq, dd)
BY DEF Shrunk, Content, Holds, Hand

\* The drain is done with what it had, the items are the same.
LEMMA HandEmptied ==
  ASSUME NEW e, NEW q, NEW d, Content(e, q, d), NEW qq, qq \in QueueRec, qq.items = q.items,
         NEW dd, Emptyhanded(dd)
  PROVE  Shrunk(e, q, d, qq, dd)
<1>1. IsCall(dd.call) /\ Hand(dd) = <<>> /\ ToSet(Hand(dd)) = {}
  BY NothingHeld
<1>. QED  BY <1>1, NothingRises DEF Shrunk, Content, Holds

\* The object is emptied.
LEMMA ItemsEmptied ==
  ASSUME NEW e, NEW q, NEW d, Content(e, q, d), NEW qq, qq \in QueueRec, qq.items = <<>>,
         NEW dd, dd.call = d.call
  PROVE  Shrunk(e, q, d, qq, dd)
<1>1. ToSet(qq.items) = {} /\ Hand(dd) = Hand(d)
  BY Emptied DEF Hand
<1>2. Rising(e, qq.items) /\ Before(e, ToSet(Hand(dd)), ToSet(qq.items) \ ToSet(Hand(dd)))
  BY <1>1, NothingRises
<1>. QED  BY <1>1, <1>2 DEF Shrunk, Content, Holds

\* The drain takes the first k of the items.
LEMMA PrefixTaken ==
  ASSUME NEW e, NEW q, NEW d, Content(e, q, d), NEW dd, IsCall(dd.call),
         NEW k \in 0..Len(q.items), Hand(dd) = SubSeq(q.items, 1, k)
  PROVE  Shrunk(e, q, d, q, dd)
<1>. DEFINE p == SubSeq(q.items, 1, k)
            r == SubSeq(q.items, k + 1, Len(q.items))
<1>1. q.items \in Seq(Messages)
  BY DEF Content, QueueRec
<1>2. /\ ToSet(q.items) = ToSet(p) \cup ToSet(r)
      /\ Rising(e, p) /\ Before(e, ToSet(p), ToSet(r))
  BY <1>1, Parts DEF Content
<1>3. Hand(dd) = p
  OBVIOUS
<1>. HIDE DEF p, r
<1>. QED  BY <1>2, <1>3 DEF Shrunk, Content, Holds, Before

\* Without what was in the call, the object goes on with the rest of the snapshot.
LEMMA CallRemoved ==
  ASSUME NEW e, \A x \in ToSet(e) : Pos(e, x) \in Nat, NEW q, NEW d, Content(e, q, d),
         NEW qq, qq \in QueueRec,
         qq.items = Without(q.items, d.call.items),
         NEW dd, IsCall(dd.call), Hand(dd) = d.call.rest
  PROVE  /\ Shrunk(e, q, d, qq, dd)
         /\ Holds(qq, dd) \cap ToSet(d.call.items) = {}
         /\ Before(e, ToSet(d.call.items), Holds(qq, dd))
<1>1. q.items \in Seq(Messages) /\ IsCall(d.call) /\ Rising(e, q.items)
  BY DEF Content, QueueRec
<1>2. ToSet(qq.items) = ToSet(q.items) \ ToSet(d.call.items) /\ Rising(e, qq.items)
  BY <1>1, WithoutKeeps
<1>3. /\ ToSet(Hand(d)) = ToSet(d.call.items) \cup ToSet(d.call.rest)
      /\ Rising(e, d.call.items) /\ Rising(e, d.call.rest)
      /\ Before(e, ToSet(d.call.items), ToSet(d.call.rest))
  BY <1>1, HandSeq DEF Content
<1>4. ToSet(d.call.items) \subseteq ToSet(e)
  BY <1>3 DEF Content, Holds
<1>5. ToSet(d.call.items) \cap ToSet(d.call.rest) = {}
  BY <1>3, <1>4 DEF Before
<1>6. Before(e, ToSet(Hand(d)), ToSet(q.items) \ ToSet(Hand(d)))
  BY DEF Content
<1>7. Before(e, ToSet(d.call.items), Holds(qq, dd))
  BY <1>2, <1>3, <1>6 DEF Before, Holds
<1>8. Before(e, ToSet(Hand(dd)), ToSet(qq.items) \ ToSet(Hand(dd)))
  BY <1>2, <1>3, <1>6 DEF Before
<1>. QED  BY <1>2, <1>3, <1>5, <1>7, <1>8 DEF Shrunk, Content, Holds

-----------------------------------------------------------------------------
(* What a step does to all objects *)

LEMMA Shape ==
  ASSUME IInv, CInv
  PROVE  /\ queues \in Seq(QueueRec) /\ IsSeq(queues) /\ Len(queues) \in Nat
         /\ IsSeq(drains) /\ Len(drains) = Len(queues)
         /\ current \in 0..Len(queues) /\ faults \in [stops : Nat, errors : Nat]
         /\ enqueued \in Seq(Messages) /\ \A x \in ToSet(enqueued) : Pos(enqueued, x) \in Nat
BY Lengths, PosNat DEF CInv, ObjectsInv, EnqueuedInv, AreDrains

\* No turn that is over begins again.
DoneStay == \A m \in Messages : turns[m].pc = "done" => turns'[m].pc = "done"

\* Every object and its drain have no more than they had.
AllShrunk ==
  /\ queues' \in Seq(QueueRec) /\ Len(queues') = Len(queues)
  /\ \A g \in Queues : Shrunk(enqueued, queues[g], drains[g], queues'[g], drains'[g])

\* The object in the map stays there, or leaves it with nothing.
MapStays ==
  current' = current \/ (current # 0 => Holds(queues'[current], drains'[current]) = {})

LEMMA ObjectsFrame ==
  ASSUME IInv, CInv, enqueued' = enqueued, DoneStay, AllShrunk
  PROVE  /\ EnqueuedInv' /\ ObjectsInv' /\ Queues' = Queues
         /\ \A g \in Queues : Held(g)' \subseteq Held(g)
<1>1. Queues' = Queues
  BY DEF AllShrunk, Queues
<1>2. EnqueuedInv'
  <2>1. ToSet(enqueued) \subseteq Messages
    BY AsSet DEF CInv, EnqueuedInv
  <2>. QED  BY <2>1 DEF CInv, EnqueuedInv, DoneStay
<1>3. \A g \in Queues : Held(g)' \subseteq Held(g)
  BY DEF AllShrunk, Shrunk, Held
<1>4. \A g \in Queues : Content(enqueued, queues[g], drains[g])'
  BY DEF AllShrunk, Shrunk
<1>5. \A g, h \in Queues : g # h => Held(g)' \cap Held(h)' = {}
  BY <1>3 DEF CInv, ObjectsInv
<1>. QED  BY <1>1, <1>2, <1>3, <1>4, <1>5 DEF ObjectsInv, AllShrunk

LEMMA ShrinkFrame ==
  ASSUME IInv, CInv, enqueued' = enqueued, answered' = answered, DoneStay, AllShrunk,
         faults'.stops = 0 => faults.stops = 0 /\ MapStays
  PROVE  CInv'
<1>1. /\ EnqueuedInv' /\ ObjectsInv' /\ Queues' = Queues
      /\ \A g \in Queues : Held(g)' \subseteq Held(g)
  BY ObjectsFrame
<1>2. AnsweredInv'
  <2>1. \A g \in Queues : Held(g)' \cap ToSet(answered) = {}
    BY <1>1 DEF CInv, AnsweredInv
  <2>. QED  BY <1>1, <2>1 DEF CInv, AnsweredInv
<1>3. OrderInv'
  <2>. SUFFICES ASSUME faults'.stops = 0
                PROVE  /\ Rising(enqueued, answered)
                       /\ \A g \in Queues : /\ g # current' => Held(g)' = {}
                                            /\ Before(enqueued, ToSet(answered), Held(g)')
    BY <1>1 DEF OrderInv
  <2>1. /\ Rising(enqueued, answered)
        /\ \A g \in Queues : /\ g # current => Held(g) = {}
                             /\ Before(enqueued, ToSet(answered), Held(g))
    BY DEF CInv, OrderInv
  <2>2. ASSUME NEW g \in Queues, g # current' PROVE Held(g)' = {}
    <3>1. CASE g # current
      BY <1>1, <2>1, <3>1
    <3>2. CASE g = current
      <4>1. current # 0
        BY <3>2 DEF Queues
      <4>2. Holds(queues'[current], drains'[current]) = {}
        BY <2>2, <3>2, <4>1 DEF MapStays
      <4>. QED  BY <3>2, <4>2 DEF Held
    <3>. QED  BY <3>1, <3>2
  <2>3. ASSUME NEW g \in Queues PROVE Before(enqueued, ToSet(answered), Held(g)')
    BY <1>1, <2>1 DEF Before
  <2>. QED  BY <2>1, <2>2, <2>3
<1>. QED  BY <1>1, <1>2, <1>3 DEF CInv

\* The messages of its call leave the object g and its drain for the answered ones.
LEMMA AnswerFrame ==
  ASSUME IInv, CInv, enqueued' = enqueued, DoneStay, AllShrunk, faults' = faults, MapStays,
         NEW g \in Queues, faults.stops = 0 => g = current,
         NEW s \in Seq(Messages), answered' = answered \o s,
         ToSet(s) \subseteq Held(g), Rising(enqueued, s),
         Held(g)' \cap ToSet(s) = {}, Before(enqueued, ToSet(s), Held(g)')
  PROVE  CInv'
<1>1. /\ EnqueuedInv' /\ ObjectsInv' /\ Queues' = Queues
      /\ \A h \in Queues : Held(h)' \subseteq Held(h)
  BY ObjectsFrame
<1>2. answered \in Seq(Messages) /\ Distinct(answered) /\ ToSet(answered) \subseteq ToSet(enqueued)
      /\ \A h \in Queues : Held(h) \cap ToSet(answered) = {}
  BY DEF CInv, AnsweredInv
<1>3. Held(g) \subseteq ToSet(enqueued)
  BY DEF CInv, ObjectsInv, Content, Held
<1>4. Distinct(s)
  BY <1>3, RisingDistinct DEF CInv, EnqueuedInv
<1>5. ToSet(answered) \cap ToSet(s) = {}
  BY <1>2
<1>6. /\ answered' \in Seq(Messages) /\ ToSet(answered') = ToSet(answered) \cup ToSet(s)
      /\ Rising(enqueued, answered')
           <=> /\ Rising(enqueued, answered) /\ Rising(enqueued, s)
               /\ Before(enqueued, ToSet(answered), ToSet(s))
  BY <1>2, Joined
<1>7. Distinct(answered')
  BY <1>2, <1>4, <1>5, DistinctJoined
<1>8. \A h \in Queues : Held(h)' \cap ToSet(answered') = {}
  <2>. TAKE h \in Queues
  <2>1. Held(h)' \cap ToSet(s) = {}
    <3>1. CASE h = g
      BY <3>1
    <3>2. CASE h # g
      <4>1. Held(h) \cap Held(g) = {}
        BY <3>2 DEF CInv, ObjectsInv
      <4>. QED  BY <1>1, <4>1
    <3>. QED  BY <3>1, <3>2
  <2>. QED  BY <1>1, <1>2, <1>6, <2>1
<1>9. AnsweredInv'
  <2>1. ToSet(answered') \subseteq ToSet(enqueued)
    BY <1>2, <1>3, <1>6
  <2>. QED  BY <1>1, <1>6, <1>7, <1>8, <2>1 DEF AnsweredInv
<1>10. OrderInv'
  <2>. SUFFICES ASSUME faults.stops = 0
                PROVE  /\ Rising(enqueued, answered')
                       /\ \A h \in Queues : /\ h # current' => Held(h)' = {}
                                            /\ Before(enqueued, ToSet(answered'), Held(h)')
    BY <1>1 DEF OrderInv
  <2>1. /\ Rising(enqueued, answered) /\ g = current
        /\ \A h \in Queues : /\ h # current => Held(h) = {}
                             /\ Before(enqueued, ToSet(answered), Held(h))
    BY DEF CInv, OrderInv
  <2>2. Before(enqueued, ToSet(answered), ToSet(s))
    BY <2>1 DEF Before
  <2>3. ASSUME NEW h \in Queues, h # current' PROVE Held(h)' = {}
    <3>1. CASE h # current
      BY <1>1, <2>1, <3>1
    <3>2. CASE h = current
      <4>1. current # 0
        BY <3>2 DEF Queues
      <4>2. Holds(queues'[current], drains'[current]) = {}
        BY <2>3, <3>2, <4>1 DEF MapStays
      <4>. QED  BY <3>2, <4>2 DEF Held
    <3>. QED  BY <3>1, <3>2
  <2>4. ASSUME NEW h \in Queues PROVE Before(enqueued, ToSet(answered'), Held(h)')
    <3>1. CASE h = g
      BY <1>1, <1>6, <2>1, <3>1 DEF Before
    <3>2. CASE h # g
      BY <1>1, <2>1, <3>2 DEF Before
    <3>. QED  BY <3>1, <3>2
  <2>. QED  BY <1>6, <2>1, <2>2, <2>3, <2>4
<1>. QED  BY <1>1, <1>9, <1>10 DEF CInv

-----------------------------------------------------------------------------
(* The rounds of a drain *)

\* Drains of any shape keep their call when their state, operation or flag changes;
\* fresh ones have nothing in their hand.
LEMMA DrainCalls ==
  /\ \A d, n : IsDrain(d, n) => /\ \A p : WithPc(d, p).call = d.call
                                /\ \A o : WithOp(d, o).call = d.call
                                /\ \A p, o : WithOp(WithPc(d, p), o).call = d.call
                                /\ \A p, f, c : WithCall(WithForce(WithPc(d, p), f), c).call = c
                                /\ \A p, o, c : WithCall(WithOp(WithPc(d, p), o), c).call = c
  /\ Emptyhanded(Idle) /\ Emptyhanded(Debounce) /\ \A f : Emptyhanded(WithForce(Debounce, f))
<1>1. \A p, f, o, c : /\ DrainRec(p, f, o, c).call = c
                      /\ \A x : /\ WithPc(DrainRec(p, f, o, c), x) = DrainRec(x, f, o, c)
                                /\ WithOp(DrainRec(p, f, o, c), x) = DrainRec(p, f, x, c)
                                /\ WithForce(DrainRec(p, f, o, c), x) = DrainRec(p, x, o, c)
                                /\ WithCall(DrainRec(p, f, o, c), x) = DrainRec(p, f, o, x)
  BY DEF DrainRec, WithPc, WithOp, WithForce, WithCall
<1>2. Idle = DrainRec("idle", FALSE, 0, NoCall)
  BY Zenon DEF Idle, DrainRec
<1>3. Debounce = WithPc(Idle, "debounce")
  BY DEF Debounce, WithPc
<1>4. \A d, n : IsDrain(d, n) => \E p, f, o, c : d = DrainRec(p, f, o, c)
  BY Zenon DEF IsDrain
<1>5. ASSUME NEW p, NEW f, NEW o, NEW c, NEW d, d = DrainRec(p, f, o, c)
      PROVE  /\ \A x : WithPc(d, x).call = d.call
             /\ \A x : WithOp(d, x).call = d.call
             /\ \A x : WithForce(d, x).call = d.call
             /\ \A x, y : WithOp(WithPc(d, x), y).call = d.call
             /\ \A x, y, z : WithCall(WithForce(WithPc(d, x), y), z).call = z
             /\ \A x, y, z : WithCall(WithOp(WithPc(d, x), y), z).call = z
  BY <1>1, <1>5
<1>6. \A f, c : Emptyhanded(DrainRec("idle", f, 0, c)) <=> c = NoCall
  BY <1>1 DEF Emptyhanded
<1>7. Emptyhanded(Idle)
  BY <1>2, <1>6, Zenon
<1>8. \A d, n : IsDrain(d, n) /\ Emptyhanded(d)
        => (\A p : Emptyhanded(WithPc(d, p))) /\ (\A f : Emptyhanded(WithForce(d, f)))
  BY <1>4, <1>5 DEF Emptyhanded
<1>9. Emptyhanded(Idle) /\ Emptyhanded(Debounce) /\ \A f : Emptyhanded(WithForce(Debounce, f))
  <2>1. IsDrain(Idle, 0) /\ IsDrain(Debounce, 0)
    BY FreshDrains
  <2>2. Emptyhanded(Debounce)
    BY <1>3, <1>7, <1>8, <2>1
  <2>. QED  BY <1>7, <1>8, <2>1, <2>2
<1>. QED  BY <1>4, <1>5, <1>9

\* The round of g is over and left q: its hand is empty, another drain may have been
\* started, and the object leaves the map only with nothing.
RoundOver(g, q) ==
  /\ queues' \in Seq(QueueRec) /\ Len(queues') = Len(queues) /\ queues'[g] = q
  /\ \A h \in Queues : h # g => queues'[h] = queues[h]
  /\ \A h \in Queues : h # g => drains'[h].call = drains[h].call \/ Emptyhanded(drains'[h])
  /\ Emptyhanded(drains'[g])
  /\ current' = current \/ (current = g /\ current' = 0 /\ ~Pending(q))

LEMMA QueuePut ==
  ASSUME IInv, CInv, NEW g \in Queues, NEW q \in QueueRec, Put(queues, g, q, queues')
  PROVE  /\ queues' \in Seq(QueueRec) /\ Len(queues') = Len(queues) /\ queues'[g] = q
         /\ \A h \in Queues : h # g => queues'[h] = queues[h]
BY Shape DEF Put, Queues

LEMMA DrainPut ==
  ASSUME IInv, CInv, NEW g \in Queues, NEW d, Put(drains, g, d, drains')
  PROVE  drains'[g] = d /\ \A h \in Queues : h # g => drains'[h] = drains[h]
<1>1. IsSeq(drains) /\ g \in 1..Len(drains) /\ Queues = 1..Len(drains)
  BY Shape DEF Queues
<1>. QED  BY <1>1, Replaced

LEMMA ScheduledCalls ==
  \A ds, g : IsSeq(ds) /\ g \in 0..Len(ds) =>
    \A h \in 1..Len(ds) :
      Scheduled(ds, g)[h] = ds[h] \/ Emptyhanded(Scheduled(ds, g)[h])
<1>. SUFFICES ASSUME NEW ds, IsSeq(ds), NEW g, g \in 0..Len(ds), NEW h \in 1..Len(ds)
              PROVE  Scheduled(ds, g)[h] = ds[h] \/ Emptyhanded(Scheduled(ds, g)[h])
  OBVIOUS
<1>1. CASE g # 0 /\ ds[g].pc = "idle"
  <2>1. Put(ds, g, Debounce, Scheduled(ds, g)) /\ g \in 1..Len(ds)
    BY <1>1 DEF Scheduled, Put
  <2>2. /\ Scheduled(ds, g)[g] = Debounce
        /\ \A x \in 1..Len(ds) : x # g => Scheduled(ds, g)[x] = ds[x]
    BY <2>1, Replaced
  <2>. QED  BY <2>2, DrainCalls
<1>2. CASE ~(g # 0 /\ ds[g].pc = "idle")
  BY <1>2 DEF Scheduled
<1>. QED  BY <1>1, <1>2

LEMMA NextRoundOver ==
  ASSUME IInv, CInv, NEW g \in Queues, NEW q \in QueueRec, NEW force, NextRound(g, q, force)
  PROVE  RoundOver(g, q)
<1>1. /\ Put(queues, g, q, queues')
      /\ Put(drains, g, IF Pending(q) THEN WithForce(Debounce, force) ELSE Idle, drains')
      /\ current' = IF ~Pending(q) /\ current = g THEN 0 ELSE current
  BY DEF NextRound, WithForce, Put
<1>2. /\ queues' \in Seq(QueueRec) /\ Len(queues') = Len(queues) /\ queues'[g] = q
      /\ \A h \in Queues : h # g => queues'[h] = queues[h]
  BY <1>1, QueuePut
<1>3. /\ drains'[g] = IF Pending(q) THEN WithForce(Debounce, force) ELSE Idle
      /\ \A h \in Queues : h # g => drains'[h] = drains[h]
  BY <1>1, DrainPut
<1>. QED  BY <1>1, <1>2, <1>3, DrainCalls DEF RoundOver

LEMMA RestartedOver ==
  ASSUME IInv, CInv, NEW g \in Queues, NEW q \in QueueRec, Restarted(g, q)
  PROVE  RoundOver(g, q)
<1>. DEFINE stopped == [drains EXCEPT ![g] = Idle]
<1>1. /\ Put(queues, g, q, queues') /\ Put(drains, g, Idle, stopped)
      /\ drains' = IF Pending(q) THEN Scheduled(stopped, current) ELSE stopped
      /\ current' = IF ~Pending(q) /\ current = g THEN 0 ELSE current
  BY DEF Restarted, Put
<1>2. /\ queues' \in Seq(QueueRec) /\ Len(queues') = Len(queues) /\ queues'[g] = q
      /\ \A h \in Queues : h # g => queues'[h] = queues[h]
  BY <1>1, QueuePut
<1>. HIDE DEF stopped
<1>3. /\ IsSeq(stopped) /\ Len(stopped) = Len(queues) /\ stopped[g] = Idle
      /\ \A h \in 1..Len(queues) : h # g => stopped[h] = drains[h]
  <2>1. IsSeq(drains) /\ g \in 1..Len(drains) /\ Len(drains) = Len(queues)
    BY Shape DEF Queues
  <2>. QED  BY <1>1, <2>1, Replaced
<1>4. \A h \in 1..Len(queues) :
        drains'[h] = stopped[h] \/ Emptyhanded(drains'[h])
  BY <1>1, <1>3, Shape, ScheduledCalls
<1>5. g \in 1..Len(queues) /\ Emptyhanded(Idle)
  BY DrainCalls DEF Queues
<1>. QED  BY <1>1, <1>2, <1>3, <1>4, <1>5 DEF RoundOver, Queues

\* A round that left the items as they were, or removed some.
LEMMA RoundShrinks ==
  ASSUME IInv, CInv, NEW g \in Queues, NEW q, RoundOver(g, q),
         \A d : Emptyhanded(d) => Shrunk(enqueued, queues[g], drains[g], q, d)
  PROVE  AllShrunk /\ MapStays
<1>1. \A h \in Queues : Content(enqueued, queues[h], drains[h])
  BY DEF CInv, ObjectsInv
<1>2. ASSUME NEW h \in Queues
      PROVE  Shrunk(enqueued, queues[h], drains[h], queues'[h], drains'[h])
  <2>1. CASE h = g
    BY <2>1 DEF RoundOver
  <2>2. CASE h # g
    <3>1. queues[h] \in QueueRec /\ queues'[h] = queues[h]
      BY <1>1, <2>2 DEF Content, RoundOver
    <3>. QED  BY <1>1, <2>2, <3>1, SameHand, HandEmptied DEF RoundOver
  <2>. QED  BY <2>1, <2>2
<1>3. MapStays
  <2>. SUFFICES ASSUME current = g, ~Pending(q) PROVE Holds(queues'[g], drains'[g]) = {}
    BY DEF MapStays, RoundOver
  <2>1. queues'[g].items = <<>> /\ ToSet(Hand(drains'[g])) = {}
    BY NothingHeld DEF Pending, RoundOver
  <2>. QED  BY <2>1, Emptied DEF Holds
<1>. QED  BY <1>2, <1>3 DEF AllShrunk, RoundOver

-----------------------------------------------------------------------------
(* The calls of a drain *)

LEMMA Rejoined ==
  ASSUME NEW M, NEW s \in Seq(M), NEW k \in 0..Len(s)
  PROVE  SubSeq(s, 1, k) \o SubSeq(s, k + 1, Len(s)) = s
<1>. DEFINE p == SubSeq(s, 1, k)
            r == SubSeq(s, k + 1, Len(s))
            u == p \o r
<1>0. /\ p \in Seq(M) /\ Len(p) = k /\ r \in Seq(M) /\ Len(r) = Len(s) - k /\ Len(s) \in Nat
      /\ \A i \in 1..k : p[i] = s[i]
      /\ \A i \in 1..(Len(s) - k) : r[i] = s[k + i]
  <2>1. 1 =< k + 1 /\ k + 1 \in Nat /\ Len(s) \in Nat /\ k \in Nat
    OBVIOUS
  <2>2. p \in Seq(M) /\ Len(p) = k /\ \A i \in 1..k : p[i] = s[i]
    OBVIOUS
  <2>3. r \in Seq(M)
    OBVIOUS
  <2>4. Len(r) = Len(s) - k
    OBVIOUS
  <2>5. \A i \in 1..(Len(s) - k) : r[i] = s[k + i]
    OBVIOUS
  <2>. QED  BY <2>1, <2>2, <2>3, <2>4, <2>5
<1>. HIDE DEF p, r
<1>1. u \in Seq(M) /\ Len(u) = Len(s) /\ \A i \in 1..Len(s) : u[i] = s[i]
  <2>1. /\ u \in Seq(M) /\ Len(u) = Len(s) /\ \A i \in 1..k : u[i] = p[i]
        /\ \A i \in 1..(Len(s) - k) : u[k + i] = r[i]
    BY <1>0
  <2>2. \A i \in 1..Len(s) : i \in 1..k \/ (i - k \in 1..(Len(s) - k) /\ k + (i - k) = i)
    BY <1>0
  <2>. HIDE DEF u
  <2>3. ASSUME NEW i \in 1..Len(s) PROVE u[i] = s[i]
    <3>1. CASE i \in 1..k
      BY <1>0, <2>1, <3>1
    <3>2. CASE i - k \in 1..(Len(s) - k) /\ k + (i - k) = i
      <4>1. u[k + (i - k)] = r[i - k] /\ r[i - k] = s[k + (i - k)]
        BY <1>0, <2>1, <3>2
      <4>. QED  BY <3>2, <4>1
    <3>. QED  BY <2>2, <3>1, <3>2
  <2>. QED  BY <2>1, <2>3
<1>. HIDE DEF u
<1>2. u = s
  BY <1>1
<1>. QED  BY <1>2 DEF u, p, r

\* The messages of s are of senders with the same rights.
OneAuthorization(s) == \A i \in 1..Len(s) : AuthOf[s[i]] = AuthOf[s[1]]

LEMMA NoLines == <<>> \in Seq(Messages)
OBVIOUS

\* The call for a group of a snapshot has the snapshot between its items and its rest.
LEMMA GroupCallIs ==
  ASSUME NEW items \in Seq(Messages), items # <<>>, NEW told \in Seq(Messages)
  PROVE  /\ IsCall(GroupCall(items, told))
         /\ OneAuthorization(GroupCall(items, told).items)
         /\ GroupCall(items, told).items \o GroupCall(items, told).rest = items
<1>1. PICK k \in 1..Len(items) :
        /\ FirstGroup(items) = SubSeq(items, 1, k) /\ Len(FirstGroup(items)) = k
        /\ \A i \in 1..k : AuthOf[items[i]] = AuthOf[items[1]]
  BY FirstGroupIs
<1>2. /\ GroupCall(items, told).items = SubSeq(items, 1, k)
      /\ GroupCall(items, told).rest = SubSeq(items, k + 1, Len(items))
      /\ GroupCall(items, told).kind = "item" /\ GroupCall(items, told).summary = told
  BY <1>1 DEF GroupCall
<1>3. k \in 0..Len(items)
  OBVIOUS
<1>4. SubSeq(items, 1, k) \in Seq(Messages) /\ SubSeq(items, k + 1, Len(items)) \in Seq(Messages)
  BY <1>3, Parts
<1>5. OneAuthorization(SubSeq(items, 1, k))
  <2>1. Len(SubSeq(items, 1, k)) = k /\ \A i \in 1..k : SubSeq(items, 1, k)[i] = items[i]
    BY <1>3
  <2>2. \A i \in 1..k : AuthOf[items[i]] = AuthOf[items[1]]
    BY <1>1
  <2>3. 1 \in 1..k
    OBVIOUS
  <2>. QED  BY <2>1, <2>2, <2>3 DEF OneAuthorization
<1>. QED  BY <1>2, <1>3, <1>4, <1>5, Rejoined DEF IsCall

\* The messages of the set S came over one route, those without metadata aside, and one
\* that cannot share a prompt is alone.
OneRoute(S) ==
  /\ \A x, y \in S : RouteOf[x] # Neutral /\ RouteOf[y] # Neutral => RouteOf[x] = RouteOf[y]
  /\ \A x \in S : RouteOf[x] = Unroutable => S = {x}

LEMMA NotCrossed ==
  ASSUME NEW items \in Seq(Messages), ~IsCrossChannel(items)
  PROVE  OneRoute(ToSet(items))
<1>. DEFINE all == {RouteOf[m] : m \in ToSet(items)}
            routes == all \ {Neutral}
            f == [i \in 1..Len(items) |-> RouteOf[items[i]]]
<1>1. ToSet(items) = {items[i] : i \in 1..Len(items)} /\ Len(items) \in Nat
  BY AsSet
<1>2. f \in Surjection(1..Len(items), all)
  BY <1>1 DEF Surjection
<1>3. IsFiniteSet(routes)
  <2>. HIDE DEF all, f
  <2>1. IsFiniteSet(all)
    BY <1>1, <1>2, FS_NatSurjection DEF ExistsSurjection
  <2>. QED  BY <2>1, FS_Subset
<1>4. ~(Cardinality(routes) > 1) /\ \A m \in ToSet(items) : RouteOf[m] # Unroutable
  BY DEF IsCrossChannel
<1>. HIDE DEF routes
<1>5. ASSUME NEW a \in routes, NEW b \in routes, a # b PROVE FALSE
  <2>. DEFINE one == {a}
              both == one \cup {b}
              n == Cardinality(routes)
  <2>1. IsFiniteSet(one) /\ Cardinality(one) = 1 /\ b \notin one
    BY <1>5, FS_Singleton
  <2>2. both \in SUBSET routes
    BY <1>5
  <2>. HIDE DEF one
  <2>3. Cardinality(both) = Cardinality(one) + 1
    BY <2>1, FS_AddElement
  <2>. HIDE DEF both
  <2>4. Cardinality(both) <= n /\ n \in Nat /\ ~(n > 1)
    BY <1>3, <1>4, <2>2, FS_Subset, FS_CardinalityType
  <2>. HIDE DEF n
  <2>. QED  BY <2>1, <2>3, <2>4
<1>. QED  BY <1>4, <1>5 DEF routes, OneRoute

\* A call of the drain of g takes the first items of its object, if any.
LEMMA CallsAre ==
  ASSUME NEW g, queues[g] \in QueueRec, NEW c \in Calls(g)
  PROVE  /\ IsCall(c) /\ OneAuthorization(c.items) /\ OneRoute(ToSet(c.items) \cup ToSet(c.rest))
         /\ \E k \in 0..Len(queues[g].items) : c.items \o c.rest = SubSeq(queues[g].items, 1, k)
<1>. DEFINE q == queues[g]
            head == SubSeq(q.items, 1, 1)
            told == SummaryOf(q)
<1>1. q.items \in Seq(Messages) /\ q.lines \in Seq(Messages) /\ Len(q.items) \in Nat
  BY DEF QueueRec
<1>2. told \in Seq(Messages) /\ <<>> \in Seq(Messages)
  BY <1>1 DEF SummaryOf
<1>3. \/ /\ q.items # <<>>
         /\ \E kind \in {"item", "summary"}, s \in {<<>>, told} :
              c = [kind |-> kind, items |-> head, rest |-> <<>>, summary |-> s]
      \/ q.items # <<>> /\ c = GroupCall(q.items, told) /\ ~IsCrossChannel(q.items)
      \/ c = [kind |-> "summary", items |-> <<>>, rest |-> <<>>, summary |-> told]
  BY DEF Calls, Individually
<1>. HIDE DEF q, told
<1>4. ASSUME NEW kind \in {"item", "summary"}, NEW s \in {<<>>, told}, q.items # <<>>,
             c = [kind |-> kind, items |-> head, rest |-> <<>>, summary |-> s]
      PROVE  /\ IsCall(c) /\ OneAuthorization(c.items)
             /\ OneRoute(ToSet(c.items) \cup ToSet(c.rest))
             /\ \E k \in 0..Len(q.items) : c.items \o c.rest = SubSeq(q.items, 1, k)
  <2>1. 1 \in 0..Len(q.items) /\ head \in Seq(Messages) /\ head \o <<>> = head
    BY <1>1, <1>4
  <2>2. c.kind = kind /\ c.items = head /\ c.rest = <<>> /\ c.summary = s
    BY <1>4
  <2>. HIDE DEF head
  <2>3. IsCall(c)
    BY <1>2, <2>1, <2>2 DEF IsCall
  <2>4. OneAuthorization(SubSeq(q.items, 1, 1))
    <3>1. Len(SubSeq(q.items, 1, 1)) = 1
      BY <1>1, <1>4
    <3>. QED  BY <3>1 DEF OneAuthorization
  <2>5. OneRoute(ToSet(head) \cup ToSet(<<>>))
    <3>1. Len(head) = 1
      BY <1>1, <1>4 DEF head
    <3>2. ToSet(head) = {head[x] : x \in 1..1}
      BY <2>1, <3>1, AsSet
    <3>. QED  BY <3>2, Emptied DEF OneRoute
  <2>. QED  BY <2>1, <2>2, <2>3, <2>4, <2>5 DEF head
<1>5. ASSUME q.items # <<>>, c = GroupCall(q.items, told), ~IsCrossChannel(q.items)
      PROVE  /\ IsCall(c) /\ OneAuthorization(c.items)
             /\ OneRoute(ToSet(c.items) \cup ToSet(c.rest))
             /\ \E k \in 0..Len(q.items) : c.items \o c.rest = SubSeq(q.items, 1, k)
  <2>1. Len(q.items) \in 0..Len(q.items) /\ SubSeq(q.items, 1, Len(q.items)) = q.items
    BY <1>1
  <2>2. IsCall(c) /\ OneAuthorization(c.items) /\ c.items \o c.rest = q.items
    BY <1>1, <1>2, <1>5, GroupCallIs
  <2>3. ToSet(c.items) \cup ToSet(c.rest) = ToSet(q.items)
    <3>1. c.items \in Seq(Messages) /\ c.rest \in Seq(Messages)
      BY <2>2 DEF IsCall
    <3>2. ToSet(c.items \o c.rest) = ToSet(c.items) \cup ToSet(c.rest)
      BY <3>1, Joined
    <3>. QED  BY <2>2, <3>2
  <2>. QED  BY <1>1, <1>5, <2>1, <2>2, <2>3, NotCrossed
<1>6. ASSUME c = [kind |-> "summary", items |-> <<>>, rest |-> <<>>, summary |-> told]
      PROVE  /\ IsCall(c) /\ OneAuthorization(c.items)
             /\ OneRoute(ToSet(c.items) \cup ToSet(c.rest))
             /\ \E k \in 0..Len(q.items) : c.items \o c.rest = SubSeq(q.items, 1, k)
  <2>1. 0 \in 0..Len(q.items) /\ SubSeq(q.items, 1, 0) = <<>> \o <<>>
    BY <1>1
  <2>. QED  BY <1>2, <1>6, <2>1, Emptied DEF IsCall, OneAuthorization, OneRoute
<1>. QED  BY <1>3, <1>4, <1>5, <1>6 DEF q

-----------------------------------------------------------------------------
(* The turns *)

\* The turn of m, which is not over, is written; it sees an operation it saw before,
\* the one in the slot, or none.
TurnWritten(m) ==
  /\ turns[m].pc # "done"
  /\ \E t : Put(turns, m, t, turns') /\ t.seen \in {0, slot, turns[m].seen}

LEMMA OwnsWrites ==
  ASSUME NEW m, NEW pc, Owns(m, pc), turns[m].pc # "done"
  PROVE  TurnWritten(m)
<1>. DEFINE t == [pc |-> pc, seen |-> 0, op |-> slot']
<1>1. t.seen = 0 /\ Put(turns, m, t, turns')
  BY DEF Owns, Put
<1>. HIDE DEF t
<1>. QED  BY <1>1 DEF TurnWritten

LEMMA TurnOfWrites ==
  ASSUME IInv, NEW m \in Messages, NEW pc, Turn(m, pc), turns[m].pc # "done"
  PROVE  TurnWritten(m)
<1>. DEFINE t == IF pc = "done" THEN [NoTurn EXCEPT !.pc = pc] ELSE [turns[m] EXCEPT !.pc = pc]
<1>1. turns[m] \in TurnRecord
  BY DEF IInv, TurnsInv, TurnRecord
<1>2. t.seen \in {0, slot, turns[m].seen}
  BY <1>1 DEF NoTurn, TurnRecord
<1>3. Put(turns, m, t, turns')
  BY DEF Turn, Put
<1>. HIDE DEF t
<1>. QED  BY <1>2, <1>3 DEF TurnWritten

LEMMA TurnWrites ==
  ASSUME IInv, NEW m \in Messages, PreDispatch(m) \/ TurnMoves(m)
  PROVE  TurnWritten(m) \/ turns' = turns
<1>1. CASE PreDispatch(m)
  <2>1. CASE Owns(m, "held")
    BY <1>1, <2>1, OwnsWrites DEF PreDispatch
  <2>2. CASE ~Owns(m, "held")
    <3>1. turns' = [turns EXCEPT ![m].pc = "pre", ![m].seen = slot] /\ turns[m].pc = "new"
      BY <1>1, <2>2 DEF PreDispatch
    <3>2. turns \in [Messages -> TurnRecord]
      BY DEF IInv, TurnsInv, TurnRecord
    <3>. DEFINE t == [[turns[m] EXCEPT !.pc = "pre"] EXCEPT !.seen = slot]
                mid == [turns EXCEPT ![m] = [turns[m] EXCEPT !.pc = "pre"]]
    <3>3. turns' = [mid EXCEPT ![m] = [mid[m] EXCEPT !.seen = slot]]
      BY <3>1
    <3>4. mid[m] = [turns[m] EXCEPT !.pc = "pre"]
      BY <3>2
    <3>5. Put(turns, m, t, turns')
      BY <3>2, <3>3, <3>4 DEF Put
    <3>6. t.seen = slot
      BY <3>2 DEF TurnRecord
    <3>. HIDE DEF t, mid
    <3>. QED  BY <3>1, <3>5, <3>6 DEF TurnWritten
  <2>. QED  BY <2>1, <2>2
<1>2. CASE Dispatch(m)
  BY <1>2, OwnsWrites, TurnOfWrites DEF Dispatch
<1>3. CASE Woken(m) \/ Readmitted(m)
  BY <1>3, OwnsWrites DEF Woken, Readmitted
<1>4. CASE \E s \in SettingsOf[m] : EnqueueTurn(m, s)
  BY <1>4, TurnOfWrites DEF EnqueueTurn
<1>5. CASE AgentStarts(m) \/ EmbeddedRunEnds(m) \/ TurnEnds(m)
  BY <1>5, TurnOfWrites DEF AgentStarts, EmbeddedRunEnds, TurnEnds
<1>6. CASE AgentEnds(m)
  <2>1. turns[m].pc = "ended" /\ \E pc : Turn(m, pc)
    BY <1>6 DEF AgentEnds
  <2>. QED  BY <2>1, TurnOfWrites
<1>7. CASE DispatchAborted(m)
  BY <1>7 DEF DispatchAborted
<1>. QED  BY <1>1, <1>2, <1>3, <1>4, <1>5, <1>6, <1>7 DEF TurnMoves

LEMMA TurnsFrame ==
  ASSUME IInv, SeenInv, Len(operations) =< Len(operations'), Len(operations') \in Nat,
         NEW m \in Messages, TurnWritten(m) \/ turns' = turns
  PROVE  DoneStay /\ SeenInv'
<1>1. CASE turns' = turns
  BY <1>1, Lengths DEF DoneStay, SeenInv, IInv, TurnsInv
<1>2. CASE TurnWritten(m)
  <2>1. PICK t : Put(turns, m, t, turns') /\ t.seen \in {0, slot, turns[m].seen}
    BY <1>2 DEF TurnWritten
  <2>2. turns'[m] = t /\ \A n \in Messages : n # m => turns'[n] = turns[n]
    BY <2>1 DEF Put, IInv, TurnsInv
  <2>3. \A n \in Messages : turns[n].seen \in Nat /\ turns[n].seen =< Len(operations')
    BY Lengths DEF SeenInv, IInv, TurnsInv
  <2>4. slot =< Len(operations') /\ 0 =< Len(operations')
    BY Lengths
  <2>. QED  BY <1>2, <2>1, <2>2, <2>3, <2>4 DEF DoneStay, SeenInv, TurnWritten
<1>. QED  BY <1>1, <1>2

\* Operations are only added.
LEMMA OperationsGrow ==
  ASSUME IInv, [Next]_vars
  PROVE  Len(operations) =< Len(operations') /\ Len(operations') \in Nat
<1>1. IInv'
  BY StepPreserves
<1>2. Len(operations') \in Nat /\ Len(operations) \in Nat
  BY <1>1 DEF IInv, SlotInv
<1>3. CASE operations' = operations
  BY <1>2, <1>3
<1>4. CASE createReplyOperation
  BY <1>2, <1>4, CreateKeeps DEF IInv
<1>5. CASE \E op \in 1..Len(operations) : Ended(op, "completed")
  BY <1>2, <1>5, EndKeeps DEF IInv
<1>6. CASE Aborted(QueuedPhase)
  BY <1>2, <1>6, AbortKeeps DEF IInv
<1>7. CASE UNCHANGED vars
  BY <1>3, <1>7 DEF vars, slotVars
<1>8. ASSUME NEW m \in Messages, PreDispatch(m) \/ TurnMoves(m)
      PROVE  Len(operations) =< Len(operations')
  <2>1. CASE PreDispatch(m) \/ Dispatch(m) \/ Woken(m) \/ Readmitted(m)
    BY <1>3, <1>4, <2>1 DEF PreDispatch, Dispatch, Woken, Readmitted, Owns, slotVars
  <2>2. CASE AgentStarts(m) \/ EmbeddedRunEnds(m) \/ \E s \in SettingsOf[m] : EnqueueTurn(m, s)
    BY <1>3, <2>2 DEF AgentStarts, EmbeddedRunEnds, EnqueueTurn, slotVars
  <2>3. CASE AgentEnds(m) \/ DispatchAborted(m) \/ TurnEnds(m)
    BY <1>5, <2>3, TurnOperation DEF AgentEnds, DispatchAborted, TurnEnds
  <2>. QED  BY <1>8, <2>1, <2>2, <2>3 DEF TurnMoves
<1>9. ASSUME NEW g \in Queues,
             \/ DrainStep(g) \/ FollowupAdmitted(g) \/ FollowupStarts(g) \/ FollowupDeferred(g)
             \/ FollowupDone(g) \/ FollowupThrows(g)
      PROVE  Len(operations) =< Len(operations')
  <2>1. CASE DrainStep(g) \/ FollowupStarts(g) \/ FollowupDeferred(g)
    BY <1>3, <2>1 DEF DrainStep, FollowupStarts, FollowupDeferred, slotVars
  <2>2. CASE FollowupAdmitted(g)
    BY <1>4, <2>2 DEF FollowupAdmitted
  <2>3. CASE FollowupDone(g) \/ FollowupThrows(g)
    <3>1. drains[g].op \in 1..Len(operations) /\ Ended(drains[g].op, "completed")
      BY <2>3, DrainKnown DEF FollowupDone, FollowupThrows
    <3>. QED  BY <1>5, <3>1
  <2>. QED  BY <1>9, <2>1, <2>2, <2>3
<1>10. CASE Stop
  BY <1>6, <1>10 DEF Stop
<1>. QED  BY <1>2, <1>7, <1>8, <1>9, <1>10 DEF Next

-----------------------------------------------------------------------------
(* Steps that leave all messages where they are *)

\* The objects are the same, the drains have the same calls or none.
LEMMA CallsStay ==
  ASSUME IInv, CInv, queues' = queues, current' = current,
         \A h \in Queues : drains'[h].call = drains[h].call \/ Emptyhanded(drains'[h])
  PROVE  AllShrunk /\ MapStays
<1>1. ASSUME NEW h \in Queues
      PROVE  Shrunk(enqueued, queues[h], drains[h], queues'[h], drains'[h])
  <2>1. Content(enqueued, queues[h], drains[h]) /\ queues[h] \in QueueRec
    BY DEF CInv, ObjectsInv, Content
  <2>. QED  BY <2>1, SameHand, HandEmptied
<1>. QED  BY <1>1, Shape DEF AllShrunk, MapStays

LEMMA StayKeeps ==
  ASSUME IInv, CInv, StaysQueued, DoneStay
  PROVE  CInv'
<1>1. /\ queues' = queues /\ current' = current /\ drains' = drains /\ faults' = faults
      /\ enqueued' = enqueued /\ answered' = answered
  BY DEF StaysQueued, queueVars, fates
<1>2. AllShrunk /\ MapStays
  BY <1>1, CallsStay
<1>. QED  BY <1>1, <1>2, ShrinkFrame

LEMMA AgentEndsContent ==
  ASSUME IInv, CInv, NEW m \in Messages, AgentEnds(m), DoneStay
  PROVE  CInv'
<1>1. /\ queues' = queues /\ current' = current /\ drains' = Scheduled(drains, current)
      /\ faults' = faults /\ enqueued' = enqueued /\ answered' = answered
  BY DEF AgentEnds, fates
<1>2. \A h \in 1..Len(queues) : drains'[h] = drains[h] \/ Emptyhanded(drains'[h])
  BY <1>1, Shape, ScheduledCalls
<1>3. AllShrunk /\ MapStays
  BY <1>1, <1>2, CallsStay DEF Queues
<1>. QED  BY <1>1, <1>3, ShrinkFrame

-----------------------------------------------------------------------------
(* The steps of a drain *)

LEMMA DrainStepContent ==
  ASSUME IInv, CInv, NEW g \in Queues, DrainStep(g)
  PROVE  CInv'
<1>1. /\ turns' = turns /\ faults' = faults /\ enqueued' = enqueued /\ answered' = answered
  BY DEF DrainStep, fates
<1>2. DoneStay
  BY <1>1 DEF DoneStay
<1>3. Content(enqueued, queues[g], drains[g]) /\ queues[g] \in QueueRec
  BY DEF CInv, ObjectsInv, Content
<1>4. CASE Calls(g) = {}
  <2>1. RoundOver(g, queues[g])
    BY <1>3, <1>4, RestartedOver DEF DrainStep
  <2>2. AllShrunk /\ MapStays
    BY <1>3, <2>1, HandEmptied, RoundShrinks
  <2>. QED  BY <1>1, <1>2, <2>2, ShrinkFrame
<1>5. CASE Calls(g) # {}
  <2>. DEFINE c == CHOOSE x \in Calls(g) : TRUE
  <2>1. /\ queues' = queues /\ current' = current
        /\ \E f : Put(drains, g, WithCall(WithForce(WithPc(drains[g], "admit"), f), c), drains')
    BY <1>5, Zenon DEF DrainStep, Put, WithCall, WithForce, WithPc
  <2>2. c \in Calls(g)
    BY <1>5
  <2>. HIDE DEF c
  <2>3. PICK f : Put(drains, g, WithCall(WithForce(WithPc(drains[g], "admit"), f), c), drains')
    BY <2>1
  <2>4. IsCall(c)
    BY <1>3, <2>2, CallsAre
  <2>5. PICK k \in 0..Len(queues[g].items) : c.items \o c.rest = SubSeq(queues[g].items, 1, k)
    BY <1>3, <2>2, CallsAre
  <2>6. /\ drains'[g] = WithCall(WithForce(WithPc(drains[g], "admit"), f), c)
        /\ \A h \in Queues : h # g => drains'[h] = drains[h]
    BY <2>3, DrainPut
  <2>7. drains'[g].call = c
    BY <2>6, DrainKnown, DrainCalls
  <2>8. Shrunk(enqueued, queues[g], drains[g], queues'[g], drains'[g])
    <3>1. IsCall(drains'[g].call) /\ Hand(drains'[g]) = SubSeq(queues[g].items, 1, k)
      BY <2>4, <2>5, <2>7 DEF Hand
    <3>. QED  BY <1>3, <2>1, <3>1, PrefixTaken
  <2>9. \A h \in Queues : Shrunk(enqueued, queues[h], drains[h], queues'[h], drains'[h])
    <3>1. ASSUME NEW h \in Queues, h # g
          PROVE  Shrunk(enqueued, queues[h], drains[h], queues'[h], drains'[h])
      <4>1. Content(enqueued, queues[h], drains[h]) /\ queues[h] \in QueueRec
        BY DEF CInv, ObjectsInv, Content
      <4>. QED  BY <2>1, <2>6, <3>1, <4>1, SameHand
    <3>. QED  BY <2>8, <3>1
  <2>10. AllShrunk /\ MapStays
    BY <2>1, <2>9, Shape DEF AllShrunk, MapStays
  <2>. QED  BY <1>1, <1>2, <2>10, ShrinkFrame
<1>. QED  BY <1>4, <1>5

LEMMA DrainOpContent ==
  ASSUME IInv, CInv, NEW g \in Queues, FollowupAdmitted(g) \/ FollowupStarts(g)
  PROVE  CInv'
<1>1. /\ turns' = turns /\ faults' = faults /\ enqueued' = enqueued /\ answered' = answered
      /\ queues' = queues /\ current' = current
  BY DEF FollowupAdmitted, FollowupStarts, fates
<1>2. DoneStay
  BY <1>1 DEF DoneStay
<1>3. \E d : Put(drains, g, d, drains') /\ d.call = drains[g].call
  <2>1. CASE FollowupAdmitted(g)
    <3>1. Put(drains, g, WithOp(WithPc(drains[g], "admitted"), slot'), drains')
      BY <2>1 DEF FollowupAdmitted, Put, WithOp, WithPc
    <3>2. WithOp(WithPc(drains[g], "admitted"), slot').call = drains[g].call
      BY DrainKnown, DrainCalls
    <3>. QED  BY <3>1, <3>2
  <2>2. CASE FollowupStarts(g)
    <3>1. Put(drains, g, WithPc(drains[g], "running"), drains')
      BY <2>2 DEF FollowupStarts, Put, WithPc
    <3>2. WithPc(drains[g], "running").call = drains[g].call
      BY DrainKnown, DrainCalls
    <3>. QED  BY <3>1, <3>2
  <2>. QED  BY <2>1, <2>2
<1>4. PICK d : Put(drains, g, d, drains') /\ d.call = drains[g].call
  BY <1>3
<1>5. drains'[g] = d /\ \A h \in Queues : h # g => drains'[h] = drains[h]
  BY <1>4, DrainPut
<1>6. \A h \in Queues : drains'[h].call = drains[h].call
  BY <1>4, <1>5
<1>. QED  BY <1>1, <1>2, <1>6, CallsStay, ShrinkFrame

\* A round that ends without an answer leaves the items as they are.
LEMMA RestartContent ==
  ASSUME IInv, CInv, NEW g \in Queues, NEW q \in QueueRec, q.items = queues[g].items,
         Restarted(g, q), turns' = turns, enqueued' = enqueued, answered' = answered,
         faults'.stops = 0 => faults.stops = 0
  PROVE  CInv'
<1>1. DoneStay
  BY DEF DoneStay
<1>2. Content(enqueued, queues[g], drains[g])
  BY DEF CInv, ObjectsInv
<1>3. RoundOver(g, q)
  BY RestartedOver
<1>4. AllShrunk /\ MapStays
  BY <1>2, <1>3, HandEmptied, RoundShrinks
<1>. QED  BY <1>1, <1>4, ShrinkFrame

\* The lines after a restore have those that were there.
LEMMA RestoredIs ==
  ASSUME NEW lines \in Seq(Messages), NEW preview \in Seq(Messages)
  PROVE  /\ Restored(lines, preview) \in Seq(Messages)
         /\ ToSet(lines) \subseteq ToSet(Restored(lines, preview))
<1>1. preview \o lines \in Seq(Messages)
      /\ ToSet(preview \o lines) = ToSet(preview) \cup ToSet(lines)
  BY Joined
<1>. QED  BY <1>1 DEF Restored

\* What a deferral leaves of an object.
LEMMA DeferredIs ==
  ASSUME NEW q \in QueueRec, NEW c, IsCall(c)
  PROVE  LET d == [q EXCEPT !.lines = Restored(@, c.summary)]
         IN d \in QueueRec /\ d.items = q.items /\ ToSet(q.lines) \subseteq ToSet(d.lines)
<1>. DEFINE z == Restored(q.lines, c.summary)
<1>1. z \in Seq(Messages) /\ ToSet(q.lines) \subseteq ToSet(z)
  BY RestoredIs DEF QueueRec, IsCall
<1>. HIDE DEF z
<1>2. /\ [q EXCEPT !.lines = z] \in QueueRec /\ [q EXCEPT !.lines = z].items = q.items
      /\ [q EXCEPT !.lines = z].lines = z
  BY <1>1 DEF QueueRec
<1>. QED  BY <1>1, <1>2 DEF z

LEMMA DeferredContent ==
  ASSUME IInv, CInv, NEW g \in Queues, FollowupDeferred(g) \/ FollowupThrows(g)
  PROVE  CInv'
<1>1. Content(enqueued, queues[g], drains[g])
  BY DEF CInv, ObjectsInv
<1>2. CASE FollowupDeferred(g)
  <2>. DEFINE q == [queues[g] EXCEPT !.lines = Restored(@, drains[g].call.summary)]
  <2>1. q \in QueueRec /\ q.items = queues[g].items
    BY <1>1, DeferredIs DEF Content
  <2>2. /\ Restarted(g, q) /\ turns' = turns /\ enqueued' = enqueued /\ answered' = answered
        /\ faults' = faults
    BY <1>2 DEF FollowupDeferred, fates
  <2>. HIDE DEF q
  <2>. QED  BY <2>1, <2>2, RestartContent
<1>3. CASE FollowupThrows(g)
  <2>1. /\ Restarted(g, queues[g]) /\ turns' = turns /\ enqueued' = enqueued
        /\ answered' = answered /\ faults' = [faults EXCEPT !.errors = @ + 1]
    BY <1>3 DEF FollowupThrows, fates
  <2>2. faults'.stops = faults.stops
    BY <2>1, Shape
  <2>. QED  BY <1>1, <2>1, <2>2, RestartContent DEF Content
<1>. QED  BY <1>2, <1>3

\* The object after a call of its drain.
LEMMA AfterCallIs ==
  ASSUME IInv, CInv, NEW g \in Queues
  PROVE  /\ AfterCall(g) \in QueueRec
         /\ AfterCall(g).items = Without(queues[g].items, drains[g].call.items)
         /\ AfterCall(g).lines
              = IF drains[g].call.summary = <<>> THEN queues[g].lines ELSE <<>>
<1>1. queues[g] \in QueueRec
  BY DEF CInv, ObjectsInv, Content
<1>. DEFINE w == Without(queues[g].items, drains[g].call.items)
            z == IF drains[g].call.summary = <<>> THEN queues[g].lines ELSE <<>>
            mid == [queues[g] EXCEPT !.items = w]
<1>2. w \in Seq(Messages)
  BY <1>1, WithoutKeeps DEF QueueRec
<1>3. z \in Seq(Messages)
  BY <1>1 DEF QueueRec
<1>4. AfterCall(g) = [mid EXCEPT !.lines = z]
  <2>1. mid.lines = queues[g].lines
    BY <1>1 DEF QueueRec
  <2>. HIDE DEF w
  <2>. QED  BY <2>1 DEF AfterCall, w
<1>. HIDE DEF w, z
<1>5. mid \in QueueRec /\ mid.items = w
  BY <1>1, <1>2 DEF QueueRec
<1>. HIDE DEF mid
<1>6. AfterCall(g) \in QueueRec /\ AfterCall(g).items = w /\ AfterCall(g).lines = z
  BY <1>3, <1>4, <1>5 DEF QueueRec
<1>. QED  BY <1>6 DEF w, z

LEMMA DoneContent ==
  ASSUME IInv, CInv, NEW g \in Queues, FollowupDone(g)
  PROVE  CInv'
<1>. DEFINE d == drains[g]
            s == IF d.call.kind = "item" THEN d.call.items ELSE <<>>
            e == enqueued
<1>1. /\ turns' = turns /\ faults' = faults /\ enqueued' = enqueued
      /\ answered' = IF d.call.kind = "item" THEN answered \o d.call.items ELSE answered
      /\ d.pc \in {"admitted", "running"}
  BY DEF FollowupDone, Settled
<1>2. DoneStay
  BY <1>1 DEF DoneStay
<1>3. Content(e, queues[g], d) /\ IsCall(d.call)
  BY DEF CInv, ObjectsInv, Content
<1>4. /\ AfterCall(g) \in QueueRec
      /\ AfterCall(g).items = Without(queues[g].items, d.call.items)
  BY AfterCallIs
<1>. HIDE DEF d, e
<1>5. \A dd : IsCall(dd.call) /\ Hand(dd) = d.call.rest =>
        /\ Shrunk(e, queues[g], d, AfterCall(g), dd)
        /\ Holds(AfterCall(g), dd) \cap ToSet(d.call.items) = {}
        /\ Before(e, ToSet(d.call.items), Holds(AfterCall(g), dd))
  <2>1. \A x \in ToSet(e) : Pos(e, x) \in Nat
    BY Shape DEF e
  <2>. QED  BY <1>3, <1>4, <2>1, CallRemoved
<1>6. /\ AllShrunk /\ MapStays /\ queues'[g] = AfterCall(g)
      /\ IsCall(drains'[g].call) /\ Hand(drains'[g]) = d.call.rest
  <2>1. CASE d.call.rest = <<>>
    <3>1. NextRound(g, AfterCall(g), d.force)
      BY <2>1 DEF FollowupDone, d
    <3>2. RoundOver(g, AfterCall(g))
      BY <1>4, <3>1, NextRoundOver
    <3>3. \A dd : Emptyhanded(dd) => Shrunk(e, queues[g], d, AfterCall(g), dd)
      BY <1>5, <2>1, NothingHeld
    <3>4. AllShrunk /\ MapStays
      BY <3>2, <3>3, RoundShrinks DEF d, e
    <3>. QED  BY <2>1, <3>2, <3>4, NothingHeld DEF RoundOver
  <2>2. CASE d.call.rest # <<>>
    <3>. DEFINE c == GroupCall(d.call.rest, <<>>)
    <3>1. /\ Put(drains, g, WithCall(WithOp(WithPc(drains[g], "admit"), 0), c), drains')
          /\ Put(queues, g, AfterCall(g), queues') /\ current' = current
      BY <2>2 DEF FollowupDone, Put, WithCall, WithOp, WithPc, d
    <3>2. IsCall(c) /\ c.items \o c.rest = d.call.rest
      BY <1>3, <2>2, NoLines, GroupCallIs DEF IsCall
    <3>. HIDE DEF c
    <3>3. /\ drains'[g] = WithCall(WithOp(WithPc(drains[g], "admit"), 0), c)
          /\ \A h \in Queues : h # g => drains'[h] = drains[h]
      BY <3>1, DrainPut
    <3>4. drains'[g].call = c
      BY <3>3, DrainKnown, DrainCalls
    <3>5. /\ queues' \in Seq(QueueRec) /\ Len(queues') = Len(queues) /\ queues'[g] = AfterCall(g)
          /\ \A h \in Queues : h # g => queues'[h] = queues[h]
      BY <1>4, <3>1, QueuePut
    <3>6. IsCall(drains'[g].call) /\ Hand(drains'[g]) = d.call.rest
      BY <3>2, <3>4 DEF Hand
    <3>7. Shrunk(e, queues[g], drains[g], queues'[g], drains'[g])
      BY <1>5, <3>5, <3>6 DEF d
    <3>8. ASSUME NEW h \in Queues, h # g
          PROVE  Shrunk(e, queues[h], drains[h], queues'[h], drains'[h])
      <4>1. Content(e, queues[h], drains[h]) /\ queues[h] \in QueueRec
        BY DEF CInv, ObjectsInv, Content, e
      <4>. QED  BY <3>3, <3>5, <3>8, <4>1, SameHand
    <3>9. AllShrunk
      BY <3>5, <3>7, <3>8 DEF AllShrunk, e
    <3>. QED  BY <3>1, <3>5, <3>6, <3>9 DEF MapStays
  <2>. QED  BY <2>1, <2>2
<1>7. /\ Held(g)' \cap ToSet(d.call.items) = {} /\ Before(e, ToSet(d.call.items), Held(g)')
  BY <1>5, <1>6 DEF Held
<1>8. ToSet(d.call.items) \subseteq Held(g) /\ Rising(e, d.call.items)
  BY <1>3, HandSeq DEF Content, Held, Holds, d
<1>9. s \in Seq(Messages) /\ answered' = answered \o s
  <2>1. answered \in Seq(Messages) /\ d.call.items \in Seq(Messages)
    BY <1>3 DEF CInv, AnsweredInv, IsCall
  <2>2. answered \o <<>> = answered
    BY <2>1
  <2>. QED  BY <1>1, <2>1, <2>2 DEF d
<1>10. /\ ToSet(s) \subseteq Held(g) /\ Rising(e, s)
       /\ Held(g)' \cap ToSet(s) = {} /\ Before(e, ToSet(s), Held(g)')
  BY <1>7, <1>8, Emptied, NothingRises
<1>11. faults.stops = 0 => g = current
  BY <1>1 DEF IInv, OwnDrains, d
<1>. HIDE DEF s
<1>. QED  BY <1>1, <1>2, <1>6, <1>9, <1>10, <1>11, AnswerFrame DEF e

-----------------------------------------------------------------------------
(* /stop *)

LEMMA StopContent ==
  ASSUME IInv, CInv, Stop
  PROVE  CInv'
<1>1. /\ faults' = [faults EXCEPT !.stops = @ + 1] /\ turns' = turns /\ drains' = drains
      /\ enqueued' = enqueued /\ answered' = answered
  BY DEF Stop
<1>2. DoneStay /\ faults'.stops # 0
  BY <1>1, Shape DEF DoneStay
<1>3. \A h \in Queues : Content(enqueued, queues[h], drains[h]) /\ queues[h] \in QueueRec
  BY DEF CInv, ObjectsInv, Content
<1>4. CASE current = 0
  <2>1. queues' = queues
    BY <1>4 DEF Stop
  <2>. QED  BY <1>1, <1>2, <1>3, <2>1, Shape, SameHand, ShrinkFrame DEF AllShrunk
<1>5. CASE current # 0
  <2>. DEFINE mid == [queues EXCEPT ![current] = [queues[current] EXCEPT !.items = <<>>]]
              q == [mid[current] EXCEPT !.lines = <<>>]
  <2>1. current \in Queues /\ current \in 1..Len(queues)
    BY <1>5, Shape DEF Queues
  <2>2. queues' = [mid EXCEPT ![current] = q]
    BY <1>5 DEF Stop
  <2>3. mid[current] = [queues[current] EXCEPT !.items = <<>>]
    BY <2>1, Shape
  <2>4. mid[current] \in QueueRec /\ mid[current].items = <<>>
    <3>1. \A y \in QueueRec : [y EXCEPT !.items = <<>>] \in QueueRec
                              /\ [y EXCEPT !.items = <<>>].items = <<>>
      <4>1. <<>> \in Seq(Messages)
        OBVIOUS
      <4>. QED  BY <4>1 DEF QueueRec
    <3>. HIDE DEF mid
    <3>. QED  BY <1>3, <2>1, <2>3, <3>1
  <2>. DEFINE x == mid[current]
  <2>5. q \in QueueRec /\ q.items = <<>>
    <3>1. x \in QueueRec /\ x.items = <<>> /\ q = [x EXCEPT !.lines = <<>>]
      BY <2>4
    <3>. HIDE DEF x, q
    <3>. QED  BY <3>1, NoLines DEF QueueRec
  <2>6. queues' = [queues EXCEPT ![current] = q]
    <3>1. \A y, z : [[queues EXCEPT ![current] = y] EXCEPT ![current] = z]
                      = [queues EXCEPT ![current] = z]
      OBVIOUS
    <3>. HIDE DEF q
    <3>. QED  BY <2>2, <3>1 DEF mid
  <2>. HIDE DEF x, q, mid
  <2>7. Put(queues, current, q, queues')
    BY <2>6 DEF Put
  <2>8. /\ queues' \in Seq(QueueRec) /\ Len(queues') = Len(queues) /\ queues'[current] = q
        /\ \A h \in Queues : h # current => queues'[h] = queues[h]
    BY <2>1, <2>5, <2>7, QueuePut
  <2>9. ASSUME NEW h \in Queues
        PROVE  Shrunk(enqueued, queues[h], drains[h], queues'[h], drains'[h])
    <3>1. CASE h = current
      BY <1>1, <1>3, <2>5, <2>8, <3>1, ItemsEmptied
    <3>2. CASE h # current
      BY <1>1, <1>3, <2>8, <3>2, SameHand
    <3>. QED  BY <3>1, <3>2
  <2>10. AllShrunk
    BY <2>8, <2>9 DEF AllShrunk
  <2>. QED  BY <1>1, <1>2, <2>10, ShrinkFrame
<1>. QED  BY <1>4, <1>5

-----------------------------------------------------------------------------
(* A message joins the queue *)

LEMMA BeforeStays ==
  ASSUME NEW e, NEW f, \A x \in ToSet(e) : Pos(f, x) = Pos(e, x),
         NEW A, NEW B, A \subseteq ToSet(e), B \subseteq ToSet(e), Before(e, A, B)
  PROVE  Before(f, A, B)
BY DEF Before

\* What was in order stays so when others are enqueued.
LEMMA ContentStays ==
  ASSUME NEW e, NEW f, ToSet(e) \subseteq ToSet(f), \A x \in ToSet(e) : Pos(f, x) = Pos(e, x),
         NEW q, NEW d, Content(e, q, d)
  PROVE  Content(f, q, d)
<1>1. /\ q.items \in Seq(Messages) /\ Hand(d) \in Seq(Messages)
      /\ ToSet(q.items) \subseteq ToSet(e) /\ ToSet(Hand(d)) \subseteq ToSet(e)
  BY HandSeq DEF Content, QueueRec, Holds
<1>2. Rising(f, q.items) /\ Rising(f, Hand(d))
  BY <1>1, RisingStays DEF Content
<1>3. Before(f, ToSet(Hand(d)), ToSet(q.items) \ ToSet(Hand(d)))
  <2>1. ToSet(q.items) \ ToSet(Hand(d)) \subseteq ToSet(e)
    BY <1>1
  <2>. QED  BY <1>1, <2>1, BeforeStays DEF Content
<1>. QED  BY <1>2, <1>3 DEF Content

\* The object drops its first k items and takes m.
LEMMA ItemJoins ==
  ASSUME NEW e \in Seq(Messages), Distinct(e), NEW m \in Messages, m \notin ToSet(e),
         NEW q, NEW d, Content(e, q, d), NEW k \in 0..Len(q.items), NEW qq, qq \in QueueRec,
         qq.items = Append(SubSeq(q.items, k + 1, Len(q.items)), m),
         NEW dd, dd.call = d.call \/ Emptyhanded(dd)
  PROVE  Content(Append(e, m), qq, dd) /\ Holds(qq, dd) \subseteq Holds(q, d) \cup {m}
<1>. DEFINE f == Append(e, m)
            r == SubSeq(q.items, k + 1, Len(q.items))
<1>1. /\ ToSet(f) = ToSet(e) \cup {m}
      /\ \A x \in ToSet(e) : Pos(f, x) = Pos(e, x) /\ Pos(f, x) < Pos(f, m)
  BY PosAppended
<1>. HIDE DEF f
<1>2. Content(f, q, d)
  BY <1>1, ContentStays
<1>3. q.items \in Seq(Messages) /\ Rising(f, q.items) /\ Holds(q, d) \subseteq ToSet(e)
  BY <1>2 DEF Content, QueueRec
<1>4. r \in Seq(Messages) /\ ToSet(r) \subseteq ToSet(q.items) /\ Rising(f, r)
  BY <1>3, Parts
<1>. HIDE DEF r
<1>5. \A y \in ToSet(r) : Pos(f, y) < Pos(f, m)
  BY <1>1, <1>3, <1>4 DEF Holds
<1>6. ToSet(qq.items) = ToSet(r) \cup {m} /\ Rising(f, qq.items)
  <2>1. qq.items = Append(r, m)
    BY DEF r
  <2>2. ToSet(Append(r, m)) = ToSet(r) \cup {m}
    BY <1>4, Longer
  <2>3. Rising(f, Append(r, m))
    BY <1>4, <1>5, RisingAppend
  <2>. QED  BY <2>1, <2>2, <2>3
<1>7. CASE dd.call = d.call
  <2>1. Hand(dd) = Hand(d) /\ IsCall(dd.call) /\ Rising(f, Hand(dd))
    BY <1>2, <1>7 DEF Hand, Content
  <2>2. Before(f, ToSet(Hand(d)), ToSet(q.items) \ ToSet(Hand(d)))
    BY <1>2 DEF Content
  <2>3. Before(f, ToSet(Hand(dd)), ToSet(qq.items) \ ToSet(Hand(dd)))
    BY <1>1, <1>3, <1>4, <1>6, <2>1, <2>2 DEF Before, Holds
  <2>. QED  BY <1>1, <1>3, <1>4, <1>6, <2>1, <2>3 DEF Content, Holds, f
<1>8. CASE Emptyhanded(dd)
  <2>1. IsCall(dd.call) /\ Hand(dd) = <<>> /\ ToSet(Hand(dd)) = {}
    BY <1>8, NothingHeld
  <2>2. Rising(f, Hand(dd)) /\ Before(f, ToSet(Hand(dd)), ToSet(qq.items) \ ToSet(Hand(dd)))
    BY <2>1, NothingRises
  <2>. QED  BY <1>1, <1>3, <1>4, <1>6, <2>1, <2>2 DEF Content, Holds, f
<1>. QED  BY <1>7, <1>8

\* An empty object and a fresh drain.
LEMMA FreshContent ==
  ASSUME NEW e, NEW q, q \in QueueRec, q.items = <<>>, NEW d, Emptyhanded(d)
  PROVE  Content(e, q, d) /\ Holds(q, d) = {}
BY NothingHeld, NothingRises, Emptied DEF Content, Holds

\* The messages that leave a full queue are its first ones.
LEMMA OverflowIs ==
  ASSUME NEW q \in QueueRec
  PROVE  \E k \in 0..Len(q.items) : /\ Overflow(q) = SubSeq(q.items, 1, k)
                                    /\ Len(Overflow(q)) = k
<1>1. q.items \in Seq(Messages) /\ Len(q.items) \in Nat /\ q.cap \in Nat \ {0}
  BY DEF QueueRec
<1>2. CASE Len(q.items) < q.cap
  <2>1. Overflow(q) = <<>>
    BY <1>2 DEF Overflow
  <2>2. 0 \in 0..Len(q.items) /\ SubSeq(q.items, 1, 0) = <<>> /\ Len(<<>>) = 0
    BY <1>1
  <2>. QED  BY <2>1, <2>2
<1>3. CASE ~(Len(q.items) < q.cap)
  <2>. DEFINE k == Len(q.items) - q.cap + 1
  <2>1. k \in 0..Len(q.items)
    BY <1>1, <1>3
  <2>2. Overflow(q) = SubSeq(q.items, 1, k)
    BY <1>3 DEF Overflow
  <2>. HIDE DEF k
  <2>3. Len(SubSeq(q.items, 1, k)) = k
    BY <1>1, <2>1
  <2>. QED  BY <2>1, <2>2, <2>3
<1>. QED  BY <1>2, <1>3

LEMMA ObjectForIs ==
  ASSUME IInv, CInv, NEW s \in QueueSettings
  PROVE  /\ ObjectFor(s) \in QueueRec
         /\ current # 0 => /\ ObjectFor(s).items = queues[current].items
                           /\ ObjectFor(s).lines = queues[current].lines
         /\ current = 0 => ObjectFor(s).items = <<>> /\ ObjectFor(s).lines = <<>>
<1>1. CASE current # 0
  <2>1. queues[current] \in QueueRec
    BY <1>1, Shape
  <2>. DEFINE a == [queues[current] EXCEPT !.mode = s.mode]
              b == [a EXCEPT !.cap = s.cap]
              c == [b EXCEPT !.drop = s.drop]
  <2>2. a \in QueueRec /\ a.items = queues[current].items /\ a.lines = queues[current].lines
    BY <2>1 DEF QueueRec, QueueSettings
  <2>3. ObjectFor(s) = c
    BY <1>1 DEF ObjectFor
  <2>. HIDE DEF a
  <2>4. b \in QueueRec /\ b.items = a.items /\ b.lines = a.lines
    BY <2>2 DEF QueueRec, QueueSettings
  <2>. HIDE DEF b
  <2>5. c \in QueueRec /\ c.items = b.items /\ c.lines = b.lines
    BY <2>4 DEF QueueRec, QueueSettings
  <2>. HIDE DEF c
  <2>. QED  BY <1>1, <2>2, <2>3, <2>4, <2>5
<1>2. CASE current = 0
  BY <1>2, NoLines DEF ObjectFor, QueueRec, QueueSettings
<1>. QED  BY <1>1, <1>2

\* The lines kept of a summary are its last ones; each other one is elided.
LEMMA LinesKeptIs ==
  ASSUME NEW lines \in Seq(Messages), NEW cap \in Nat \ {0}
  PROVE  /\ LinesKept(lines, cap) \in Seq(Messages)
         /\ LinesElided(lines, cap) \in SUBSET Messages
         /\ ToSet(lines) \subseteq ToSet(LinesKept(lines, cap)) \cup LinesElided(lines, cap)
<1>1. ToSet(lines) \subseteq Messages
  BY AsSet
<1>2. LinesKept(lines, cap) \in Seq(Messages)
  <2>1. CASE Len(lines) =< cap
    BY <2>1 DEF LinesKept
  <2>2. CASE ~(Len(lines) =< cap)
    <3>1. Len(lines) - cap \in 0..Len(lines)
      BY <2>2
    <3>2. SubSeq(lines, Len(lines) - cap + 1, Len(lines)) \in Seq(Messages)
      BY <3>1, Parts
    <3>. QED  BY <2>2, <3>2 DEF LinesKept
  <2>. QED  BY <2>1, <2>2
<1>. QED  BY <1>1, <1>2 DEF LinesElided

\* What an object q becomes with m: refused, it stays as it is; else the messages that
\* leave it for m have a line in its summary or are discarded, and the lines that leave
\* the summary are elided.
Takes(q, m, stored) ==
  \/ /\ stored.items = q.items /\ stored.lines = q.lines /\ enqueued' = enqueued
     /\ discarded' = discarded \cup {m} /\ elided' = elided
  \/ /\ enqueued' = Append(enqueued, m) /\ discarded \subseteq discarded'
     /\ discarded' \in SUBSET Messages /\ elided \subseteq elided'
     /\ elided' \in SUBSET Messages /\ ToSet(q.lines) \subseteq ToSet(stored.lines) \cup elided'
     /\ \E k \in 0..Len(q.items) :
          /\ stored.items = Append(SubSeq(q.items, k + 1, Len(q.items)), m)
          /\ ToSet(SubSeq(q.items, 1, k))
               \subseteq ToSet(stored.lines) \cup elided' \cup discarded'

LEMMA StoredIs ==
  ASSUME IInv, CInv, FatesInv, NEW m \in Messages, NEW s \in QueueSettings, EnqueueTurn(m, s)
  PROVE  \E stored \in QueueRec :
           /\ Takes(ObjectFor(s), m, stored)
           /\ queues' = IF current # 0 THEN [queues EXCEPT ![current] = stored]
                        ELSE Append(queues, stored)
<1>. DEFINE q == ObjectFor(s)
            out == Overflow(q)
            refused == out # <<>> /\ q.drop = "new"
            items == Append(SubSeq(q.items, Len(out) + 1, Len(q.items)), m)
            summarize == out # <<>> /\ q.drop = "summarize"
            all == q.lines \o out
            lines == IF summarize THEN LinesKept(all, q.cap) ELSE q.lines
            shifted == IF summarize THEN LinesElided(all, q.cap) ELSE {}
            mid == [q EXCEPT !.items = items]
            stored == IF refused THEN q ELSE [mid EXCEPT !.lines = lines]
<1>1. q \in QueueRec
  BY ObjectForIs
<1>2. PICK k \in 0..Len(q.items) : out = SubSeq(q.items, 1, k) /\ Len(out) = k
  BY <1>1, OverflowIs
<1>3. /\ q.items \in Seq(Messages) /\ q.lines \in Seq(Messages) /\ q.cap \in Nat \ {0}
      /\ q.drop \in {"summarize", "old", "new"}
  BY <1>1 DEF QueueRec
<1>4. /\ out \in Seq(Messages) /\ ToSet(out) \subseteq Messages
      /\ SubSeq(q.items, k + 1, Len(q.items)) \in Seq(Messages)
  <2>1. out \in Seq(Messages) /\ SubSeq(q.items, k + 1, Len(q.items)) \in Seq(Messages)
    BY <1>2, <1>3, Parts
  <2>. HIDE DEF out
  <2>. QED  BY <2>1, AsSet
<1>5. /\ queues' = IF current # 0 THEN [queues EXCEPT ![current] = stored]
                   ELSE Append(queues, stored)
      /\ enqueued' = IF refused THEN enqueued ELSE Append(enqueued, m)
      /\ discarded' = discarded \cup CASE refused -> {m}
                                       [] q.drop = "old" -> ToSet(out)
                                       [] OTHER -> {}
      /\ elided' = elided \cup shifted
  <2>1. mid.lines = q.lines
    BY <1>1 DEF QueueRec
  <2>2. [q EXCEPT !.items = Append(SubSeq(@, Len(out) + 1, Len(@)), m),
                  !.lines = IF summarize THEN LinesKept(@ \o out, q.cap) ELSE @]
          = [mid EXCEPT !.lines = lines]
    BY <2>1
  <2>. QED  BY <2>2 DEF EnqueueTurn, Enqueue
<1>6. discarded \in SUBSET Messages /\ elided \in SUBSET Messages
  BY DEF FatesInv
<1>. HIDE DEF out, q
<1>7. items \in Seq(Messages) /\ items = Append(SubSeq(q.items, k + 1, Len(q.items)), m)
  <2>. DEFINE r == SubSeq(q.items, k + 1, Len(q.items))
  <2>1. items = Append(r, m)
    BY <1>2
  <2>2. r \in Seq(Messages)
    BY <1>4
  <2>. HIDE DEF r, items
  <2>3. items \in Seq(Messages)
    BY <2>1, <2>2
  <2>. QED  BY <2>1, <2>3 DEF r
<1>8. /\ lines \in Seq(Messages) /\ shifted \in SUBSET Messages
      /\ ToSet(q.lines) \subseteq ToSet(lines) \cup shifted
      /\ summarize => ToSet(out) \subseteq ToSet(lines) \cup shifted
  <2>1. all \in Seq(Messages) /\ ToSet(all) = ToSet(q.lines) \cup ToSet(out)
    BY <1>3, <1>4, Joined
  <2>. HIDE DEF all, summarize
  <2>2. /\ LinesKept(all, q.cap) \in Seq(Messages) /\ LinesElided(all, q.cap) \in SUBSET Messages
        /\ ToSet(all) \subseteq ToSet(LinesKept(all, q.cap)) \cup LinesElided(all, q.cap)
    BY <1>3, <2>1, LinesKeptIs
  <2>. QED  BY <1>3, <2>1, <2>2
<1>9. CASE refused
  <2>1. shifted = {}
    BY <1>9
  <2>. HIDE DEF shifted
  <2>. QED  BY <1>1, <1>5, <1>9, <2>1 DEF Takes, q
<1>10. CASE ~refused
  <2>. HIDE DEF items, lines, shifted
  <2>1. mid \in QueueRec /\ mid.items = items
    BY <1>1, <1>7 DEF QueueRec
  <2>. HIDE DEF mid
  <2>2. [mid EXCEPT !.lines = lines] \in QueueRec
        /\ [mid EXCEPT !.lines = lines].items = items
        /\ [mid EXCEPT !.lines = lines].lines = lines
    BY <1>8, <2>1 DEF QueueRec
  <2>3. stored \in QueueRec /\ stored.items = items /\ stored.lines = lines
    BY <1>10, <2>2
  <2>4. /\ enqueued' = Append(enqueued, m) /\ discarded \subseteq discarded'
        /\ discarded' \in SUBSET Messages
    BY <1>4, <1>5, <1>6, <1>10
  <2>5. /\ elided \subseteq elided' /\ elided' \in SUBSET Messages
        /\ ToSet(q.lines) \subseteq ToSet(lines) \cup elided'
    BY <1>5, <1>6, <1>8
  <2>6. ToSet(out) \subseteq ToSet(lines) \cup elided' \cup discarded'
    <3>1. CASE out = <<>>
      BY <3>1, Emptied
    <3>2. CASE out # <<>> /\ q.drop = "summarize"
      BY <1>5, <1>8, <3>2
    <3>3. CASE q.drop = "old"
      BY <1>5, <1>10, <3>3
    <3>4. CASE out # <<>> /\ q.drop = "new"
      BY <1>10, <3>4
    <3>. QED  BY <1>3, <3>1, <3>2, <3>3, <3>4
  <2>. HIDE DEF stored
  <2>7. Takes(q, m, stored)
    BY <1>2, <1>7, <2>3, <2>4, <2>5, <2>6 DEF Takes
  <2>. QED  BY <1>5, <2>3, <2>7 DEF q
<1>. QED  BY <1>9, <1>10

\* Where the message went: the object in the map, or a new one.
Place(g, stored) ==
  /\ queues' \in Seq(QueueRec) /\ g \in Queues' /\ current' = g /\ queues'[g] = stored
  /\ \A h \in Queues' : h # g =>
       /\ h \in Queues /\ queues'[h] = queues[h]
       /\ drains'[h].call = drains[h].call \/ Emptyhanded(drains'[h])
  /\ IF current = 0 THEN g \notin Queues /\ Emptyhanded(drains'[g])
     ELSE g = current /\ (drains'[g].call = drains[g].call \/ Emptyhanded(drains'[g]))

LEMMA PlaceIs ==
  ASSUME IInv, CInv, NEW m, NEW s, EnqueueTurn(m, s), NEW stored \in QueueRec,
         queues' = IF current # 0 THEN [queues EXCEPT ![current] = stored]
                   ELSE Append(queues, stored)
  PROVE  \E g : Place(g, stored)
<1>. DEFINE g == IF current # 0 THEN current ELSE Len(queues) + 1
            before == IF current # 0 THEN drains ELSE Append(drains, Idle)
<1>1. current' = g /\ drains' \in {Scheduled(before, g), before}
  BY DEF EnqueueTurn, Enqueue
<1>2. /\ queues' \in Seq(QueueRec) /\ g \in 1..Len(queues') /\ queues'[g] = stored
      /\ \A h \in 1..Len(queues') : h # g => h \in 1..Len(queues) /\ queues'[h] = queues[h]
  <2>1. CASE current # 0
    BY <2>1, Shape
  <2>2. CASE current = 0
    BY <2>2, Shape
  <2>. QED  BY <2>1, <2>2
<1>3. /\ IsSeq(before) /\ Len(before) = Len(queues')
      /\ \A h \in 1..Len(queues) : before[h] = drains[h]
      /\ current = 0 => before[g] = Idle /\ g \notin 1..Len(queues)
  <2>1. CASE current # 0
    <3>1. Len(queues') = Len(queues)
      BY <2>1, Shape
    <3>. QED  BY <2>1, <3>1, Shape
  <2>2. CASE current = 0
    <3>1. Len(queues') = Len(queues) + 1
      BY <2>2, Shape
    <3>. QED  BY <2>2, <3>1, Shape, Appended
  <2>. QED  BY <2>1, <2>2
<1>4. current # 0 => g = current /\ g \in 1..Len(queues)
  BY Shape
<1>. HIDE DEF g, before
<1>5. \A h \in 1..Len(queues') : drains'[h] = before[h] \/ Emptyhanded(drains'[h])
  <2>1. IsSeq(before) /\ g \in 0..Len(before)
    BY <1>2, <1>3
  <2>2. \A h \in 1..Len(before) :
          Scheduled(before, g)[h] = before[h] \/ Emptyhanded(Scheduled(before, g)[h])
    BY <2>1, ScheduledCalls
  <2>. QED  BY <1>1, <1>3, <2>2
<1>6. Place(g, stored)
  BY <1>1, <1>2, <1>3, <1>4, <1>5, DrainCalls DEF Place, Queues
<1>. QED  BY <1>6

\* The messages enqueued are the old ones, or these and a new last one.
LEMMA EnqueuedGrows ==
  ASSUME IInv, CInv, NEW m \in Messages, turns[m].pc # "done",
         enqueued' \in {enqueued, Append(enqueued, m)}
  PROVE  /\ enqueued' \in Seq(Messages) /\ Distinct(enqueued') /\ m \notin ToSet(enqueued)
         /\ ToSet(enqueued) \subseteq ToSet(enqueued')
         /\ ToSet(enqueued') \subseteq ToSet(enqueued) \cup {m}
         /\ \A x \in ToSet(enqueued) : Pos(enqueued', x) = Pos(enqueued, x)
         /\ \A x \in ToSet(enqueued), y \in ToSet(enqueued') \ ToSet(enqueued) :
              Pos(enqueued', x) < Pos(enqueued', y)
<1>1. enqueued \in Seq(Messages) /\ Distinct(enqueued) /\ m \notin ToSet(enqueued)
  BY DEF CInv, EnqueuedInv
<1>2. CASE enqueued' = enqueued
  BY <1>1, <1>2
<1>3. CASE enqueued' = Append(enqueued, m)
  <2>1. /\ Append(enqueued, m) \in Seq(Messages) /\ Distinct(Append(enqueued, m))
        /\ ToSet(Append(enqueued, m)) = ToSet(enqueued) \cup {m}
        /\ \A x \in ToSet(enqueued) :
             /\ Pos(Append(enqueued, m), x) = Pos(enqueued, x)
             /\ Pos(Append(enqueued, m), x) < Pos(Append(enqueued, m), m)
    BY <1>1, PosAppended
  <2>. QED  BY <1>1, <1>3, <2>1
<1>. QED  BY <1>2, <1>3

\* What the object that took the message and its drain hold.
LEMMA PlaceContent ==
  ASSUME IInv, CInv, NEW m \in Messages, turns[m].pc # "done", NEW s \in QueueSettings,
         NEW stored \in QueueRec, Takes(ObjectFor(s), m, stored), NEW g, Place(g, stored)
  PROVE  /\ Content(enqueued', stored, drains'[g])
         /\ Holds(stored, drains'[g])
              \subseteq (IF current = 0 THEN {} ELSE Held(g))
                         \cup (ToSet(enqueued') \ ToSet(enqueued))
<1>. DEFINE q == ObjectFor(s)
            d == IF current = 0 THEN Idle ELSE drains[current]
            e == enqueued
<1>1. /\ Content(e, q, d)
      /\ Holds(q, d) \subseteq IF current = 0 THEN {} ELSE Held(g)
  <2>1. q \in QueueRec
    BY ObjectForIs
  <2>2. CASE current = 0
    <3>1. q.items = <<>>
      BY <2>2, ObjectForIs
    <3>. HIDE DEF q
    <3>. QED  BY <2>1, <2>2, <3>1, DrainCalls, FreshContent
  <2>3. CASE current # 0
    <3>1. current \in Queues /\ g = current
      BY <2>3, Shape DEF Queues, Place
    <3>2. Content(e, queues[current], drains[current])
      BY <3>1 DEF CInv, ObjectsInv
    <3>3. q.items = queues[current].items
      BY <2>3, ObjectForIs
    <3>. HIDE DEF q
    <3>. QED  BY <2>1, <2>3, <3>1, <3>2, <3>3, SameHand DEF Shrunk, Held
  <2>. QED  BY <2>2, <2>3
<1>2. drains'[g].call = d.call \/ Emptyhanded(drains'[g])
  BY DEF Place
<1>3. enqueued \in Seq(Messages) /\ Distinct(enqueued) /\ m \notin ToSet(enqueued)
  BY DEF CInv, EnqueuedInv
<1>. HIDE DEF q, d
<1>4. CASE stored.items = q.items /\ enqueued' = enqueued
  <2>1. Shrunk(e, q, d, stored, drains'[g])
    BY <1>1, <1>2, <1>4, SameHand, HandEmptied
  <2>. QED  BY <1>1, <1>4, <2>1 DEF Shrunk
<1>5. CASE ~(stored.items = q.items /\ enqueued' = enqueued)
  <2>1. enqueued' = Append(enqueued, m)
    BY <1>5 DEF Takes, q
  <2>2. PICK k \in 0..Len(q.items) :
          stored.items = Append(SubSeq(q.items, k + 1, Len(q.items)), m)
    BY <1>5 DEF Takes, q
  <2>3. /\ Content(Append(e, m), stored, drains'[g])
        /\ Holds(stored, drains'[g]) \subseteq Holds(q, d) \cup {m}
    BY <1>1, <1>2, <1>3, <2>2, ItemJoins
  <2>4. m \in ToSet(enqueued') \ ToSet(enqueued)
    BY <1>3, <2>1, Longer
  <2>. QED  BY <1>1, <2>1, <2>3, <2>4
<1>. QED  BY <1>4, <1>5

LEMMA EnqueueContent ==
  ASSUME IInv, CInv, FatesInv, NEW m \in Messages, NEW s \in QueueSettings, EnqueueTurn(m, s)
  PROVE  CInv'
<1>1. /\ turns[m].pc = "enqueue" /\ Turn(m, "done") /\ answered' = answered /\ faults' = faults
  BY DEF EnqueueTurn
<1>2. PICK stored \in QueueRec :
        /\ Takes(ObjectFor(s), m, stored)
        /\ queues' = IF current # 0 THEN [queues EXCEPT ![current] = stored]
                     ELSE Append(queues, stored)
  BY StoredIs
<1>3. PICK g : Place(g, stored)
  BY <1>2, PlaceIs
<1>. DEFINE e == enqueued
            f == enqueued'
            N == ToSet(f) \ ToSet(e)
            Old(h) == IF h = g /\ current = 0 THEN {} ELSE Held(h)
<1>4. /\ f \in Seq(Messages) /\ Distinct(f) /\ m \notin ToSet(e)
      /\ ToSet(e) \subseteq ToSet(f) /\ ToSet(f) \subseteq ToSet(e) \cup {m}
      /\ \A x \in ToSet(e) : Pos(f, x) = Pos(e, x)
      /\ \A x \in ToSet(e), y \in N : Pos(f, x) < Pos(f, y)
  <2>1. enqueued' \in {enqueued, Append(enqueued, m)}
    BY <1>2 DEF Takes
  <2>. QED  BY <1>1, <2>1, EnqueuedGrows
<1>5. /\ Content(f, stored, drains'[g])
      /\ Holds(stored, drains'[g]) \subseteq (IF current = 0 THEN {} ELSE Held(g)) \cup N
  BY <1>1, <1>2, <1>3, PlaceContent
<1>6. /\ queues' \in Seq(QueueRec) /\ g \in Queues' /\ current' = g /\ queues'[g] = stored
      /\ \A h \in Queues' : h # g =>
           /\ h \in Queues /\ queues'[h] = queues[h]
           /\ drains'[h].call = drains[h].call \/ Emptyhanded(drains'[h])
      /\ current # 0 => g = current /\ g \in Queues
  BY <1>3, Shape DEF Place, Queues
<1>. HIDE DEF e, f, N
<1>7. /\ Held(g)' \subseteq Old(g) \cup N
      /\ Content(f, queues'[g], drains'[g])
  BY <1>5, <1>6 DEF Held
<1>8. ASSUME NEW h \in Queues', h # g
      PROVE  /\ Held(h)' \subseteq Old(h) /\ Content(f, queues'[h], drains'[h])
             /\ h \in Queues
  <2>1. Content(e, queues[h], drains[h]) /\ queues[h] \in QueueRec /\ h \in Queues
    BY <1>6, <1>8 DEF CInv, ObjectsInv, Content, e
  <2>2. Shrunk(e, queues[h], drains[h], queues'[h], drains'[h])
    BY <1>6, <1>8, <2>1, SameHand, HandEmptied
  <2>3. Content(f, queues'[h], drains'[h])
    BY <1>4, <2>2, ContentStays DEF Shrunk
  <2>. QED  BY <1>8, <2>1, <2>2, <2>3 DEF Shrunk, Held
<1>9. ASSUME NEW h \in Queues'
      PROVE  Old(h) \subseteq ToSet(e) /\ Old(h) \cap ToSet(answered) = {}
  <2>1. CASE Old(h) = {}
    BY <2>1
  <2>2. CASE Old(h) # {}
    <3>1. Old(h) = Held(h) /\ h \in Queues
      BY <1>6, <2>2
    <3>. QED  BY <3>1 DEF CInv, ObjectsInv, AnsweredInv, Content, Held, e
  <2>. QED  BY <2>1, <2>2
<1>10. ASSUME NEW h \in Queues', NEW j \in Queues', h # j PROVE Old(h) \cap Old(j) = {}
  <2>1. CASE Old(h) = {} \/ Old(j) = {}
    BY <2>1
  <2>2. CASE ~(Old(h) = {} \/ Old(j) = {})
    <3>1. Old(h) = Held(h) /\ h \in Queues /\ Old(j) = Held(j) /\ j \in Queues
      BY <1>6, <2>2
    <3>. QED  BY <1>10, <3>1 DEF CInv, ObjectsInv
  <2>. QED  BY <2>1, <2>2
<1>11. ASSUME faults.stops = 0, NEW h \in Queues'
       PROVE  (h # g => Old(h) = {}) /\ Before(e, ToSet(answered), Old(h))
  <2>1. CASE Old(h) = {}
    BY <2>1, NothingRises
  <2>2. CASE Old(h) # {}
    <3>1. Old(h) = Held(h) /\ h \in Queues
      BY <1>6, <2>2
    <3>2. h # current => Held(h) = {}
      BY <1>11, <3>1 DEF CInv, OrderInv
    <3>3. h = current /\ g = current
      <4>1. h = current
        BY <2>2, <3>1, <3>2
      <4>2. current # 0
        BY <3>1, <4>1 DEF Queues
      <4>. QED  BY <1>6, <4>1, <4>2
    <3>4. Before(e, ToSet(answered), Held(h))
      BY <1>11, <3>1 DEF CInv, OrderInv, e
    <3>. QED  BY <3>1, <3>3, <3>4
  <2>. QED  BY <2>1, <2>2
<1>. HIDE DEF Old
<1>12. EnqueuedInv'
  <2>1. turns \in [Messages -> TurnRecord]
    BY DEF IInv, TurnsInv, TurnRecord
  <2>2. turns'[m].pc = "done" /\ \A n \in Messages : n # m => turns'[n] = turns[n]
    BY <1>1, <2>1 DEF Turn, NoTurn, TurnRecord
  <2>3. \A n \in ToSet(f) : n \in Messages
    BY <1>4, AsSet
  <2>4. \A n \in ToSet(e) : turns[n].pc = "done"
    BY DEF CInv, EnqueuedInv, e
  <2>. QED  BY <1>4, <2>2, <2>3, <2>4 DEF EnqueuedInv, f
<1>13. ObjectsInv'
  <2>1. \A h \in Queues' : Content(f, queues'[h], drains'[h])
    BY <1>7, <1>8
  <2>2. ASSUME NEW h \in Queues', NEW j \in Queues', h # j PROVE Held(h)' \cap Held(j)' = {}
    <3>1. N \cap Old(h) = {} /\ N \cap Old(j) = {}
      BY <1>9 DEF N
    <3>. QED  BY <1>7, <1>8, <1>10, <2>2, <3>1
  <2>. QED  BY <1>6, <2>1, <2>2 DEF ObjectsInv, f
<1>14. AnsweredInv'
  <2>1. answered \in Seq(Messages) /\ Distinct(answered) /\ ToSet(answered) \subseteq ToSet(e)
    BY DEF CInv, AnsweredInv, e
  <2>2. N \cap ToSet(answered) = {}
    BY <2>1 DEF N
  <2>3. \A h \in Queues' : Held(h)' \cap ToSet(answered) = {}
    BY <1>7, <1>8, <1>9, <2>2
  <2>. QED  BY <1>1, <1>4, <2>1, <2>3 DEF AnsweredInv, f
<1>15. OrderInv'
  <2>. SUFFICES ASSUME faults.stops = 0
                PROVE  /\ Rising(f, answered)
                       /\ \A h \in Queues' : /\ h # g => Held(h)' = {}
                                             /\ Before(f, ToSet(answered), Held(h)')
    BY <1>1, <1>6 DEF OrderInv, f
  <2>1. /\ answered \in Seq(Messages) /\ ToSet(answered) \subseteq ToSet(e)
        /\ Rising(e, answered)
    BY DEF CInv, AnsweredInv, OrderInv, e
  <2>2. Rising(f, answered)
    BY <1>4, <2>1, RisingStays
  <2>3. ASSUME NEW h \in Queues'
        PROVE  (h # g => Held(h)' = {}) /\ Before(f, ToSet(answered), Held(h)')
    <3>1. Before(e, ToSet(answered), Old(h)) /\ (h # g => Old(h) = {})
      BY <1>11
    <3>2. Before(f, ToSet(answered), Old(h))
      BY <1>4, <1>9, <2>1, <3>1, BeforeStays
    <3>3. Before(f, ToSet(answered), N)
      BY <1>4, <2>1 DEF Before
    <3>4. Held(h)' \subseteq Old(h) \cup N /\ (h # g => Held(h)' \subseteq Old(h))
      BY <1>7, <1>8
    <3>. QED  BY <3>1, <3>2, <3>3, <3>4 DEF Before
  <2>. QED  BY <2>2, <2>3
<1>. QED  BY <1>12, <1>13, <1>14, <1>15 DEF CInv

-----------------------------------------------------------------------------
(* How messages leave the queue *)

Gone ==
  ToSet(answered) \cup summarised \cup elided \cup taken \cup forgotten \cup discarded
    \cup cleared
Waiting ==
  IF current = 0 THEN {} ELSE ToSet(queues[current].items) \cup ToSet(queues[current].lines)

LEMMA AccountIs == QueuedAccountedFor <=> ToSet(enqueued) \subseteq Gone \cup Waiting
BY DEF QueuedAccountedFor, Gone, Waiting

LEMMA AccountFrame ==
  ASSUME QueuedAccountedFor, enqueued' = enqueued, Gone \subseteq Gone',
         Waiting \subseteq Gone' \cup Waiting'
  PROVE  QueuedAccountedFor'
BY AccountIs DEF QueuedAccountedFor, Gone, Waiting

\* What the object in the map had is still there, or gone, when the round of g is over.
LEMMA RoundAccounts ==
  ASSUME IInv, CInv, NEW g \in Queues, NEW q, RoundOver(g, q),
         ToSet(queues[g].items) \cup ToSet(queues[g].lines)
           \subseteq Gone' \cup ToSet(q.items) \cup ToSet(q.lines)
  PROVE  Waiting \subseteq Gone' \cup Waiting'
<1>1. current = 0 \/ current \in Queues
  BY Shape DEF Queues
<1>2. CASE current = 0
  BY <1>2 DEF Waiting
<1>3. CASE current = g /\ current # 0
  <2>1. CASE current' = g
    BY <1>3, <2>1 DEF RoundOver, Waiting
  <2>2. CASE current' # g
    <3>1. q.items = <<>> /\ q.lines = <<>>
      BY <1>3, <2>2 DEF RoundOver, Pending
    <3>. QED  BY <1>3, <3>1, Emptied DEF Waiting
  <2>. QED  BY <2>1, <2>2
<1>4. CASE current # g /\ current \in Queues
  <2>1. current' = current /\ queues'[current] = queues[current]
    BY <1>4 DEF RoundOver
  <2>. QED  BY <2>1 DEF Waiting
<1>. QED  BY <1>1, <1>2, <1>3, <1>4

LEMMA FatesFrame == ASSUME FatesInv, UNCHANGED fates PROVE FatesInv' /\ Gone' = Gone
BY DEF FatesInv, fates, Gone

\* Steps that leave the objects as they are.
LEMMA AccountStays ==
  ASSUME FatesInv, QueuedAccountedFor, UNCHANGED <<queues, current, enqueued>>, UNCHANGED fates
  PROVE  FatesInv' /\ QueuedAccountedFor'
<1>1. FatesInv' /\ Gone' = Gone
  BY FatesFrame
<1>2. Waiting' = Waiting
  BY DEF Waiting
<1>. QED  BY <1>1, <1>2, AccountFrame

LEMMA TurnAccounts ==
  ASSUME FatesInv, QueuedAccountedFor, NEW m \in Messages,
         \/ PreDispatch(m) \/ Dispatch(m) \/ Woken(m) \/ AgentStarts(m) \/ EmbeddedRunEnds(m)
         \/ DispatchAborted(m) \/ Readmitted(m) \/ TurnEnds(m) \/ AgentEnds(m)
  PROVE  FatesInv' /\ QueuedAccountedFor'
<1>1. CASE StaysQueued
  BY <1>1, AccountStays DEF StaysQueued, queueVars
<1>2. CASE AgentEnds(m)
  BY <1>2, AccountStays DEF AgentEnds
<1>. QED  BY <1>1, <1>2 DEF PreDispatch, Dispatch, Woken, AgentStarts, EmbeddedRunEnds,
            DispatchAborted, Readmitted, TurnEnds

LEMMA EnqueueAccounts ==
  ASSUME IInv, CInv, FatesInv, QueuedAccountedFor, NEW m \in Messages, NEW s \in QueueSettings,
         EnqueueTurn(m, s)
  PROVE  FatesInv' /\ QueuedAccountedFor'
<1>1. /\ answered' = answered /\ summarised' = summarised /\ taken' = taken
      /\ forgotten' = forgotten /\ cleared' = cleared
  BY DEF EnqueueTurn
<1>. DEFINE q == ObjectFor(s)
<1>2. PICK stored \in QueueRec :
        /\ Takes(q, m, stored)
        /\ queues' = IF current # 0 THEN [queues EXCEPT ![current] = stored]
                     ELSE Append(queues, stored)
  BY StoredIs
<1>3. PICK g : Place(g, stored)
  BY <1>2, PlaceIs
<1>4. FatesInv' /\ Gone \subseteq Gone'
  BY <1>1, <1>2 DEF FatesInv, Takes, Gone
<1>5. Waiting' = ToSet(stored.items) \cup ToSet(stored.lines)
  <2>1. current' # 0 /\ queues'[current'] = stored
    BY <1>3 DEF Place, Queues
  <2>. QED  BY <2>1 DEF Waiting
<1>6. Waiting = ToSet(q.items) \cup ToSet(q.lines)
  BY ObjectForIs, Emptied DEF Waiting
<1>7. q.items \in Seq(Messages)
  BY ObjectForIs DEF QueueRec
<1>. HIDE DEF q
<1>8. CASE stored.items = q.items /\ stored.lines = q.lines /\ enqueued' = enqueued
  BY <1>4, <1>5, <1>6, <1>8, AccountFrame
<1>9. CASE ~(stored.items = q.items /\ stored.lines = q.lines /\ enqueued' = enqueued)
  <2>1. enqueued' = Append(enqueued, m)
        /\ ToSet(q.lines) \subseteq ToSet(stored.lines) \cup elided'
    BY <1>2, <1>9 DEF Takes
  <2>2. PICK k \in 0..Len(q.items) :
          /\ stored.items = Append(SubSeq(q.items, k + 1, Len(q.items)), m)
          /\ ToSet(SubSeq(q.items, 1, k))
               \subseteq ToSet(stored.lines) \cup elided' \cup discarded'
    BY <1>2, <1>9 DEF Takes
  <2>. DEFINE p == SubSeq(q.items, 1, k)
              r == SubSeq(q.items, k + 1, Len(q.items))
  <2>3. r \in Seq(Messages) /\ ToSet(q.items) = ToSet(p) \cup ToSet(r)
    BY <1>7, Parts
  <2>4. /\ ToSet(p) \subseteq ToSet(stored.lines) \cup elided' \cup discarded'
        /\ stored.items = Append(r, m)
    BY <2>2
  <2>. HIDE DEF p, r
  <2>5. ToSet(stored.items) = ToSet(r) \cup {m}
    BY <2>3, <2>4, Longer
  <2>6. Waiting \cup {m} \subseteq Gone' \cup Waiting'
    BY <1>5, <1>6, <2>1, <2>3, <2>4, <2>5 DEF Gone
  <2>7. enqueued \in Seq(Messages)
    BY Shape
  <2>8. ToSet(enqueued') = ToSet(enqueued) \cup {m}
    BY <2>1, <2>7, Longer
  <2>9. ToSet(enqueued) \subseteq Gone \cup Waiting
    BY AccountIs
  <2>10. \A x \in ToSet(enqueued') : x \in Gone' \cup Waiting'
    BY <1>4, <2>6, <2>8, <2>9
  <2>. QED  BY <1>4, <2>10 DEF QueuedAccountedFor, Gone, Waiting
<1>. QED  BY <1>8, <1>9

LEMMA RestartAccounts ==
  ASSUME IInv, CInv, FatesInv, QueuedAccountedFor, NEW g \in Queues, NEW q \in QueueRec,
         q.items = queues[g].items, ToSet(queues[g].lines) \subseteq ToSet(q.lines),
         Restarted(g, q), enqueued' = enqueued, UNCHANGED fates
  PROVE  FatesInv' /\ QueuedAccountedFor'
<1>1. FatesInv' /\ Gone' = Gone
  BY FatesFrame
<1>2. RoundOver(g, q)
  BY RestartedOver
<1>3. Waiting \subseteq Gone' \cup Waiting'
  BY <1>2, RoundAccounts
<1>. QED  BY <1>1, <1>3, AccountFrame

LEMMA DoneAccounts ==
  ASSUME IInv, CInv, FatesInv, QueuedAccountedFor, NEW g \in Queues, FollowupDone(g)
  PROVE  FatesInv' /\ QueuedAccountedFor'
<1>. DEFINE c == drains[g].call
            q == queues[g]
            a == AfterCall(g)
<1>1. /\ enqueued' = enqueued
      /\ answered' = IF c.kind = "item" THEN answered \o c.items ELSE answered
      /\ summarised' = summarised \cup ToSet(c.summary)
      /\ taken' = IF c.kind = "summary" THEN taken \cup ToSet(c.items) ELSE taken
      /\ forgotten' = IF c.summary = <<>> THEN forgotten
                      ELSE forgotten \cup (ToSet(q.lines) \ ToSet(c.summary))
      /\ elided' = elided /\ discarded' = discarded /\ cleared' = cleared
  BY DEF FollowupDone, Settled
<1>2. q \in QueueRec /\ IsCall(c)
  BY DEF CInv, ObjectsInv, Content
<1>3. /\ a \in QueueRec /\ a.items = Without(q.items, c.items)
      /\ a.lines = IF c.summary = <<>> THEN q.lines ELSE <<>>
  BY AfterCallIs
<1>. HIDE DEF a
<1>4. ToSet(a.items) = ToSet(q.items) \ ToSet(c.items)
  BY <1>2, <1>3, WithoutKeeps DEF QueueRec
<1>5. answered \in Seq(Messages)
  BY DEF CInv, AnsweredInv
<1>6. c.items \in Seq(Messages) /\ ToSet(c.items) \subseteq Messages
  BY <1>2, AsSet DEF IsCall
<1>7. ToSet(answered \o c.items) = ToSet(answered) \cup ToSet(c.items)
  BY <1>5, <1>6, Joined
<1>8. FatesInv'
  <2>1. ToSet(c.summary) \in SUBSET Messages /\ ToSet(q.lines) \in SUBSET Messages
    <3>1. c.summary \in Seq(Messages) /\ q.lines \in Seq(Messages)
      BY <1>2 DEF IsCall, QueueRec
    <3>. HIDE DEF c, q
    <3>. QED  BY <3>1, AsSet
  <2>. HIDE DEF c, q
  <2>. QED  BY <1>1, <1>6, <2>1 DEF FatesInv
<1>9. /\ Gone \subseteq Gone' /\ ToSet(c.items) \subseteq Gone'
      /\ ToSet(q.lines) \subseteq Gone' \cup ToSet(a.lines)
  <2>1. c.kind \in {"item", "summary"}
    BY <1>2 DEF IsCall
  <2>. HIDE DEF c, q
  <2>. QED  BY <1>1, <1>3, <1>7, <2>1 DEF Gone
<1>10. ToSet(q.items) \cup ToSet(q.lines)
         \subseteq Gone' \cup ToSet(a.items) \cup ToSet(a.lines)
  BY <1>4, <1>9
<1>11. Waiting \subseteq Gone' \cup Waiting'
  <2>1. CASE c.rest = <<>>
    <3>1. \E force : NextRound(g, a, force)
      BY <2>1 DEF FollowupDone, a
    <3>2. RoundOver(g, a)
      BY <1>3, <3>1, NextRoundOver
    <3>. QED  BY <1>10, <3>2, RoundAccounts
  <2>2. CASE c.rest # <<>>
    <3>1. Put(queues, g, a, queues') /\ current' = current
      BY <2>2 DEF FollowupDone, Put, a
    <3>2. queues'[g] = a /\ \A h \in Queues : h # g => queues'[h] = queues[h]
      BY <1>3, <3>1, QueuePut
    <3>3. current = 0 \/ current \in Queues
      BY Shape DEF Queues
    <3>. HIDE DEF c
    <3>. QED  BY <1>10, <3>1, <3>2, <3>3 DEF Waiting
  <2>. QED  BY <2>1, <2>2
<1>. QED  BY <1>1, <1>8, <1>9, <1>11, AccountFrame

LEMMA DrainAccounts ==
  ASSUME IInv, CInv, FatesInv, QueuedAccountedFor, NEW g \in Queues,
         \/ DrainStep(g) \/ FollowupAdmitted(g) \/ FollowupStarts(g) \/ FollowupDeferred(g)
         \/ FollowupThrows(g)
  PROVE  FatesInv' /\ QueuedAccountedFor'
<1>1. queues[g] \in QueueRec /\ IsCall(drains[g].call)
  BY DEF CInv, ObjectsInv, Content
<1>2. CASE DrainStep(g)
  <2>1. CASE Calls(g) = {}
    BY <1>1, <1>2, <2>1, RestartAccounts DEF DrainStep
  <2>2. CASE Calls(g) # {}
    BY <1>2, <2>2, AccountStays DEF DrainStep
  <2>. QED  BY <2>1, <2>2
<1>3. CASE FollowupAdmitted(g) \/ FollowupStarts(g)
  BY <1>3, AccountStays DEF FollowupAdmitted, FollowupStarts
<1>4. CASE FollowupDeferred(g)
  <2>. DEFINE q == [queues[g] EXCEPT !.lines = Restored(@, drains[g].call.summary)]
  <2>1. /\ q \in QueueRec /\ q.items = queues[g].items
        /\ ToSet(queues[g].lines) \subseteq ToSet(q.lines)
    BY <1>1, DeferredIs
  <2>2. Restarted(g, q) /\ enqueued' = enqueued /\ UNCHANGED fates
    BY <1>4 DEF FollowupDeferred
  <2>. HIDE DEF q
  <2>. QED  BY <2>1, <2>2, RestartAccounts
<1>5. CASE FollowupThrows(g)
  BY <1>1, <1>5, RestartAccounts DEF FollowupThrows
<1>. QED  BY <1>2, <1>3, <1>4, <1>5

LEMMA StopAccounts ==
  ASSUME IInv, CInv, FatesInv, QueuedAccountedFor, Stop
  PROVE  FatesInv' /\ QueuedAccountedFor'
<1>1. /\ enqueued' = enqueued /\ answered' = answered /\ summarised' = summarised
      /\ elided' = elided /\ taken' = taken /\ forgotten' = forgotten
      /\ discarded' = discarded
  BY DEF Stop
<1>2. cleared' = cleared \cup Waiting /\ (current = 0 => current' = current)
  BY DEF Stop, Waiting
<1>3. Waiting \subseteq Messages
  <2>1. CASE current = 0
    BY <2>1 DEF Waiting
  <2>2. CASE current # 0
    <3>1. queues[current] \in QueueRec
      BY <2>2, Shape
    <3>2. queues[current].items \in Seq(Messages) /\ queues[current].lines \in Seq(Messages)
      BY <3>1 DEF QueueRec
    <3>. QED  BY <2>2, <3>2, AsSet DEF Waiting
  <2>. QED  BY <2>1, <2>2
<1>4. FatesInv' /\ Gone \subseteq Gone' /\ Waiting \subseteq Gone'
  BY <1>1, <1>2, <1>3 DEF FatesInv, Gone
<1>. QED  BY <1>1, <1>4, AccountFrame

-----------------------------------------------------------------------------
(* The invariant *)

\* The content with the invariant of the slot, the turns and the drains, and the
\* account of every message.
FInv == IInv /\ CInv /\ FatesInv /\ SeenInv /\ QueuedAccountedFor

LEMMA InitContent == ASSUME Init PROVE FInv
<1>1. <<>> \in Seq(Messages) /\ <<>> \in Seq(QueueRec) /\ Len(<<>>) = 0 /\ 1..0 = {}
  OBVIOUS
<1>2. Distinct(<<>>)
  BY DEF Distinct
<1>3. /\ enqueued = <<>> /\ answered = <<>> /\ queues = <<>> /\ current = 0
  BY DEF Init
<1>4. Queues = {}
  BY <1>1, <1>3 DEF Queues
<1>5. CInv
  BY <1>1, <1>2, <1>3, <1>4, Emptied, NothingRises
    DEF CInv, EnqueuedInv, ObjectsInv, AnsweredInv, OrderInv
<1>6. FatesInv /\ SeenInv
  BY DEF Init, FatesInv, SeenInv, NoTurn
<1>7. QueuedAccountedFor
  BY <1>3, Emptied DEF QueuedAccountedFor
<1>. QED  BY <1>5, <1>6, <1>7, InitHolds DEF FInv

LEMMA StepContent == ASSUME FInv, [Next]_vars PROVE FInv'
<1>0. IInv /\ CInv /\ FatesInv /\ SeenInv /\ QueuedAccountedFor /\ IInv'
  BY StepPreserves DEF FInv
<1>1. Len(operations) =< Len(operations') /\ Len(operations') \in Nat
  BY <1>0, OperationsGrow
<1>2. ASSUME turns' = turns PROVE DoneStay /\ SeenInv'
  BY <1>0, <1>1, <1>2, Lengths DEF DoneStay, SeenInv, IInv, TurnsInv
<1>3. ASSUME NEW m \in Messages, PreDispatch(m) \/ TurnMoves(m)
      PROVE  DoneStay /\ SeenInv'
  BY <1>0, <1>1, <1>3, TurnWrites, TurnsFrame
<1>4. CASE UNCHANGED vars
  <2>1. StaysQueued /\ turns' = turns
    BY <1>4 DEF vars, StaysQueued
  <2>2. CInv'
    BY <1>0, <1>2, <2>1, StayKeeps
  <2>3. FatesInv' /\ QueuedAccountedFor'
    BY <1>0, <2>1, AccountStays DEF StaysQueued, queueVars
  <2>. QED  BY <1>0, <1>2, <2>1, <2>2, <2>3 DEF FInv
<1>5. ASSUME NEW m \in Messages, PreDispatch(m) \/ TurnMoves(m) PROVE FInv'
  <2>1. CASE \E s \in SettingsOf[m] : EnqueueTurn(m, s)
    <3>1. PICK s \in SettingsOf[m] : EnqueueTurn(m, s)
      BY <2>1
    <3>2. s \in QueueSettings
      BY SettingsAssumption
    <3>. QED  BY <1>0, <1>3, <1>5, <3>1, <3>2, EnqueueContent, EnqueueAccounts DEF FInv
  <2>2. CASE AgentEnds(m)
    BY <1>0, <1>3, <1>5, <2>2, AgentEndsContent, TurnAccounts DEF FInv
  <2>3. CASE ~AgentEnds(m) /\ ~\E s \in SettingsOf[m] : EnqueueTurn(m, s)
    <3>1. \/ PreDispatch(m) \/ Dispatch(m) \/ Woken(m) \/ AgentStarts(m) \/ EmbeddedRunEnds(m)
          \/ DispatchAborted(m) \/ Readmitted(m) \/ TurnEnds(m)
      BY <1>5, <2>3 DEF TurnMoves
    <3>2. StaysQueued
      BY <3>1 DEF PreDispatch, Dispatch, Woken, AgentStarts, EmbeddedRunEnds, DispatchAborted,
        Readmitted, TurnEnds
    <3>3. FatesInv' /\ QueuedAccountedFor'
      BY <1>0, <3>1, TurnAccounts
    <3>. QED  BY <1>0, <1>3, <1>5, <3>2, <3>3, StayKeeps DEF FInv
  <2>. QED  BY <2>1, <2>2, <2>3
<1>6. ASSUME NEW g \in Queues,
             \/ DrainStep(g) \/ FollowupAdmitted(g) \/ FollowupDeferred(g) \/ FollowupStarts(g)
             \/ FollowupDone(g) \/ FollowupThrows(g)
      PROVE  FInv'
  <2>1. turns' = turns
    BY <1>6 DEF DrainStep, FollowupAdmitted, FollowupStarts, FollowupDeferred, FollowupDone,
      FollowupThrows
  <2>2. CInv'
    BY <1>0, <1>6, DrainStepContent, DrainOpContent, DeferredContent, DoneContent
  <2>3. FatesInv' /\ QueuedAccountedFor'
    BY <1>0, <1>6, DrainAccounts, DoneAccounts
  <2>. QED  BY <1>0, <1>2, <2>1, <2>2, <2>3 DEF FInv
<1>7. CASE Stop
  <2>1. turns' = turns
    BY <1>7 DEF Stop
  <2>. QED  BY <1>0, <1>2, <1>7, <2>1, StopContent, StopAccounts DEF FInv
<1>. QED  BY <1>4, <1>5, <1>6, <1>7 DEF Next

\* The inductive invariant of what the queue objects, the drains and the histories hold.
THEOREM ContentHolds == Spec => []FInv
<1>1. Init => FInv
  BY InitContent
<1>2. FInv /\ [Next]_vars => FInv'
  BY StepContent
<1>. QED  BY <1>1, <1>2, PTL DEF Spec

\* Every variable has its type: slots and turns name operations that exist, an object
\* holds messages, and there is a drain for each object.
THEOREM TypeCorrect == Spec => []TypeOK
<1>1. FInv => TypeOK
  <2>. SUFFICES ASSUME FInv PROVE TypeOK
    OBVIOUS
  <2>1. IInv /\ CInv /\ FatesInv /\ SeenInv
    BY DEF FInv
  <2>2. operations \in Seq([result : {"none", "completed", "failed"}, cleared : BOOLEAN])
        /\ slot \in 0..Len(operations)
    BY <2>1 DEF IInv, SlotInv, Operation
  <2>3. turns \in [Messages -> [pc : TurnStates, seen : 0..Len(operations),
                               op : 0..Len(operations)]]
    <3>1. turns \in [Messages -> TurnRecord] /\ Len(operations) \in Nat
          /\ \A m \in Messages : turns[m].op =< Len(operations) /\ turns[m].seen =< Len(operations)
      BY <2>1, Lengths DEF IInv, TurnsInv, TurnRecord, SeenInv
    <3>2. \A m \in Messages : turns[m] \in [pc : TurnStates, seen : 0..Len(operations),
                                           op : 0..Len(operations)]
      BY <3>1 DEF TurnRecord
    <3>. QED  BY <3>1, <3>2
  <2>4. queues \in Seq([items : Seq(Messages), lines : Seq(Messages),
                        mode : Modes, cap : Nat, drop : {"summarize", "old", "new"}])
    <3>. DEFINE R == [items : Seq(Messages), lines : Seq(Messages),
                      mode : Modes, cap : Nat, drop : {"summarize", "old", "new"}]
    <3>1. QueueRec \subseteq R
      BY DEF QueueRec
    <3>. HIDE DEF R
    <3>2. queues \in Seq(R)
      BY <2>1, <3>1, Shape
    <3>. QED  BY <3>2 DEF R
  <2>5. current \in 0..Len(queues) /\ DOMAIN drains = Queues
    <3>1. IsSeq(drains) /\ Len(drains) = Len(queues) /\ current \in 0..Len(queues)
      BY <2>1, Shape
    <3>. QED  BY <3>1 DEF IsSeq, Queues
  <2>6. \A g \in Queues : drains[g].pc \in {"idle", "debounce", "admit", "admitted", "running"}
    BY <2>1, DrainKnown DEF DrainStates
  <2>7. ToSet(enqueued) \cup ToSet(answered) \subseteq Messages
    <3>1. enqueued \in Seq(Messages) /\ answered \in Seq(Messages)
      BY <2>1 DEF CInv, EnqueuedInv, AnsweredInv
    <3>. QED  BY <3>1, AsSet
  <2>. QED  BY <2>1, <2>2, <2>3, <2>4, <2>5, <2>6, <2>7 DEF TypeOK, FatesInv
<1>. QED  BY <1>1, ContentHolds, PTL

\* Every message enqueued is queued, has a line in the summary to come, was answered or
\* told of, or left by a loss with a name: /stop, the policies "old" and "new", or one of
\* the three ways a summary loses messages (its lines are shifted out by later drops, its
\* run removes a message it does not have as prompt, or lines that came during its run).
THEOREM Accounted == Spec => []QueuedAccountedFor
<1>1. FInv => QueuedAccountedFor
  BY DEF FInv
<1>. QED  BY <1>1, ContentHolds, PTL

\* A message is the prompt of one run, also when a removed object is still drained.
THEOREM AnsweredOnce == Spec => []OneRunEach
<1>1. FInv => OneRunEach
  <2>. SUFFICES ASSUME FInv PROVE Cardinality(ToSet(answered)) = Len(answered)
    BY DEF OneRunEach
  <2>1. answered \in Seq(Messages) /\ Distinct(answered)
    BY DEF FInv, CInv, AnsweredInv
  <2>. QED  BY <2>1, DistinctCardinality
<1>. QED  BY <1>1, ContentHolds, PTL

\* Without a /stop the followups of a session run in the order they came in.
THEOREM AnsweredInOrder == Spec => []RunsInOrder
<1>1. FInv => RunsInOrder
  <2>. SUFFICES ASSUME FInv, faults.stops = 0, NEW i \in DOMAIN answered,
                       NEW j \in DOMAIN answered, i < j
                PROVE  IndexOf(answered[i]) < IndexOf(answered[j])
    BY DEF RunsInOrder
  <2>1. answered \in Seq(Messages) /\ Rising(enqueued, answered)
    BY DEF FInv, CInv, AnsweredInv, OrderInv
  <2>2. \A m : IndexOf(m) = Pos(enqueued, m)
    BY DEF IndexOf, Pos
  <2>. QED  BY <2>1, <2>2 DEF Rising
<1>. QED  BY <1>1, ContentHolds, PTL

-----------------------------------------------------------------------------
(* What one prompt may combine *)

\* The messages of a call are of senders with the same rights, and with those of the
\* rest of the snapshot they came over one route, or without one.
Together(c) == OneAuthorization(c.items) /\ OneRoute(ToSet(c.items) \cup ToSet(c.rest))

\* The call of the drain of h after a step: as before, none, one for its items, or the
\* one for the next group of its snapshot.
CallAfter(h) ==
  \/ h \in Queues /\ drains'[h].call = drains[h].call
  \/ Emptyhanded(drains'[h])
  \/ h \in Queues /\ drains'[h].call \in Calls(h)
  \/ /\ h \in Queues /\ drains[h].call.rest # <<>>
     /\ drains'[h].call = GroupCall(drains[h].call.rest, <<>>)

LEMMA RoundCalls ==
  ASSUME NEW g, NEW q, RoundOver(g, q)
  PROVE  \A h \in Queues' : CallAfter(h)
<1>1. Queues' = Queues
  BY DEF RoundOver, Queues
<1>. QED  BY <1>1 DEF RoundOver, CallAfter

LEMMA PutCalls ==
  ASSUME IInv, CInv, NEW g \in Queues, NEW d, Put(drains, g, d, drains'),
         Len(queues') = Len(queues),
         \/ d.call = drains[g].call
         \/ d.call \in Calls(g)
         \/ drains[g].call.rest # <<>> /\ d.call = GroupCall(drains[g].call.rest, <<>>)
  PROVE  \A h \in Queues' : CallAfter(h)
<1>1. Queues' = Queues
  BY DEF Queues
<1>2. drains'[g] = d /\ \A h \in Queues : h # g => drains'[h] = drains[h]
  BY DrainPut
<1>. QED  BY <1>1, <1>2 DEF CallAfter

LEMMA StepCalls ==
  ASSUME FInv, [Next]_vars, NEW h \in Queues'
  PROVE  CallAfter(h)
<1>0. IInv /\ CInv /\ FatesInv
  BY DEF FInv
<1>1. CASE drains' = drains /\ Len(queues') = Len(queues)
  BY <1>1 DEF CallAfter, Queues
<1>2. CASE UNCHANGED vars
  BY <1>1, <1>2 DEF vars, queueVars
<1>3. ASSUME NEW m \in Messages, PreDispatch(m) \/ TurnMoves(m) PROVE CallAfter(h)
  <2>1. CASE \E s \in SettingsOf[m] : EnqueueTurn(m, s)
    <3>1. PICK s \in SettingsOf[m] : EnqueueTurn(m, s)
      BY <2>1
    <3>2. s \in QueueSettings
      BY SettingsAssumption
    <3>3. \E stored, g : Place(g, stored)
      BY <1>0, <3>1, <3>2, StoredIs, PlaceIs
    <3>4. PICK stored, g : Place(g, stored)
      BY <3>3
    <3>5. current \in 0..Len(queues)
      BY <1>0, Shape
    <3>. QED  BY <3>4, <3>5 DEF Place, CallAfter, Queues
  <2>2. CASE AgentEnds(m)
    <3>1. drains' = Scheduled(drains, current) /\ queues' = queues
      BY <2>2 DEF AgentEnds
    <3>2. \A x \in 1..Len(queues) : drains'[x] = drains[x] \/ Emptyhanded(drains'[x])
      BY <1>0, <3>1, Shape, ScheduledCalls
    <3>. QED  BY <3>1, <3>2 DEF CallAfter, Queues
  <2>3. CASE ~AgentEnds(m) /\ ~\E s \in SettingsOf[m] : EnqueueTurn(m, s)
    <3>1. StaysQueued
      BY <1>3, <2>3 DEF TurnMoves, PreDispatch, Dispatch, Woken, AgentStarts, EmbeddedRunEnds,
        DispatchAborted, Readmitted, TurnEnds
    <3>. QED  BY <1>1, <3>1 DEF StaysQueued, queueVars
  <2>. QED  BY <2>1, <2>2, <2>3
<1>4. ASSUME NEW g \in Queues, NEW q \in QueueRec, Restarted(g, q) PROVE CallAfter(h)
  BY <1>0, <1>4, RestartedOver, RoundCalls
<1>5. ASSUME NEW g \in Queues,
             \/ DrainStep(g) \/ FollowupAdmitted(g) \/ FollowupDeferred(g) \/ FollowupStarts(g)
             \/ FollowupDone(g) \/ FollowupThrows(g)
      PROVE  CallAfter(h)
  <2>1. queues[g] \in QueueRec /\ IsCall(drains[g].call)
    BY <1>0 DEF CInv, ObjectsInv, Content
  <2>2. CASE DrainStep(g)
    <3>1. CASE Calls(g) = {}
      BY <1>4, <2>1, <2>2, <3>1 DEF DrainStep
    <3>2. CASE Calls(g) # {}
      <4>. DEFINE c == CHOOSE x \in Calls(g) : TRUE
      <4>1. /\ queues' = queues
            /\ \E f : Put(drains, g, WithCall(WithForce(WithPc(drains[g], "admit"), f), c), drains')
        BY <2>2, <3>2, Zenon DEF DrainStep, Put, WithCall, WithForce, WithPc
      <4>2. c \in Calls(g)
        BY <3>2
      <4>. HIDE DEF c
      <4>3. PICK f : Put(drains, g, WithCall(WithForce(WithPc(drains[g], "admit"), f), c), drains')
        BY <4>1
      <4>4. WithCall(WithForce(WithPc(drains[g], "admit"), f), c).call = c
        BY <1>0, DrainKnown, DrainCalls
      <4>. QED  BY <1>0, <4>1, <4>2, <4>3, <4>4, PutCalls
    <3>. QED  BY <3>1, <3>2
  <2>3. CASE FollowupAdmitted(g)
    <3>1. /\ Put(drains, g, WithOp(WithPc(drains[g], "admitted"), slot'), drains')
          /\ queues' = queues
      BY <2>3 DEF FollowupAdmitted, Put, WithOp, WithPc
    <3>2. WithOp(WithPc(drains[g], "admitted"), slot').call = drains[g].call
      BY <1>0, DrainKnown, DrainCalls
    <3>. QED  BY <1>0, <3>1, <3>2, PutCalls
  <2>4. CASE FollowupStarts(g)
    <3>1. Put(drains, g, WithPc(drains[g], "running"), drains') /\ queues' = queues
      BY <2>4 DEF FollowupStarts, Put, WithPc
    <3>2. WithPc(drains[g], "running").call = drains[g].call
      BY <1>0, DrainKnown, DrainCalls
    <3>. QED  BY <1>0, <3>1, <3>2, PutCalls
  <2>5. CASE FollowupDeferred(g)
    <3>. DEFINE q == [queues[g] EXCEPT !.lines = Restored(@, drains[g].call.summary)]
    <3>1. q \in QueueRec
      BY <2>1, DeferredIs
    <3>2. Restarted(g, q)
      BY <2>5 DEF FollowupDeferred
    <3>. HIDE DEF q
    <3>. QED  BY <1>4, <3>1, <3>2
  <2>6. CASE FollowupThrows(g)
    BY <1>4, <2>1, <2>6 DEF FollowupThrows
  <2>7. CASE FollowupDone(g)
    <3>1. AfterCall(g) \in QueueRec
      BY <1>0, AfterCallIs
    <3>2. CASE drains[g].call.rest = <<>>
      <4>1. \E force : NextRound(g, AfterCall(g), force)
        BY <2>7, <3>2 DEF FollowupDone
      <4>2. RoundOver(g, AfterCall(g))
        BY <1>0, <3>1, <4>1, NextRoundOver
      <4>. QED  BY <4>2, RoundCalls
    <3>3. CASE drains[g].call.rest # <<>>
      <4>. DEFINE c == GroupCall(drains[g].call.rest, <<>>)
                  d == WithCall(WithOp(WithPc(drains[g], "admit"), 0), c)
      <4>1. Put(drains, g, d, drains') /\ Put(queues, g, AfterCall(g), queues')
        BY <2>7, <3>3 DEF FollowupDone, Put, WithCall, WithOp, WithPc
      <4>2. d.call = c
        BY <1>0, DrainKnown, DrainCalls
      <4>3. Len(queues') = Len(queues)
        BY <1>0, <3>1, <4>1, QueuePut
      <4>. HIDE DEF d
      <4>. QED  BY <1>0, <3>3, <4>1, <4>2, <4>3, PutCalls
    <3>. QED  BY <3>2, <3>3
  <2>. QED  BY <1>5, <2>2, <2>3, <2>4, <2>5, <2>6, <2>7
<1>6. CASE Stop
  <2>1. drains' = drains
    BY <1>6 DEF Stop
  <2>2. Len(queues') = Len(queues)
    <3>1. CASE current = 0
      BY <1>6, <3>1 DEF Stop
    <3>2. CASE current # 0
      <4>1. \A s \in Seq(QueueRec) : \A k, y, z :
              Len([[s EXCEPT ![k] = y] EXCEPT ![k] = z]) = Len(s)
        OBVIOUS
      <4>2. queues' = [[queues EXCEPT ![current] = [queues[current] EXCEPT !.items = <<>>]]
                         EXCEPT ![current] = [@ EXCEPT !.lines = <<>>]]
        BY <1>6, <3>2 DEF Stop
      <4>3. queues \in Seq(QueueRec)
        BY <1>0, Shape
      <4>. QED  BY <4>1, <4>2, <4>3
    <3>. QED  BY <3>1, <3>2
  <2>. QED  BY <1>1, <2>1, <2>2
<1>. QED  BY <1>2, <1>3, <1>5, <1>6 DEF Next

\* The messages that one prompt combines came over one route, those without metadata
\* aside, from senders with the same rights, and none of them had to have a prompt of its
\* own: a batch that was split keeps the split through every group and retry.
PromptsTogether == \A h \in Queues : Together(drains[h].call)

LEMMA StepTogether == ASSUME FInv, PromptsTogether, [Next]_vars PROVE PromptsTogether'
<1>. SUFFICES ASSUME NEW h \in Queues' PROVE Together(drains'[h].call)
  BY DEF PromptsTogether
<1>1. CallAfter(h)
  BY StepCalls
<1>2. ASSUME h \in Queues
      PROVE  queues[h] \in QueueRec /\ IsCall(drains[h].call) /\ Together(drains[h].call)
  BY <1>2 DEF FInv, CInv, ObjectsInv, Content, PromptsTogether
<1>3. CASE h \in Queues /\ drains'[h].call = drains[h].call
  BY <1>2, <1>3
<1>4. CASE Emptyhanded(drains'[h])
  <2>1. NoCall.items = <<>> /\ NoCall.rest = <<>>
    BY DEF NoCall
  <2>. QED  BY <1>4, <2>1, Emptied DEF Emptyhanded, Together, OneAuthorization, OneRoute
<1>5. CASE h \in Queues /\ drains'[h].call \in Calls(h)
  BY <1>2, <1>5, CallsAre DEF Together
<1>6. CASE /\ h \in Queues /\ drains[h].call.rest # <<>>
           /\ drains'[h].call = GroupCall(drains[h].call.rest, <<>>)
  <2>. DEFINE r == drains[h].call.rest
              c == GroupCall(r, <<>>)
  <2>1. r \in Seq(Messages) /\ r # <<>>
    BY <1>2, <1>6 DEF IsCall
  <2>. HIDE DEF r
  <2>2. IsCall(c) /\ OneAuthorization(c.items) /\ c.items \o c.rest = r
    BY <2>1, NoLines, GroupCallIs
  <2>. HIDE DEF c
  <2>3. ToSet(c.items) \cup ToSet(c.rest) = ToSet(r)
    <3>1. c.items \in Seq(Messages) /\ c.rest \in Seq(Messages)
      BY <2>2 DEF IsCall
    <3>2. ToSet(c.items \o c.rest) = ToSet(c.items) \cup ToSet(c.rest)
      BY <3>1, Joined
    <3>. QED  BY <2>2, <3>2
  <2>4. OneRoute(ToSet(r))
    BY <1>2, <1>6 DEF Together, OneRoute, r
  <2>. QED  BY <1>6, <2>2, <2>3, <2>4 DEF Together, r, c
<1>. QED  BY <1>1, <1>3, <1>4, <1>5, <1>6 DEF CallAfter

\* Collect mode combines messages of at most one route besides those without metadata,
\* which join any, never one that needs a prompt of its own, and only of senders with the
\* same rights, in every group of a snapshot and after every deferral and retry.
THEOREM NeverMixed == Spec => []PromptsTogether
<1>1. Init => PromptsTogether
  <2>. SUFFICES ASSUME Init PROVE PromptsTogether
    OBVIOUS
  <2>1. queues = <<>> /\ Len(<<>>) = 0 /\ 1..0 = {}
    BY DEF Init
  <2>. QED  BY <2>1 DEF PromptsTogether, Queues
<1>2. FInv /\ PromptsTogether /\ [Next]_vars => PromptsTogether'
  BY StepTogether
<1>. QED  BY <1>1, <1>2, ContentHolds, PTL DEF Spec
=============================================================================
