--------------------------- MODULE TrajectoryProofs ---------------------------
(***************************************************************************)
(* What the proofs about the log and the hub share: sequences, induction,  *)
(* and how the replayer goes on by one event.                              *)
(*                                                                         *)
(* The induction theorems of the library take an operator, which no        *)
(* backend can instantiate; the same principle over a set is first order   *)
(* (Induction below) and unrolls the recursive function of Replay.         *)
(***************************************************************************)
EXTENDS Trajectory, Integers, SequenceTheorems, WellFoundedInduction, TLAPS

IsSequence(q) == q \in Seq({q[i] : i \in DOMAIN q})

---------------------------------------------------------------------------
(* Sequences.                                                              *)

LEMMA SequenceIsOne ==
  ASSUME NEW S, NEW q \in Seq(S)
  PROVE  IsSequence(q)
  BY DEF IsSequence

LEMMA AppendIsSequence ==
  ASSUME NEW q, IsSequence(q), NEW x
  PROVE  /\ IsSequence(Append(q, x))
         /\ Len(q) \in Nat /\ Len(Append(q, x)) = Len(q) + 1
         /\ \A i \in 1..Len(q) : Append(q, x)[i] = q[i]
         /\ Append(q, x)[Len(q) + 1] = x
<1> DEFINE S == {q[i] : i \in DOMAIN q} \cup {x}
<1>1. q \in Seq(S) BY DEF IsSequence
<1>2. Append(q, x) \in Seq(S) BY <1>1
<1>3. IsSequence(Append(q, x)) BY <1>2, SequenceIsOne
<1> HIDE DEF S
<1>4. QED BY <1>1, <1>3

LEMMA TailIsSequence ==
  ASSUME NEW q, IsSequence(q), q # <<>>
  PROVE  /\ IsSequence(Tail(q))
         /\ Len(q) \in Nat /\ Len(q) > 0 /\ Len(Tail(q)) = Len(q) - 1
         /\ \A i \in 1..(Len(q) - 1) : Tail(q)[i] = q[i + 1]
         /\ Head(q) = q[1]
<1> DEFINE S == {q[i] : i \in DOMAIN q}
<1>1. q \in Seq(S) BY DEF IsSequence
<1>2. Tail(q) \in Seq(S) BY <1>1
<1>3. IsSequence(Tail(q)) BY <1>2, SequenceIsOne
<1> HIDE DEF S
<1>4. QED BY <1>1, <1>3

LEMMA FunctionIsSequence ==
  ASSUME NEW n \in Nat, NEW s, s = [i \in 1..n |-> s[i]]
  PROVE  IsSequence(s) /\ Len(s) = n
<1> DEFINE S == {s[i] : i \in DOMAIN s}
<1>1. \A i \in 1..n : s[i] \in S OBVIOUS
<1> HIDE DEF S
<1>2. s \in Seq(S) /\ Len(s) = n BY <1>1
<1>3. QED BY <1>2, SequenceIsOne

\* What stays when an element is taken out moves up.
LEMMA RemoveAtShifts ==
  ASSUME NEW q, IsSequence(q), NEW k \in 1..Len(q)
  PROVE  /\ IsSequence(RemoveAt(q, k)) /\ Len(q) \in Nat
         /\ DOMAIN RemoveAt(q, k) = 1..(Len(q) - 1)
         /\ \A i \in 1..(Len(q) - 1) : RemoveAt(q, k)[i] = IF i < k THEN q[i] ELSE q[i + 1]
<1> DEFINE S == {q[i] : i \in DOMAIN q}
           a == SubSeq(q, 1, k - 1)
           b == SubSeq(q, k + 1, Len(q))
<1>1. q \in Seq(S) /\ Len(q) \in Nat BY DEF IsSequence
<1> HIDE DEF S
<1>2. a \in Seq(S) /\ Len(a) = k - 1 /\ \A i \in 1..(k - 1) : a[i] = q[i] BY <1>1
<1>3. b \in Seq(S) /\ Len(b) = Len(q) - k /\ \A i \in 1..(Len(q) - k) : b[i] = q[k + i] BY <1>1
<1> HIDE DEF a, b
<1>4. /\ a \o b \in Seq(S) /\ Len(a \o b) = Len(q) - 1
      /\ \A i \in 1..(Len(q) - 1) :
           (a \o b)[i] = IF i <= k - 1 THEN a[i] ELSE b[i - (k - 1)]
  <2>1. /\ a \o b \in Seq(S) /\ Len(a \o b) = Len(a) + Len(b)
        /\ \A i \in 1..(Len(a) + Len(b)) :
             (a \o b)[i] = IF i <= Len(a) THEN a[i] ELSE b[i - Len(a)]
    BY <1>2, <1>3, ConcatProperties
  <2>2. Len(a) = k - 1 /\ Len(b) = Len(q) - k /\ Len(a) + Len(b) = Len(q) - 1
    BY <1>1, <1>2, <1>3
  <2>3. QED BY <2>1, <2>2
<1>5. \A i \in 1..(Len(q) - 1) : (a \o b)[i] = IF i < k THEN q[i] ELSE q[i + 1]
  BY <1>1, <1>2, <1>3, <1>4
<1>6. RemoveAt(q, k) = a \o b BY DEF RemoveAt, a, b
<1>7. IsSequence(a \o b) BY <1>4, SequenceIsOne
<1>8. DOMAIN (a \o b) = 1..(Len(q) - 1) BY <1>1, <1>4
<1>9. QED BY <1>1, <1>5, <1>6, <1>7, <1>8

LEMMA ExceptIsSequence ==
  ASSUME NEW q, IsSequence(q), NEW k, NEW x
  PROVE  /\ IsSequence([q EXCEPT ![k] = x])
         /\ Len([q EXCEPT ![k] = x]) = Len(q)
<1> DEFINE r == [q EXCEPT ![k] = x]
<1>1. Len(q) \in Nat /\ DOMAIN q = 1..Len(q) BY DEF IsSequence
<1>2. r = [i \in 1..Len(q) |-> r[i]] BY <1>1
<1> HIDE DEF r
<1>3. QED BY <1>1, <1>2, FunctionIsSequence DEF r

---------------------------------------------------------------------------
(* Induction.                                                              *)

LEMMA LeastNatural ==
  ASSUME NEW T, T \subseteq Nat, T # {}
  PROVE  \E m \in T : \A k \in T : m <= k
<1> DEFINE R == OpToRel(<, Nat)
<1>1. IsWellFoundedOn(R, Nat) BY NatLessThanWellFounded
<1> HIDE DEF R
<1>2. PICK m \in T : \A k \in T : <<k, m>> \notin R BY <1>1, WFMin
<1>3. \A k \in T : ~(k < m) BY <1>2 DEF R, OpToRel
<1>4. QED BY <1>2, <1>3

LEMMA Induction ==
  ASSUME NEW n \in Nat, NEW S, 0 \in S,
         \A i \in 0..(n - 1) : i \in S => i + 1 \in S
  PROVE  \A i \in 0..n : i \in S
<1> DEFINE T == {i \in 0..n : i \notin S}
<1> SUFFICES ASSUME T # {} PROVE FALSE OBVIOUS
<1>1. T \subseteq Nat OBVIOUS
<1> HIDE DEF T
<1>2. PICK m \in T : \A k \in T : m <= k BY <1>1, LeastNatural
<1>3. m \in 0..n /\ m \notin S BY <1>2 DEF T
<1>4. m - 1 \in 0..(n - 1) /\ m - 1 \notin T BY <1>2, <1>3
<1>5. m - 1 \in S BY <1>4 DEF T
<1>6. QED BY <1>3, <1>4, <1>5

---------------------------------------------------------------------------
(* Replay, one event at a time.                                            *)

\* An event folded into what the events before it replay to.
Folded(before, e) ==
  IF Repeated(before, e) THEN before
  ELSE FoldEvent([before EXCEPT !.seen = @ \cup {e.id}], e)

IsFold(f, q, n) == f = [i \in 0..n |-> IF i = 0 THEN Empty ELSE Folded(f[i - 1], q[i])]

LEMMA FoldExists ==
  ASSUME NEW q, NEW n \in Nat
  PROVE  \E f : IsFold(f, q, n)
<1> DEFINE S == {k \in 0..n : \E f : IsFold(f, q, k)}
<1>1. 0 \in S
  <2>1. IsFold([i \in 0..0 |-> Empty], q, 0) BY DEF IsFold
  <2>2. \E f : IsFold(f, q, 0) BY <2>1
  <2>3. QED BY <2>2
<1>2. ASSUME NEW k \in 0..(n - 1), k \in S PROVE k + 1 \in S
  <2>1. PICK f : IsFold(f, q, k) BY <1>2
  <2> DEFINE g == [i \in 0..(k + 1) |-> IF i = k + 1 THEN Folded(f[k], q[k + 1]) ELSE f[i]]
  <2>2. \A i \in 0..(k + 1) : g[i] = IF i = 0 THEN Empty ELSE Folded(g[i - 1], q[i])
    BY <2>1 DEF IsFold
  <2>3. g = [i \in 0..(k + 1) |-> g[i]] OBVIOUS
  <2> HIDE DEF g
  <2>4. IsFold(g, q, k + 1) BY <2>2, <2>3 DEF IsFold
  <2>5. \E h : IsFold(h, q, k + 1) BY <2>4
  <2>6. QED BY <2>5
<1> HIDE DEF S
<1>3. n \in S BY <1>1, <1>2, Induction
<1>4. QED BY <1>3 DEF S

LEMMA FoldsAgree ==
  ASSUME NEW q, NEW r, NEW n \in Nat, \A i \in 1..n : q[i] = r[i],
         NEW f, NEW g, IsFold(f, q, n), IsFold(g, r, n + 1)
  PROVE  f[n] = g[n]
<1> DEFINE S == {k \in 0..n : f[k] = g[k]}
<1>1. /\ f[0] = Empty /\ g[0] = Empty
      /\ \A i \in 1..n : f[i] = Folded(f[i - 1], q[i]) /\ g[i] = Folded(g[i - 1], r[i])
  BY DEF IsFold
<1>2. 0 \in S BY <1>1
<1>3. \A k \in 0..(n - 1) : k \in S => k + 1 \in S BY <1>1
<1> HIDE DEF S
<1>4. n \in S BY <1>2, <1>3, Induction
<1>5. QED BY <1>4 DEF S

LEMMA ReplayFolds ==
  ASSUME NEW q, Len(q) \in Nat
  PROVE  \E f : IsFold(f, q, Len(q)) /\ Replay(q) = f[Len(q)]
<1>1. \E f : IsFold(f, q, Len(q)) BY FoldExists
<1>2. QED BY <1>1 DEF IsFold, Folded, Replay

LEMMA ReplayOfNothing == Replay(<<>>) = Empty
<1>1. PICK f : IsFold(f, <<>>, 0) /\ Replay(<<>>) = f[0] BY ReplayFolds
<1>2. QED BY <1>1 DEF IsFold

LEMMA ReplayGoesOn ==
  ASSUME NEW q, IsSequence(q), NEW e
  PROVE  Replay(Append(q, e)) = Folded(Replay(q), e)
<1> DEFINE n == Len(q)
           r == Append(q, e)
<1>1. n \in Nat /\ Len(r) = n + 1 /\ r[n + 1] = e /\ \A i \in 1..n : q[i] = r[i]
  BY AppendIsSequence
<1> HIDE DEF n, r
<1>2. PICK f : IsFold(f, q, n) /\ Replay(q) = f[n] BY <1>1, ReplayFolds DEF n
<1>3. PICK g : IsFold(g, r, n + 1) /\ Replay(r) = g[n + 1] BY <1>1, ReplayFolds
<1>4. f[n] = g[n]
  <2>1. IsFold(f, q, n) /\ IsFold(g, r, n + 1) BY <1>2, <1>3
  <2>2. QED BY <1>1, <2>1, FoldsAgree
<1>5. g[n + 1] = Folded(g[n], r[n + 1]) BY <1>1, <1>3 DEF IsFold
<1>6. QED BY <1>1, <1>2, <1>3, <1>4, <1>5 DEF r
=============================================================================
