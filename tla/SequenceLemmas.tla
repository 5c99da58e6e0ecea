--------------------------- MODULE SequenceLemmas ---------------------------
(***************************************************************************)
(* Induction over numbers, from the fact that they are well-founded, and    *)
(* what it says of FlattenSeq(), the concatenation of a list of sequences.  *)
(***************************************************************************)
EXTENDS Integers, Sequences, SequencesExt, SequenceTheorems, WellFoundedInduction, TLAPS

(* A set of numbers that is not empty has a least one. *)
LEMMA LeastNumber ==
  ASSUME NEW T, T \subseteq Nat, T # {}
  PROVE  \E n \in T : \A k \in T : n <= k
<1> DEFINE Below == {ss \in Nat \X Nat : ss[1] < ss[2]}
<1>1. IsWellFoundedOn(Below, Nat)
  BY NatLessThanWellFounded, Zenon DEF OpToRel
<1>2. \E x \in T : \A y \in T : ~(<<y, x>> \in Below)
  <2> HIDE DEF Below
  <2>1. QED BY <1>1, WFMin, Zenon
<1>3. PICK x \in T : \A y \in T : ~(<<y, x>> \in Below)
  BY <1>2
<1>4. \A y \in T : ~(y < x)
  BY <1>3
<1>5. QED BY <1>4

(* A set that has 0, and with a number the next, has them all. *)
LEMMA SetInduction ==
  ASSUME NEW T, 0 \in T, \A n \in Nat : n \in T => n + 1 \in T
  PROVE  \A n \in Nat : n \in T
<1>1. SUFFICES ASSUME Nat \ T # {} PROVE FALSE
  OBVIOUS
<1>2. PICK n \in Nat \ T : \A k \in Nat \ T : n <= k
  BY <1>1, LeastNumber
<1>3. n # 0 /\ n - 1 \in Nat
  BY <1>2
<1>4. n - 1 \in T
  BY <1>2, <1>3
<1>5. QED BY <1>2, <1>4, <1>3

(* Named, so that the provers take the equation as a whole. *)
Reassociated(a, b, c) == (a \o b) \o c = a \o (b \o c)

LEMMA Associative ==
  ASSUME NEW S, NEW a, NEW b, NEW c, a \in Seq(S), b \in Seq(S), c \in Seq(S)
  PROVE  Reassociated(a, b, c)
BY ConcatAssociative DEF Reassociated

(* The first n partial concatenations of s. *)
Joined(f, s, n) == f = [i \in 1..n |-> IF i = 1 THEN s[i] ELSE f[i - 1] \o s[i]]

(* The recursion has a solution, so that CHOOSE finds one. *)
LEMMA JoinedExists ==
  ASSUME NEW s
  PROVE  \A n \in Nat : \E f : Joined(f, s, n)
<1> DEFINE T == {n \in Nat : \E f : Joined(f, s, n)}
<1>1. 0 \in T
  <2>1. Joined([i \in 1..0 |-> s], s, 0)
    BY DEF Joined
  <2>2. QED BY <2>1
<1>2. ASSUME NEW n \in Nat, n \in T
      PROVE  n + 1 \in T
  <2>1. PICK f : Joined(f, s, n)
    BY <1>2
  <2> DEFINE g == [i \in 1..(n + 1) |-> IF i <= n THEN f[i]
                                        ELSE IF i = 1 THEN s[i] ELSE f[i - 1] \o s[i]]
  <2>2. \A i \in 1..(n + 1) : g[i] = IF i = 1 THEN s[i] ELSE g[i - 1] \o s[i]
    <3> TAKE i \in 1..(n + 1)
    <3>1. CASE i = n + 1
      <4>1. i # 1 => i - 1 \in 1..(n + 1) /\ i - 1 <= n
        BY <3>1
      <4>2. i # 1 => g[i - 1] = f[i - 1]
        BY <4>1
      <4>3. g[i] = IF i = 1 THEN s[i] ELSE f[i - 1] \o s[i]
        BY <3>1
      <4>4. QED BY <4>2, <4>3, Zenon
    <3>2. CASE i # n + 1
      <4>1. i \in 1..n
        BY <3>2
      <4>2. f[i] = IF i = 1 THEN s[i] ELSE f[i - 1] \o s[i]
        BY <4>1, <2>1, Zenon DEF Joined
      <4>3. g[i] = f[i]
        BY <4>1
      <4>4. i # 1 => g[i - 1] = f[i - 1]
        BY <4>1
      <4>5. QED BY <4>2, <4>3, <4>4, Zenon
    <3>3. QED BY <3>1, <3>2
  <2>3. g = [i \in 1..(n + 1) |-> g[i]]
    OBVIOUS
  <2> HIDE DEF g
  <2>4. [i \in 1..(n + 1) |-> g[i]]
          = [i \in 1..(n + 1) |-> IF i = 1 THEN s[i] ELSE g[i - 1] \o s[i]]
    BY <2>2, Zenon
  <2>5. Joined(g, s, n + 1)
    BY <2>3, <2>4, Zenon DEF Joined
  <2>6. QED BY <2>5
<1>3. QED
  <2> HIDE DEF T
  <2>1. \A n \in Nat : n \in T
    BY <1>1, <1>2, SetInduction
  <2>2. QED BY <2>1 DEF T

(* FlattenSeq() is the last of the partial concatenations. *)
LEMMA FlattenJoined ==
  ASSUME NEW s, Len(s) \in Nat, Len(s) # 0
  PROVE  \E f : Joined(f, s, Len(s)) /\ FlattenSeq(s) = f[Len(s)]
<1> DEFINE f == CHOOSE g : Joined(g, s, Len(s))
<1>1. Joined(f, s, Len(s))
  BY JoinedExists, Zenon
<1>2. FlattenSeq(s) = f[Len(s)]
  BY Zenon DEF FlattenSeq, Joined
<1>3. QED BY <1>1, <1>2, Zenon

LEMMA JoinedSteps ==
  ASSUME NEW s, NEW n \in Nat, NEW f, Joined(f, s, n)
  PROVE  /\ 1 \in 1..n => f[1] = s[1]
         /\ \A i \in 1..n : i # 1 => f[i] = f[i - 1] \o s[i]
<1>1. \A i \in 1..n : f[i] = IF i = 1 THEN s[i] ELSE f[i - 1] \o s[i]
  <2> TAKE i \in 1..n
  <2>1. QED BY Zenon DEF Joined
<1>2. \A i \in 1..n : i # 1 => f[i] = f[i - 1] \o s[i]
  BY <1>1, Zenon
<1>3. 1 \in 1..n => f[1] = s[1]
  BY <1>1, Zenon
<1>4. QED BY <1>2, <1>3

LEMMA FlattenEmpty ==
  ASSUME NEW s, Len(s) = 0
  PROVE  FlattenSeq(s) = s
BY DEF FlattenSeq

(* Each of them is a sequence of what is in the sequences. *)
LEMMA JoinedTyped ==
  ASSUME NEW S, NEW s \in Seq(Seq(S)), NEW f, Joined(f, s, Len(s))
  PROVE  \A i \in 1..Len(s) : f[i] \in Seq(S)
<1>1. Len(s) \in Nat /\ \A i \in 1..Len(s) : s[i] \in Seq(S)
  OBVIOUS
<1>2. /\ 1 \in 1..Len(s) => f[1] = s[1]
      /\ \A i \in 1..Len(s) : i # 1 => f[i] = f[i - 1] \o s[i]
  BY <1>1, JoinedSteps
<1> DEFINE T == {n \in Nat : n \in 1..Len(s) => f[n] \in Seq(S)}
<1>3. 0 \in T
  BY <1>1
<1>4. ASSUME NEW n \in Nat, n \in T
      PROVE  n + 1 \in T
  <2> SUFFICES ASSUME n + 1 \in 1..Len(s) PROVE f[n + 1] \in Seq(S)
    OBVIOUS
  <2>1. CASE n = 0
    BY <2>1, <1>1, <1>2
  <2>2. CASE n # 0
    <3>1. n \in 1..Len(s) /\ n + 1 # 1 /\ (n + 1) - 1 = n
      BY <2>2, <1>1
    <3>2. f[n + 1] = f[n] \o s[n + 1]
      BY <1>2, <3>1
    <3>3. f[n] \in Seq(S) /\ s[n + 1] \in Seq(S)
      BY <1>1, <1>4, <3>1
    <3>4. QED BY <3>2, <3>3, ConcatProperties
  <2>3. QED BY <2>1, <2>2
<1>5. QED
  <2> HIDE DEF T
  <2>1. \A n \in Nat : n \in T
    BY <1>3, <1>4, SetInduction
  <2>2. QED BY <2>1, <1>1 DEF T

(* Sequences of sequences of S give a sequence of S. *)
LEMMA FlattenTyped ==
  ASSUME NEW S, NEW s \in Seq(Seq(S))
  PROVE  FlattenSeq(s) \in Seq(S)
<1>0. Len(s) \in Nat
  OBVIOUS
<1>1. CASE Len(s) = 0
  <2>1. s = <<>> /\ s \in Seq(S)
    BY <1>1, EmptySeq
  <2>2. QED BY <1>1, <2>1, FlattenEmpty
<1>2. CASE Len(s) # 0
  <2>1. PICK f : Joined(f, s, Len(s)) /\ FlattenSeq(s) = f[Len(s)]
    BY <1>0, <1>2, FlattenJoined
  <2>2. Len(s) \in 1..Len(s)
    BY <1>0, <1>2
  <2>3. QED BY <2>1, <2>2, JoinedTyped
<1>3. QED BY <1>1, <1>2

(* What follows the first sequence is joined in the same way. *)
LEMMA JoinedShift ==
  ASSUME NEW S, NEW s \in Seq(Seq(S)), NEW t \in Seq(Seq(S)), Len(s) = Len(t) + 1,
         \A i \in 1..Len(t) : t[i] = s[i + 1],
         NEW f, NEW g, Joined(f, s, Len(s)), Joined(g, t, Len(t))
  PROVE  1 \in 1..Len(t) => f[Len(s)] = s[1] \o g[Len(t)]
<1>1. Len(s) \in Nat /\ Len(t) \in Nat
  OBVIOUS
<1>2. s[1] \in Seq(S) /\ \A i \in 1..Len(s) : s[i] \in Seq(S)
  OBVIOUS
<1>3. /\ 1 \in 1..Len(s) => f[1] = s[1]
      /\ \A i \in 1..Len(s) : i # 1 => f[i] = f[i - 1] \o s[i]
  BY <1>1, JoinedSteps
<1>4. /\ 1 \in 1..Len(t) => g[1] = t[1]
      /\ \A i \in 1..Len(t) : i # 1 => g[i] = g[i - 1] \o t[i]
  BY <1>1, JoinedSteps
<1>5. \A i \in 1..Len(t) : g[i] \in Seq(S)
  BY JoinedTyped
<1> DEFINE T == {n \in Nat : n \in 1..Len(t) => f[n + 1] = s[1] \o g[n]}
<1>6. 0 \in T
  BY <1>1
<1>7. ASSUME NEW n \in Nat, n \in T
      PROVE  n + 1 \in T
  <2> SUFFICES ASSUME n + 1 \in 1..Len(t) PROVE f[(n + 1) + 1] = s[1] \o g[n + 1]
    <3>1. n + 1 \in Nat
      OBVIOUS
    <3>2. QED BY <3>1, Zenon
  <2>1. /\ (n + 1) + 1 \in 1..Len(s) /\ (n + 1) + 1 # 1 /\ ((n + 1) + 1) - 1 = n + 1
        /\ 1 \in 1..Len(s) /\ 1 \in 1..Len(t)
    BY <1>1
  <2>2. f[(n + 1) + 1] = f[n + 1] \o s[(n + 1) + 1]
    BY <1>3, <2>1
  <2>3. t[n + 1] = s[(n + 1) + 1]
    OBVIOUS
  <2>4. CASE n = 0
    <3>1. f[1] = s[1] /\ g[1] = t[1]
      BY <1>3, <1>4, <2>1
    <3>2. n + 1 = 1
      BY <2>4
    <3>3. QED BY <2>2, <2>3, <3>1, <3>2
  <2>5. CASE n # 0
    <3>1. n \in 1..Len(t) /\ n + 1 # 1 /\ (n + 1) - 1 = n
      BY <2>5, <1>1
    <3>2. f[n + 1] = s[1] \o g[n]
      BY <3>1, <1>7
    <3>3. g[n + 1] = g[n] \o t[n + 1]
      BY <3>1, <1>4
    <3>4. g[n] \in Seq(S) /\ t[n + 1] \in Seq(S)
      BY <3>1, <1>5
    <3>5. Reassociated(s[1], g[n], t[n + 1])
      BY <1>2, <3>4, Associative, Zenon
    <3>6. QED BY <2>2, <2>3, <3>2, <3>3, <3>5, Zenon DEF Reassociated
  <2>6. QED BY <2>4, <2>5
<1>8. QED
  <2> HIDE DEF T
  <2>1. \A n \in Nat : n \in T
    BY <1>6, <1>7, SetInduction
  <2>2. 1 \in 1..Len(t) => Len(t) \in 1..Len(t)
    BY <1>1
  <2>3. QED BY <2>1, <2>2, <1>1, Zenon DEF T

(* The first sequence, then those that follow. *)
LEMMA FlattenFirst ==
  ASSUME NEW S, NEW s \in Seq(Seq(S)), NEW t \in Seq(Seq(S)), Len(s) = Len(t) + 1,
         \A i \in 1..Len(t) : t[i] = s[i + 1]
  PROVE  FlattenSeq(s) = s[1] \o FlattenSeq(t)
<1>1. /\ Len(s) \in Nat /\ Len(s) # 0 /\ Len(t) \in Nat /\ s[1] \in Seq(S)
      /\ 1 \in 1..Len(s)
  OBVIOUS
<1>2. PICK f : Joined(f, s, Len(s)) /\ FlattenSeq(s) = f[Len(s)]
  BY <1>1, FlattenJoined
<1>3. CASE Len(t) = 0
  <2>1. t = <<>> /\ Len(s) = 1
    BY <1>3, EmptySeq
  <2>2. FlattenSeq(t) = <<>>
    BY <2>1, <1>3, FlattenEmpty
  <2>3. f[1] = s[1]
    <3>1. Joined(f, s, Len(s))
      BY <1>2
    <3>2. QED BY <1>1, <3>1, Zenon DEF Joined
  <2>4. QED BY <1>1, <1>2, <2>1, <2>2, <2>3, ConcatEmptySeq
<1>4. CASE Len(t) # 0
  <2>1. PICK g : Joined(g, t, Len(t)) /\ FlattenSeq(t) = g[Len(t)]
    BY <1>1, <1>4, FlattenJoined
  <2>2. Len(t) \in 1..Len(t)
    BY <1>1, <1>4
  <2>3. f[Len(s)] = s[1] \o g[Len(t)]
    <3>1. Joined(f, s, Len(s)) /\ Joined(g, t, Len(t))
      BY <1>2, <2>1
    <3>2. 1 \in 1..Len(t)
      BY <1>1, <1>4
    <3>3. QED BY <3>1, <3>2, JoinedShift
  <2>4. QED BY <1>2, <2>1, <2>3
<1>5. QED BY <1>3, <1>4
(* The two parts of a concatenation. *)
LEMMA Sections ==
  ASSUME NEW S, NEW a \in Seq(S), NEW b \in Seq(S)
  PROVE  /\ SubSeq(a \o b, 1, Len(a)) = a
         /\ SubSeq(a \o b, Len(a) + 1, Len(a \o b)) = b
         /\ Len(a \o b) = Len(a) + Len(b)
<1> DEFINE c == a \o b
<1>1. /\ Len(a) \in Nat /\ Len(b) \in Nat
      /\ c \in Seq(S) /\ Len(c) = Len(a) + Len(b)
      /\ \A i \in 1..Len(a) : c[i] = a[i]
      /\ \A i \in 1..Len(b) : c[Len(a) + i] = b[i]
  BY ConcatProperties
<1> HIDE DEF c
<1>2. SubSeq(c, 1, Len(a)) = a
  <2>1. /\ SubSeq(c, 1, Len(a)) \in Seq(S) /\ Len(SubSeq(c, 1, Len(a))) = Len(a)
        /\ \A i \in 1..Len(a) : SubSeq(c, 1, Len(a))[i] = c[i]
    BY <1>1
  <2>2. QED BY <1>1, <2>1, SeqEqual
<1>3. SubSeq(c, Len(a) + 1, Len(c)) = b
  <2>1. /\ SubSeq(c, Len(a) + 1, Len(c)) \in Seq(S)
        /\ Len(SubSeq(c, Len(a) + 1, Len(c))) = Len(b)
        /\ \A i \in 1..Len(b) : SubSeq(c, Len(a) + 1, Len(c))[i] = c[Len(a) + i]
    BY <1>1
  <2>2. QED BY <1>1, <2>1, SeqEqual
<1>4. QED BY <1>1, <1>2, <1>3, Zenon DEF c

(* A sequence grows by the head of the one behind it. *)
LEMMA MoveHead ==
  ASSUME NEW S, NEW a \in Seq(S), NEW b \in Seq(S), b # <<>>
  PROVE  Append(a, Head(b)) \o Tail(b) = a \o b
<1> DEFINE l == Append(a, Head(b)) \o Tail(b)
           r == a \o b
<1>1. /\ Head(b) \in S /\ Tail(b) \in Seq(S) /\ Len(Tail(b)) = Len(b) - 1
      /\ \A i \in 1..(Len(b) - 1) : Tail(b)[i] = b[i + 1]
      /\ Len(b) \in Nat /\ Len(b) >= 1 /\ Len(a) \in Nat /\ Head(b) = b[1]
  OBVIOUS
<1>2. /\ Append(a, Head(b)) \in Seq(S) /\ Len(Append(a, Head(b))) = Len(a) + 1
      /\ \A i \in 1..Len(a) : Append(a, Head(b))[i] = a[i]
      /\ Append(a, Head(b))[Len(a) + 1] = b[1]
  BY <1>1
<1>3. /\ l \in Seq(S) /\ r \in Seq(S) /\ Len(l) = Len(a) + Len(b) /\ Len(r) = Len(a) + Len(b)
  BY <1>1, <1>2, ConcatProperties
<1>4. \A i \in 1..(Len(a) + Len(b)) : l[i] = r[i]
  <2> TAKE i \in 1..(Len(a) + Len(b))
  <2>1. CASE i <= Len(a)
    BY <2>1, <1>1, <1>2
  <2>2. CASE i = Len(a) + 1
    BY <2>2, <1>1, <1>2
  <2>3. CASE i > Len(a) + 1
    BY <2>3, <1>1, <1>2
  <2>4. QED BY <1>1, <2>1, <2>2, <2>3
<1>5. QED
  <2> HIDE DEF l, r
  <2>1. l = r
    BY <1>3, <1>4, SeqEqual
  <2>2. QED BY <2>1 DEF l, r

-----------------------------------------------------------------------------
(* Sequences that grow at their end *)

(* What holds of the empty sequence, and with a sequence of the one that    *)
(* has an element more, holds of all.                                       *)
LEMMA GrowInduction ==
  ASSUME NEW S, NEW T, <<>> \in T,
         \A s \in Seq(S), c \in S : s \in T => s \o <<c>> \in T
  PROVE  \A s \in Seq(S) : s \in T
<1> DEFINE U == {n \in Nat : \A s \in Seq(S) : Len(s) = n => s \in T}
<1>1. 0 \in U
  BY EmptySeq
<1>2. ASSUME NEW n \in Nat, n \in U
      PROVE  n + 1 \in U
  <2> SUFFICES ASSUME NEW s \in Seq(S), Len(s) = n + 1 PROVE s \in T
    OBVIOUS
  <2>1. PICK t \in Seq(S), c \in S : s = Append(t, c)
    <3>1. s # <<>>
      BY EmptySeq
    <3>2. QED BY <3>1, SequenceEmptyOrAppend
  <2>2. Len(t) = n
    BY <2>1, AppendProperties
  <2>3. s = t \o <<c>>
    BY <2>1, AppendIsConcat
  <2>4. QED BY <1>2, <2>2, <2>3
<1>3. \A n \in Nat : n \in U
  <2> HIDE DEF U
  <2>1. QED BY <1>1, <1>2, SetInduction
<1>4. QED BY <1>3

LEMMA GrowProperties ==
  ASSUME NEW S, NEW s \in Seq(S), NEW c \in S
  PROVE  /\ s \o <<c>> \in Seq(S) /\ Len(s \o <<c>>) = Len(s) + 1 /\ Len(s) \in Nat
         /\ \A i \in 1..Len(s) : (s \o <<c>>)[i] = s[i]
         /\ (s \o <<c>>)[Len(s) + 1] = c
<1>1. <<c>> \in Seq(S) /\ Len(<<c>>) = 1 /\ <<c>>[1] = c
  OBVIOUS
<1>2. Len(s) \in Nat
  OBVIOUS
<1>3. QED BY <1>1, <1>2, ConcatProperties

-----------------------------------------------------------------------------
(* Folds *)

(* The values a recursion over s goes through. *)
Running(f, next, base, s) ==
    f = [k \in 0..Len(s) |-> IF k = 0 THEN base ELSE next[<<f[k - 1], s[k]>>]]

(* Its last. *)
Run(next, base, s) == (CHOOSE f : Running(f, next, base, s))[Len(s)]

(* The equation, value by value. *)
Stepwise(f, next, base, s) ==
    f[0] = base /\ \A k \in 1..Len(s) : f[k] = next[<<f[k - 1], s[k]>>]

LEMMA RunningSteps ==
  ASSUME NEW next, NEW base, NEW s, NEW f, Len(s) \in Nat, Running(f, next, base, s)
  PROVE  Stepwise(f, next, base, s)
<1>1. \A k \in 0..Len(s) : f[k] = IF k = 0 THEN base ELSE next[<<f[k - 1], s[k]>>]
  <2> TAKE k \in 0..Len(s)
  <2>1. QED BY Zenon DEF Running
<1>2. 0 \in 0..Len(s) /\ \A k \in 1..Len(s) : k \in 0..Len(s) /\ k # 0
  OBVIOUS
<1>3. QED BY <1>1, <1>2, Zenon DEF Stepwise

LEMMA RunningUnique ==
  ASSUME NEW next, NEW base, NEW s, NEW t, NEW f, NEW g, Len(s) \in Nat, Len(t) \in Nat,
         Len(s) <= Len(t), \A k \in 1..Len(s) : s[k] = t[k],
         Running(f, next, base, s), Running(g, next, base, t)
  PROVE  \A k \in 0..Len(s) : f[k] = g[k]
<1>1. f[0] = base /\ \A k \in 1..Len(s) : f[k] = next[<<f[k - 1], s[k]>>]
  <2>1. Stepwise(f, next, base, s)
    BY RunningSteps
  <2>2. QED BY <2>1, Zenon DEF Stepwise
<1>2. g[0] = base /\ \A k \in 1..Len(t) : g[k] = next[<<g[k - 1], t[k]>>]
  <2>1. Stepwise(g, next, base, t)
    BY RunningSteps
  <2>2. QED BY <2>1, Zenon DEF Stepwise
<1> DEFINE T == {n \in Nat : n \in 0..Len(s) => f[n] = g[n]}
<1>3. 0 \in T
  BY <1>1, <1>2
<1>4. ASSUME NEW n \in Nat, n \in T
      PROVE  n + 1 \in T
  <2>1. SUFFICES ASSUME n + 1 \in 0..Len(s) PROVE f[n + 1] = g[n + 1]
    OBVIOUS
  <2>2. n + 1 \in 1..Len(s) /\ n + 1 \in 1..Len(t) /\ (n + 1) - 1 = n /\ n \in 0..Len(s)
    BY <2>1
  <2>3. f[n] = g[n] /\ s[n + 1] = t[n + 1]
    BY <2>2, <1>4
  <2>4. QED BY <1>1, <1>2, <2>2, <2>3
<1>5. \A n \in Nat : n \in T
  <2> HIDE DEF T
  <2>1. QED BY <1>3, <1>4, SetInduction
<1>6. QED BY <1>5

LEMMA RunningExists ==
  ASSUME NEW next, NEW base
  PROVE  \A n \in Nat : \A s : Len(s) = n => \E f : Running(f, next, base, s)
<1> DEFINE T == {n \in Nat : \A s : \E f : f = [k \in 0..n |-> IF k = 0 THEN base ELSE next[<<f[k - 1], s[k]>>]]}
<1>1. 0 \in T
  <2>1. SUFFICES ASSUME NEW s
                 PROVE  \E f : f = [k \in 0..0 |-> IF k = 0 THEN base ELSE next[<<f[k - 1], s[k]>>]]
    OBVIOUS
  <2> DEFINE f == [k \in 0..0 |-> base]
  <2>2. f = [k \in 0..0 |-> IF k = 0 THEN base ELSE next[<<f[k - 1], s[k]>>]]
    OBVIOUS
  <2>3. QED BY <2>2
<1>2. ASSUME NEW n \in Nat, n \in T
      PROVE  n + 1 \in T
  <2>1. SUFFICES ASSUME NEW s
                 PROVE  \E f : f = [k \in 0..(n + 1) |-> IF k = 0 THEN base ELSE next[<<f[k - 1], s[k]>>]]
    <3>1. n + 1 \in Nat
      OBVIOUS
    <3>2. QED BY <3>1, Zenon
  <2>2. PICK f : f = [k \in 0..n |-> IF k = 0 THEN base ELSE next[<<f[k - 1], s[k]>>]]
    BY <1>2
  <2> DEFINE g == [k \in 0..(n + 1) |-> IF k <= n THEN f[k] ELSE next[<<f[n], s[n + 1]>>]]
  <2>3. \A k \in 0..(n + 1) : g[k] = IF k = 0 THEN base ELSE next[<<g[k - 1], s[k]>>]
    <3> TAKE k \in 0..(n + 1)
    <3>1. CASE k = n + 1
      <4>1. k # 0 /\ ~(k <= n) /\ k - 1 = n /\ n \in 0..(n + 1)
        BY <3>1
      <4>2. g[k] = next[<<f[n], s[n + 1]>>] /\ g[n] = f[n]
        BY <4>1
      <4>3. QED BY <3>1, <4>1, <4>2, Zenon
    <3>2. CASE k # n + 1
      <4>1. k \in 0..n
        BY <3>2
      <4>2. f[k] = IF k = 0 THEN base ELSE next[<<f[k - 1], s[k]>>]
        BY <4>1, <2>2, Zenon
      <4>3. g[k] = f[k] /\ (k # 0 => g[k - 1] = f[k - 1])
        BY <4>1
      <4>4. QED BY <4>2, <4>3, Zenon
    <3>3. QED BY <3>1, <3>2
  <2>4. g = [k \in 0..(n + 1) |-> g[k]]
    OBVIOUS
  <2> HIDE DEF g
  <2>5. [k \in 0..(n + 1) |-> g[k]]
          = [k \in 0..(n + 1) |-> IF k = 0 THEN base ELSE next[<<g[k - 1], s[k]>>]]
    BY <2>3, Zenon
  <2>6. g = [k \in 0..(n + 1) |-> IF k = 0 THEN base ELSE next[<<g[k - 1], s[k]>>]]
    BY <2>4, <2>5, Zenon
  <2>7. QED BY <2>6
<1>3. \A n \in Nat : n \in T
  <2> HIDE DEF T
  <2>1. QED BY <1>1, <1>2, SetInduction
<1>4. ASSUME NEW n \in Nat, NEW s, Len(s) = n
      PROVE  \E f : Running(f, next, base, s)
  <2>1. \E f : f = [k \in 0..n |-> IF k = 0 THEN base ELSE next[<<f[k - 1], s[k]>>]]
    BY <1>3
  <2>2. QED BY <1>4, <2>1, Zenon DEF Running
<1>5. QED BY <1>4

LEMMA RunEmpty ==
  ASSUME NEW next, NEW base
  PROVE  Run(next, base, <<>>) = base
<1> DEFINE f == CHOOSE g : Running(g, next, base, <<>>)
<1>1. Len(<<>>) = 0
  OBVIOUS
<1>2. Running(f, next, base, <<>>)
  BY <1>1, RunningExists, Zenon
<1>3. f[0] = base
  <2> HIDE DEF f
  <2>1. Stepwise(f, next, base, <<>>)
    BY <1>1, <1>2, RunningSteps
  <2>2. QED BY <2>1, Zenon DEF Stepwise
<1>4. QED BY <1>1, <1>3, Zenon DEF Run

LEMMA RunGrow ==
  ASSUME NEW S, NEW s \in Seq(S), NEW c \in S, NEW next, NEW base
  PROVE  Run(next, base, s \o <<c>>) = next[<<Run(next, base, s), c>>]
<1> DEFINE t == s \o <<c>>
           f == CHOOSE g : Running(g, next, base, s)
           h == CHOOSE g : Running(g, next, base, t)
<1>1. /\ Len(s) \in Nat /\ Len(t) = Len(s) + 1 /\ Len(t) \in Nat
      /\ \A i \in 1..Len(s) : s[i] = t[i]
      /\ t[Len(s) + 1] = c
  BY GrowProperties
<1>2. Running(f, next, base, s)
  BY <1>1, RunningExists, Zenon
<1>3. Running(h, next, base, t)
  BY <1>1, RunningExists, Zenon
<1>4. Run(next, base, s) = f[Len(s)] /\ Run(next, base, t) = h[Len(t)]
  BY Zenon DEF Run
<1> HIDE DEF f, h, t
<1>5. \A k \in 0..Len(s) : f[k] = h[k]
  <2>1. Len(s) <= Len(t)
    BY <1>1
  <2>2. QED BY <1>1, <1>2, <1>3, <2>1, RunningUnique
<1>6. h[Len(t)] = next[<<h[Len(s)], c>>]
  <2>1. \A k \in 1..Len(t) : h[k] = next[<<h[k - 1], t[k]>>]
    <3>1. Stepwise(h, next, base, t)
      BY <1>1, <1>3, RunningSteps
    <3>2. QED BY <3>1, Zenon DEF Stepwise
  <2>2. Len(t) \in 1..Len(t) /\ Len(t) - 1 = Len(s)
    BY <1>1
  <2>3. QED BY <2>1, <2>2, <1>1
<1>7. Run(next, base, t) = next[<<Run(next, base, s), c>>]
  <2>1. Len(s) \in 0..Len(s)
    BY <1>1
  <2>2. QED BY <1>4, <1>5, <1>6, <2>1
<1>8. QED BY <1>7 DEF t

LEMMA RunTyped ==
  ASSUME NEW S, NEW V, NEW base \in V, NEW next \in [V \X S -> V], NEW s \in Seq(S)
  PROVE  Run(next, base, s) \in V
<1> DEFINE T == {t \in Seq(S) : Run(next, base, t) \in V}
<1>1. <<>> \in T
  BY RunEmpty, EmptySeq
<1>2. ASSUME NEW t \in Seq(S), NEW c \in S, t \in T
      PROVE  t \o <<c>> \in T
  <2>1. Run(next, base, t \o <<c>>) = next[<<Run(next, base, t), c>>]
    BY RunGrow
  <2>2. t \o <<c>> \in Seq(S)
    BY GrowProperties
  <2>3. QED BY <1>2, <2>1, <2>2
<1>3. \A t \in Seq(S) : t \in T
  <2> HIDE DEF T
  <2>1. QED BY <1>1, <1>2, GrowInduction
<1>4. QED BY <1>3

(* A run goes on where another ends. *)
LEMMA RunConcat ==
  ASSUME NEW S, NEW next, NEW base, NEW s \in Seq(S), NEW t \in Seq(S)
  PROVE  Run(next, base, s \o t) = Run(next, Run(next, base, s), t)
<1> DEFINE T == {u \in Seq(S) : Run(next, base, s \o u) = Run(next, Run(next, base, s), u)}
<1>1. <<>> \in T
  BY RunEmpty, EmptySeq, ConcatEmptySeq
<1>2. ASSUME NEW u \in Seq(S), NEW c \in S, u \in T
      PROVE  u \o <<c>> \in T
  <2>1. s \o (u \o <<c>>) = (s \o u) \o <<c>>
    <3>1. <<c>> \in Seq(S)
      OBVIOUS
    <3>2. Reassociated(s, u, <<c>>)
      BY <3>1, Associative
    <3>3. QED BY <3>2, Zenon DEF Reassociated
  <2>2. s \o u \in Seq(S) /\ u \o <<c>> \in Seq(S)
    BY ConcatProperties, GrowProperties
  <2>3. Run(next, base, (s \o u) \o <<c>>) = next[<<Run(next, base, s \o u), c>>]
    BY <2>2, RunGrow
  <2>4. Run(next, Run(next, base, s), u \o <<c>>) = next[<<Run(next, Run(next, base, s), u), c>>]
    BY RunGrow
  <2>5. QED BY <1>2, <2>1, <2>2, <2>3, <2>4, Zenon
<1>3. \A u \in Seq(S) : u \in T
  <2> HIDE DEF T
  <2>1. QED BY <1>1, <1>2, GrowInduction
<1>4. QED BY <1>3

LEMMA RunOne ==
  ASSUME NEW S, NEW next, NEW base, NEW c \in S
  PROVE  Run(next, base, <<c>>) = next[<<base, c>>]
<1>1. <<>> \in Seq(S) /\ <<c>> \in Seq(S)
  OBVIOUS
<1>2. <<>> \o <<c>> = <<c>>
  BY <1>1, ConcatEmptySeq
<1>3. Run(next, base, <<>> \o <<c>>) = next[<<Run(next, base, <<>>), c>>]
  BY <1>1, RunGrow
<1>4. Run(next, base, <<>>) = base
  BY RunEmpty
<1>5. QED BY <1>2, <1>3, <1>4, Zenon

LEMMA RunTwo ==
  ASSUME NEW S, NEW next, NEW base, NEW c \in S, NEW d \in S
  PROVE  Run(next, base, <<c, d>>) = next[<<next[<<base, c>>], d>>]
<1>1. <<c>> \in Seq(S) /\ <<c, d>> \in Seq(S) /\ Len(<<c>>) = 1 /\ Len(<<c, d>>) = 2
  OBVIOUS
<1>2. <<c, d>> = <<c>> \o <<d>>
  <2>1. /\ <<c>> \o <<d>> \in Seq(S) /\ Len(<<c>> \o <<d>>) = 2
        /\ (<<c>> \o <<d>>)[1] = c /\ (<<c>> \o <<d>>)[2] = d
    <3>1. <<c>>[1] = c
      OBVIOUS
    <3>2. QED BY <1>1, <3>1, GrowProperties
  <2>2. \A i \in 1..2 : (<<c>> \o <<d>>)[i] = <<c, d>>[i]
    BY <2>1
  <2>3. QED BY <1>1, <2>1, <2>2, SeqEqual
<1>3. Run(next, base, <<c>> \o <<d>>) = next[<<Run(next, base, <<c>>), d>>]
  BY <1>1, RunGrow
<1>4. Run(next, base, <<c>>) = next[<<base, c>>]
  BY RunOne
<1>5. QED BY <1>2, <1>3, <1>4, Zenon

(* The largest number of a set that has a bound. *)
LEMMA MaxOf ==
  ASSUME NEW t, NEW n \in Nat, t # {}, t \subseteq Nat, \A x \in t : x <= n
  PROVE  Max(t) \in t /\ \A x \in t : x <= Max(t)
<1> DEFINE B == {m \in Nat : \A x \in t : x <= m}
<1>1. PICK m \in B : \A k \in B : m <= k
  <2>1. n \in B
    OBVIOUS
  <2> HIDE DEF B
  <2>2. B \subseteq Nat
    BY DEF B
  <2>3. QED BY <2>1, <2>2, LeastNumber
<1>2. m \in t
  <2>1. SUFFICES ASSUME m \notin t PROVE FALSE
    OBVIOUS
  <2>2. PICK y \in t : TRUE
    OBVIOUS
  <2>3. \A x \in t : x <= m /\ x # m
    BY <1>1, <2>1
  <2>4. m \in Nat /\ m - 1 \in Nat
    BY <1>1, <2>2, <2>3
  <2>5. m - 1 \in B
    BY <2>3, <2>4
  <2>6. QED BY <1>1, <2>4, <2>5
<1>3. \E x \in t : \A y \in t : x >= y
  BY <1>1, <1>2
<1>4. Max(t) \in t /\ \A y \in t : Max(t) >= y
  BY <1>3, Zenon DEF Max
<1>5. QED BY <1>4

LEMMA TopOf ==
  ASSUME NEW n \in Nat, NEW t \in SUBSET (1..(n + 1)), t # {}
  PROVE  /\ Max(t) \in t /\ Max(t) \in 1..(n + 1)
         /\ t \ {Max(t)} \in SUBSET (1..n)
         /\ n + 1 \in t => Max(t) = n + 1
<1>1. t \subseteq Nat
  BY SMT
<1>2. \A x \in t : x \in Nat /\ x >= 1 /\ x <= n + 1
  BY SMT
<1>3. n + 1 \in Nat
  OBVIOUS
<1>4. Max(t) \in t /\ \A x \in t : x <= Max(t)
  BY <1>1, <1>2, <1>3, MaxOf
<1>5. Max(t) \in Nat /\ Max(t) >= 1 /\ Max(t) <= n + 1
  BY <1>2, <1>4
<1>6. \A x \in t \ {Max(t)} : x \in Nat /\ x >= 1 /\ x < n + 1
  BY <1>2, <1>4, <1>5
<1>7. \A x \in t \ {Max(t)} : x \in 1..n
  BY <1>6
<1>8. n + 1 \in t => Max(t) = n + 1
  BY <1>4, <1>5
<1>9. QED BY <1>4, <1>5, <1>7, <1>8

(* What FoldLeft() chooses, for a step that is given as a function. *)
Folding(g, next, base, s, n) ==
    \A t \in SUBSET (1..n) :
      g[t] = IF t = {} THEN base ELSE next[<<g[t \ {Max(t)}], s[Max(t)]>>]

LEMMA FoldingExists ==
  ASSUME NEW next, NEW base, NEW s
  PROVE  \A n \in Nat : \E g : g = [t \in SUBSET (1..n) |-> g[t]] /\ Folding(g, next, base, s, n)
<1> DEFINE T == {n \in Nat : \E g : g = [t \in SUBSET (1..n) |-> g[t]] /\ Folding(g, next, base, s, n)}
<1>1. 0 \in T
  <2> DEFINE g == [t \in SUBSET (1..0) |-> base]
  <2>1. g = [t \in SUBSET (1..0) |-> g[t]]
    OBVIOUS
  <2>2. \A t \in SUBSET (1..0) : t = {} /\ g[t] = base
    OBVIOUS
  <2>3. Folding(g, next, base, s, 0)
    BY <2>2 DEF Folding
  <2>4. QED BY <2>1, <2>3
<1>2. ASSUME NEW n \in Nat, n \in T
      PROVE  n + 1 \in T
  <2>1. PICK g : g = [t \in SUBSET (1..n) |-> g[t]] /\ Folding(g, next, base, s, n)
    BY <1>2
  <2> DEFINE h == [t \in SUBSET (1..(n + 1)) |->
                     IF n + 1 \in t THEN next[<<g[t \ {n + 1}], s[n + 1]>>] ELSE g[t]]
  <2>2. h = [t \in SUBSET (1..(n + 1)) |-> h[t]]
    OBVIOUS
  <2>3. \A t \in SUBSET (1..n) : h[t] = g[t]
    <3> TAKE t \in SUBSET (1..n)
    <3>1. t \in SUBSET (1..(n + 1)) /\ n + 1 \notin t
      OBVIOUS
    <3>2. QED BY <3>1, Zenon
  <2>4. ASSUME NEW t \in SUBSET (1..(n + 1))
        PROVE  h[t] = IF t = {} THEN base ELSE next[<<h[t \ {Max(t)}], s[Max(t)]>>]
    <3>1. CASE n + 1 \in t
      <4>1. t # {}
        BY <3>1
      <4>3. Max(t) = n + 1
        BY <3>1, <4>1, TopOf
      <4>4. t \ {n + 1} \in SUBSET (1..n)
        BY <4>1, <4>3, TopOf
      <4>5. h[t \ {n + 1}] = g[t \ {n + 1}]
        BY <2>3, <4>4
      <4>6. h[t] = next[<<g[t \ {n + 1}], s[n + 1]>>]
        BY <3>1, Zenon
      <4> HIDE DEF h
      <4>7. QED BY <4>1, <4>3, <4>5, <4>6, Zenon
    <3>2. CASE n + 1 \notin t
      <4>1. t \in SUBSET (1..n)
        <5>1. \A x \in t : x \in 1..(n + 1) /\ x # n + 1
          BY <3>2
        <5>2. \A x \in t : x \in 1..n
          BY <5>1
        <5>3. QED BY <5>2
      <4>2. t # {} => t \ {Max(t)} \in SUBSET (1..n)
        BY <4>1
      <4>3. g[t] = IF t = {} THEN base ELSE next[<<g[t \ {Max(t)}], s[Max(t)]>>]
        BY <2>1, <4>1, Zenon DEF Folding
      <4>4. h[t] = g[t] /\ (t # {} => h[t \ {Max(t)}] = g[t \ {Max(t)}])
        BY <2>3, <4>1, <4>2
      <4> HIDE DEF h
      <4>5. QED BY <4>3, <4>4, Zenon
    <3>3. QED BY <3>1, <3>2
  <2>5. Folding(h, next, base, s, n + 1)
    BY <2>4, Zenon DEF Folding
  <2>6. n + 1 \in Nat
    OBVIOUS
  <2>7. QED
    <3> HIDE DEF h
    <3>1. QED BY <2>2, <2>5, <2>6, Zenon
<1>3. \A n \in Nat : n \in T
  <2> HIDE DEF T
  <2>1. QED BY <1>1, <1>2, SetInduction
<1>4. QED BY <1>3

(* A function that takes these steps as long as its values are typed has    *)
(* typed values, and takes them all.                                        *)
Steps(g, next, base, s, V) ==
    /\ g[{}] = base
    /\ \A t \in SUBSET (1..Len(s)) :
         t # {} /\ g[t \ {Max(t)}] \in V => g[t] = next[<<g[t \ {Max(t)}], s[Max(t)]>>]

LEMMA FoldingTyped ==
  ASSUME NEW S, NEW V, NEW base \in V, NEW next \in [V \X S -> V], NEW s \in Seq(S), NEW g,
         Steps(g, next, base, s, V)
  PROVE  /\ \A t \in SUBSET (1..Len(s)) : g[t] \in V
         /\ Folding(g, next, base, s, Len(s))
<1> DEFINE T == {n \in Nat : n <= Len(s) => \A t \in SUBSET (1..n) : g[t] \in V}
<1> USE DEF Steps
<1>0. Len(s) \in Nat
  OBVIOUS
<1>1. 0 \in T
  <2>1. \A t \in SUBSET (1..0) : t = {}
    OBVIOUS
  <2>2. QED BY <2>1
<1>2. ASSUME NEW n \in Nat, n \in T
      PROVE  n + 1 \in T
  <2>1. SUFFICES ASSUME n + 1 <= Len(s), NEW t \in SUBSET (1..(n + 1)) PROVE g[t] \in V
    <3>1. n + 1 \in Nat
      OBVIOUS
    <3>2. QED BY <3>1
  <2>2. \A u \in SUBSET (1..n) : g[u] \in V
    BY <1>0, <1>2, <2>1
  <2>3. CASE t = {}
    BY <2>3
  <2>4. CASE t # {}
    <3>1. t \ {Max(t)} \in SUBSET (1..n) /\ Max(t) \in 1..(n + 1)
      BY <2>4, TopOf
    <3>2. 1..(n + 1) \subseteq 1..Len(s)
      BY <1>0, <2>1
    <3>3. Max(t) \in 1..Len(s) /\ t \in SUBSET (1..Len(s))
      BY <3>1, <3>2
    <3>4. g[t \ {Max(t)}] \in V /\ s[Max(t)] \in S
      BY <2>2, <3>1, <3>3
    <3>5. g[t] = next[<<g[t \ {Max(t)}], s[Max(t)]>>]
      BY <2>4, <3>3, <3>4
    <3>6. QED BY <3>4, <3>5
  <2>5. QED BY <2>3, <2>4
<1>3. \A n \in Nat : n \in T
  <2> HIDE DEF T
  <2>1. QED BY <1>1, <1>2, SetInduction
<1>4. \A t \in SUBSET (1..Len(s)) : g[t] \in V
  BY <1>0, <1>3
<1>5. ASSUME NEW t \in SUBSET (1..Len(s))
      PROVE  g[t] = IF t = {} THEN base ELSE next[<<g[t \ {Max(t)}], s[Max(t)]>>]
  <2>1. CASE t = {}
    BY <2>1
  <2>2. CASE t # {}
    <3>1. g[t \ {Max(t)}] \in V
      BY <1>4
    <3>2. g[t] = next[<<g[t \ {Max(t)}], s[Max(t)]>>]
      BY <2>2, <3>1
    <3>3. QED BY <2>2, <3>2, Zenon
  <2>3. QED BY <2>1, <2>2
<1>6. Folding(g, next, base, s, Len(s))
  BY <1>5, Zenon DEF Folding
<1>7. QED BY <1>4, <1>6

(* It ends where the run ends. *)
LEMMA FoldingIsRun ==
  ASSUME NEW S, NEW next, NEW base, NEW s \in Seq(S), NEW g, Folding(g, next, base, s, Len(s))
  PROVE  g[1..Len(s)] = Run(next, base, s)
<1> DEFINE f == CHOOSE h : Running(h, next, base, s)
           T == {n \in Nat : n <= Len(s) => g[1..n] = f[n]}
<1>0. Len(s) \in Nat
  OBVIOUS
<1>1. f[0] = base /\ \A k \in 1..Len(s) : f[k] = next[<<f[k - 1], s[k]>>]
  <2>1. Running(f, next, base, s)
    BY <1>0, RunningExists, Zenon
  <2>2. Stepwise(f, next, base, s)
    <3> HIDE DEF f
    <3>1. QED BY <1>0, <2>1, RunningSteps
  <2>3. QED BY <2>2, Zenon DEF Stepwise
<1>2. Run(next, base, s) = f[Len(s)]
  BY Zenon DEF Run
<1> HIDE DEF f
<1>3. 0 \in T
  <2>1. 1..0 = {} /\ {} \in SUBSET (1..Len(s))
    OBVIOUS
  <2>2. g[{}] = base
    BY <2>1, Zenon DEF Folding
  <2>3. QED BY <1>1, <2>1, <2>2
<1>4. ASSUME NEW n \in Nat, n \in T
      PROVE  n + 1 \in T
  <2>1. SUFFICES ASSUME n + 1 <= Len(s) PROVE g[1..(n + 1)] = f[n + 1]
    OBVIOUS
  <2> DEFINE t == 1..(n + 1)
  <2>2. t # {} /\ n + 1 \in t /\ t \in SUBSET (1..(n + 1))
    <3>1. n + 1 \in t
      OBVIOUS
    <3>2. QED BY <3>1
  <2>3. Max(t) = n + 1
    <3> HIDE DEF t
    <3>1. QED BY <2>2, TopOf
  <2>4. t \ {n + 1} = 1..n /\ t \in SUBSET (1..Len(s))
    BY <1>0, <2>1
  <2>5. g[t] = next[<<g[t \ {Max(t)}], s[Max(t)]>>]
    BY <2>2, <2>4, Zenon DEF Folding
  <2>6. g[1..n] = f[n] /\ n + 1 \in 1..Len(s) /\ (n + 1) - 1 = n
    BY <1>0, <1>4, <2>1
  <2>7. f[n + 1] = next[<<f[n], s[n + 1]>>]
    BY <1>1, <2>6
  <2>8. QED BY <2>3, <2>4, <2>5, <2>6, <2>7, Zenon
<1>5. \A n \in Nat : n \in T
  <2> HIDE DEF T
  <2>1. QED BY <1>3, <1>4, SetInduction
<1>6. QED BY <1>0, <1>2, <1>5

-----------------------------------------------------------------------------
(* Characters replaced by sequences *)

LEMMA FlattenGrow ==
  ASSUME NEW S, NEW s \in Seq(Seq(S)), NEW e \in Seq(S)
  PROVE  FlattenSeq(s \o <<e>>) = FlattenSeq(s) \o e
<1> DEFINE t == s \o <<e>>
<1>1. /\ t \in Seq(Seq(S)) /\ Len(s) \in Nat /\ Len(t) = Len(s) + 1 /\ Len(t) # 0
      /\ \A k \in 1..Len(s) : t[k] = s[k]
      /\ t[Len(s) + 1] = e
  BY GrowProperties
<1> HIDE DEF t
<1>2. PICK f : Joined(f, t, Len(t)) /\ FlattenSeq(t) = f[Len(t)]
  BY <1>1, FlattenJoined
<1>3. /\ 1 \in 1..Len(t) => f[1] = t[1]
      /\ \A k \in 1..Len(t) : k # 1 => f[k] = f[k - 1] \o t[k]
  <2>1. Joined(f, t, Len(t)) /\ Len(t) \in Nat
    BY <1>1, <1>2
  <2>2. QED BY <2>1, JoinedSteps
<1>4. CASE Len(s) = 0
  <2>1. s = <<>> /\ FlattenSeq(s) = <<>>
    BY <1>4, EmptySeq, FlattenEmpty
  <2>2. FlattenSeq(t) = e
    BY <1>1, <1>2, <1>3, <1>4
  <2>3. QED BY <2>1, <2>2, ConcatEmptySeq DEF t
<1>5. CASE Len(s) # 0
  <2>1. PICK g : Joined(g, s, Len(s)) /\ FlattenSeq(s) = g[Len(s)]
    BY <1>1, <1>5, FlattenJoined
  <2>2. /\ 1 \in 1..Len(s) => g[1] = s[1]
        /\ \A k \in 1..Len(s) : k # 1 => g[k] = g[k - 1] \o s[k]
    BY <1>1, <2>1, JoinedSteps
  <2> DEFINE T == {n \in Nat : n \in 1..Len(s) => f[n] = g[n]}
  <2>3. 0 \in T
    OBVIOUS
  <2>4. ASSUME NEW n \in Nat, n \in T
        PROVE  n + 1 \in T
    <3>1. SUFFICES ASSUME n + 1 \in 1..Len(s) PROVE f[n + 1] = g[n + 1]
      OBVIOUS
    <3>2. n + 1 \in 1..Len(t) /\ t[n + 1] = s[n + 1] /\ (n + 1) - 1 = n
      BY <1>1, <3>1
    <3>3. CASE n = 0
      <4>1. n + 1 = 1
        BY <3>3
      <4>2. QED BY <1>3, <2>2, <3>1, <3>2, <4>1
    <3>4. CASE n # 0
      <4>1. n \in 1..Len(s) /\ n + 1 # 1
        BY <1>1, <3>1, <3>4
      <4>2. f[n] = g[n]
        BY <2>4, <4>1
      <4>3. f[n + 1] = f[n] \o t[n + 1] /\ g[n + 1] = g[n] \o s[n + 1]
        BY <1>3, <2>2, <3>1, <3>2, <4>1
      <4>4. QED BY <3>2, <4>2, <4>3
    <3>5. QED BY <3>3, <3>4
  <2>5. \A n \in Nat : n \in T
    <3> HIDE DEF T
    <3>1. QED BY <2>3, <2>4, SetInduction
  <2>6. f[Len(s)] = g[Len(s)]
    <3>1. Len(s) \in 1..Len(s)
      BY <1>1, <1>5
    <3>2. QED BY <1>1, <2>5, <3>1
  <2>7. f[Len(t)] = f[Len(s)] \o e
    <3>1. Len(t) \in 1..Len(t) /\ Len(t) # 1 /\ Len(t) - 1 = Len(s)
      BY <1>1, <1>5
    <3>2. QED BY <1>1, <1>3, <3>1
  <2>8. QED BY <1>2, <2>1, <2>6, <2>7 DEF t
<1>6. QED BY <1>4, <1>5

(* Each element of s replaced by what m has for it. *)
Spread(m, s) == FlattenSeq([k \in DOMAIN s |-> m[s[k]]])

LEMMA SpreadEmpty ==
  ASSUME NEW m
  PROVE  Spread(m, <<>>) = <<>>
<1>1. [k \in DOMAIN <<>> |-> m[<<>>[k]]] = <<>>
  OBVIOUS
<1>2. QED BY <1>1, FlattenEmpty, EmptySeq, Zenon DEF Spread

LEMMA MappedTyped ==
  ASSUME NEW S, NEW R, NEW m \in [S -> R], NEW s \in Seq(S)
  PROVE  /\ [k \in DOMAIN s |-> m[s[k]]] \in Seq(R)
         /\ Len([k \in DOMAIN s |-> m[s[k]]]) = Len(s)
OBVIOUS

LEMMA SpreadTyped ==
  ASSUME NEW S, NEW R, NEW m \in [S -> Seq(R)], NEW s \in Seq(S)
  PROVE  /\ [k \in DOMAIN s |-> m[s[k]]] \in Seq(Seq(R))
         /\ Spread(m, s) \in Seq(R)
<1>1. [k \in DOMAIN s |-> m[s[k]]] \in Seq(Seq(R))
  BY MappedTyped
<1>2. QED BY <1>1, FlattenTyped DEF Spread

LEMMA SpreadGrow ==
  ASSUME NEW S, NEW R, NEW m \in [S -> Seq(R)], NEW s \in Seq(S), NEW c \in S
  PROVE  Spread(m, s \o <<c>>) = Spread(m, s) \o m[c]
<1> DEFINE u == [k \in DOMAIN s |-> m[s[k]]]
           t == s \o <<c>>
           v == [k \in DOMAIN t |-> m[t[k]]]
<1>0. Len(s) \in Nat
  OBVIOUS
<1>1. /\ t \in Seq(S) /\ Len(t) = Len(s) + 1 /\ Len(s) \in Nat
      /\ \A i \in 1..Len(s) : t[i] = s[i]
      /\ t[Len(s) + 1] = c
  BY GrowProperties
<1>2. u \in Seq(Seq(R)) /\ Len(u) = Len(s) /\ m[c] \in Seq(R)
  BY MappedTyped
<1>3. v \in Seq(Seq(R)) /\ Len(v) = Len(s) + 1
  <2> HIDE DEF t
  <2>1. QED BY <1>1, MappedTyped
<1>4. v = u \o <<m[c]>>
  <2>1. /\ u \o <<m[c]>> \in Seq(Seq(R)) /\ Len(u \o <<m[c]>>) = Len(u) + 1
        /\ \A i \in 1..Len(u) : (u \o <<m[c]>>)[i] = u[i]
        /\ (u \o <<m[c]>>)[Len(u) + 1] = m[c]
    <3> HIDE DEF u
    <3>1. QED BY <1>2, GrowProperties
  <2>2. \A i \in 1..(Len(s) + 1) : v[i] = m[t[i]]
    <3> HIDE DEF t
    <3>1. QED BY <1>1
  <2>3. \A i \in 1..Len(s) : u[i] = m[s[i]]
    OBVIOUS
  <2>4. ASSUME NEW i \in 1..(Len(s) + 1)
        PROVE  v[i] = (u \o <<m[c]>>)[i]
    <3> HIDE DEF t, u, v
    <3>1. CASE i \in 1..Len(s)
      BY <1>1, <1>2, <2>1, <2>2, <2>3, <3>1
    <3>2. CASE i = Len(s) + 1
      BY <1>1, <1>2, <2>1, <2>2, <3>2
    <3>3. i \in 1..Len(s) \/ i = Len(s) + 1
      BY <1>0
    <3>4. QED BY <3>1, <3>2, <3>3
  <2>5. QED
    <3> HIDE DEF u, v, t
    <3> DEFINE w == u \o <<m[c]>>
    <3>1. /\ w \in Seq(Seq(R)) /\ v \in Seq(Seq(R)) /\ Len(v) = Len(w)
          /\ \A i \in 1..Len(v) : v[i] = w[i]
      BY <1>2, <1>3, <2>1, <2>4
    <3> HIDE DEF w
    <3>2. v = w
      BY <3>1, SeqEqual
    <3>3. QED BY <3>2 DEF w
<1>5. FlattenSeq(v) = FlattenSeq(u) \o m[c]
  <2>1. FlattenSeq(u \o <<m[c]>>) = FlattenSeq(u) \o m[c]
    <3> HIDE DEF u
    <3>1. QED BY <1>2, FlattenGrow
  <2>2. QED BY <1>4, <2>1, Zenon
<1>6. QED BY <1>5, Zenon DEF Spread

LEMMA SpreadConcat ==
  ASSUME NEW S, NEW R, NEW m \in [S -> Seq(R)], NEW s \in Seq(S), NEW t \in Seq(S)
  PROVE  Spread(m, s \o t) = Spread(m, s) \o Spread(m, t)
<1> DEFINE T == {u \in Seq(S) : Spread(m, s \o u) = Spread(m, s) \o Spread(m, u)}
<1>0. Spread(m, s) \in Seq(R)
  BY SpreadTyped
<1>1. <<>> \in T
  <2>1. s \o <<>> = s /\ Spread(m, s) \o <<>> = Spread(m, s)
    BY <1>0, ConcatEmptySeq
  <2>2. QED BY <2>1, SpreadEmpty, EmptySeq
<1>2. ASSUME NEW u \in Seq(S), NEW c \in S, u \in T
      PROVE  u \o <<c>> \in T
  <2>1. s \o (u \o <<c>>) = (s \o u) \o <<c>>
    <3>1. <<c>> \in Seq(S)
      OBVIOUS
    <3>2. Reassociated(s, u, <<c>>)
      BY <3>1, Associative
    <3>3. QED BY <3>2, Zenon DEF Reassociated
  <2>2. s \o u \in Seq(S) /\ u \o <<c>> \in Seq(S)
    BY ConcatProperties, GrowProperties
  <2>3. Spread(m, (s \o u) \o <<c>>) = Spread(m, s \o u) \o m[c]
    BY <2>2, SpreadGrow
  <2>4. Spread(m, u \o <<c>>) = Spread(m, u) \o m[c]
    BY SpreadGrow
  <2>5. Reassociated(Spread(m, s), Spread(m, u), m[c])
    <3>1. Spread(m, u) \in Seq(R) /\ m[c] \in Seq(R)
      BY SpreadTyped
    <3>2. QED BY <1>0, <3>1, Associative
  <2>6. Spread(m, s \o u) = Spread(m, s) \o Spread(m, u)
    BY <1>2
  <2>7. Spread(m, s \o (u \o <<c>>)) = Spread(m, s) \o Spread(m, u \o <<c>>)
    BY <2>1, <2>3, <2>4, <2>5, <2>6, Zenon DEF Reassociated
  <2>8. QED BY <2>2, <2>7
<1>3. \A u \in Seq(S) : u \in T
  <2> HIDE DEF T
  <2>1. QED BY <1>1, <1>2, GrowInduction
<1>4. QED BY <1>3

LEMMA SpreadHomo ==
  ASSUME NEW S, NEW R, NEW m \in [S -> Seq(R)]
  PROVE  \A s, t \in Seq(S) : Spread(m, s \o t) = Spread(m, s) \o Spread(m, t)
BY SpreadConcat

(* Replacing twice is replacing once, by what the second makes of the first. *)
Composes(S, d, n, m) == \A c \in S : d[c] = Spread(n, m[c])
TwiceIsOnce(d, n, m, s) == Spread(n, Spread(m, s)) = Spread(d, s)

LEMMA SpreadTwice ==
  ASSUME NEW S, NEW R, NEW Q, NEW m, m \in [S -> Seq(R)], NEW n, n \in [R -> Seq(Q)],
         NEW d, d \in [S -> Seq(Q)], Composes(S, d, n, m), NEW s, s \in Seq(S)
  PROVE  TwiceIsOnce(d, n, m, s)
<1> DEFINE T == {u \in Seq(S) : Spread(n, Spread(m, u)) = Spread(d, u)}
<1>0. \A a, b \in Seq(R) : Spread(n, a \o b) = Spread(n, a) \o Spread(n, b)
  BY SpreadHomo
<1>1. <<>> \in T
  BY SpreadEmpty, EmptySeq
<1>2. ASSUME NEW u \in Seq(S), NEW c \in S, u \in T
      PROVE  u \o <<c>> \in T
  <2>1. Spread(m, u \o <<c>>) = Spread(m, u) \o m[c]
    BY SpreadGrow
  <2>2. Spread(d, u \o <<c>>) = Spread(d, u) \o d[c]
    BY SpreadGrow
  <2>3. Spread(n, Spread(m, u) \o m[c]) = Spread(n, Spread(m, u)) \o Spread(n, m[c])
    <3>1. Spread(m, u) \in Seq(R) /\ m[c] \in Seq(R)
      BY SpreadTyped
    <3>2. QED BY <1>0, <3>1
  <2>4. d[c] = Spread(n, m[c])
    BY Zenon DEF Composes
  <2>5. Spread(n, Spread(m, u)) = Spread(d, u)
    BY <1>2
  <2>6. Spread(n, Spread(m, u \o <<c>>)) = Spread(d, u \o <<c>>)
    BY <2>1, <2>2, <2>3, <2>4, <2>5, Zenon
  <2>7. QED BY <2>6, GrowProperties
<1>3. \A u \in Seq(S) : u \in T
  <2> HIDE DEF T
  <2>1. QED BY <1>1, <1>2, GrowInduction
<1>4. s \in T
  <2> HIDE DEF T
  <2>1. QED BY <1>3
<1>5. QED BY <1>4 DEF TwiceIsOnce

LEMMA TopElement ==
  ASSUME NEW S, NEW s \in Seq(S), NEW t \in SUBSET DOMAIN s, t # {}
  PROVE  s[Max(t)] \in S /\ t \ {Max(t)} \in SUBSET DOMAIN s
<1>1. DOMAIN s = 1..Len(s) /\ Len(s) \in Nat
  OBVIOUS
<1>2. \A x \in t : x \in 1..Len(s)
  BY <1>1
<1>3. Len(s) # 0
  BY <1>1, <1>2
<1>4. Len(s) - 1 \in Nat /\ Len(s) = (Len(s) - 1) + 1
  BY <1>1, <1>3
<1>5. t \in SUBSET (1..((Len(s) - 1) + 1))
  BY <1>1, <1>4
<1>6. Max(t) \in t
  BY <1>4, <1>5, TopOf
<1>7. QED BY <1>2, <1>6

(* FoldLeft() has something to choose. *)
Solves(g, next, base, s, V, S) ==
    /\ g = [t \in SUBSET DOMAIN s |-> g[t]]
    /\ g[{}] = base
    /\ \A t \in SUBSET DOMAIN s : t # {} =>
         /\ g[t \ {Max(t)}] \in V /\ s[Max(t)] \in S
         /\ g[t] = next[<<g[t \ {Max(t)}], s[Max(t)]>>]

LEMMA FoldExists ==
  ASSUME NEW S, NEW V, NEW base \in V, NEW next \in [V \X S -> V], NEW s \in Seq(S)
  PROVE  \E g : Solves(g, next, base, s, V, S)
<1>1. DOMAIN s = 1..Len(s) /\ Len(s) \in Nat /\ {} \in SUBSET DOMAIN s
  OBVIOUS
<1>2. PICK g : /\ g = [t \in SUBSET (1..Len(s)) |-> g[t]]
               /\ Folding(g, next, base, s, Len(s))
  BY <1>1, FoldingExists
<1>3. g[{}] = base
  BY <1>1, <1>2, Zenon DEF Folding
<1>4. \A t \in SUBSET (1..Len(s)) : t # {} => g[t] = next[<<g[t \ {Max(t)}], s[Max(t)]>>]
  BY <1>2, Zenon DEF Folding
<1>5. \A t \in SUBSET (1..Len(s)) : g[t] \in V
  <2>1. Steps(g, next, base, s, V)
    BY <1>3, <1>4, Zenon DEF Steps
  <2>2. QED BY <2>1, FoldingTyped
<1>6. ASSUME NEW t \in SUBSET DOMAIN s, t # {}
      PROVE  /\ g[t \ {Max(t)}] \in V /\ s[Max(t)] \in S
             /\ g[t] = next[<<g[t \ {Max(t)}], s[Max(t)]>>]
  <2>1. s[Max(t)] \in S /\ t \ {Max(t)} \in SUBSET DOMAIN s
    BY <1>6, TopElement
  <2>2. QED BY <1>1, <1>4, <1>5, <1>6, <2>1
<1>7. g = [t \in SUBSET DOMAIN s |-> g[t]]
  BY <1>1, <1>2, Zenon
<1>8. Solves(g, next, base, s, V, S)
  BY <1>3, <1>6, <1>7, Zenon DEF Solves
<1>9. QED BY <1>8

(* Whatever it chooses ends where the run ends. *)
Takes(g, next, base, s, V, S) ==
    /\ base \in V /\ next \in [V \X S -> V] /\ s \in Seq(S)
    /\ g[{}] = base
    /\ \A t \in SUBSET DOMAIN s :
         t # {} /\ g[t \ {Max(t)}] \in V /\ s[Max(t)] \in S
           => g[t] = next[<<g[t \ {Max(t)}], s[Max(t)]>>]

LEMMA FoldEnds ==
  ASSUME NEW S, NEW V, NEW base, NEW next, NEW s, NEW g, Takes(g, next, base, s, V, S)
  PROVE  g[DOMAIN s] = Run(next, base, s)
<1>0. base \in V /\ next \in [V \X S -> V] /\ s \in Seq(S)
  BY DEF Takes
<1>1. DOMAIN s = 1..Len(s)
  BY <1>0
<1>2. ASSUME NEW t \in SUBSET (1..Len(s)), t # {}, g[t \ {Max(t)}] \in V
      PROVE  g[t] = next[<<g[t \ {Max(t)}], s[Max(t)]>>]
  <2>1. s[Max(t)] \in S /\ t \in SUBSET DOMAIN s
    BY <1>0, <1>1, <1>2, TopElement
  <2>2. QED BY <1>2, <2>1, Zenon DEF Takes
<1>3. Steps(g, next, base, s, V)
  BY <1>2, Zenon DEF Steps, Takes
<1>4. Folding(g, next, base, s, Len(s))
  BY <1>0, <1>3, FoldingTyped
<1>5. QED BY <1>0, <1>1, <1>4, FoldingIsRun

=============================================================================
