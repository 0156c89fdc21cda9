---------------------------- MODULE QueueLemmas ----------------------------
(***************************************************************************)
(* Facts about sequences used as queues, which the proofs of several       *)
(* components need: what a queue holds, and whether it holds it once,      *)
(* after an element was appended or taken, or a prefix was cut off.        *)
(***************************************************************************)
EXTENDS Sequences, Integers, Functions, SequenceTheorems, TLAPS

\* What a queue holds, by position.
LEMMA Members ==
  ASSUME NEW S, NEW q \in Seq(S)
  PROVE  /\ Len(q) \in Nat /\ DOMAIN q = 1 .. Len(q)
         /\ \A i \in 1 .. Len(q) : q[i] \in S
         /\ \A x : x \in Range(q) <=> \E i \in 1 .. Len(q) : q[i] = x
         /\ \A i \in 1 .. Len(q) : q[i] \in Range(q)
         /\ Range(q) \subseteq S
         /\ IsInjective(q) <=> \A i, j \in 1 .. Len(q) : q[i] = q[j] => i = j
<1>1. /\ Len(q) \in Nat /\ DOMAIN q = 1 .. Len(q)
      /\ \A i \in 1 .. Len(q) : q[i] \in S
  BY LenProperties, ElementOfSeq
<1>2. \A x : x \in Range(q) <=> \E i \in 1 .. Len(q) : q[i] = x
  BY <1>1 DEF Range
<1>3. IsInjective(q) <=> \A i, j \in 1 .. Len(q) : q[i] = q[j] => i = j
  BY <1>1 DEF IsInjective
<1> QED
  BY <1>1, <1>2, <1>3

\* A function on 1 .. n is a queue of n elements.
LEMMA FunctionIsQueue ==
  ASSUME NEW S, NEW n \in Nat, NEW f \in [1 .. n -> S]
  PROVE  f \in Seq(S) /\ Len(f) = n
<1>1. f \in Seq(S)
  BY SeqDef
<1>2. Len(f) \in Nat /\ DOMAIN f = 1 .. Len(f)
  BY <1>1, LenProperties
<1>3. 1 .. Len(f) = 1 .. n
  BY <1>2
<1> QED
  BY <1>1, <1>2, <1>3

\* The empty queue holds nothing.
LEMMA EmptyQueue ==
  ASSUME NEW S
  PROVE  /\ <<>> \in Seq(S) /\ Len(<<>>) = 0
         /\ Range(<<>>) = {} /\ IsInjective(<<>>)
         /\ \A q \in Seq(S) : (q = <<>> <=> Len(q) = 0) /\ (q = <<>> <=> Range(q) = {})
<1>1. <<>> \in Seq(S) /\ Len(<<>>) = 0
  BY EmptySeq
<1>2. Range(<<>>) = {} /\ IsInjective(<<>>)
  <2> DEFINE e == <<>>
  <2>1. e \in Seq(S) /\ Len(e) = 0
    BY <1>1
  <2> HIDE DEF e
  <2>2. /\ \A x : x \in Range(e) <=> \E i \in 1 .. Len(e) : e[i] = x
        /\ IsInjective(e) <=> \A i, j \in 1 .. Len(e) : e[i] = e[j] => i = j
    BY <2>1, Members
  <2>3. Range(e) = {} /\ IsInjective(e)
    BY <2>1, <2>2
  <2> QED
    BY <2>3 DEF e
<1>3. ASSUME NEW q \in Seq(S)
      PROVE  (q = <<>> <=> Len(q) = 0) /\ (q = <<>> <=> Range(q) = {})
  <2>1. q = <<>> <=> Len(q) = 0
    BY <1>1, EmptySeq
  <2>2. q # <<>> => q[1] \in Range(q)
    BY <2>1, Members
  <2> QED
    BY <1>2, <2>1, <2>2
<1> QED
  BY <1>1, <1>2, <1>3

\* Appending adds the element at the end.
LEMMA AppendQueue ==
  ASSUME NEW S, NEW q \in Seq(S), NEW e \in S
  PROVE  /\ Append(q, e) \in Seq(S)
         /\ Len(Append(q, e)) = Len(q) + 1
         /\ \A i \in 1 .. Len(q) : Append(q, e)[i] = q[i]
         /\ Append(q, e)[Len(q) + 1] = e
         /\ Range(Append(q, e)) = Range(q) \cup {e}
         /\ IsInjective(q) /\ e \notin Range(q) => IsInjective(Append(q, e))
<1> DEFINE a == Append(q, e)
<1>1. /\ a \in Seq(S) /\ Len(a) = Len(q) + 1
      /\ \A i \in 1 .. Len(q) : a[i] = q[i]
      /\ a[Len(q) + 1] = e
  BY AppendProperties
<1> HIDE DEF a
<1>2. Len(q) \in Nat
  BY Members
<1>3. ASSUME NEW x PROVE x \in Range(a) <=> x \in Range(q) \/ x = e
  <2>1. x \in Range(a) <=> \E i \in 1 .. Len(q) + 1 : a[i] = x
    BY <1>1, Members
  <2>2. x \in Range(q) <=> \E i \in 1 .. Len(q) : q[i] = x
    BY Members
  <2> QED
    BY <1>1, <1>2, <2>1, <2>2
<1>4. Range(a) = Range(q) \cup {e}
  BY <1>3
<1>5. ASSUME IsInjective(q), e \notin Range(q) PROVE IsInjective(a)
  <2>1. \A i, j \in 1 .. Len(q) : q[i] = q[j] => i = j
    BY <1>5, Members
  <2>2. \A i \in 1 .. Len(q) : q[i] # e
    BY <1>5, Members
  <2>3. \A i, j \in 1 .. Len(q) + 1 : a[i] = a[j] => i = j
    BY <1>1, <1>2, <2>1, <2>2
  <2> QED
    BY <1>1, <2>3, Members
<1> QED
  BY <1>1, <1>4, <1>5 DEF a

\* Taking the oldest element leaves the others, one place ahead.
LEMMA TakeQueue ==
  ASSUME NEW S, NEW q \in Seq(S), q # <<>>
  PROVE  /\ Head(q) = q[1] /\ Head(q) \in S /\ Head(q) \in Range(q)
         /\ Tail(q) \in Seq(S)
         /\ Len(q) >= 1 /\ Len(Tail(q)) = Len(q) - 1
         /\ \A i \in 1 .. Len(q) - 1 : Tail(q)[i] = q[i + 1]
         /\ Range(q) = Range(Tail(q)) \cup {Head(q)}
         /\ IsInjective(q) => IsInjective(Tail(q)) /\ Head(q) \notin Range(Tail(q))
<1> DEFINE t == Tail(q)
<1>1. /\ Head(q) \in S /\ t \in Seq(S) /\ Len(t) = Len(q) - 1
      /\ \A i \in 1 .. Len(q) - 1 : t[i] = q[i + 1]
  BY HeadTailProperties
<1>2. Len(q) \in Nat /\ Len(q) >= 1
  BY EmptySeq
<1>3. Head(q) = q[1]
  OBVIOUS
<1> HIDE DEF t
<1>4. ASSUME NEW x PROVE x \in Range(q) <=> x \in Range(t) \/ x = q[1]
  <2>1. x \in Range(q) <=> \E i \in 1 .. Len(q) : q[i] = x
    BY Members
  <2>2. x \in Range(t) <=> \E i \in 1 .. Len(q) - 1 : t[i] = x
    BY <1>1, Members
  <2>3. ASSUME NEW i \in 1 .. Len(q), q[i] = x PROVE x \in Range(t) \/ x = q[1]
    <3>1. CASE i = 1
      BY <2>3, <3>1
    <3>2. CASE i # 1
      <4>1. i - 1 \in 1 .. Len(q) - 1 /\ t[i - 1] = x
        BY <1>1, <1>2, <2>3, <3>2
      <4> QED
        BY <4>1, <2>2
    <3> QED
      BY <3>1, <3>2
  <2> QED
    BY <1>1, <1>2, <2>1, <2>2, <2>3
<1>5. Range(q) = Range(t) \cup {Head(q)}
  BY <1>3, <1>4
<1>6. ASSUME IsInjective(q) PROVE IsInjective(t) /\ Head(q) \notin Range(t)
  <2>1. \A i, j \in 1 .. Len(q) : q[i] = q[j] => i = j
    BY <1>6, Members
  <2>2. \A i, j \in 1 .. Len(t) : t[i] = t[j] => i = j
    BY <1>1, <1>2, <2>1
  <2>3. \A i \in 1 .. Len(t) : t[i] # q[1]
    BY <1>1, <1>2, <2>1
  <2>4. IsInjective(t)
    BY <1>1, <2>2, Members
  <2>5. q[1] \notin Range(t)
    BY <1>1, <2>3, Members
  <2> QED
    BY <1>3, <2>4, <2>5
<1> QED
  BY <1>1, <1>2, <1>3, <1>5, <1>6 DEF t

\* A queue is its first n elements, followed by the others.
LEMMA SplitQueue ==
  ASSUME NEW S, NEW q \in Seq(S), NEW n \in 0 .. Len(q)
  PROVE  /\ SubSeq(q, 1, n) \in Seq(S) /\ SubSeq(q, n + 1, Len(q)) \in Seq(S)
         /\ Len(SubSeq(q, 1, n)) = n /\ Len(SubSeq(q, n + 1, Len(q))) = Len(q) - n
         /\ q = SubSeq(q, 1, n) \o SubSeq(q, n + 1, Len(q))
         /\ Range(q) = Range(SubSeq(q, 1, n)) \cup Range(SubSeq(q, n + 1, Len(q)))
         /\ IsInjective(q) =>
              /\ IsInjective(SubSeq(q, 1, n)) /\ IsInjective(SubSeq(q, n + 1, Len(q)))
              /\ Range(SubSeq(q, 1, n)) \cap Range(SubSeq(q, n + 1, Len(q))) = {}
<1> DEFINE p == SubSeq(q, 1, n)
           r == SubSeq(q, n + 1, Len(q))
<1>1. Len(q) \in Nat /\ \A i \in 1 .. Len(q) : q[i] \in S
  BY Members
<1>2. /\ p \in Seq(S) /\ Len(p) = n
      /\ \A i \in 1 .. n : p[i] = q[i]
  <2>1. /\ p \in Seq(S) /\ Len(p) = IF 1 <= n THEN n - 1 + 1 ELSE 0
        /\ \A i \in 1 .. n - 1 + 1 : p[i] = q[1 + i - 1]
    BY <1>1, SubSeqProperties
  <2> QED
    BY <1>1, <2>1
<1>3. /\ r \in Seq(S) /\ Len(r) = Len(q) - n
      /\ \A i \in 1 .. Len(q) - n : r[i] = q[n + i]
  <2>1. /\ r \in Seq(S)
        /\ Len(r) = IF n + 1 <= Len(q) THEN Len(q) - (n + 1) + 1 ELSE 0
        /\ \A i \in 1 .. Len(q) - (n + 1) + 1 : r[i] = q[n + 1 + i - 1]
    BY <1>1, SubSeqProperties
  <2> QED
    BY <1>1, <2>1
<1> HIDE DEF p, r
<1>4. q = p \o r
  <2>1. /\ p \o r \in Seq(S) /\ Len(p \o r) = Len(p) + Len(r)
        /\ \A i \in 1 .. Len(p) + Len(r) :
             (p \o r)[i] = IF i <= Len(p) THEN p[i] ELSE r[i - Len(p)]
    BY <1>2, <1>3, ConcatProperties
  <2>2. ASSUME NEW i \in 1 .. Len(q) PROVE q[i] = (p \o r)[i]
    <3>1. CASE i <= n
      BY <1>1, <1>2, <1>3, <2>1, <3>1
    <3>2. CASE i > n
      <4>1. i - n \in 1 .. Len(q) - n /\ q[n + (i - n)] = q[i]
        BY <1>1, <3>2
      <4> QED
        BY <1>1, <1>2, <1>3, <2>1, <3>2, <4>1
    <3>3. i <= n \/ i > n
      BY <1>1
    <3> QED
      BY <3>1, <3>2, <3>3
  <2>3. Len(q) = Len(p \o r)
    BY <1>1, <1>2, <1>3, <2>1
  <2> QED
    BY <2>1, <2>2, <2>3, SeqEqual
<1>5. Range(q) = Range(p) \cup Range(r)
  BY <1>2, <1>3, <1>4, RangeConcatenation
<1>6. ASSUME IsInjective(q)
      PROVE  IsInjective(p) /\ IsInjective(r) /\ Range(p) \cap Range(r) = {}
  <2>1. \A i, j \in 1 .. Len(q) : q[i] = q[j] => i = j
    BY <1>6, Members
  <2>2. \A i, j \in 1 .. n : p[i] = p[j] => i = j
    BY <1>1, <1>2, <2>1
  <2>3. \A i, j \in 1 .. Len(q) - n : r[i] = r[j] => i = j
    BY <1>1, <1>3, <2>1
  <2>4. \A i \in 1 .. n, j \in 1 .. Len(q) - n : p[i] # r[j]
    BY <1>1, <1>2, <1>3, <2>1
  <2>5. Range(p) \cap Range(r) = {}
    BY <1>2, <1>3, <2>4, Members
  <2>6. IsInjective(p)
    BY <1>2, <2>2, Members
  <2>7. IsInjective(r)
    BY <1>3, <2>3, Members
  <2> QED
    BY <2>5, <2>6, <2>7
<1> QED
  BY <1>2, <1>3, <1>4, <1>5, <1>6 DEF p, r

\* Appending to a queue leaves its first n elements alone.
LEMMA AppendKeepsPrefix ==
  ASSUME NEW S, NEW q \in Seq(S), NEW e \in S, NEW n \in 0 .. Len(q)
  PROVE  SubSeq(Append(q, e), 1, n) = SubSeq(q, 1, n)
<1> DEFINE a == Append(q, e)
<1>1. a \in Seq(S) /\ Len(a) = Len(q) + 1 /\ \A i \in 1 .. Len(q) : a[i] = q[i]
  BY AppendQueue
<1> HIDE DEF a
<1>2. Len(q) \in Nat /\ (\A i \in 1 .. Len(q) : q[i] \in S)
      /\ \A i \in 1 .. Len(a) : a[i] \in S
  BY <1>1, Members
<1>3. /\ SubSeq(q, 1, n) \in Seq(S) /\ Len(SubSeq(q, 1, n)) = IF 1 <= n THEN n - 1 + 1 ELSE 0
      /\ \A i \in 1 .. n - 1 + 1 : SubSeq(q, 1, n)[i] = q[1 + i - 1]
  BY <1>2, SubSeqProperties
<1>4. /\ SubSeq(a, 1, n) \in Seq(S) /\ Len(SubSeq(a, 1, n)) = IF 1 <= n THEN n - 1 + 1 ELSE 0
      /\ \A i \in 1 .. n - 1 + 1 : SubSeq(a, 1, n)[i] = a[1 + i - 1]
  BY <1>1, <1>2, SubSeqProperties
<1>5. \A i \in 1 .. Len(SubSeq(a, 1, n)) : SubSeq(a, 1, n)[i] = SubSeq(q, 1, n)[i]
  BY <1>1, <1>2, <1>3, <1>4
<1> QED
  BY <1>3, <1>4, <1>5, SeqEqual DEF a
=============================================================================
