------------------------------ MODULE Folding ------------------------------
(* What FoldLeft computes: a step at a time, from the front of a sequence.  *)
(* `c` is what a step may depend on besides its operands.                   *)
EXTENDS Integers, SequencesExt, SequenceTheorems, WellFoundedInduction, TLAPS

CONSTANTS Op(_, _, _), Holds(_, _, _)

Fold(c, base, seq) == FoldLeft(LAMBDA s, x : Op(c, s, x), base, seq)

Folded(c, base, seq, g, s) ==
  IF s = {} THEN base ELSE Op(c, g[s \ {Max(s)}], seq[Max(s)])

Iter(c, base, seq) ==
  CHOOSE g : g = [s \in SUBSET DOMAIN seq |-> Folded(c, base, seq, g, s)]

\* A fold is its function on sets of positions, at all positions.
LEMMA FoldIs ==
  ASSUME NEW c, NEW base, NEW seq
  PROVE  Fold(c, base, seq) = Iter(c, base, seq)[DOMAIN seq]
BY DEF Fold, FoldLeft, MapThenFoldSet, Iter, Folded

\* A set of numbers has a least one.
LEMMA LeastNumber ==
  ASSUME NEW T, T \subseteq Nat, T # {}
  PROVE  \E n \in T : \A m \in T : n <= m
<1> DEFINE R == {ss \in Nat \X Nat : ss[1] < ss[2]}
<1>1. IsWellFoundedOn(R, Nat)
  BY NatLessThanWellFounded DEF OpToRel
<1>2. PICK n \in T : \A m \in T : ~(<<m, n>> \in R)
  <2> HIDE DEF R
  <2>1. QED
    BY <1>1, WFMin
<1>3. n \in Nat /\ \A m \in T : m \in Nat /\ <<m, n>> \in Nat \X Nat
  BY <1>2
<1>4. \A m \in T : ~(m < n)
  BY <1>2, <1>3
<1>5. QED
  BY <1>3, <1>4

\* A set of positions has a greatest one.
LEMMA MaxIn ==
  ASSUME NEW k \in Nat, NEW s \in SUBSET (1 .. k), s # {}
  PROVE  Max(s) \in s /\ \A x \in s : x <= Max(s)
<1> DEFINE B == {b \in Nat : \A x \in s : x <= b}
<1>1. k \in B
  OBVIOUS
<1>2. PICK m \in B : \A b \in B : m <= b
  <2>1. B \subseteq Nat /\ B # {}
    BY <1>1
  <2> HIDE DEF B
  <2>2. QED
    BY <2>1, LeastNumber
<1>3. m \in s
  <2> SUFFICES ASSUME m \notin s PROVE FALSE
    OBVIOUS
  <2>1. m \in Nat /\ \A x \in s : x \in Nat /\ x <= m /\ x # m /\ x >= 1
    BY <1>2
  <2>2. \A x \in s : x <= m - 1
    BY <2>1
  <2>3. m - 1 \in Nat
    <3>1. PICK x \in s : TRUE
      OBVIOUS
    <3>2. m \in Nat /\ x \in Nat /\ x <= m /\ x >= 1
      BY <2>1
    <3>3. QED
      BY <3>2
  <2>4. m - 1 \in B
    BY <2>2, <2>3
  <2>5. QED
    BY <1>2, <2>1, <2>4
<1>4. \A x \in s : m >= x
  BY <1>2
<1>5. QED
  BY <1>3, <1>4 DEF Max

Iterable(c, base, seq, n) ==
  \E g : g = [s \in SUBSET (1 .. n) |-> Folded(c, base, seq, g, s)]

\* The function that the definition chooses exists.
LEMMA Iterates ==
  ASSUME NEW c, NEW base, NEW seq, NEW n \in Nat
  PROVE  Iterable(c, base, seq, n)
<1> DEFINE Made(k) == \E g : g = [s \in SUBSET (1 .. k) |-> Folded(c, base, seq, g, s)]
           T == {k \in Nat : ~Made(k)}
<1>1. Made(0)
  <2> DEFINE g == [s \in SUBSET (1 .. 0) |-> base]
  <2>1. 1 .. 0 = {}
    OBVIOUS
  <2>2. \A s \in SUBSET (1 .. 0) : Folded(c, base, seq, g, s) = base
    BY <2>1 DEF Folded
  <2>3. g = [s \in SUBSET (1 .. 0) |-> Folded(c, base, seq, g, s)]
    BY <2>2
  <2>4. QED
    BY <2>3
<1>2. ASSUME NEW k \in Nat, Made(k) PROVE Made(k + 1)
  <2>1. PICK g : g = [s \in SUBSET (1 .. k) |-> Folded(c, base, seq, g, s)]
    BY <1>2
  <2> DEFINE h == [s \in SUBSET (1 .. k + 1) |-> Folded(c, base, seq, g, s)]
  <2>2. \A s \in SUBSET (1 .. k) : s \in SUBSET (1 .. k + 1)
    BY Z3
  <2>3. \A s \in SUBSET (1 .. k) : g[s] = Folded(c, base, seq, g, s)
    BY <2>1
  <2>4. \A s \in SUBSET (1 .. k) : h[s] = g[s]
    BY <2>2, <2>3
  <2>5. ASSUME NEW s \in SUBSET (1 .. k + 1)
        PROVE  Folded(c, base, seq, h, s) = Folded(c, base, seq, g, s)
    <3>1. CASE s = {}
      BY <3>1 DEF Folded
    <3>2. CASE s # {}
      <4>1. Max(s) \in s /\ \A x \in s : x <= Max(s)
        <5>1. k + 1 \in Nat
          OBVIOUS
        <5>2. QED
          BY <3>2, <5>1, MaxIn
      <4>2. s \ {Max(s)} \in SUBSET (1 .. k)
        <5> SUFFICES ASSUME NEW x \in s, x # Max(s) PROVE x \in 1 .. k
          OBVIOUS
        <5>1. x \in 1 .. k + 1 /\ Max(s) \in 1 .. k + 1 /\ x <= Max(s)
          BY <4>1
        <5>2. QED
          BY <5>1
      <4>3. h[s \ {Max(s)}] = g[s \ {Max(s)}]
        BY <2>4, <4>2
      <4>4. QED
        BY <3>2, <4>3 DEF Folded
    <3>3. QED
      BY <3>1, <3>2
  <2>6. h = [s \in SUBSET (1 .. k + 1) |-> Folded(c, base, seq, h, s)]
    BY <2>5
  <2>7. QED
    BY <2>6
<1> HIDE DEF Made
<1>3. T = {}
  <2> SUFFICES ASSUME T # {} PROVE FALSE
    OBVIOUS
  <2>1. T \subseteq Nat
    OBVIOUS
  <2>2. PICK k \in T : \A m \in T : k <= m
    BY <2>1, LeastNumber
  <2>3. k \in Nat /\ k # 0 /\ ~Made(k)
    BY <1>1, <2>2
  <2>4. k - 1 \in Nat /\ (k - 1) + 1 = k /\ ~(k <= k - 1)
    BY <2>3
  <2>5. Made(k - 1)
    BY <2>2, <2>4
  <2>6. Made((k - 1) + 1)
    BY <1>2, <2>4, <2>5
  <2>7. QED
    BY <2>3, <2>4, <2>6
<1>4. Made(n)
  BY <1>3
<1>5. QED
  BY <1>4 DEF Made, Iterable

\* The first step starts from the base; each one takes the next element.
LEMMA IterStep ==
  ASSUME NEW c, NEW base, NEW S, NEW seq \in Seq(S)
  PROVE  /\ Iter(c, base, seq)[1 .. 0] = base
         /\ \A k \in 1 .. Len(seq) :
              Iter(c, base, seq)[1 .. k] = Op(c, Iter(c, base, seq)[1 .. k - 1], seq[k])
<1> DEFINE g == Iter(c, base, seq)
<1>1. Len(seq) \in Nat /\ DOMAIN seq = 1 .. Len(seq)
  BY LenProperties
<1>2. \E f : f = [s \in SUBSET DOMAIN seq |-> Folded(c, base, seq, f, s)]
  <2>1. Iterable(c, base, seq, Len(seq))
    BY <1>1, Iterates
  <2>2. QED
    BY <1>1, <2>1 DEF Iterable
<1>3. g = [s \in SUBSET DOMAIN seq |-> Folded(c, base, seq, g, s)]
  BY <1>2 DEF Iter
<1> HIDE DEF g
<1>4. \A s \in SUBSET (1 .. Len(seq)) : g[s] = Folded(c, base, seq, g, s)
  BY <1>1, <1>3
<1>5. g[1 .. 0] = base
  <2>1. 1 .. 0 = {} /\ {} \in SUBSET (1 .. Len(seq))
    OBVIOUS
  <2>2. QED
    BY <1>4, <2>1 DEF Folded
<1>6. ASSUME NEW k \in 1 .. Len(seq) PROVE g[1 .. k] = Op(c, g[1 .. k - 1], seq[k])
  <2> DEFINE s == 1 .. k
  <2>1. s \in SUBSET (1 .. Len(seq)) /\ s # {} /\ k \in s
    <3>1. k \in s /\ \A x \in s : x \in 1 .. Len(seq)
      BY <1>1
    <3>2. QED
      BY <3>1
  <2>2. Max(s) \in s /\ \A x \in s : x <= Max(s)
    BY <1>1, <2>1, MaxIn
  <2>3. Max(s) = k
    BY <1>1, <2>1, <2>2
  <2>4. s \ {k} = 1 .. k - 1
    BY <1>1
  <2>5. g[s] = Folded(c, base, seq, g, s)
    BY <1>4, <2>1
  <2>6. QED
    BY <2>1, <2>3, <2>4, <2>5 DEF Folded
<1>7. QED
  BY <1>5, <1>6 DEF g

\* Nothing is folded to what the fold begins with.
THEOREM FoldNone ==
  ASSUME NEW c, NEW base
  PROVE  Fold(c, base, <<>>) = base
<1>1. <<>> \in Seq({}) /\ DOMAIN <<>> = 1 .. 0
  BY EmptySeq
<1>2. Iter(c, base, <<>>)[1 .. 0] = base
  BY <1>1, IterStep
<1>3. QED
  BY <1>1, <1>2, FoldIs

\* Two sequences whose steps are the same fold to the same.
LEMMA IterAlike ==
  ASSUME NEW c, NEW base, NEW S, NEW s \in Seq(S), NEW T, NEW t \in Seq(T), NEW n \in Nat,
         n <= Len(s), n <= Len(t),
         \A k \in 1 .. n : \A v : Op(c, v, s[k]) = Op(c, v, t[k])
  PROVE  Iter(c, base, s)[1 .. n] = Iter(c, base, t)[1 .. n]
<1> DEFINE f == Iter(c, base, s)
           g == Iter(c, base, t)
           Differ == {k \in 0 .. n : f[1 .. k] # g[1 .. k]}
<1>1. /\ f[1 .. 0] = base /\ g[1 .. 0] = base
      /\ \A k \in 1 .. n : f[1 .. k] = Op(c, f[1 .. k - 1], s[k])
      /\ \A k \in 1 .. n : g[1 .. k] = Op(c, g[1 .. k - 1], t[k])
  <2>1. /\ Len(s) \in Nat /\ Len(t) \in Nat
        /\ \A k \in 1 .. n : k \in 1 .. Len(s) /\ k \in 1 .. Len(t)
    BY LenProperties
  <2>2. /\ f[1 .. 0] = base
        /\ \A k \in 1 .. Len(s) : f[1 .. k] = Op(c, f[1 .. k - 1], s[k])
    BY IterStep
  <2>3. /\ g[1 .. 0] = base
        /\ \A k \in 1 .. Len(t) : g[1 .. k] = Op(c, g[1 .. k - 1], t[k])
    BY IterStep
  <2> HIDE DEF f, g
  <2>4. QED
    BY <2>1, <2>2, <2>3
<1> HIDE DEF f, g
<1>2. Differ = {}
  <2> SUFFICES ASSUME Differ # {} PROVE FALSE
    OBVIOUS
  <2>1. Differ \subseteq Nat
    OBVIOUS
  <2>2. PICK k \in Differ : \A m \in Differ : k <= m
    BY <2>1, LeastNumber
  <2>3. k \in 0 .. n /\ f[1 .. k] # g[1 .. k] /\ k # 0
    BY <1>1, <2>2
  <2>4. k \in 1 .. n /\ k - 1 \in 0 .. n /\ ~(k <= k - 1)
    BY <2>3
  <2>5. f[1 .. k - 1] = g[1 .. k - 1]
    BY <2>2, <2>4
  <2>6. QED
    BY <1>1, <2>3, <2>4, <2>5
<1>3. n \in 0 .. n
  OBVIOUS
<1>4. QED
  BY <1>2, <1>3 DEF f, g

\* Sequences whose elements do the same, fold to the same.
THEOREM FoldAlike ==
  ASSUME NEW c, NEW base, NEW S, NEW s \in Seq(S), NEW T, NEW t \in Seq(T),
         Len(s) = Len(t), \A k \in 1 .. Len(s) : \A v : Op(c, v, s[k]) = Op(c, v, t[k])
  PROVE  Fold(c, base, s) = Fold(c, base, t)
<1>1. Len(s) \in Nat /\ DOMAIN s = 1 .. Len(s) /\ DOMAIN t = 1 .. Len(s)
  BY LenProperties
<1>2. Iter(c, base, s)[1 .. Len(s)] = Iter(c, base, t)[1 .. Len(s)]
  BY <1>1, IterAlike
<1>3. QED
  BY <1>1, <1>2, FoldIs

\* What is appended is folded last.
THEOREM FoldAppend ==
  ASSUME NEW c, NEW base, NEW S, NEW seq \in Seq(S), NEW x \in S
  PROVE  Fold(c, base, Append(seq, x)) = Op(c, Fold(c, base, seq), x)
<1> DEFINE n == Len(seq)
           more == Append(seq, x)
           f == Iter(c, base, seq)
           g == Iter(c, base, more)
<1>1. /\ n \in Nat /\ DOMAIN seq = 1 .. n
      /\ more \in Seq(S) /\ Len(more) = n + 1 /\ DOMAIN more = 1 .. n + 1
      /\ \A k \in 1 .. n : more[k] = seq[k]
      /\ more[n + 1] = x
  BY LenProperties, AppendProperties
<1> HIDE DEF more
<1>2. f[1 .. n] = g[1 .. n]
  <2>1. n <= Len(seq) /\ n <= Len(more)
    BY <1>1
  <2>2. \A k \in 1 .. n : \A v : Op(c, v, seq[k]) = Op(c, v, more[k])
    BY <1>1
  <2> HIDE DEF n
  <2>3. QED
    BY <1>1, <2>1, <2>2, IterAlike
<1> HIDE DEF n
<1>3. g[1 .. n + 1] = Op(c, g[1 .. n], x)
  <2>1. \A k \in 1 .. Len(more) : g[1 .. k] = Op(c, g[1 .. k - 1], more[k])
    BY <1>1, IterStep
  <2> HIDE DEF g
  <2>2. n + 1 \in 1 .. Len(more) /\ (n + 1) - 1 = n
    BY <1>1
  <2>3. QED
    BY <1>1, <2>1, <2>2
<1>4. Fold(c, base, more) = g[1 .. n + 1] /\ Fold(c, base, seq) = f[1 .. n]
  BY <1>1, FoldIs
<1> HIDE DEF f, g
<1>5. QED
  BY <1>2, <1>3, <1>4 DEF more

\* What holds of nothing, and is kept by each element, holds of a sequence.
THEOREM FoldKeeps ==
  ASSUME NEW c, NEW base, NEW S, NEW seq \in Seq(S), Holds(c, <<>>, base),
         \A s \in Seq(S), x \in S : \A v :
           Holds(c, s, v) => Holds(c, Append(s, x), Op(c, v, x))
  PROVE  Holds(c, seq, Fold(c, base, seq))
<1> DEFINE Fails(n) == \E s \in Seq(S) : Len(s) = n /\ ~Holds(c, s, Fold(c, base, s))
           T == {n \in Nat : Fails(n)}
<1>1. ~Fails(0)
  <2>1. \A s \in Seq(S) : Len(s) = 0 => s = <<>>
    BY EmptySeq
  <2>2. QED
    BY <2>1, FoldNone
<1>2. ASSUME NEW n \in Nat, Fails(n + 1) PROVE Fails(n)
  <2>1. PICK s \in Seq(S) : Len(s) = n + 1 /\ ~Holds(c, s, Fold(c, base, s))
    BY <1>2
  <2>2. s # <<>>
    BY <2>1, EmptySeq
  <2>3. PICK r \in Seq(S), x \in S : s = Append(r, x)
    BY <2>2, SequenceEmptyOrAppend
  <2>4. Len(r) \in Nat /\ Len(s) = Len(r) + 1
    BY <2>3, LenProperties, AppendProperties
  <2>5. Fold(c, base, s) = Op(c, Fold(c, base, r), x)
    BY <2>3, FoldAppend
  <2>6. ~Holds(c, r, Fold(c, base, r))
    BY <2>1, <2>3, <2>5
  <2>7. QED
    BY <2>1, <2>4, <2>6
<1> HIDE DEF Fails
<1>3. T = {}
  <2> SUFFICES ASSUME T # {} PROVE FALSE
    OBVIOUS
  <2>1. T \subseteq Nat
    OBVIOUS
  <2>2. PICK n \in T : \A m \in T : n <= m
    BY <2>1, LeastNumber
  <2>3. n \in Nat /\ n # 0 /\ Fails(n)
    BY <1>1, <2>2
  <2>4. n - 1 \in Nat /\ (n - 1) + 1 = n /\ ~(n <= n - 1)
    BY <2>3
  <2>5. Fails(n - 1)
    BY <1>2, <2>3, <2>4
  <2>6. QED
    BY <2>2, <2>4, <2>5
<1>4. Len(seq) \in Nat /\ ~Fails(Len(seq))
  BY <1>3, LenProperties
<1>5. QED
  BY <1>4 DEF Fails
=============================================================================
