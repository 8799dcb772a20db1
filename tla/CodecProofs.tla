----------------------------- MODULE CodecProofs -----------------------------
(* TLV8 messages survive the wire, whatever their tags, values and the       *)
(* length of a chunk: decode reads what encode wrote, and takes nothing that *)
(* is cut off within an entry for a shorter message. encode and decode are   *)
(* loops over what they are given, so the proofs are inductions: over sets   *)
(* of numbers, with a least number that would break off.                     *)
EXTENDS Tlv8, SequenceTheorems, WellFoundedInduction, TLAPS

\* Every set of numbers has a least one: the order of the numbers is well-founded.
LEMMA LeastNumber ==
  ASSUME NEW T, T \subseteq Nat, T # {}
  PROVE  \E n \in T : \A m \in T : n <= m
<1> DEFINE R == {p \in Nat \X Nat : p[1] < p[2]}
<1>1. IsWellFoundedOn(R, Nat)
  BY NatLessThanWellFounded DEF OpToRel
<1>2. \A m, n \in Nat : m < n => <<m, n>> \in R
  OBVIOUS
<1> HIDE DEF R
<1>3. PICK n \in T : \A m \in T : ~ (<<m, n>> \in R)
  BY <1>1, WFMin
<1>4. \A m \in T : n <= m
  <2> SUFFICES ASSUME NEW m \in T, m < n PROVE FALSE
    OBVIOUS
  <2>1. m \in Nat /\ n \in Nat
    OBVIOUS
  <2>2. <<m, n>> \in R
    BY <1>2, <2>1
  <2> QED BY <1>3, <2>2
<1> QED BY <1>4

\* Induction over the numbers, for a set in place of a predicate.
LEMMA NumberInduction ==
  ASSUME NEW T, 0 \in T, \A n \in Nat : n \in T => n + 1 \in T
  PROVE  \A n \in Nat : n \in T
<1> SUFFICES ASSUME Nat \ T # {} PROVE FALSE
  OBVIOUS
<1>1. PICK n \in Nat \ T : \A m \in Nat \ T : n <= m
  BY LeastNumber
<1>2. n # 0 /\ n - 1 \in Nat
  OBVIOUS
<1>3. n - 1 \in T
  BY <1>1, <1>2
<1> QED BY <1>2, <1>3

\* The values f takes turn by turn, F making the next of the turn's number and the last one.
GoesOn(f, start, F) == f[0] = start /\ \A n \in Nat : f[n + 1] = F[<<n, f[n]>>]

\* A function of the numbers may be defined by what it is at 0 and how it goes on: the loops of the
\* codecs, and the recursive functions they are modelled by.
LEMMA Iterates ==
  ASSUME NEW S, NEW start \in S, NEW F \in [Nat \X S -> S]
  PROVE  \E f \in [Nat -> S] : GoesOn(f, start, F)
<1> DEFINE Runs(n) == {g \in [0..n -> S] : g[0] = start /\ \A k \in 0..n - 1 : g[k + 1] = F[<<k, g[k]>>]}
<1>1. \A n \in Nat : Runs(n) # {}
  <2> DEFINE T == {n \in Nat : Runs(n) # {}}
  <2>1. 0 \in T
    <3>1. [k \in 0..0 |-> start] \in Runs(0)
      OBVIOUS
    <3> QED BY <3>1
  <2>2. ASSUME NEW n \in Nat, n \in T PROVE n + 1 \in T
    <3>1. PICK g : g \in Runs(n)
      BY <2>2
    <3> DEFINE h == [k \in 0..n + 1 |-> IF k <= n THEN g[k] ELSE F[<<n, g[n]>>]]
    <3>2. g \in [0..n -> S] /\ g[0] = start /\ \A k \in 0..n - 1 : g[k + 1] = F[<<k, g[k]>>]
      BY <3>1
    <3>3. h \in [0..n + 1 -> S] /\ h[0] = start
      BY <3>2
    <3>4. ASSUME NEW k \in 0..n PROVE h[k + 1] = F[<<k, h[k]>>]
      <4>1. CASE k = n
        BY SMTT(60), <4>1
      <4>2. CASE k < n
        BY <3>2, <4>2
      <4> QED BY <4>1, <4>2
    <3> HIDE DEF h
    <3>5. \A k \in 0..(n + 1) - 1 : h[k + 1] = F[<<k, h[k]>>]
      BY <3>4
    <3>6. h \in Runs(n + 1)
      BY <3>3, <3>5
    <3> HIDE DEF Runs
    <3>7. Runs(n + 1) # {}
      BY <3>6
    <3> QED BY <3>7
  <2> HIDE DEF T
  <2>3. \A n \in Nat : n \in T
    BY <2>1, <2>2, NumberInduction
  <2> QED BY <2>3 DEF T
<1>2. ASSUME NEW n \in Nat, NEW m \in Nat, NEW g \in Runs(n), NEW h \in Runs(m)
      PROVE  \A k \in Nat : k <= n /\ k <= m => g[k] = h[k]
  <2> DEFINE T == {k \in Nat : k <= n /\ k <= m => g[k] = h[k]}
  <2>1. 0 \in T
    OBVIOUS
  <2>2. ASSUME NEW k \in Nat, k \in T PROVE k + 1 \in T
    <3> SUFFICES ASSUME k + 1 <= n, k + 1 <= m PROVE g[k + 1] = h[k + 1]
      OBVIOUS
    <3>1. g[k] = h[k]
      BY <2>2
    <3>2. g[k + 1] = F[<<k, g[k]>>] /\ h[k + 1] = F[<<k, h[k]>>]
      OBVIOUS
    <3> QED BY <3>1, <3>2
  <2> HIDE DEF T
  <2>3. \A k \in Nat : k \in T
    BY <2>1, <2>2, NumberInduction
  <2> QED BY <2>3 DEF T
<1> DEFINE pick(n) == CHOOSE g : g \in Runs(n)
           f == [n \in Nat |-> pick(n)[n]]
<1>3. \A n \in Nat : pick(n) \in Runs(n)
  BY <1>1
<1> HIDE DEF pick
<1>4. f \in [Nat -> S] /\ f[0] = start
  BY <1>3
<1>5. ASSUME NEW n \in Nat PROVE f[n + 1] = F[<<n, f[n]>>]
  <2>1. pick(n) \in Runs(n) /\ pick(n + 1) \in Runs(n + 1)
    BY <1>3
  <2>2. pick(n + 1)[n] = pick(n)[n]
    <3> HIDE DEF Runs
    <3>1. \A k \in Nat : k <= n + 1 /\ k <= n => pick(n + 1)[k] = pick(n)[k]
      BY <1>2, <2>1
    <3> QED BY <3>1
  <2>3. pick(n + 1)[n + 1] = F[<<n, pick(n + 1)[n]>>]
    BY <2>1
  <2> QED BY <2>2, <2>3
<1> HIDE DEF f
<1>6. GoesOn(f, start, F)
  BY <1>4, <1>5 DEF GoesOn
<1> QED BY <1>4, <1>6

\* What FlattenSeq is put together of: any list of the parts written so far ends in it. encode writes
\* the chunks of an entry, and the entries of a message, behind each other in a buffer.
LEMMA FlattenRun ==
  ASSUME NEW X, NEW s \in Seq(Seq(X)), NEW f \in [0..Len(s) -> Seq(X)], f[0] = <<>>,
         \A n \in 0..Len(s) - 1 : f[n + 1] = f[n] \o s[n + 1]
  PROVE  FlattenSeq(s) = f[Len(s)]
<1>1. Len(s) \in Nat /\ \A i \in 1..Len(s) : s[i] \in Seq(X)
  OBVIOUS
<1>2. CASE Len(s) = 0
  BY <1>2 DEF FlattenSeq
<1>3. CASE Len(s) # 0
  <2> DEFINE IsRun(fl) == fl = [i \in 1..Len(s) |-> IF i = 1 THEN s[i] ELSE fl[i - 1] \o s[i]]
             g == [i \in 1..Len(s) |-> f[i]]
             fl == CHOOSE fl : IsRun(fl)
  <2>1. f[1] = s[1]
    <3>1. 0 \in 0..Len(s) - 1 /\ 0 + 1 = 1 /\ 1 \in 1..Len(s)
      BY <1>1, <1>3
    <3>2. f[1] = f[0] \o s[1]
      BY <3>1
    <3>3. f[1] = <<>> \o s[1] /\ s[1] \in Seq(X)
      BY <3>1, <3>2, <1>1
    <3> QED BY <3>3
  <2>2. \A i \in 1..Len(s) : i # 1 => f[i] = f[i - 1] \o s[i]
    <3> SUFFICES ASSUME NEW i \in 1..Len(s), i # 1 PROVE f[i] = f[i - 1] \o s[i]
      OBVIOUS
    <3>1. i - 1 \in 0..Len(s) - 1 /\ (i - 1) + 1 = i
      BY <1>1
    <3> QED BY <3>1
  <2>3. IsRun(g)
    <3>1. \A i \in 1..Len(s) : g[i] = IF i = 1 THEN s[i] ELSE g[i - 1] \o s[i]
      <4> SUFFICES ASSUME NEW i \in 1..Len(s)
                   PROVE  g[i] = IF i = 1 THEN s[i] ELSE g[i - 1] \o s[i]
        OBVIOUS
      <4>1. i # 1 => i - 1 \in 1..Len(s)
        BY <1>1
      <4> QED BY <4>1, <2>1, <2>2
    <3> DEFINE r == [i \in 1..Len(s) |-> IF i = 1 THEN s[i] ELSE g[i - 1] \o s[i]]
    <3>2. \A i \in 1..Len(s) : g[i] = r[i]
      BY <3>1
    <3>3. DOMAIN g = 1..Len(s) /\ DOMAIN r = 1..Len(s)
          /\ g = [i \in 1..Len(s) |-> g[i]] /\ r = [i \in 1..Len(s) |-> r[i]]
      OBVIOUS
    <3> HIDE DEF g
    <3> QED BY <3>2, <3>3
  <2>4. IsRun(fl)
    BY <2>3
  <2>5. \A i \in 1..Len(s) : fl[i] = IF i = 1 THEN s[i] ELSE fl[i - 1] \o s[i]
    <3> HIDE DEF fl
    <3> QED BY <2>4
  <2>6. FlattenSeq(s) = fl[Len(s)]
    BY <1>3, Zenon DEF FlattenSeq
  <2> HIDE DEF fl
  <2> DEFINE T == {n \in Nat : n \in 1..Len(s) => fl[n] = f[n]}
  <2>7. 0 \in T
    OBVIOUS
  <2>8. ASSUME NEW n \in Nat, n \in T PROVE n + 1 \in T
    <3> SUFFICES ASSUME n + 1 \in 1..Len(s) PROVE fl[n + 1] = f[n + 1]
      OBVIOUS
    <3>1. CASE n = 0
      BY <3>1, <2>5, <2>1
    <3>2. CASE n # 0
      <4>1. n \in 1..Len(s) /\ (n + 1) - 1 = n /\ n + 1 # 1
        BY <3>2, <1>1
      <4>2. fl[n] = f[n]
        BY <4>1, <2>8
      <4>3. fl[n + 1] = fl[n] \o s[n + 1]
        BY <2>5, <4>1
      <4>4. f[n + 1] = f[n] \o s[n + 1]
        BY <2>2, <4>1
      <4> QED BY <4>2, <4>3, <4>4
    <3> QED BY <3>1, <3>2
  <2> HIDE DEF T
  <2>9. \A n \in Nat : n \in T
    BY <2>7, <2>8, NumberInduction
  <2>10. Len(s) \in Nat /\ Len(s) \in 1..Len(s)
    BY <1>1, <1>3
  <2>11. Len(s) \in T
    BY <2>9, <2>10
  <2>12. fl[Len(s)] = f[Len(s)]
    BY <2>10, <2>11 DEF T
  <2> QED BY <2>6, <2>12
<1> QED BY <1>2, <1>3

\* There is such a list, for any parts.
LEMMA FlattenRuns ==
  ASSUME NEW X, NEW s \in Seq(Seq(X))
  PROVE  \E f \in [0..Len(s) -> Seq(X)] : f[0] = <<>> /\ \A n \in 0..Len(s) - 1 : f[n + 1] = f[n] \o s[n + 1]
<1> DEFINE F == [p \in Nat \X Seq(X) |-> IF p[1] + 1 <= Len(s) THEN p[2] \o s[p[1] + 1] ELSE p[2]]
<1>1. F \in [Nat \X Seq(X) -> Seq(X)]
  <2> SUFFICES ASSUME NEW p \in Nat \X Seq(X) PROVE F[p] \in Seq(X)
    OBVIOUS
  <2>1. CASE p[1] + 1 <= Len(s)
    <3>1. p[1] + 1 \in 1..Len(s) /\ p[2] \in Seq(X)
      BY <2>1
    <3>2. s[p[1] + 1] \in Seq(X)
      BY <3>1
    <3>3. p[2] \o s[p[1] + 1] \in Seq(X)
      BY <3>1, <3>2
    <3> QED BY <3>3, <2>1
  <2>2. CASE ~ (p[1] + 1 <= Len(s))
    BY <2>2
  <2> QED BY <2>1, <2>2
<1>2. \A n \in Nat, t \in Seq(X) : n + 1 <= Len(s) => F[<<n, t>>] = t \o s[n + 1]
  OBVIOUS
<1>3. <<>> \in Seq(X)
  OBVIOUS
<1> HIDE DEF F
<1>4. PICK h \in [Nat -> Seq(X)] : h[0] = <<>> /\ \A n \in Nat : h[n + 1] = F[<<n, h[n]>>]
  <2>1. \E h \in [Nat -> Seq(X)] : h[0] = <<>> /\ \A n \in Nat : h[n + 1] = F[<<n, h[n]>>]
    <3> DEFINE Y == Seq(X)
               e == <<>>
    <3>1. F \in [Nat \X Y -> Y] /\ e \in Y
      BY <1>1, <1>3
    <3> HIDE DEF Y, e
    <3>2. \E h \in [Nat -> Y] : GoesOn(h, e, F)
      BY <3>1, Iterates
    <3> QED BY <3>2 DEF Y, e, GoesOn
  <2> QED BY <2>1
<1> DEFINE f == [n \in 0..Len(s) |-> h[n]]
<1>5. f \in [0..Len(s) -> Seq(X)] /\ f[0] = <<>>
  BY SMTT(60), <1>4
<1>6. ASSUME NEW n \in 0..Len(s) - 1 PROVE f[n + 1] = f[n] \o s[n + 1]
  <2> Len(s) \in Nat
    OBVIOUS
  <2>1. n \in Nat /\ n + 1 <= Len(s) /\ n \in 0..Len(s) /\ n + 1 \in 0..Len(s)
    OBVIOUS
  <2> h[n] \in Seq(X)
    BY <2>1
  <2>2. h[n + 1] = h[n] \o s[n + 1]
    BY <2>1, <1>2, <1>4
  <2> QED BY <2>1, <2>2
<1> QED BY <1>5, <1>6

\* FlattenSeq of sequences is one of their elements.
LEMMA FlattenType ==
  ASSUME NEW X, NEW s \in Seq(Seq(X))
  PROVE  FlattenSeq(s) \in Seq(X)
<1>1. PICK f \in [0..Len(s) -> Seq(X)] :
         f[0] = <<>> /\ \A n \in 0..Len(s) - 1 : f[n + 1] = f[n] \o s[n + 1]
  BY FlattenRuns
<1>2. FlattenSeq(s) = f[Len(s)]
  BY <1>1, FlattenRun
<1>3. Len(s) \in 0..Len(s)
  OBVIOUS
<1> QED BY <1>2, <1>3

\* One part more is written behind those before.
LEMMA FlattenAppend ==
  ASSUME NEW X, NEW s \in Seq(Seq(X)), NEW x \in Seq(X)
  PROVE  FlattenSeq(Append(s, x)) = FlattenSeq(s) \o x
<1>1. PICK f \in [0..Len(s) -> Seq(X)] :
         f[0] = <<>> /\ \A n \in 0..Len(s) - 1 : f[n + 1] = f[n] \o s[n + 1]
  BY FlattenRuns
<1>2. FlattenSeq(s) = f[Len(s)]
  BY <1>1, FlattenRun
<1> DEFINE t == Append(s, x)
           g == [n \in 0..Len(s) + 1 |-> IF n <= Len(s) THEN f[n] ELSE f[Len(s)] \o x]
<1>3. t \in Seq(Seq(X)) /\ Len(t) = Len(s) + 1 /\ t[Len(s) + 1] = x /\ \A i \in 1..Len(s) : t[i] = s[i]
  OBVIOUS
<1> HIDE DEF t
<1>4. Len(s) \in Nat /\ f[Len(s)] \in Seq(X) /\ f[Len(s)] \o x \in Seq(X)
  <2>1. Len(s) \in Nat /\ Len(s) \in 0..Len(s)
    OBVIOUS
  <2>2. f[Len(s)] \in Seq(X)
    BY <2>1
  <2> QED BY <2>1, <2>2
<1>5. g \in [0..Len(t) -> Seq(X)]
  BY <1>3, <1>4
<1>6. g[0] = <<>>
  BY <1>1, <1>4
<1>7. ASSUME NEW n \in 0..Len(t) - 1 PROVE g[n + 1] = g[n] \o t[n + 1]
  <2>1. CASE n = Len(s)
    BY SMTT(60), <2>1, <1>3, <1>4
  <2>2. CASE n # Len(s)
    <3>1. n \in 0..Len(s) - 1 /\ n + 1 \in 1..Len(s) /\ n <= Len(s) /\ n + 1 <= Len(s) /\ n \in 0..Len(s) + 1
          /\ n + 1 \in 0..Len(s) + 1
      <4>1. n \in 0..Len(s)
        BY <1>3, <1>4
      <4> QED BY <4>1, <2>2, <1>4
    <3>2. f[n + 1] = f[n] \o s[n + 1] /\ t[n + 1] = s[n + 1]
      BY <3>1, <1>1, <1>3
    <3> QED BY <3>1, <3>2
  <2> QED BY <2>1, <2>2
<1> DEFINE gg == g
<1>8. g[Len(t)] = f[Len(s)] \o x
  BY <1>3, <1>4
<1> HIDE DEF g
<1>9. FlattenSeq(t) = g[Len(t)]
  BY <1>3, <1>5, <1>6, <1>7, FlattenRun
<1> QED BY <1>2, <1>8, <1>9 DEF t

\* A single part is itself.
LEMMA FlattenSingle ==
  ASSUME NEW X, NEW x \in Seq(X)
  PROVE  FlattenSeq(<<x>>) = x
<1>1. <<>> \in Seq(Seq(X)) /\ FlattenSeq(<<>>) = <<>> /\ Append(<<>>, x) = <<x>>
  BY DEF FlattenSeq
<1>2. FlattenSeq(Append(<<>>, x)) = FlattenSeq(<<>>) \o x
  BY <1>1, FlattenAppend
<1> QED BY <1>1, <1>2

\* What is written of two lists of parts is written of the one, then of the other.
LEMMA FlattenConcat ==
  ASSUME NEW X, NEW s \in Seq(Seq(X)), NEW u \in Seq(Seq(X))
  PROVE  FlattenSeq(s \o u) = FlattenSeq(s) \o FlattenSeq(u)
<1> DEFINE T == {n \in Nat : \A t \in Seq(Seq(X)) :
                    Len(t) = n => FlattenSeq(s \o t) = FlattenSeq(s) \o FlattenSeq(t)}
<1>1. 0 \in T
  <2> SUFFICES ASSUME NEW t \in Seq(Seq(X)), Len(t) = 0
               PROVE  FlattenSeq(s \o t) = FlattenSeq(s) \o FlattenSeq(t)
    OBVIOUS
  <2>1. t = <<>> /\ s \o t = s /\ FlattenSeq(t) = <<>>
    BY DEF FlattenSeq
  <2>2. FlattenSeq(s) \in Seq(X)
    BY FlattenType
  <2> QED BY <2>1, <2>2
<1>2. ASSUME NEW n \in Nat, n \in T PROVE n + 1 \in T
  <2> SUFFICES ASSUME NEW t \in Seq(Seq(X)), Len(t) = n + 1
               PROVE  FlattenSeq(s \o t) = FlattenSeq(s) \o FlattenSeq(t)
    OBVIOUS
  <2> DEFINE a == SubSeq(t, 1, n)
             x == t[n + 1]
  <2>1. a \in Seq(Seq(X)) /\ Len(a) = n /\ x \in Seq(X) /\ t = Append(a, x)
    OBVIOUS
  <2> HIDE DEF a, x
  <2>2. s \o t = Append(s \o a, x) /\ s \o a \in Seq(Seq(X))
    BY <2>1
  <2>3. FlattenSeq(s \o a) = FlattenSeq(s) \o FlattenSeq(a)
    BY <1>2, <2>1
  <2>4. FlattenSeq(s \o t) = (FlattenSeq(s) \o FlattenSeq(a)) \o x
    BY <2>1, <2>2, <2>3, FlattenAppend
  <2>5. FlattenSeq(t) = FlattenSeq(a) \o x
    BY <2>1, FlattenAppend
  <2>6. FlattenSeq(s) \in Seq(X) /\ FlattenSeq(a) \in Seq(X)
    BY <2>1, FlattenType
  <2>7. (FlattenSeq(s) \o FlattenSeq(a)) \o x = FlattenSeq(s) \o (FlattenSeq(a) \o x)
    <3> DEFINE p == FlattenSeq(s)
               q == FlattenSeq(a)
    <3>1. p \in Seq(X) /\ q \in Seq(X) /\ x \in Seq(X)
      BY <2>6, <2>1
    <3> HIDE DEF T, p, q
    <3>2. (p \o q) \o x = p \o (q \o x)
      BY ONLY SMTT(60), <3>1
    <3> QED BY <3>2 DEF p, q
  <2> QED BY <2>4, <2>5, <2>7
<1> HIDE DEF T
<1>3. \A n \in Nat : n \in T
  BY <1>1, <1>2, NumberInduction
<1>4. Len(u) \in Nat
  OBVIOUS
<1>5. Len(u) \in T
  BY <1>3, <1>4
<1> QED BY <1>5 DEF T

\* A sequence that begins as one and goes on as another is the two behind each other.
LEMMA ConcatIs ==
  ASSUME NEW X, NEW a \in Seq(X), NEW b \in Seq(X), NEW c \in Seq(X), Len(c) = Len(a) + Len(b),
         \A k \in 1..Len(a) : c[k] = a[k], \A k \in 1..Len(b) : c[Len(a) + k] = b[k]
  PROVE  c = a \o b
<1>1. Len(a) \in Nat /\ Len(b) \in Nat
  OBVIOUS
<1>2. a \o b \in Seq(X) /\ Len(a \o b) = Len(a) + Len(b)
      /\ \A k \in 1..Len(a) + Len(b) : (a \o b)[k] = IF k <= Len(a) THEN a[k] ELSE b[k - Len(a)]
  BY ConcatProperties
<1>3. ASSUME NEW k \in 1..Len(c) PROVE c[k] = (a \o b)[k]
  <2>1. CASE k <= Len(a)
    BY <2>1, <1>1, <1>2
  <2>2. CASE ~ (k <= Len(a))
    <3>1. k - Len(a) \in 1..Len(b) /\ Len(a) + (k - Len(a)) = k
      BY <2>2, <1>1
    <3> QED BY <2>2, <3>1, <1>2
  <2> QED BY <2>1, <2>2
<1> QED BY <1>2, <1>3, SeqEqual

\* A slice of bytes is as long as its bounds say.
LEMMA SliceIs ==
  ASSUME NEW v \in Seq(Nat), NEW a \in 1..Len(v) + 1, NEW b \in a - 1..Len(v)
  PROVE  SubSeq(v, a, b) \in Seq(Nat) /\ Len(SubSeq(v, a, b)) = b - (a - 1)
<1>1. Len(v) \in Nat /\ \A i \in a..b : v[i] \in Nat
  OBVIOUS
<1>2. a \in Int /\ b \in Int
  BY <1>1
<1>3. SubSeq(v, a, b) \in Seq(Nat) /\ Len(SubSeq(v, a, b)) = IF a <= b THEN b - a + 1 ELSE 0
  BY <1>1, <1>2, SubSeqProperties
<1> QED BY <1>1, <1>3

\* Division, once and for all.
LEMMA Quotient ==
  ASSUME NEW a \in Nat, NEW m \in Nat \ {0}
  PROVE  \E q \in Nat, r \in 0..m - 1 : a = m * q + r /\ q = a \div m
  OBVIOUS

\* What leaves less than the divisor over is the quotient.
LEMMA QuotientIs ==
  ASSUME NEW a \in Nat, NEW m \in Nat \ {0}, NEW q \in Nat, NEW r \in 0..m - 1, a = m * q + r
  PROVE  a \div m = q
<1>1. PICK p \in Nat, s \in 0..m - 1 : a = m * p + s /\ p = a \div m
  OBVIOUS
<1>2. ~ (p < q)
  <2> SUFFICES ASSUME p + 1 <= q PROVE FALSE
    OBVIOUS
  <2>1. m * p + m <= m * q
    OBVIOUS
  <2> QED BY <1>1, <2>1
<1>3. ~ (q < p)
  <2> SUFFICES ASSUME q + 1 <= p PROVE FALSE
    OBVIOUS
  <2>1. m * q + m <= m * p
    OBVIOUS
  <2> QED BY <1>1, <2>1
<1> QED BY <1>1, <1>2, <1>3

\* How many chunks a value of n bytes is cut in, and the k-th of them: what chunks(MAX_CHUNK) yields.
Pieces(n) == (n + MaxChunk - 1) \div MaxChunk

Piece(v, k) ==
    SubSeq(v, (k - 1) * MaxChunk + 1, IF k * MaxChunk < Len(v) THEN k * MaxChunk ELSE Len(v))

\* Whole chunks in front are chunks more.
LEMMA PiecesAdd ==
  ASSUME NEW j \in Nat, NEW n \in Nat
  PROVE  /\ Pieces(n) \in Nat
         /\ Pieces(j * MaxChunk) = j
         /\ Pieces(j * MaxChunk + n) = j + Pieces(n)
<1>1. MaxChunk \in Nat \ {0} /\ n + MaxChunk - 1 \in Nat /\ j * MaxChunk \in Nat
      /\ j * MaxChunk = MaxChunk * j
  BY Tlv8Assumption
<1>2. PICK q \in Nat, r \in 0..MaxChunk - 1 :
         n + MaxChunk - 1 = MaxChunk * q + r /\ q = (n + MaxChunk - 1) \div MaxChunk
  BY <1>1
<1>3. (j * MaxChunk + MaxChunk - 1) \div MaxChunk = j
  <2>1. j * MaxChunk + MaxChunk - 1 = MaxChunk * j + (MaxChunk - 1) /\ MaxChunk - 1 \in 0..MaxChunk - 1
        /\ j * MaxChunk + MaxChunk - 1 \in Nat
    BY <1>1
  <2> QED BY <1>1, <2>1, QuotientIs
<1>4. (j * MaxChunk + n + MaxChunk - 1) \div MaxChunk = j + q
  <2>1. MaxChunk * (j + q) = MaxChunk * j + MaxChunk * q
    BY <1>1
  <2>2. j * MaxChunk + n + MaxChunk - 1 = MaxChunk * (j + q) + r /\ j * MaxChunk + n + MaxChunk - 1 \in Nat
    <3> DEFINE y == j * MaxChunk
               z == MaxChunk * q
               u == MaxChunk * (j + q)
    <3>1. y \in Nat /\ z \in Nat /\ u = y + z /\ n + MaxChunk - 1 = z + r /\ MaxChunk \in Nat
      BY <1>1, <1>2, <2>1
    <3> HIDE DEF y, z, u
    <3>2. y + n + MaxChunk - 1 = u + r /\ y + n + MaxChunk - 1 \in Nat
      BY <3>1, <1>1
    <3> QED BY <3>2 DEF y, u
  <2>3. j + q \in Nat
    OBVIOUS
  <2> QED BY <1>1, <2>2, <2>3, QuotientIs
<1> QED BY <1>2, <1>3, <1>4 DEF Pieces

\* The chunks of a value that has a byte: as many as Pieces says, each a piece of it, and none of them,
\* nor a place of the last, beyond its end.
LEMMA ChunksOfSome ==
  ASSUME NEW v \in Seq(Nat), v # <<>>
  PROVE  /\ Chunks(v) \in Seq(Seq(Nat))
         /\ Len(Chunks(v)) = Pieces(Len(v))
         /\ \A k \in 1..Pieces(Len(v)) : Chunks(v)[k] = Piece(v, k)
<1>1. Len(v) \in Nat /\ 0 \in Nat /\ MaxChunk \in Nat \ {0}
  BY Tlv8Assumption
<1>2. Pieces(Len(v)) \in Nat
  BY <1>1, PiecesAdd
<1>3. Chunks(v) = [k \in 1..Pieces(Len(v)) |-> Piece(v, k)]
  BY DEF Chunks, ChunksOfBytes, Piece, Pieces
<1>4. ASSUME NEW k \in 1..Pieces(Len(v)) PROVE Piece(v, k) \in Seq(Nat)
  <2> DEFINE a == (k - 1) * MaxChunk + 1
             b == IF k * MaxChunk < Len(v) THEN k * MaxChunk ELSE Len(v)
  <2>1. k \in Nat /\ k - 1 \in Nat /\ k >= 1
    BY <1>2
  <2>2. (k - 1) * MaxChunk \in Nat /\ k * MaxChunk \in Nat
    BY <1>1, <2>1
  <2>3. a \in Nat /\ a >= 1 /\ b \in Nat /\ b <= Len(v)
    BY <1>1, <2>2
  <2>4. Piece(v, k) = SubSeq(v, a, b)
    BY DEF Piece
  <2> HIDE DEF a, b
  <2>5. \A i \in a..b : v[i] \in Nat
    BY <2>3
  <2>6. SubSeq(v, a, b) \in Seq(Nat)
    BY <2>3, <2>5, SubSeqProperties
  <2> QED BY <2>4, <2>6
<1> DEFINE n == Pieces(Len(v))
           P(k) == Piece(v, k)
<1> HIDE DEF n, P
<1>5. n \in Nat /\ Chunks(v) = [k \in 1..n |-> P(k)] /\ \A k \in 1..n : P(k) \in Seq(Nat)
  BY <1>2, <1>3, <1>4 DEF n, P
<1>6. Chunks(v) \in Seq(Seq(Nat)) /\ Len(Chunks(v)) = n /\ \A k \in 1..n : Chunks(v)[k] = P(k)
  BY <1>5
<1> QED BY <1>6 DEF n, P

\* A value that is no longer than an entry is one chunk, an empty one too.
LEMMA ChunkOfShort ==
  ASSUME NEW c \in Seq(Nat), Len(c) <= MaxChunk
  PROVE  Chunks(c) = <<c>>
<1>1. CASE c = <<>>
  BY <1>1 DEF Chunks
<1>2. CASE c # <<>>
  <2>1. Len(c) \in Nat \ {0} /\ MaxChunk \in Nat \ {0}
    BY <1>2, Tlv8Assumption
  <2>2. Pieces(Len(c)) = 1
    <3>1. Len(c) + MaxChunk - 1 = MaxChunk * 1 + (Len(c) - 1) /\ Len(c) - 1 \in 0..MaxChunk - 1
          /\ Len(c) + MaxChunk - 1 \in Nat
      BY <2>1
    <3> QED BY <2>1, <3>1, QuotientIs DEF Pieces
  <2>3. Piece(c, 1) = c
    <3>1. (1 - 1) * MaxChunk + 1 = 1 /\ ~ (1 * MaxChunk < Len(c))
      BY <2>1
    <3>2. Piece(c, 1) = SubSeq(c, 1, Len(c))
      BY <3>1 DEF Piece
    <3> QED BY <3>2
  <2>4. Chunks(c) \in Seq(Seq(Nat)) /\ Len(Chunks(c)) = 1 /\ Chunks(c)[1] = c
    <3>1. Chunks(c) \in Seq(Seq(Nat)) /\ Len(Chunks(c)) = Pieces(Len(c))
          /\ \A k \in 1..Pieces(Len(c)) : Chunks(c)[k] = Piece(c, k)
      BY <1>2, ChunksOfSome
    <3> QED BY <2>2, <2>3, <3>1
  <2> DEFINE s == Chunks(c)
  <2> HIDE DEF s
  <2>5. s \in Seq(Seq(Nat)) /\ Len(s) = 1 /\ s[1] = c
    BY <2>4 DEF s
  <2>6. s = <<c>>
    BY <2>5
  <2> QED BY <2>6 DEF s
<1> QED BY <1>1, <1>2

\* A value whose first bytes fill whole entries is cut there: its chunks are those of the first bytes and
\* those of the rest.
LEMMA ChunksConcat ==
  ASSUME NEW j \in Nat \ {0}, NEW w \in Seq(Nat), Len(w) = j * MaxChunk, NEW c \in Seq(Nat), c # <<>>
  PROVE  Chunks(w \o c) = Chunks(w) \o Chunks(c)
<1> DEFINE v == w \o c
           p == Pieces(Len(c))
<1>1. MaxChunk \in Nat \ {0} /\ Len(w) \in Nat /\ Len(c) \in Nat \ {0}
  BY Tlv8Assumption
<1>2. j * MaxChunk \in Nat \ {0} /\ w # <<>>
  BY <1>1
<1>3. v \in Seq(Nat) /\ Len(v) = j * MaxChunk + Len(c)
  BY SMTT(60)
<1>4. v # <<>>
  BY <1>1, <1>2, <1>3
<1>5. p \in Nat /\ Pieces(Len(w)) = j /\ Pieces(Len(v)) = j + p
  <2>1. /\ Pieces(Len(c)) \in Nat
        /\ Pieces(j * MaxChunk) = j
        /\ Pieces(j * MaxChunk + Len(c)) = j + Pieces(Len(c))
    BY <1>1, PiecesAdd
  <2> QED BY <2>1, <1>3
<1>6. /\ Chunks(v) \in Seq(Seq(Nat)) /\ Len(Chunks(v)) = j + p
      /\ \A k \in 1..j + p : Chunks(v)[k] = Piece(v, k)
  BY <1>3, <1>4, <1>5, ChunksOfSome
<1>7. Chunks(w) \in Seq(Seq(Nat)) /\ Len(Chunks(w)) = j /\ \A k \in 1..j : Chunks(w)[k] = Piece(w, k)
  BY <1>2, <1>5, ChunksOfSome
<1>8. Chunks(c) \in Seq(Seq(Nat)) /\ Len(Chunks(c)) = p /\ \A k \in 1..p : Chunks(c)[k] = Piece(c, k)
  BY <1>1, ChunksOfSome
<1>9. ASSUME NEW k \in 1..j PROVE Piece(v, k) = Piece(w, k)
  <2>1. k \in Nat /\ k >= 1 /\ k <= j
    OBVIOUS
  <2>2. k * MaxChunk \in Nat /\ (k - 1) * MaxChunk \in Nat /\ k * MaxChunk = (k - 1) * MaxChunk + MaxChunk
    BY <1>1, <2>1
  <2>3. k * MaxChunk <= j * MaxChunk /\ (k < j => k * MaxChunk < j * MaxChunk)
    <3>1. k < j => k * MaxChunk + MaxChunk <= j * MaxChunk
      <4> SUFFICES ASSUME k + 1 <= j PROVE k * MaxChunk + MaxChunk <= j * MaxChunk
        BY <2>1
      <4>1. (k + 1) * MaxChunk <= j * MaxChunk
        BY <1>1, <2>1
      <4>2. (k + 1) * MaxChunk = k * MaxChunk + MaxChunk
        BY <1>1, <2>1
      <4> QED BY <4>1, <4>2
    <3> QED BY <1>1, <2>1, <2>2, <3>1
  <2> DEFINE a == (k - 1) * MaxChunk + 1
             b == k * MaxChunk
  <2>4. a \in 1..Len(w) /\ b \in 1..Len(w) /\ b < Len(v)
    <3> DEFINE x == (k - 1) * MaxChunk
               z == j * MaxChunk
    <3>1. x \in Nat /\ b \in Nat /\ b = x + MaxChunk /\ a = x + 1 /\ b <= z /\ Len(w) = z
          /\ Len(v) = z + Len(c)
      BY <2>2, <2>3, <1>3
    <3> HIDE DEF a, b, x, z, v
    <3> QED BY <3>1, <1>1
  <2>5. Piece(v, k) = SubSeq(v, a, b)
    <3> HIDE DEF v
    <3> QED BY <2>4 DEF Piece
  <2>6. Piece(w, k) = SubSeq(w, a, b)
    <3>1. k = j \/ k < j
      BY <2>1
    <3>2. b < Len(w) \/ b = Len(w)
      BY <3>1, <2>3
    <3> HIDE DEF v
    <3> QED BY <3>2 DEF Piece
  <2> HIDE DEF a, b
  <2>7. SubSeq(w \o c, a, b) = SubSeq(w, a, b)
    BY <2>4, SubSeqOfConcat1
  <2> QED BY <2>5, <2>6, <2>7
<1>10. ASSUME NEW i \in 1..p PROVE Piece(v, j + i) = Piece(c, i)
  <2>1. i \in Nat /\ i >= 1
    BY <1>5
  <2>2. i * MaxChunk \in Nat /\ (i - 1) * MaxChunk \in Nat
        /\ i * MaxChunk = (i - 1) * MaxChunk + MaxChunk
        /\ (j + i) * MaxChunk = j * MaxChunk + i * MaxChunk
        /\ ((j + i) - 1) * MaxChunk = j * MaxChunk + (i - 1) * MaxChunk
    BY <1>1, <2>1
  <2>3. (i - 1) * MaxChunk < Len(c)
    <3>1. PICK r \in 0..MaxChunk - 1 : Len(c) + MaxChunk - 1 = MaxChunk * p + r
      <4>1. Len(c) + MaxChunk - 1 \in Nat
        BY <1>1
      <4>2. PICK q \in Nat, r \in 0..MaxChunk - 1 :
               Len(c) + MaxChunk - 1 = MaxChunk * q + r /\ q = (Len(c) + MaxChunk - 1) \div MaxChunk
        BY <1>1, <4>1, Quotient
      <4> QED BY <4>2 DEF Pieces
    <3> HIDE DEF p
    <3>2. MaxChunk * i <= MaxChunk * p /\ MaxChunk * i = i * MaxChunk
      <4>1. i <= p /\ i \in Nat /\ p \in Nat /\ MaxChunk \in Nat
        BY <1>1, <1>5, <2>1
      <4> QED BY ONLY <4>1
    <3>3. i * MaxChunk <= Len(c) + MaxChunk - 1
      <4>1. MaxChunk * p \in Nat
        BY <1>1, <1>5
      <4> QED BY <1>1, <2>2, <3>1, <3>2, <4>1
    <3> QED BY <1>1, <2>2, <3>3
  <2> DEFINE a == (i - 1) * MaxChunk + 1
             b == IF i * MaxChunk < Len(c) THEN i * MaxChunk ELSE Len(c)
  <2>4. a \in 1..Len(c) /\ b \in 1..Len(c)
    <3> DEFINE x == (i - 1) * MaxChunk
               y == i * MaxChunk
    <3>1. x \in Nat /\ y \in Nat /\ y = x + MaxChunk /\ a = x + 1 /\ x < Len(c)
          /\ b = IF y < Len(c) THEN y ELSE Len(c)
      BY <2>2, <2>3
    <3> HIDE DEF a, b, x, y
    <3> QED BY <3>1, <1>1
  <2>5. Piece(c, i) = SubSeq(c, a, b)
    BY DEF Piece
  <2>6. Piece(v, j + i) = SubSeq(v, Len(w) + a, Len(w) + b)
    <3> DEFINE d == IF (j + i) * MaxChunk < Len(v) THEN (j + i) * MaxChunk ELSE Len(v)
    <3>1. ((j + i) - 1) * MaxChunk + 1 = Len(w) + a
      BY <1>1, <1>2, <2>2
    <3>2. d = Len(w) + b
      <4> DEFINE z == (j + i) * MaxChunk
                 y == i * MaxChunk
      <4>1. z = Len(w) + y /\ y \in Nat /\ Len(v) = Len(w) + Len(c)
            /\ d = (IF z < Len(v) THEN z ELSE Len(v)) /\ b = IF y < Len(c) THEN y ELSE Len(c)
        BY <1>3, <2>2
      <4> HIDE DEF v, b, d, z, y
      <4>2. Len(w) \in Nat /\ Len(c) \in Nat
        BY <1>1
      <4> QED BY ONLY <4>1, <4>2
    <3>3. Piece(v, j + i) = SubSeq(v, ((j + i) - 1) * MaxChunk + 1, d)
      BY DEF Piece
    <3> HIDE DEF d, a, b, v
    <3> QED BY <3>1, <3>2, <3>3
  <2> HIDE DEF a, b
  <2>7. Len(w) + a \in Len(w) + 1..Len(w) + Len(c) /\ Len(w) + b \in Len(w) + 1..Len(w) + Len(c)
        /\ (Len(w) + a) - Len(w) = a /\ (Len(w) + b) - Len(w) = b
    BY <1>1, <2>4
  <2>8. SubSeq(w \o c, Len(w) + a, Len(w) + b) = SubSeq(c, (Len(w) + a) - Len(w), (Len(w) + b) - Len(w))
    BY <2>7, SubSeqOfConcat2
  <2> QED BY <2>5, <2>6, <2>7, <2>8
<1> DEFINE l == Chunks(v)
           x == Chunks(w)
           y == Chunks(c)
<1> HIDE DEF p, v, l, x, y
<1>11. l \in Seq(Seq(Nat)) /\ x \in Seq(Seq(Nat)) /\ y \in Seq(Seq(Nat))
       /\ Len(l) = j + p /\ Len(x) = j /\ Len(y) = p
  BY <1>6, <1>7, <1>8 DEF l, x, y
<1>12. \A k \in 1..j : l[k] = x[k]
  BY <1>5, <1>6, <1>7, <1>9 DEF l, x
<1>13. \A i \in 1..p : l[j + i] = y[i]
  BY <1>5, <1>6, <1>8, <1>10 DEF l, y
<1>14. l = x \o y
  <2> DEFINE Y == Seq(Nat)
  <2>1. l \in Seq(Y) /\ x \in Seq(Y) /\ y \in Seq(Y) /\ Len(l) = Len(x) + Len(y)
        /\ \A k \in 1..Len(x) : l[k] = x[k]
    BY <1>11, <1>12
  <2>2. \A k \in 1..Len(y) : l[Len(x) + k] = y[k]
    BY <1>11, <1>13
  <2> HIDE DEF Y
  <2> QED BY ONLY <2>1, <2>2, ConcatIs
<1> QED BY <1>14 DEF l, x, y, v

\* A tag and its value, and a message: no tag has two entries, as set_raw replaces.
Entry == Nat \X Seq(Nat)

Message(m) == m \in Seq(Entry) /\ \A a, b \in 1..Len(m) : m[a][1] = m[b][1] => a = b

\* The bytes of one chunk: the tag, the length and what it holds.
LEMMA WrittenIs ==
  ASSUME NEW t \in Nat, NEW c \in Seq(Nat)
  PROVE  /\ Fragment(t, c) \in Seq(Nat)
         /\ Len(Fragment(t, c)) = Len(c) + 2
         /\ Fragment(t, c)[1] = t /\ Fragment(t, c)[2] = Len(c)
         /\ SubSeq(Fragment(t, c), 3, Len(c) + 2) = c
<1> DEFINE h == <<t, Len(c)>>
<1>1. h \in Seq(Nat) /\ Len(h) = 2 /\ h[1] = t /\ h[2] = Len(c) /\ Len(c) \in Nat
  OBVIOUS
<1> HIDE DEF h
<1>2. Fragment(t, c) = h \o c
  BY DEF Fragment, h
<1>3. h \o c \in Seq(Nat) /\ Len(h \o c) = Len(c) + 2 /\ (h \o c)[1] = t /\ (h \o c)[2] = Len(c)
      /\ \A i \in 3..Len(c) + 2 : (h \o c)[i] = c[i - 2] /\ c[i - 2] \in Nat
  <2>1. h \o c \in Seq(Nat) /\ Len(h \o c) = Len(h) + Len(c)
        /\ \A i \in 1..Len(h) + Len(c) : (h \o c)[i] = IF i <= Len(h) THEN h[i] ELSE c[i - Len(h)]
    BY <1>1, ConcatProperties
  <2> DEFINE s == h \o c
  <2> HIDE DEF s
  <2>2. \A i \in 1..Len(c) + 2 : s[i] = IF i <= 2 THEN h[i] ELSE c[i - 2]
    BY <1>1, <2>1 DEF s
  <2>3. 1 \in 1..Len(c) + 2 /\ 2 \in 1..Len(c) + 2 /\ \A i \in 3..Len(c) + 2 : i - 2 \in 1..Len(c) /\ ~ (i <= 2)
    BY <1>1
  <2>4. \A i \in 3..Len(c) + 2 : s[i] = c[i - 2] /\ c[i - 2] \in Nat
    <3> SUFFICES ASSUME NEW i \in 3..Len(c) + 2 PROVE s[i] = c[i - 2] /\ c[i - 2] \in Nat
      OBVIOUS
    <3>1. i \in 1..Len(c) + 2 /\ i - 2 \in 1..Len(c) /\ ~ (i <= 2)
      BY <1>1
    <3> QED BY <2>2, <3>1
  <2>5. s[1] = t /\ s[2] = Len(c)
    BY <1>1, <2>2, <2>3
  <2> QED BY <1>1, <2>1, <2>4, <2>5 DEF s
<1>4. SubSeq(h \o c, 3, Len(c) + 2) = c
  <2> DEFINE s == SubSeq(h \o c, 3, Len(c) + 2)
  <2>2. s \in Seq(Nat) /\ Len(s) = Len(c) /\ \A i \in 1..Len(c) : s[i] = (h \o c)[i + 2]
    BY SMTT(60), <1>1, <1>3
  <2> HIDE DEF s
  <2>3. \A i \in 1..Len(c) : s[i] = c[i]
    <3> SUFFICES ASSUME NEW i \in 1..Len(c) PROVE s[i] = c[i]
      OBVIOUS
    <3>1. i + 2 \in 3..Len(c) + 2 /\ (i + 2) - 2 = i
      BY <1>1
    <3> QED BY <3>1, <1>3, <2>2
  <2>4. s = c
    BY <2>2, <2>3, SeqEqual
  <2> QED BY <2>4 DEF s
<1> QED BY <1>2, <1>3, <1>4

\* Chunks are sequences of bytes.
LEMMA ChunksType ==
  ASSUME NEW v \in Seq(Nat)
  PROVE  Chunks(v) \in Seq(Seq(Nat))
<1>1. CASE v = <<>>
  BY <1>1 DEF Chunks
<1>2. CASE v # <<>>
  BY <1>2, ChunksOfSome
<1> QED BY <1>1, <1>2

\* The chunks of an entry, each with its header.
Fragments(t, s) == [k \in DOMAIN s |-> Fragment(t, s[k])]

\* Every chunk is written, in their order.
LEMMA WrittenChunksIs ==
  ASSUME NEW t \in Nat, NEW s \in Seq(Seq(Nat)), NEW u \in Seq(Seq(Nat))
  PROVE  /\ Fragments(t, s) \in Seq(Seq(Nat))
         /\ Fragments(t, s \o u) = Fragments(t, s) \o Fragments(t, u)
<1>1. ASSUME NEW x \in Seq(Seq(Nat))
      PROVE  /\ Fragments(t, x) \in Seq(Seq(Nat)) /\ Len(Fragments(t, x)) = Len(x)
             /\ \A k \in 1..Len(x) : Fragments(t, x)[k] = Fragment(t, x[k])
  <2>1. DOMAIN x = 1..Len(x) /\ Len(x) \in Nat
    OBVIOUS
  <2>2. ASSUME NEW k \in 1..Len(x) PROVE Fragment(t, x[k]) \in Seq(Nat)
    <3>1. x[k] \in Seq(Nat)
      OBVIOUS
    <3> QED BY <3>1, WrittenIs
  <2> DEFINE W(k) == Fragment(t, x[k])
  <2> HIDE DEF W
  <2>3. Fragments(t, x) = [k \in 1..Len(x) |-> W(k)]
    BY <2>1 DEF Fragments, W
  <2>4. \A k \in 1..Len(x) : W(k) \in Seq(Nat)
    BY <2>2 DEF W
  <2>5. /\ Fragments(t, x) \in Seq(Seq(Nat)) /\ Len(Fragments(t, x)) = Len(x)
        /\ \A k \in 1..Len(x) : Fragments(t, x)[k] = W(k)
    BY <2>1, <2>3, <2>4
  <2> QED BY <2>5 DEF W
<1> DEFINE a == Fragments(t, s)
           b == Fragments(t, u)
           c == Fragments(t, s \o u)
<1>2. s \o u \in Seq(Seq(Nat)) /\ Len(s \o u) = Len(s) + Len(u) /\ Len(s) \in Nat /\ Len(u) \in Nat
      /\ \A k \in 1..Len(s) + Len(u) : (s \o u)[k] = IF k <= Len(s) THEN s[k] ELSE u[k - Len(s)]
  BY ConcatProperties
<1>3. a \in Seq(Seq(Nat)) /\ Len(a) = Len(s) /\ \A k \in 1..Len(s) : a[k] = Fragment(t, s[k])
  BY <1>1
<1>4. b \in Seq(Seq(Nat)) /\ Len(b) = Len(u) /\ \A k \in 1..Len(u) : b[k] = Fragment(t, u[k])
  BY <1>1
<1>5. c \in Seq(Seq(Nat)) /\ Len(c) = Len(s) + Len(u)
      /\ \A k \in 1..Len(s) + Len(u) : c[k] = Fragment(t, (s \o u)[k])
  BY <1>1, <1>2
<1> HIDE DEF a, b, c
<1>6. \A k \in 1..Len(a) : c[k] = a[k]
  BY <1>2, <1>3, <1>5
<1>7. ASSUME NEW k \in 1..Len(b) PROVE c[Len(a) + k] = b[k]
  <2>1. Len(s) + k \in 1..Len(s) + Len(u) /\ ~ (Len(s) + k <= Len(s)) /\ (Len(s) + k) - Len(s) = k
    BY <1>2, <1>4
  <2>2. (s \o u)[Len(s) + k] = u[k]
    BY <1>2, <2>1
  <2> QED BY <1>3, <1>4, <1>5, <2>1, <2>2
<1>8. c = a \o b
  <2> DEFINE Y == Seq(Nat)
  <2>1. a \in Seq(Y) /\ b \in Seq(Y) /\ c \in Seq(Y) /\ Len(c) = Len(a) + Len(b)
    BY <1>3, <1>4, <1>5
  <2> HIDE DEF Y
  <2> QED BY ONLY <2>1, <1>6, <1>7, ConcatIs
<1> QED BY <1>3, <1>8 DEF a, b, c

\* An entry is written as bytes: in one piece if it is short; behind what fills whole chunks comes what
\* would be written of the rest alone.
LEMMA EncodeEntryIs ==
  ASSUME NEW t \in Nat
  PROVE  /\ \A v \in Seq(Nat) : EncodeEntry(<<t, v>>) \in Seq(Nat)
         /\ \A c \in Seq(Nat) : Len(c) <= MaxChunk => EncodeEntry(<<t, c>>) = Fragment(t, c)
         /\ \A j \in Nat \ {0}, w \in Seq(Nat), c \in Seq(Nat) :
               Len(w) = j * MaxChunk /\ c # <<>> =>
                  EncodeEntry(<<t, w \o c>>) = EncodeEntry(<<t, w>>) \o EncodeEntry(<<t, c>>)
<1>1. \A v : EncodeEntry(<<t, v>>) = FlattenSeq(Fragments(t, Chunks(v)))
  BY DEF EncodeEntry, Fragments
<1>2. \A v \in Seq(Nat) : Fragments(t, Chunks(v)) \in Seq(Seq(Nat))
  BY ChunksType, WrittenChunksIs
<1>3. \A v \in Seq(Nat) : EncodeEntry(<<t, v>>) \in Seq(Nat)
  BY <1>1, <1>2, FlattenType
<1>4. ASSUME NEW c \in Seq(Nat), Len(c) <= MaxChunk
      PROVE  EncodeEntry(<<t, c>>) = Fragment(t, c)
  <2>1. Chunks(c) = <<c>>
    BY <1>4, ChunkOfShort
  <2>2. Fragments(t, <<c>>) = <<Fragment(t, c)>>
    <3> DEFINE x == Fragment(t, c)
    <3>1. DOMAIN <<c>> = 1..1 /\ <<c>>[1] = c
      OBVIOUS
    <3>2. Fragments(t, <<c>>) = [k \in 1..1 |-> x]
      BY <3>1 DEF Fragments
    <3> HIDE DEF x
    <3>3. [k \in 1..1 |-> x] = <<x>>
      OBVIOUS
    <3> QED BY <3>2, <3>3 DEF x
  <2>3. Fragment(t, c) \in Seq(Nat)
    BY WrittenIs
  <2> QED BY <1>1, <2>1, <2>2, <2>3, FlattenSingle
<1>5. ASSUME NEW j \in Nat \ {0}, NEW w \in Seq(Nat), NEW c \in Seq(Nat), Len(w) = j * MaxChunk, c # <<>>
      PROVE  EncodeEntry(<<t, w \o c>>) = EncodeEntry(<<t, w>>) \o EncodeEntry(<<t, c>>)
  <2>1. Chunks(w \o c) = Chunks(w) \o Chunks(c)
    BY <1>5, ChunksConcat
  <2>2. Chunks(w) \in Seq(Seq(Nat)) /\ Chunks(c) \in Seq(Seq(Nat))
    BY ChunksType
  <2>3. Fragments(t, Chunks(w \o c)) = Fragments(t, Chunks(w)) \o Fragments(t, Chunks(c))
    <3> DEFINE p == Chunks(w)
               q == Chunks(c)
    <3>1. p \in Seq(Seq(Nat)) /\ q \in Seq(Seq(Nat))
      BY <2>2
    <3> HIDE DEF p, q
    <3>2. Fragments(t, p \o q) = Fragments(t, p) \o Fragments(t, q)
      BY <3>1, WrittenChunksIs
    <3> QED BY <2>1, <3>2 DEF p, q
  <2> DEFINE x == Fragments(t, Chunks(w))
             y == Fragments(t, Chunks(c))
  <2>4. x \in Seq(Seq(Nat)) /\ y \in Seq(Seq(Nat))
    BY <1>2
  <2> HIDE DEF x, y
  <2>5. FlattenSeq(x \o y) = FlattenSeq(x) \o FlattenSeq(y)
    BY <2>4, FlattenConcat
  <2>6. Fragments(t, Chunks(w \o c)) = x \o y
    BY <2>3 DEF x, y
  <2>7. EncodeEntry(<<t, w \o c>>) = FlattenSeq(Fragments(t, Chunks(w \o c)))
        /\ EncodeEntry(<<t, w>>) = FlattenSeq(Fragments(t, Chunks(w)))
        /\ EncodeEntry(<<t, c>>) = FlattenSeq(Fragments(t, Chunks(c)))
    BY <1>1
  <2>8. EncodeEntry(<<t, w>>) = FlattenSeq(x) /\ EncodeEntry(<<t, c>>) = FlattenSeq(y)
    BY <2>7 DEF x, y
  <2> QED BY <2>5, <2>6, <2>7, <2>8
<1> QED BY <1>3, <1>4, <1>5

\* The entries of a message, each as it is written.
WrittenEntries(m) == [k \in DOMAIN m |-> EncodeEntry(m[k])]

\* Every entry is written, in their order.
LEMMA WrittenEntriesIs ==
  ASSUME NEW s \in Seq(Entry), NEW u \in Seq(Entry)
  PROVE  /\ WrittenEntries(s) \in Seq(Seq(Nat))
         /\ WrittenEntries(s \o u) = WrittenEntries(s) \o WrittenEntries(u)
<1>1. ASSUME NEW x \in Seq(Entry)
      PROVE  /\ WrittenEntries(x) \in Seq(Seq(Nat)) /\ Len(WrittenEntries(x)) = Len(x)
             /\ \A k \in 1..Len(x) : WrittenEntries(x)[k] = EncodeEntry(x[k])
  <2>1. DOMAIN x = 1..Len(x) /\ Len(x) \in Nat
    OBVIOUS
  <2>2. ASSUME NEW k \in 1..Len(x) PROVE EncodeEntry(x[k]) \in Seq(Nat)
    <3>1. x[k] \in Entry
      OBVIOUS
    <3>2. x[k][1] \in Nat /\ x[k][2] \in Seq(Nat) /\ x[k] = <<x[k][1], x[k][2]>>
      BY <3>1 DEF Entry
    <3>3. EncodeEntry(<<x[k][1], x[k][2]>>) \in Seq(Nat)
      BY <3>2, EncodeEntryIs
    <3> QED BY <3>2, <3>3
  <2> DEFINE W(k) == EncodeEntry(x[k])
  <2> HIDE DEF W
  <2>3. WrittenEntries(x) = [k \in 1..Len(x) |-> W(k)]
    BY <2>1 DEF WrittenEntries, W
  <2>4. \A k \in 1..Len(x) : W(k) \in Seq(Nat)
    BY <2>2 DEF W
  <2>5. /\ WrittenEntries(x) \in Seq(Seq(Nat)) /\ Len(WrittenEntries(x)) = Len(x)
        /\ \A k \in 1..Len(x) : WrittenEntries(x)[k] = W(k)
    BY <2>1, <2>3, <2>4
  <2> QED BY <2>5 DEF W
<1> DEFINE a == WrittenEntries(s)
           b == WrittenEntries(u)
           c == WrittenEntries(s \o u)
<1>2. s \o u \in Seq(Entry) /\ Len(s \o u) = Len(s) + Len(u) /\ Len(s) \in Nat /\ Len(u) \in Nat
      /\ \A k \in 1..Len(s) + Len(u) : (s \o u)[k] = IF k <= Len(s) THEN s[k] ELSE u[k - Len(s)]
  BY ConcatProperties
<1>3. a \in Seq(Seq(Nat)) /\ Len(a) = Len(s) /\ \A k \in 1..Len(s) : a[k] = EncodeEntry(s[k])
  BY <1>1
<1>4. b \in Seq(Seq(Nat)) /\ Len(b) = Len(u) /\ \A k \in 1..Len(u) : b[k] = EncodeEntry(u[k])
  BY <1>1
<1>5. c \in Seq(Seq(Nat)) /\ Len(c) = Len(s) + Len(u)
      /\ \A k \in 1..Len(s) + Len(u) : c[k] = EncodeEntry((s \o u)[k])
  BY <1>1, <1>2
<1> HIDE DEF a, b, c
<1>6. \A k \in 1..Len(a) : c[k] = a[k]
  BY <1>2, <1>3, <1>5
<1>7. ASSUME NEW k \in 1..Len(b) PROVE c[Len(a) + k] = b[k]
  <2>1. Len(s) + k \in 1..Len(s) + Len(u) /\ ~ (Len(s) + k <= Len(s)) /\ (Len(s) + k) - Len(s) = k
    BY <1>2, <1>4
  <2>2. (s \o u)[Len(s) + k] = u[k]
    BY <1>2, <2>1
  <2> QED BY <1>3, <1>4, <1>5, <2>1, <2>2
<1>8. c = a \o b
  <2> DEFINE Y == Seq(Nat)
  <2>1. a \in Seq(Y) /\ b \in Seq(Y) /\ c \in Seq(Y) /\ Len(c) = Len(a) + Len(b)
    BY <1>3, <1>4, <1>5
  <2> HIDE DEF Y
  <2> QED BY ONLY <2>1, <1>6, <1>7, ConcatIs
<1> QED BY <1>3, <1>8 DEF a, b, c

\* A message is written entry by entry.
LEMMA EncodeIs ==
  ASSUME NEW s \in Seq(Entry)
  PROVE  /\ encode(s) \in Seq(Nat)
         /\ \A u \in Seq(Entry) : encode(s \o u) = encode(s) \o encode(u)
         /\ \A t \in Nat, v \in Seq(Nat) : encode(Append(s, <<t, v>>)) = encode(s) \o EncodeEntry(<<t, v>>)
<1>1. \A x : encode(x) = FlattenSeq(WrittenEntries(x))
  BY DEF encode, WrittenEntries
<1>2. encode(s) \in Seq(Nat)
  BY <1>1, WrittenEntriesIs, FlattenType
<1>3. ASSUME NEW u \in Seq(Entry) PROVE encode(s \o u) = encode(s) \o encode(u)
  <2> DEFINE x == WrittenEntries(s)
             y == WrittenEntries(u)
  <2>1. x \in Seq(Seq(Nat)) /\ y \in Seq(Seq(Nat)) /\ WrittenEntries(s \o u) = x \o y
    BY WrittenEntriesIs
  <2> HIDE DEF x, y
  <2>2. FlattenSeq(x \o y) = FlattenSeq(x) \o FlattenSeq(y)
    BY <2>1, FlattenConcat
  <2>3. encode(s \o u) = FlattenSeq(x \o y)
    BY <1>1, <2>1
  <2>4. encode(s) = FlattenSeq(x) /\ encode(u) = FlattenSeq(y)
    BY <1>1 DEF x, y
  <2> QED BY <2>2, <2>3, <2>4
<1>4. ASSUME NEW t \in Nat, NEW v \in Seq(Nat)
      PROVE  encode(Append(s, <<t, v>>)) = encode(s) \o EncodeEntry(<<t, v>>)
  <2> DEFINE x == <<t, v>>
  <2>1. x \in Entry
    BY DEF Entry
  <2>2. EncodeEntry(x) \in Seq(Nat)
    BY EncodeEntryIs
  <2> HIDE DEF x
  <2>3. <<x>> \in Seq(Entry) /\ Append(s, x) = s \o <<x>>
    BY <2>1
  <2>4. encode(s \o <<x>>) = encode(s) \o encode(<<x>>)
    BY <1>3, <2>3
  <2>5. encode(<<x>>) = EncodeEntry(x)
    <3> DEFINE y == EncodeEntry(x)
    <3>1. DOMAIN <<x>> = 1..1 /\ <<x>>[1] = x
      OBVIOUS
    <3>2. WrittenEntries(<<x>>) = [k \in 1..1 |-> y]
      BY <3>1 DEF WrittenEntries
    <3>3. y \in Seq(Nat)
      BY <2>2
    <3> HIDE DEF y
    <3>4. WrittenEntries(<<x>>) = <<y>>
      BY <3>2
    <3>5. FlattenSeq(<<y>>) = y
      BY <3>3, FlattenSingle
    <3> QED BY <1>1, <3>4, <3>5 DEF y
  <2> QED BY <2>3, <2>4, <2>5 DEF x
<1> QED BY <1>2, <1>3, <1>4

\* What decode has of a message while it reads: its first entries, and of the next one perhaps as many
\* whole chunks as are not yet all of it.
Half(m, k, j) == Append(SubSeq(m, 1, k), <<m[k + 1][1], SubSeq(m[k + 1][2], 1, j * MaxChunk)>>)

SoFar(e, m) ==
    \/ \E k \in 0..Len(m) : e = SubSeq(m, 1, k)
    \/ \E k \in 0..Len(m) - 1, j \in Nat \ {0} : j * MaxChunk < Len(m[k + 1][2]) /\ e = Half(m, k, j)

\* A message is its first entries, the next, and those behind.
LEMMA MessageParts ==
  ASSUME NEW m, Message(m), NEW k \in 0..Len(m) - 1
  PROVE  /\ SubSeq(m, 1, k) \in Seq(Entry) /\ SubSeq(m, 1, k + 1) \in Seq(Entry)
         /\ m[k + 1][1] \in Nat /\ m[k + 1][2] \in Seq(Nat)
         /\ SubSeq(m, 1, k + 1) = Append(SubSeq(m, 1, k), <<m[k + 1][1], m[k + 1][2]>>)
         /\ \A i \in DOMAIN SubSeq(m, 1, k) : SubSeq(m, 1, k)[i][1] # m[k + 1][1]
<1>1. m \in Seq(Entry) /\ Len(m) \in Nat /\ k + 1 \in 1..Len(m) /\ k \in Nat
  BY DEF Message
<1>2. m[k + 1] \in Entry
  BY <1>1
<1>3. m[k + 1][1] \in Nat /\ m[k + 1][2] \in Seq(Nat) /\ m[k + 1] = <<m[k + 1][1], m[k + 1][2]>>
  BY <1>2 DEF Entry
<1>4. SubSeq(m, 1, k) \in Seq(Entry) /\ Len(SubSeq(m, 1, k)) = k
      /\ \A i \in 1..k : SubSeq(m, 1, k)[i] = m[i]
  BY <1>1
<1>5. SubSeq(m, 1, k + 1) \in Seq(Entry)
  BY <1>1
<1>6. SubSeq(m, 1, k + 1) = Append(SubSeq(m, 1, k), m[k + 1])
  BY <1>1
<1>7. ASSUME NEW i \in DOMAIN SubSeq(m, 1, k) PROVE SubSeq(m, 1, k)[i][1] # m[k + 1][1]
  <2>1. i \in 1..k
    BY <1>4
  <2>2. i \in 1..Len(m) /\ i # k + 1 /\ SubSeq(m, 1, k)[i] = m[i]
    BY <1>1, <1>4, <2>1
  <2>3. m[i][1] # m[k + 1][1]
    BY <1>1, <2>2 DEF Message
  <2> QED BY <2>2, <2>3
<1> QED BY <1>3, <1>4, <1>5, <1>6, <1>7

\* What decode does with a tag it has not seen, and with the one it saw last.
LEMMA ExtendIs ==
  ASSUME NEW s \in Seq(Entry), NEW t \in Nat, NEW c \in Seq(Nat), \A i \in DOMAIN s : s[i][1] # t
  PROVE  /\ Extend(s, t, c) = Append(s, <<t, c>>)
         /\ \A w \in Seq(Nat) : Extend(Append(s, <<t, w>>), t, c) = Append(s, <<t, w \o c>>)
<1>1. Extend(s, t, c) = Append(s, <<t, c>>)
  BY DEF Extend
<1>2. ASSUME NEW w \in Seq(Nat) PROVE Extend(Append(s, <<t, w>>), t, c) = Append(s, <<t, w \o c>>)
  <2> DEFINE e == Append(s, <<t, w>>)
             y == <<t, w \o c>>
             l == Append(s, y)
             r == Extend(e, t, c)
             n == Len(s) + 1
  <2>1. <<t, w>> \in Entry /\ y \in Entry /\ Len(s) \in Nat /\ DOMAIN s = 1..Len(s)
    <3>1. w \o c \in Seq(Nat)
      OBVIOUS
    <3> DEFINE z == w \o c
    <3> HIDE DEF z
    <3>2. <<t, z>> \in Entry /\ <<t, w>> \in Entry
      BY <3>1 DEF Entry, z
    <3>3. y \in Entry
      BY <3>2 DEF z
    <3>4. Len(s) \in Nat /\ DOMAIN s = 1..Len(s)
      OBVIOUS
    <3> QED BY <3>2, <3>3, <3>4
  <2>2. DOMAIN e = 1..n /\ e[n] = <<t, w>> /\ \A i \in 1..Len(s) : e[i] = s[i]
    BY <2>1
  <2>3. l \in Seq(Entry) /\ Len(l) = n /\ l[n] = y /\ \A i \in 1..Len(s) : l[i] = s[i]
    <3> HIDE DEF y
    <3> QED BY <2>1
  <2> HIDE DEF e, l
  <2>4. r = [i \in 1..n |-> IF e[i][1] = t THEN <<t, e[i][2] \o c>> ELSE e[i]]
    <3>1. n \in DOMAIN e /\ e[n][1] = t
      BY <2>1, <2>2
    <3>2. r = [i \in DOMAIN e |-> IF e[i][1] = t THEN <<t, e[i][2] \o c>> ELSE e[i]]
      BY <3>1 DEF Extend
    <3> QED BY <3>2, <2>2
  <2> HIDE DEF r
  <2>5. ASSUME NEW i \in 1..n PROVE r[i] = l[i]
    <3>1. CASE i = n
      <4>1. e[n][1] = t /\ e[n][2] = w /\ n \in 1..n
        BY <2>1, <2>2
      <4>2. r[n] = <<t, e[n][2] \o c>>
        BY <4>1, <2>4
      <4> QED BY <3>1, <4>1, <4>2, <2>3
    <3>2. CASE i # n
      <4>1. i \in 1..Len(s)
        BY <3>2, <2>1
      <4>2. e[i] = s[i] /\ l[i] = s[i] /\ s[i][1] # t
        BY <4>1, <2>1, <2>2, <2>3
      <4>3. r[i] = IF e[i][1] = t THEN <<t, e[i][2] \o c>> ELSE e[i]
        BY <2>4
      <4> QED BY <4>2, <4>3
    <3> QED BY <3>1, <3>2
  <2>6. l = [i \in 1..n |-> l[i]]
    BY <2>3
  <2>7. DOMAIN r = 1..n /\ r = [i \in 1..n |-> r[i]]
    BY <2>4
  <2>8. r = l
    BY <2>5, <2>6, <2>7
  <2> QED BY <2>8 DEF r, e, l
<1> QED BY <1>1, <1>2

\* What is read so far is the beginning of what was written.
LEMMA SoFarIsWritten ==
  ASSUME NEW m, Message(m), NEW e, SoFar(e, m)
  PROVE  e \in Seq(Entry) /\ encode(e) \in Seq(Nat) /\ \E rest \in Seq(Nat) : encode(m) = encode(e) \o rest
<1>1. m \in Seq(Entry) /\ Len(m) \in Nat
  BY DEF Message
<1>2. ASSUME NEW k \in 0..Len(m)
      PROVE  /\ SubSeq(m, 1, k) \in Seq(Entry) /\ encode(SubSeq(m, 1, k)) \in Seq(Nat)
             /\ \E rest \in Seq(Nat) : encode(m) = encode(SubSeq(m, 1, k)) \o rest
  <2> DEFINE a == SubSeq(m, 1, k)
             b == SubSeq(m, k + 1, Len(m))
  <2>1. a \in Seq(Entry) /\ b \in Seq(Entry)
    BY <1>1
  <2>2. m = a \o b
    <3>1. 1 \in 1..Len(m) + 1 /\ k \in 1 - 1..Len(m) /\ Len(m) \in k..Len(m)
      BY <1>1
    <3>2. SubSeq(m, 1, k) \o SubSeq(m, k + 1, Len(m)) = SubSeq(m, 1, Len(m))
      BY <1>1, <3>1, ConcatAdjacentSubSeq
    <3>3. SubSeq(m, 1, Len(m)) = m
      BY <1>1, SubSeqFull
    <3> QED BY <3>2, <3>3
  <2> HIDE DEF a, b
  <2>3. encode(a \o b) = encode(a) \o encode(b) /\ encode(a) \in Seq(Nat) /\ encode(b) \in Seq(Nat)
    BY <2>1, EncodeIs
  <2>4. a \in Seq(Entry) /\ encode(a) \in Seq(Nat) /\ \E rest \in Seq(Nat) : encode(m) = encode(a) \o rest
    BY <2>1, <2>2, <2>3
  <2> QED BY <2>4 DEF a
<1>3. CASE \E k \in 0..Len(m) : e = SubSeq(m, 1, k)
  BY <1>2, <1>3
<1>4. CASE \E k \in 0..Len(m) - 1, j \in Nat \ {0} : j * MaxChunk < Len(m[k + 1][2]) /\ e = Half(m, k, j)
  <2>1. PICK k \in 0..Len(m) - 1, j \in Nat \ {0} : j * MaxChunk < Len(m[k + 1][2]) /\ e = Half(m, k, j)
    BY <1>4
  <2> DEFINE s == SubSeq(m, 1, k)
             t == m[k + 1][1]
             v == m[k + 1][2]
             n == j * MaxChunk
             w == SubSeq(v, 1, n)
             c == SubSeq(v, n + 1, Len(v))
  <2>2. s \in Seq(Entry) /\ t \in Nat /\ v \in Seq(Nat) /\ SubSeq(m, 1, k + 1) = Append(s, <<t, v>>)
        /\ e = Append(s, <<t, w>>)
    BY <2>1, MessageParts DEF Half
  <2>3. n \in Nat \ {0} /\ n < Len(v)
    BY <2>1, Tlv8Assumption
  <2> HIDE DEF n
  <2>4. w \in Seq(Nat) /\ c \in Seq(Nat) /\ Len(w) = n /\ Len(c) = Len(v) - n /\ Len(v) \in Nat
    <3> HIDE DEF v
    <3>1. Len(v) \in Nat
      BY <2>2
    <3>2. 1 \in 1..Len(v) + 1 /\ n \in 1 - 1..Len(v) /\ n - (1 - 1) = n
      BY <3>1, <2>3
    <3>3. n + 1 \in 1..Len(v) + 1 /\ Len(v) \in (n + 1) - 1..Len(v) /\ Len(v) - ((n + 1) - 1) = Len(v) - n
      BY <3>1, <2>3
    <3>4. w \in Seq(Nat) /\ Len(w) = n
      BY <2>2, <3>2, SliceIs
    <3>5. c \in Seq(Nat) /\ Len(c) = Len(v) - n
      BY <2>2, <3>3, SliceIs
    <3> QED BY <3>1, <3>4, <3>5
  <2>5. v = w \o c
    <3> HIDE DEF v
    <3>1. 1 \in 1..Len(v) + 1 /\ n \in 1 - 1..Len(v) /\ Len(v) \in n..Len(v)
      BY <2>2, <2>3
    <3>2. SubSeq(v, 1, n) \o SubSeq(v, n + 1, Len(v)) = SubSeq(v, 1, Len(v))
      BY <2>2, <3>1, ConcatAdjacentSubSeq
    <3>3. SubSeq(v, 1, Len(v)) = v
      BY <2>2, SubSeqFull
    <3> QED BY <3>2, <3>3
  <2>6. c # <<>> /\ Len(w) = j * MaxChunk
    <3> HIDE DEF v, c, w
    <3>1. Len(v) \in Nat /\ Len(c) # 0
      BY <2>3, <2>4
    <3> QED BY <3>1, <2>4 DEF n
  <2>7. k + 1 \in 0..Len(m)
    BY <1>1
  <2> HIDE DEF s, t, v, c, w
  <2>8. EncodeEntry(<<t, v>>) = EncodeEntry(<<t, w>>) \o EncodeEntry(<<t, c>>)
    <3>1. EncodeEntry(<<t, w \o c>>) = EncodeEntry(<<t, w>>) \o EncodeEntry(<<t, c>>)
      <4>1. t \in Nat /\ w \in Seq(Nat) /\ c \in Seq(Nat) /\ Len(w) = j * MaxChunk /\ c # <<>> /\ j \in Nat \ {0}
        BY <2>2, <2>4, <2>6
      <4> QED BY ONLY <4>1, EncodeEntryIs
    <3> QED BY <2>5, <3>1
  <2>9. EncodeEntry(<<t, w>>) \in Seq(Nat) /\ EncodeEntry(<<t, c>>) \in Seq(Nat) /\ encode(s) \in Seq(Nat)
    BY <2>2, <2>4, EncodeEntryIs, EncodeIs
  <2>10. encode(e) = encode(s) \o EncodeEntry(<<t, w>>)
         /\ encode(Append(s, <<t, v>>)) = encode(s) \o EncodeEntry(<<t, v>>)
    BY <2>2, <2>4, EncodeIs
  <2>11. PICK rest \in Seq(Nat) : encode(m) = encode(Append(s, <<t, v>>)) \o rest
    BY <1>2, <2>2, <2>7
  <2> DEFINE x == encode(s)
             y == EncodeEntry(<<t, w>>)
             z == EncodeEntry(<<t, c>>)
  <2>12. x \in Seq(Nat) /\ y \in Seq(Nat) /\ z \in Seq(Nat) /\ encode(m) = (x \o (y \o z)) \o rest
         /\ encode(e) = x \o y
    BY <2>8, <2>9, <2>10, <2>11
  <2> HIDE DEF x, y, z
  <2>13. (x \o (y \o z)) \o rest = (x \o y) \o (z \o rest) /\ z \o rest \in Seq(Nat) /\ x \o y \in Seq(Nat)
    <3>1. x \in Seq(Nat) /\ y \in Seq(Nat) /\ z \in Seq(Nat) /\ rest \in Seq(Nat)
      BY <2>12
    <3>2. y \o z \in Seq(Nat) /\ z \o rest \in Seq(Nat) /\ x \o y \in Seq(Nat)
      BY ONLY <3>1
    <3> DEFINE u == z \o rest
               q == y \o z
    <3>3. u \in Seq(Nat) /\ q \in Seq(Nat) /\ q \o rest = y \o u
      BY ONLY <3>1, <3>2
    <3> HIDE DEF u, q
    <3>4. (x \o y) \o u = x \o (y \o u) /\ (x \o q) \o rest = x \o (q \o rest)
      <4>1. x \in Seq(Nat) /\ y \in Seq(Nat) /\ u \in Seq(Nat)
        BY <3>1, <3>3
      <4>2. x \in Seq(Nat) /\ q \in Seq(Nat) /\ rest \in Seq(Nat)
        BY <3>1, <3>3
      <4>3. (x \o y) \o u = x \o (y \o u)
        BY ONLY SMTT(60), <4>1
      <4>4. (x \o q) \o rest = x \o (q \o rest)
        BY ONLY SMTT(60), <4>2
      <4> QED BY <4>3, <4>4
    <3>5. (x \o q) \o rest = (x \o y) \o u
      BY ONLY <3>3, <3>4
    <3> QED BY <3>2, <3>5 DEF u, q
  <2>14. <<t, w>> \in Entry
    BY <2>2, <2>4 DEF Entry
  <2>15. e \in Seq(Entry)
    BY <2>2, <2>14
  <2> QED BY <2>12, <2>13, <2>15
<1> QED BY <1>3, <1>4 DEF SoFar

\* The chunk c of the tag t is next.
IsNext(e, m, t, c) ==
    /\ Len(c) <= MaxChunk
    /\ SoFar(Extend(e, t, c), m)
    /\ encode(Extend(e, t, c)) = encode(e) \o Fragment(t, c)

\* Unless all of it is read there is a chunk next: it is no longer than an entry can be, and with it decode
\* has as much of the message as the bytes up to its end hold.
LEMMA ReadOn ==
  ASSUME NEW m, Message(m), NEW e, SoFar(e, m), e # m
  PROVE  \E t \in Nat, c \in Seq(Nat) : IsNext(e, m, t, c)
<1>1. m \in Seq(Entry) /\ Len(m) \in Nat /\ MaxChunk \in Nat \ {0}
  BY Tlv8Assumption DEF Message
<1>2. CASE \E k \in 0..Len(m) : e = SubSeq(m, 1, k)
  <2>1. PICK k \in 0..Len(m) : e = SubSeq(m, 1, k)
    BY <1>2
  <2>2. k \in 0..Len(m) - 1
    <3>1. k # Len(m)
      BY <2>1, <1>1, SubSeqFull
    <3> QED BY <3>1, <1>1
  <2> DEFINE t == m[k + 1][1]
             v == m[k + 1][2]
  <2>3. e \in Seq(Entry) /\ t \in Nat /\ v \in Seq(Nat) /\ SubSeq(m, 1, k + 1) = Append(e, <<t, v>>)
        /\ \A i \in DOMAIN e : e[i][1] # t
    BY <2>1, <2>2, MessageParts
  <2>4. \A c \in Seq(Nat) : Extend(e, t, c) = Append(e, <<t, c>>)
    BY <2>3, ExtendIs
  <2>5. \A c \in Seq(Nat) : Len(c) <= MaxChunk => encode(Extend(e, t, c)) = encode(e) \o Fragment(t, c)
    <3> HIDE DEF t, v
    <3> SUFFICES ASSUME NEW c \in Seq(Nat), Len(c) <= MaxChunk
                 PROVE  encode(Extend(e, t, c)) = encode(e) \o Fragment(t, c)
      OBVIOUS
    <3>1. encode(Append(e, <<t, c>>)) = encode(e) \o EncodeEntry(<<t, c>>)
      BY <2>3, EncodeIs
    <3>2. EncodeEntry(<<t, c>>) = Fragment(t, c)
      BY <2>3, EncodeEntryIs
    <3> QED BY <2>4, <3>1, <3>2
  <2>6. CASE Len(v) <= MaxChunk
    <3>1. k + 1 \in 0..Len(m)
      BY <2>2, <1>1
    <3>2. SoFar(Extend(e, t, v), m)
      <4> HIDE DEF t, v
      <4> QED BY <2>3, <2>4, <3>1 DEF SoFar
    <3> HIDE DEF t, v
    <3> QED BY <2>3, <2>5, <2>6, <3>2 DEF IsNext
  <2>7. CASE ~ (Len(v) <= MaxChunk)
    <3> DEFINE c == SubSeq(v, 1, 1 * MaxChunk)
    <3>1. 1 * MaxChunk = MaxChunk /\ 1 \in Nat \ {0} /\ 1 * MaxChunk < Len(v)
      <4>1. Len(v) \in Nat
        BY <2>3
      <4> HIDE DEF v
      <4> QED BY <4>1, <1>1, <2>7
    <3>2. c \in Seq(Nat) /\ Len(c) <= MaxChunk
      <4> HIDE DEF v
      <4> QED BY <1>1, <2>3, <3>1
    <3>3. Append(e, <<t, c>>) = Half(m, k, 1)
      BY <2>1 DEF Half
    <3>4. SoFar(Extend(e, t, c), m)
      <4>1. Extend(e, t, c) = Half(m, k, 1)
        BY <2>4, <3>2, <3>3
      <4> HIDE DEF c
      <4> QED BY <2>2, <3>1, <4>1 DEF SoFar
    <3> HIDE DEF t, v, c
    <3> QED BY <2>3, <2>5, <3>2, <3>4 DEF IsNext
  <2> QED BY <2>6, <2>7
<1>3. CASE \E k \in 0..Len(m) - 1, j \in Nat \ {0} : j * MaxChunk < Len(m[k + 1][2]) /\ e = Half(m, k, j)
  <2>1. PICK k \in 0..Len(m) - 1, j \in Nat \ {0} : j * MaxChunk < Len(m[k + 1][2]) /\ e = Half(m, k, j)
    BY <1>3
  <2> DEFINE s == SubSeq(m, 1, k)
             t == m[k + 1][1]
             v == m[k + 1][2]
             n == j * MaxChunk
             w == SubSeq(v, 1, n)
             b == IF n + MaxChunk < Len(v) THEN n + MaxChunk ELSE Len(v)
             c == SubSeq(v, n + 1, b)
  <2>2. s \in Seq(Entry) /\ t \in Nat /\ v \in Seq(Nat) /\ SubSeq(m, 1, k + 1) = Append(s, <<t, v>>)
        /\ e = Append(s, <<t, w>>) /\ \A i \in DOMAIN s : s[i][1] # t
    BY <2>1, MessageParts DEF Half
  <2>3. n \in Nat \ {0} /\ n < Len(v) /\ Len(v) \in Nat /\ (j + 1) * MaxChunk = n + MaxChunk
    <3>1. Len(v) \in Nat
      BY <2>2
    <3> HIDE DEF v
    <3> QED BY <2>1, <1>1, <3>1 DEF v
  <2> HIDE DEF n, v
  <2>4. b \in n + 1..Len(v) /\ b <= n + MaxChunk
    BY <2>3, <1>1
  <2> HIDE DEF b
  <2>5. w \in Seq(Nat) /\ c \in Seq(Nat) /\ Len(w) = n /\ Len(c) = b - n
    <3>1. 1 \in 1..Len(v) + 1 /\ n \in 1 - 1..Len(v) /\ n - (1 - 1) = n
      BY <2>3
    <3>2. n + 1 \in 1..Len(v) + 1 /\ b \in (n + 1) - 1..Len(v) /\ b - ((n + 1) - 1) = b - n
      BY <2>3, <2>4
    <3>3. w \in Seq(Nat) /\ Len(w) = n
      BY <2>2, <3>1, SliceIs
    <3>4. c \in Seq(Nat) /\ Len(c) = b - n
      BY <2>2, <3>2, SliceIs
    <3> QED BY <3>3, <3>4
  <2>6. w \o c = SubSeq(v, 1, b)
    <3>1. 1 \in 1..Len(v) + 1 /\ n \in 1 - 1..Len(v) /\ b \in n..Len(v)
      BY <2>3, <2>4
    <3> QED BY <2>2, <3>1, ConcatAdjacentSubSeq
  <2>7. Extend(e, t, c) = Append(s, <<t, w \o c>>)
    <3> HIDE DEF s, t, c, w
    <3> QED BY <2>2, <2>5, ExtendIs
  <2>8. c # <<>> /\ Len(c) <= MaxChunk /\ Len(w) = j * MaxChunk
    <3> HIDE DEF c, w
    <3>1. Len(c) # 0 /\ Len(c) <= MaxChunk
      BY <2>3, <2>4, <2>5, <1>1
    <3> QED BY <3>1, <2>5 DEF n
  <2>9. encode(Extend(e, t, c)) = encode(e) \o Fragment(t, c)
    <3> HIDE DEF s, t, c, w
    <3> DEFINE x == encode(s)
               y == EncodeEntry(<<t, w>>)
               z == Fragment(t, c)
    <3>1. x \in Seq(Nat) /\ y \in Seq(Nat) /\ z \in Seq(Nat)
      BY <2>2, <2>5, EncodeIs, EncodeEntryIs, WrittenIs
    <3>2. EncodeEntry(<<t, c>>) = z
      BY <2>2, <2>5, <2>8, EncodeEntryIs
    <3>3. EncodeEntry(<<t, w \o c>>) = y \o z
      <4>1. EncodeEntry(<<t, w \o c>>) = EncodeEntry(<<t, w>>) \o EncodeEntry(<<t, c>>)
        BY <2>2, <2>5, <2>8, EncodeEntryIs
      <4> QED BY <4>1, <3>2
    <3>4. w \o c \in Seq(Nat)
      BY <2>5
    <3>5. encode(Append(s, <<t, w \o c>>)) = x \o (y \o z)
      <4> DEFINE u == w \o c
      <4>1. u \in Seq(Nat) /\ EncodeEntry(<<t, u>>) = y \o z
        BY <3>3, <3>4
      <4> HIDE DEF u
      <4>2. encode(Append(s, <<t, u>>)) = encode(s) \o EncodeEntry(<<t, u>>)
        BY <2>2, <4>1, EncodeIs
      <4>3. encode(Append(s, <<t, u>>)) = x \o (y \o z)
        BY <4>1, <4>2
      <4> QED BY <4>3 DEF u
    <3>6. encode(e) = x \o y
      BY <2>2, <2>5, EncodeIs
    <3> HIDE DEF x, y, z
    <3>7. x \o (y \o z) = (x \o y) \o z
      BY ONLY SMTT(60), <3>1
    <3>8. encode(Extend(e, t, c)) = (x \o y) \o z
      BY <2>7, <3>5, <3>7
    <3> QED BY <3>6, <3>8 DEF z
  <2>10. SoFar(Extend(e, t, c), m)
    <3>1. CASE n + MaxChunk < Len(v)
      <4>1. b = (j + 1) * MaxChunk /\ j + 1 \in Nat \ {0} /\ (j + 1) * MaxChunk < Len(v)
        BY <2>3, <3>1 DEF b
      <4>2. Extend(e, t, c) = Half(m, k, j + 1)
        <5>1. w \o c = SubSeq(m[k + 1][2], 1, (j + 1) * MaxChunk)
          BY <2>6, <4>1 DEF v
        <5> HIDE DEF c, w
        <5> QED BY <2>7, <5>1 DEF Half
      <4>3. (j + 1) * MaxChunk < Len(m[k + 1][2])
        BY <4>1 DEF v
      <4> HIDE DEF c, t
      <4> QED BY <4>1, <4>2, <4>3 DEF SoFar
    <3>2. CASE ~ (n + MaxChunk < Len(v))
      <4>1. w \o c = v
        BY <2>2, <2>6, <3>2, SubSeqFull DEF b
      <4> HIDE DEF c, w
      <4>2. Extend(e, t, c) = SubSeq(m, 1, k + 1)
        BY <2>2, <2>7, <4>1
      <4>3. k + 1 \in 0..Len(m)
        BY <1>1
      <4> HIDE DEF t
      <4> QED BY <4>2, <4>3 DEF SoFar
    <3> QED BY <3>1, <3>2
  <2> HIDE DEF t, c
  <2> QED BY <2>2, <2>5, <2>8, <2>9, <2>10 DEF IsNext
<1> QED BY <1>2, <1>3 DEF SoFar

\* What decode finds of a chunk c behind the bytes x, in the first n bytes of wire: the tag, the length if it
\* arrived, and then, if that arrived too, all of c.
ReadsThere(wire, n, at, x, t, c) ==
    /\ Len(x \o Fragment(t, c)) = at + 1 + Len(c)
    /\ at + 1 + Len(c) <= Len(wire)
    /\ SubSeq(wire, 1, n)[at] = t
    /\ at + 1 <= n => SubSeq(wire, 1, n)[at + 1] = Len(c)
    /\ at + 1 + Len(c) <= n => SubSeq(SubSeq(wire, 1, n), at + 2, at + 1 + Len(c)) = c

\* A chunk that was written is found where it was written.
LEMMA NextInWire ==
  ASSUME NEW x \in Seq(Nat), NEW t \in Nat, NEW c \in Seq(Nat), NEW rest \in Seq(Nat), NEW wire,
         wire = (x \o Fragment(t, c)) \o rest, NEW n \in 0..Len(wire), NEW at, at = Len(x) + 1, at <= n
  PROVE  ReadsThere(wire, n, at, x, t, c)
<1> DEFINE h == Fragment(t, c)
           a == x \o h
           l == Len(x)
           y == Len(c)
           z == Len(rest)
           in == SubSeq(wire, 1, n)
<1>1. h \in Seq(Nat) /\ Len(h) = y + 2 /\ h[1] = t /\ h[2] = y /\ SubSeq(h, 3, y + 2) = c
  BY WrittenIs
<1>2. l \in Nat /\ y \in Nat /\ z \in Nat
  OBVIOUS
<1> HIDE DEF h
<1>3. a \in Seq(Nat) /\ Len(a) = l + (y + 2)
      /\ \A k \in 1..l + (y + 2) : a[k] = IF k <= l THEN x[k] ELSE h[k - l]
  <2>1. a \in Seq(Nat) /\ Len(a) = Len(x) + Len(h)
        /\ \A k \in 1..Len(x) + Len(h) : a[k] = IF k <= Len(x) THEN x[k] ELSE h[k - Len(x)]
    <3>1. x \in Seq(Nat) /\ h \in Seq(Nat)
      BY <1>1
    <3> QED BY ONLY <3>1, ConcatProperties
  <2> HIDE DEF a
  <2> QED BY <2>1, <1>1
<1>4. wire = a \o rest
  BY DEF h
<1>5. wire \in Seq(Nat) /\ Len(wire) = Len(a) + z /\ \A k \in 1..Len(a) : wire[k] = a[k]
  <2> HIDE DEF a
  <2>1. a \o rest \in Seq(Nat) /\ Len(a \o rest) = Len(a) + Len(rest)
        /\ \A k \in 1..Len(a) + Len(rest) : (a \o rest)[k] = IF k <= Len(a) THEN a[k] ELSE rest[k - Len(a)]
    BY <1>3, ConcatProperties
  <2>2. Len(a) \in Nat /\ \A k \in 1..Len(a) : k \in 1..Len(a) + z
    BY <1>3, <1>2
  <2> QED BY <1>4, <2>1, <2>2
<1>6. in \in Seq(Nat) /\ Len(in) = n /\ \A k \in 1..n : in[k] = wire[k]
  <2>1. n \in 0..Len(wire) /\ wire \in Seq(Nat)
    BY <1>5
  <2> HIDE DEF a
  <2> QED BY ONLY <2>1 DEF in
<1>7. at \in 1..n /\ n \in Nat /\ at = l + 1
  BY <1>2
<1>8. n <= l + (y + 2) + z
  BY <1>3, <1>5
<1>9. SubSeq(a, l + 3, l + (y + 2)) = c
  <2>1. CASE y = 0
    <3>1. SubSeq(a, l + 3, l + (y + 2)) = <<>>
      <4>1. l + 3 \in Int /\ l + (y + 2) \in Int /\ l + (y + 2) < l + 3
        BY <2>1, <1>2
      <4> HIDE DEF l, y, a
      <4> QED BY <4>1, SubSeqEmpty
    <3> QED BY <2>1, <3>1
  <2>2. CASE y # 0
    <3>1. l + 3 \in Len(x) + 1..Len(x) + Len(h) /\ l + (y + 2) \in Len(x) + 1..Len(x) + Len(h)
          /\ (l + 3) - Len(x) = 3 /\ (l + (y + 2)) - Len(x) = y + 2
      BY SMTT(60), <1>1, <1>2, <2>2
    <3>2. SubSeq(x \o h, l + 3, l + (y + 2)) = SubSeq(h, (l + 3) - Len(x), (l + (y + 2)) - Len(x))
      <4> DEFINE p == l + 3
                 q == l + (y + 2)
      <4>1. x \in Seq(Nat) /\ h \in Seq(Nat) /\ p \in Len(x) + 1..Len(x) + Len(h) /\ q \in Len(x) + 1..Len(x) + Len(h)
        BY <1>1, <3>1
      <4> HIDE DEF p, q
      <4>2. SubSeq(x \o h, p, q) = SubSeq(h, p - Len(x), q - Len(x))
        BY ONLY <4>1, SubSeqOfConcat2
      <4> QED BY <4>2 DEF p, q
    <3> QED BY <1>1, <3>1, <3>2
  <2> QED BY <2>1, <2>2
<1> HIDE DEF in, a, l, y, z
<1>10. in[at] = t
  <2>1. l + 1 \in 1..l + (y + 2) /\ ~ (l + 1 <= l) /\ (l + 1) - l = 1
    BY <1>2
  <2>2. a[l + 1] = h[1] /\ wire[l + 1] = a[l + 1]
    BY <1>3, <1>5, <2>1
  <2> QED BY <1>1, <1>6, <1>7, <2>2
<1>11. at + 1 <= n => in[at + 1] = y
  <2>1. l + 2 \in 1..l + (y + 2) /\ ~ (l + 2 <= l) /\ (l + 2) - l = 2 /\ at + 1 = l + 2
    BY <1>2, <1>7
  <2>2. a[l + 2] = h[2] /\ wire[l + 2] = a[l + 2]
    BY <1>3, <1>5, <2>1
  <2>3. at + 1 <= n => at + 1 \in 1..n
    BY <1>7
  <2> QED BY <1>1, <1>6, <2>1, <2>2, <2>3
<1>12. at + 1 + y = l + (y + 2) /\ at + 2 = l + 3 /\ at + 1 + y <= Len(wire)
  BY ONLY <1>2, <1>3, <1>5, <1>7
<1>13. ASSUME at + 1 + y <= n PROVE SubSeq(in, at + 2, at + 1 + y) = c
  <2>1. CASE y = 0
    <3>1. at + 2 \in Int /\ at + 1 + y \in Int /\ at + 1 + y < at + 2
      BY <2>1, <1>7
    <3>2. SubSeq(in, at + 2, at + 1 + y) = <<>>
      BY <3>1, SubSeqEmpty
    <3> QED BY <2>1, <3>2 DEF y
  <2>2. CASE y # 0
    <3> DEFINE p == at + 2
               q == at + 1 + y
               late == SubSeq(wire, n + 1, Len(wire))
    <3>1. p \in 1..n /\ q \in 1..n /\ p \in 1..l + (y + 2) /\ q \in 1..l + (y + 2)
      BY ONLY <1>2, <1>7, <1>12, <1>13, <2>2
    <3>2. p \in 1..Len(in) /\ q \in 1..Len(in) /\ p \in 1..Len(a) /\ q \in 1..Len(a)
      BY <1>3, <1>6, <3>1
    <3> HIDE DEF p, q
    <3>3. late \in Seq(Nat) /\ wire = in \o late
      <4>1. 1 \in 1..Len(wire) + 1 /\ n \in 1 - 1..Len(wire) /\ Len(wire) \in n..Len(wire)
            /\ n + 1 \in 1..Len(wire) + 1 /\ Len(wire) \in (n + 1) - 1..Len(wire)
        BY <1>5
      <4>2. SubSeq(wire, 1, n) \o SubSeq(wire, n + 1, Len(wire)) = SubSeq(wire, 1, Len(wire))
        BY <1>5, <4>1, ConcatAdjacentSubSeq
      <4>3. SubSeq(wire, 1, Len(wire)) = wire
        BY <1>5, SubSeqFull
      <4>4. late \in Seq(Nat)
        BY <1>5, <4>1, SliceIs
      <4> QED BY <4>2, <4>3, <4>4 DEF in
    <3> HIDE DEF late
    <3>4. SubSeq(in \o late, p, q) = SubSeq(in, p, q)
      BY ONLY <1>6, <3>2, <3>3, SubSeqOfConcat1
    <3>5. SubSeq(a \o rest, p, q) = SubSeq(a, p, q)
      BY ONLY <1>3, <3>2, SubSeqOfConcat1, rest \in Seq(Nat)
    <3>6. SubSeq(a, p, q) = c
      BY <1>9, <1>12 DEF p, q
    <3>7. SubSeq(in, p, q) = c
      BY <1>4, <3>3, <3>4, <3>5, <3>6
    <3> QED BY <3>7 DEF p, q
  <2> QED BY <2>1, <2>2
<1>14. Len(a) = at + 1 + y
  BY <1>3, <1>12
<1>15. Len(a) = Len(x \o Fragment(t, c))
  BY DEF a, h
<1> QED BY <1>10, <1>11, <1>12, <1>13, <1>14, <1>15 DEF in, y, ReadsThere

\* What decode starts with.
NothingRead == [ok |-> TRUE, at |-> 1, entries |-> <<>>]

\* What decode has read of the first n bytes of a message m: as much of the message as ends where it goes on,
\* and a place more with every turn until nothing is left; of all the bytes it refuses nothing.
ReadRight(d, m, n, i) ==
    /\ n = Len(encode(m)) => d.ok
    /\ d.ok => /\ SoFar(d.entries, m)
               /\ d.at = Len(encode(d.entries)) + 1
               /\ d.at <= n + 1
               /\ i < d.at \/ d.at = n + 1

\* At the beginning nothing is read, and nothing is to be.
LEMMA ReadsNothing ==
  ASSUME NEW m, Message(m), NEW n \in 0..Len(encode(m))
  PROVE  ReadRight(NothingRead, m, n, 0)
<1>1. m \in Seq(Entry) /\ Len(m) \in Nat
  BY DEF Message
<1>2. SubSeq(m, 1, 0) = <<>> /\ 0 \in 0..Len(m)
  BY <1>1
<1>3. SoFar(<<>>, m)
  BY <1>2 DEF SoFar
<1>4. encode(<<>>) = <<>>
  <2>1. WrittenEntries(<<>>) = <<>>
    BY DEF WrittenEntries
  <2>2. encode(<<>>) = FlattenSeq(WrittenEntries(<<>>))
    BY DEF encode, WrittenEntries
  <2> QED BY <2>1, <2>2 DEF FlattenSeq
<1>5. encode(m) \in Seq(Nat)
  BY <1>1, EncodeIs
<1>6. NothingRead.ok /\ NothingRead.at = 1 /\ NothingRead.entries = <<>> /\ Len(encode(<<>>)) = 0
      /\ 1 <= n + 1 /\ 0 < 1
  BY <1>4, <1>5 DEF NothingRead
<1> QED BY <1>3, <1>6 DEF ReadRight

\* A turn of decode's loop reads the next chunk; only what is cut off within it is refused.
LEMMA ReadsNext ==
  ASSUME NEW m, Message(m), NEW n \in 0..Len(encode(m)), NEW i \in Nat, NEW d, ReadRight(d, m, n, i)
  PROVE  ReadRight(DecodeEntry(SubSeq(encode(m), 1, n), d), m, n, i + 1)
<1> DEFINE wire == encode(m)
           in == SubSeq(wire, 1, n)
           e == d.entries
<1>1. m \in Seq(Entry) /\ wire \in Seq(Nat) /\ Len(wire) \in Nat
  BY EncodeIs DEF Message
<1>2. in \in Seq(Nat) /\ Len(in) = n /\ \A k \in 1..n : in[k] = wire[k]
  BY <1>1
<1> HIDE DEF wire, in, e
<1>3. n \in 0..Len(wire) /\ n \in Nat
  BY <1>1 DEF wire
<1> SUFFICES ReadRight(DecodeEntry(in, d), m, n, i + 1)
  BY DEF in, wire
<1>4. CASE ~ d.ok
  BY <1>4 DEF DecodeEntry, ReadRight
<1>5. CASE d.ok
  <2>1. SoFar(e, m) /\ d.at = Len(encode(e)) + 1 /\ d.at <= n + 1 /\ (i < d.at \/ d.at = n + 1)
    BY <1>5 DEF ReadRight, e
  <2>2. e \in Seq(Entry) /\ encode(e) \in Seq(Nat) /\ Len(encode(e)) \in Nat
    BY <2>1, SoFarIsWritten
  <2>3. CASE d.at = n + 1
    <3>1. DecodeEntry(in, d) = d
      BY <1>2, <1>3, <2>3 DEF DecodeEntry
    <3> QED BY <2>1, <2>3, <1>5, <3>1 DEF ReadRight, e
  <2>4. CASE d.at # n + 1
    <3>1. d.at \in 1..n /\ i < d.at /\ Len(encode(e)) < Len(wire)
      BY <2>1, <2>2, <2>4, <1>3
    <3>2. e # m
      BY <3>1 DEF wire
    <3>3. PICK t \in Nat, c \in Seq(Nat) : IsNext(e, m, t, c)
      BY <2>1, <3>2, ReadOn
    <3> DEFINE x == encode(e)
               f == Extend(e, t, c)
               end == d.at + 1 + Len(c)
    <3>4. PICK rest \in Seq(Nat) : wire = encode(f) \o rest
      BY <3>3, SoFarIsWritten DEF wire, IsNext
    <3>5. encode(f) = x \o Fragment(t, c) /\ SoFar(f, m) /\ x \in Seq(Nat) /\ d.at = Len(x) + 1 /\ d.at <= n
      BY <2>1, <2>2, <3>1, <3>3 DEF IsNext
    <3>6. wire = (x \o Fragment(t, c)) \o rest
      BY <3>4, <3>5
    <3> HIDE DEF x, f
    <3>7. /\ Len(x \o Fragment(t, c)) = end /\ end <= Len(wire)
          /\ in[d.at] = t /\ (d.at + 1 <= n => in[d.at + 1] = Len(c))
          /\ end <= n => SubSeq(in, d.at + 2, end) = c
      <4> DEFINE at == d.at
      <4>1. at = Len(x) + 1 /\ at <= n /\ x \in Seq(Nat) /\ n \in 0..Len(wire)
        BY <1>3, <3>5
      <4> HIDE DEF at
      <4>2. ReadsThere(wire, n, at, x, t, c)
        BY ONLY <3>6, <4>1, NextInWire, t \in Nat, c \in Seq(Nat), rest \in Seq(Nat)
      <4> QED BY <4>2 DEF in, at, ReadsThere
    <3>8. d.at \in Nat /\ d.at >= 1 /\ Len(c) \in Nat /\ i < d.at /\ d.at <= n
      BY <3>1, <1>3
    <3>9. end \in Nat /\ end = d.at + 1 + Len(c)
      BY <3>8
    <3> HIDE DEF end
    <3>10. CASE end > n
      <4>1. n < Len(wire)
        BY ONLY <3>7, <3>9, <3>10, <1>3, <1>1
      <4>2. DecodeEntry(in, d) = [d EXCEPT !.ok = FALSE]
        <5>1. ~ (~ d.ok \/ d.at > Len(in))
          BY <1>2, <1>5, <3>1
        <5>2. d.at = Len(in) \/ d.at + 1 + in[d.at + 1] > Len(in)
          <6>1. CASE d.at = n
            BY <6>1, <1>2
          <6>2. CASE d.at # n
            <7>1. d.at + 1 <= n
              BY ONLY <6>2, <3>8, <1>3
            <7> QED BY <7>1, <1>2, <3>7, <3>9, <3>10
          <6> QED BY <6>1, <6>2
        <5> QED BY <5>1, <5>2, Zenon DEF DecodeEntry
      <4>3. ~ [d EXCEPT !.ok = FALSE].ok
        <5>1. CASE "ok" \in DOMAIN d
          BY <5>1
        <5>2. CASE ~ ("ok" \in DOMAIN d)
          BY <5>2
        <5> QED BY <5>1, <5>2
      <4> QED BY <4>1, <4>2, <4>3 DEF ReadRight, wire
    <3>11. CASE ~ (end > n)
      <4>1. end <= n /\ d.at + 1 <= n
        BY ONLY <3>8, <3>9, <3>11, <1>3
      <4>2. in[d.at] = t /\ in[d.at + 1] = Len(c) /\ SubSeq(in, d.at + 2, end) = c
        BY <3>7, <4>1
      <4>3. d.at + 1 + in[d.at + 1] = end
        BY <4>2, <3>9
      <4>4. ~ (~ d.ok \/ d.at > Len(in)) /\ ~ (d.at = Len(in) \/ d.at + 1 + in[d.at + 1] > Len(in))
        <5>1. ~ (d.at > n) /\ ~ (d.at = n \/ end > n)
          <6> DEFINE p == d.at
          <6>1. p \in Nat /\ p + 1 <= n /\ end <= n
            BY <3>8, <4>1
          <6> HIDE DEF p
          <6>2. ~ (p > n) /\ ~ (p = n) /\ ~ (end > n)
            BY ONLY <6>1, <1>3, <3>9
          <6> QED BY <6>2 DEF p
        <5> QED BY <1>2, <1>5, <4>3, <5>1
      <4>5. DecodeEntry(in, d) = [ok |-> TRUE, at |-> end + 1, entries |-> f]
        <5>1. DecodeEntry(in, d) = [ok |-> TRUE, at |-> end + 1,
                                    entries |-> Extend(d.entries, in[d.at], SubSeq(in, d.at + 2, end))]
          BY <4>3, <4>4, Zenon DEF DecodeEntry
        <5> QED BY <5>1, <4>2 DEF f, e
      <4>6. end + 1 <= n + 1 /\ i + 1 < end + 1 /\ Len(encode(f)) = end
        <5>1. end + 1 <= n + 1 /\ i + 1 < end + 1
          BY ONLY <3>8, <3>9, <4>1, <1>3, i \in Nat
        <5> QED BY <5>1, <3>5, <3>7
      <4> DEFINE g == [ok |-> TRUE, at |-> end + 1, entries |-> f]
      <4>7. g.ok /\ g.at = end + 1 /\ g.entries = f
        OBVIOUS
      <4> HIDE DEF g
      <4>8. ReadRight(g, m, n, i + 1)
        BY <4>6, <4>7, <3>5 DEF ReadRight
      <4> QED BY <4>5, <4>8 DEF g
    <3> QED BY <3>10, <3>11
  <2> QED BY <2>3, <2>4
<1> QED BY <1>4, <1>5

\* What the loop of decode keeps: whether it goes on, where, and the entries.
Reading == [ok : BOOLEAN, at : Nat \ {0}, entries : Seq(Entry)]

\* Reading on keeps entries entries.
LEMMA ExtendType ==
  ASSUME NEW e \in Seq(Entry), NEW t \in Nat, NEW c \in Seq(Nat)
  PROVE  Extend(e, t, c) \in Seq(Entry)
<1>1. DOMAIN e = 1..Len(e) /\ Len(e) \in Nat /\ \A k \in 1..Len(e) : e[k] \in Entry
  OBVIOUS
<1>2. \A v \in Seq(Nat) : <<t, v>> \in Entry
  BY DEF Entry
<1>3. CASE \E k \in DOMAIN e : e[k][1] = t
  <2> DEFINE g(k) == IF e[k][1] = t THEN <<t, e[k][2] \o c>> ELSE e[k]
  <2>1. Extend(e, t, c) = [k \in 1..Len(e) |-> g(k)]
    BY <1>1, <1>3 DEF Extend
  <2>2. ASSUME NEW k \in 1..Len(e) PROVE g(k) \in Entry
    <3>1. e[k][2] \in Seq(Nat)
      BY <1>1 DEF Entry
    <3> DEFINE v == e[k][2]
    <3>2. v \o c \in Seq(Nat)
      BY <3>1
    <3> DEFINE w == v \o c
    <3> HIDE DEF w
    <3>3. <<t, w>> \in Entry
      BY <1>2, <3>2 DEF w
    <3> QED BY <1>1, <3>3 DEF w
  <2> HIDE DEF g
  <2> QED BY <1>1, <2>1, <2>2
<1>4. CASE ~ \E k \in DOMAIN e : e[k][1] = t
  <2>1. <<t, c>> \in Entry
    BY <1>2
  <2> DEFINE z == <<t, c>>
  <2>2. Extend(e, t, c) = Append(e, z)
    BY <1>4 DEF Extend
  <2> HIDE DEF z
  <2> QED BY <2>1, <2>2 DEF z
<1> QED BY <1>3, <1>4

\* A turn of the loop keeps that.
LEMMA DecodeEntryType ==
  ASSUME NEW in \in Seq(Nat), NEW d \in Reading
  PROVE  DecodeEntry(in, d) \in Reading
<1>1. d.ok \in BOOLEAN /\ d.at \in Nat \ {0} /\ d.entries \in Seq(Entry) /\ Len(in) \in Nat
  BY DEF Reading
<1>2. CASE ~ d.ok \/ d.at > Len(in)
  BY <1>2 DEF DecodeEntry
<1>3. CASE ~ (~ d.ok \/ d.at > Len(in)) /\ (d.at = Len(in) \/ d.at + 1 + in[d.at + 1] > Len(in))
  <2>1. DecodeEntry(in, d) = [d EXCEPT !.ok = FALSE]
    BY <1>3, Zenon DEF DecodeEntry
  <2>2. [d EXCEPT !.ok = FALSE] \in Reading
    BY DEF Reading
  <2> QED BY <2>1, <2>2
<1>4. CASE ~ (~ d.ok \/ d.at > Len(in)) /\ ~ (d.at = Len(in) \/ d.at + 1 + in[d.at + 1] > Len(in))
  <2> DEFINE a == d.at
             l == in[a + 1]
             end == a + 1 + l
             c == SubSeq(in, a + 2, end)
             f == Extend(d.entries, in[a], c)
  <2>1. a \in Nat \ {0} /\ a + 1 <= Len(in) /\ end <= Len(in)
    BY <1>1, <1>4
  <2>2. a \in 1..Len(in) /\ a + 1 \in 1..Len(in)
    BY <1>1, <2>1
  <2> HIDE DEF a
  <2>3. in[a] \in Nat /\ l \in Nat
    BY <2>2
  <2> HIDE DEF l
  <2>4. a + 2 \in 1..Len(in) + 1 /\ end \in (a + 2) - 1..Len(in)
    BY <1>1, <2>1, <2>3
  <2>5. c \in Seq(Nat)
    BY <2>4, SliceIs
  <2>6. f \in Seq(Entry)
    <3> HIDE DEF c
    <3> QED BY <1>1, <2>3, <2>5, ExtendType
  <2>7. end + 1 \in Nat \ {0}
    BY <2>1, <2>3
  <2>8. DecodeEntry(in, d) = [ok |-> TRUE, at |-> end + 1, entries |-> f]
    BY <1>4, Zenon DEF DecodeEntry, a, l
  <2> HIDE DEF end, f
  <2> QED BY <2>6, <2>7, <2>8 DEF Reading
<1> QED BY <1>2, <1>3, <1>4

\* decode starts with nothing read, takes its turns, and its result is the last one's.
LEMMA DecodeRuns ==
  ASSUME NEW in \in Seq(Nat)
  PROVE  \E f : /\ f[0] = NothingRead
                /\ \A n \in 0..Len(in) - 1 : f[n + 1] = DecodeEntry(in, f[n])
                /\ decode(in) = f[Len(in)]
<1> DEFINE F == [p \in Nat \X Reading |-> DecodeEntry(in, p[2])]
<1>1. F \in [Nat \X Reading -> Reading]
  <2> SUFFICES ASSUME NEW p \in Nat \X Reading PROVE DecodeEntry(in, p[2]) \in Reading
    OBVIOUS
  <2>1. p[2] \in Reading
    OBVIOUS
  <2> QED BY <2>1, DecodeEntryType
<1>2. \A n \in Nat, d \in Reading : F[<<n, d>>] = DecodeEntry(in, d)
  OBVIOUS
<1>3. NothingRead \in Reading
  <2>1. <<>> \in Seq(Entry)
    OBVIOUS
  <2> QED BY <2>1 DEF NothingRead, Reading
<1> HIDE DEF F
<1>4. PICK h \in [Nat -> Reading] : GoesOn(h, NothingRead, F)
  BY <1>1, <1>3, Iterates
<1>5. h[0] = NothingRead /\ \A n \in Nat : h[n + 1] = DecodeEntry(in, h[n])
  <2>1. h[0] = NothingRead /\ \A n \in Nat : h[n + 1] = F[<<n, h[n]>>]
    BY <1>4 DEF GoesOn
  <2> QED BY <1>2, <2>1
<1>6. Len(in) \in Nat
  OBVIOUS
<1> DEFINE IsRun(f) == f = [n \in 0..Len(in) |-> IF n = 0 THEN NothingRead ELSE DecodeEntry(in, f[n - 1])]
           g == [n \in 0..Len(in) |-> h[n]]
           f == CHOOSE f : IsRun(f)
<1>7. IsRun(g)
  <2>1. ASSUME NEW n \in 0..Len(in)
        PROVE  g[n] = IF n = 0 THEN NothingRead ELSE DecodeEntry(in, g[n - 1])
    <3>1. CASE n = 0
      BY <1>5, <1>6, <3>1
    <3>2. CASE n # 0
      <4>1. n - 1 \in Nat /\ (n - 1) + 1 = n /\ n - 1 \in 0..Len(in)
        BY <1>6, <3>2
      <4>2. h[(n - 1) + 1] = DecodeEntry(in, h[n - 1])
        BY <1>5, <4>1
      <4> QED BY <3>2, <4>1, <4>2
    <3> QED BY <3>1, <3>2
  <2> DEFINE r == [n \in 0..Len(in) |-> IF n = 0 THEN NothingRead ELSE DecodeEntry(in, g[n - 1])]
  <2>2. \A n \in 0..Len(in) : g[n] = r[n]
    BY <2>1
  <2>3. DOMAIN g = 0..Len(in) /\ DOMAIN r = 0..Len(in) /\ g = [n \in 0..Len(in) |-> g[n]]
        /\ r = [n \in 0..Len(in) |-> r[n]]
    OBVIOUS
  <2> HIDE DEF g
  <2> QED BY <2>2, <2>3
<1>8. IsRun(f)
  BY <1>7
<1>9. decode(in) = f[Len(in)]
  BY Zenon DEF decode, NothingRead
<1> HIDE DEF f
<1>10. \A n \in 0..Len(in) : f[n] = IF n = 0 THEN NothingRead ELSE DecodeEntry(in, f[n - 1])
  BY <1>8
<1>11. f[0] = NothingRead
  BY <1>6, <1>10
<1>12. ASSUME NEW n \in 0..Len(in) - 1 PROVE f[n + 1] = DecodeEntry(in, f[n])
  <2>1. n + 1 \in 0..Len(in) /\ n + 1 # 0 /\ (n + 1) - 1 = n
    BY <1>6
  <2>2. f[n + 1] = DecodeEntry(in, f[(n + 1) - 1])
    BY <1>10, <2>1
  <2> QED BY <2>1, <2>2
<1> QED BY <1>9, <1>11, <1>12

\* Of the first n bytes of a message decode makes what they are written of, or it refuses them; all of them
\* it takes.
LEMMA DecodesRight ==
  ASSUME NEW m, Message(m), NEW n \in 0..Len(encode(m))
  PROVE  ReadRight(decode(SubSeq(encode(m), 1, n)), m, n, n)
<1> DEFINE wire == encode(m)
           in == SubSeq(wire, 1, n)
<1>1. wire \in Seq(Nat) /\ Len(wire) \in Nat
  BY EncodeIs DEF Message
<1>2. in \in Seq(Nat) /\ Len(in) = n /\ n \in Nat
  BY <1>1
<1>3. PICK f : /\ f[0] = NothingRead
               /\ \A k \in 0..Len(in) - 1 : f[k + 1] = DecodeEntry(in, f[k])
               /\ decode(in) = f[Len(in)]
  BY <1>2, DecodeRuns
<1> DEFINE T == {k \in Nat : k <= n => ReadRight(f[k], m, n, k)}
<1> HIDE DEF in
<1>4. 0 \in T
  BY <1>3, ReadsNothing
<1>5. ASSUME NEW k \in Nat, k \in T PROVE k + 1 \in T
  <2> SUFFICES ASSUME k + 1 <= n PROVE ReadRight(f[k + 1], m, n, k + 1)
    OBVIOUS
  <2>1. k \in 0..Len(in) - 1 /\ k <= n
    BY <1>2
  <2>2. ReadRight(f[k], m, n, k)
    BY <1>5, <2>1
  <2>3. f[k + 1] = DecodeEntry(in, f[k])
    BY <1>3, <2>1
  <2>4. ReadRight(DecodeEntry(in, f[k]), m, n, k + 1)
    BY <2>2, ReadsNext DEF in
  <2> QED BY <2>3, <2>4
<1> HIDE DEF T
<1>6. \A k \in Nat : k \in T
  BY <1>4, <1>5, NumberInduction
<1>7. n \in T
  BY <1>2, <1>6
<1>8. ReadRight(f[n], m, n, n)
  BY <1>2, <1>7 DEF T
<1>9. decode(in) = f[n]
  BY <1>2, <1>3
<1> QED BY <1>8, <1>9 DEF in

\* encode and decode are each other's inverse, for every message, and for every place it is cut off at.
LEMMA DecodeOfEncode ==
  ASSUME NEW m, Message(m)
  PROVE  LET wire == encode(m)
         IN  /\ decode(wire).ok /\ decode(wire).entries = m
             /\ \A n \in 0..Len(wire) :
                   LET cut == decode(SubSeq(wire, 1, n))
                   IN  cut.ok => encode(cut.entries) = SubSeq(wire, 1, n)
<1> DEFINE wire == encode(m)
<1>1. wire \in Seq(Nat) /\ Len(wire) \in Nat
  BY EncodeIs DEF Message
<1>2. ASSUME NEW n \in 0..Len(wire)
      PROVE  LET d == decode(SubSeq(wire, 1, n))
             IN  /\ n = Len(wire) => d.ok
                 /\ d.ok => SoFar(d.entries, m) /\ Len(encode(d.entries)) = n
  <2> DEFINE d == decode(SubSeq(wire, 1, n))
  <2>1. ReadRight(d, m, n, n)
    BY DecodesRight
  <2> HIDE DEF d
  <2>2. n = Len(wire) => d.ok
    BY <2>1 DEF ReadRight
  <2>3. ASSUME d.ok PROVE SoFar(d.entries, m) /\ Len(encode(d.entries)) = n
    <3>1. SoFar(d.entries, m) /\ d.at = Len(encode(d.entries)) + 1 /\ d.at <= n + 1 /\ (n < d.at \/ d.at = n + 1)
      BY <2>1, <2>3 DEF ReadRight
    <3> DEFINE l == Len(encode(d.entries))
    <3>2. l \in Nat /\ n \in Nat
      BY <1>1, <3>1, SoFarIsWritten
    <3>3. l + 1 <= n + 1 /\ (n < l + 1 \/ l + 1 = n + 1)
      BY <3>1
    <3> HIDE DEF l
    <3>4. l = n
      BY ONLY <3>2, <3>3
    <3> QED BY <3>1, <3>4 DEF l
  <2> QED BY <2>2, <2>3 DEF d
<1>3. ASSUME NEW n \in 0..Len(wire), NEW e, SoFar(e, m), Len(encode(e)) = n
      PROVE  encode(e) = SubSeq(wire, 1, n)
  <2>1. PICK rest \in Seq(Nat) : wire = encode(e) \o rest
    BY <1>3, SoFarIsWritten
  <2> DEFINE x == encode(e)
  <2>2. x \in Seq(Nat) /\ Len(x) = n
    BY <1>3, SoFarIsWritten
  <2> HIDE DEF x, wire
  <2>3. x \o rest \in Seq(Nat) /\ Len(x \o rest) = Len(x) + Len(rest)
        /\ \A k \in 1..Len(x) + Len(rest) : (x \o rest)[k] = IF k <= Len(x) THEN x[k] ELSE rest[k - Len(x)]
    BY <2>2, ConcatProperties
  <2>4. SubSeq(wire, 1, n) \in Seq(Nat) /\ Len(SubSeq(wire, 1, n)) = n
        /\ \A k \in 1..n : SubSeq(wire, 1, n)[k] = wire[k]
    BY <1>1
  <2>5. \A k \in 1..n : x[k] = wire[k]
    <3> SUFFICES ASSUME NEW k \in 1..n PROVE x[k] = wire[k]
      OBVIOUS
    <3>1. Len(rest) \in Nat /\ n \in Nat
      BY <1>1
    <3>2. k \in 1..Len(x) + Len(rest) /\ k <= Len(x)
      BY <2>2, <3>1
    <3>3. wire = x \o rest
      BY <2>1 DEF x
    <3> QED BY <2>3, <3>2, <3>3
  <2>6. x = SubSeq(wire, 1, n)
    BY <2>2, <2>4, <2>5, SeqEqual
  <2> QED BY <2>6 DEF x
<1>4. ASSUME NEW e, SoFar(e, m), Len(encode(e)) = Len(wire) PROVE e = m
  <2> SUFFICES ASSUME e # m PROVE FALSE
    OBVIOUS
  <2>1. PICK t \in Nat, c \in Seq(Nat) : IsNext(e, m, t, c)
    BY <1>4, ReadOn
  <2> DEFINE x == encode(e)
             h == Fragment(t, c)
             y == encode(Extend(e, t, c))
  <2>2. h \in Seq(Nat) /\ Len(h) = Len(c) + 2 /\ Len(c) \in Nat
    <3>1. t \in Nat /\ c \in Seq(Nat) /\ Len(c) \in Nat
      OBVIOUS
    <3>2. Fragment(t, c) \in Seq(Nat) /\ Len(Fragment(t, c)) = Len(c) + 2
      BY ONLY <3>1, WrittenIs
    <3> QED BY <3>1, <3>2
  <2>3. x \in Seq(Nat) /\ Len(x) = Len(wire) /\ y = x \o h
    BY <1>4, <2>1, SoFarIsWritten DEF IsNext
  <2>4. PICK rest \in Seq(Nat) : wire = y \o rest
    BY <2>1, SoFarIsWritten DEF IsNext
  <2> HIDE DEF x, h, y, wire
  <2>5. Len(y) = Len(x) + Len(h) /\ y \in Seq(Nat)
    <3>1. x \in Seq(Nat) /\ h \in Seq(Nat)
      BY <2>2, <2>3
    <3>2. Len(x \o h) = Len(x) + Len(h) /\ x \o h \in Seq(Nat)
      BY ONLY <3>1, ConcatProperties
    <3> QED BY <2>3, <3>2
  <2>6. Len(wire) = Len(y) + Len(rest) /\ Len(rest) \in Nat
    <3>1. y \in Seq(Nat) /\ rest \in Seq(Nat)
      BY <2>5
    <3>2. Len(y \o rest) = Len(y) + Len(rest)
      BY ONLY <3>1, ConcatProperties
    <3> QED BY <2>4, <3>2
  <2> QED BY <1>1, <2>2, <2>3, <2>5, <2>6
<1>5. SubSeq(wire, 1, Len(wire)) = wire
  BY <1>1, SubSeqFull
<1>6. decode(wire).ok /\ decode(wire).entries = m
  <2>1. Len(wire) \in 0..Len(wire)
    BY <1>1
  <2> DEFINE d == decode(wire)
  <2>2. d.ok /\ SoFar(d.entries, m) /\ Len(encode(d.entries)) = Len(wire)
    BY <1>2, <1>5, <2>1
  <2> HIDE DEF d
  <2>3. d.ok /\ d.entries = m
    BY <1>4, <2>2
  <2> QED BY <2>3 DEF d
<1>7. ASSUME NEW n \in 0..Len(wire), decode(SubSeq(wire, 1, n)).ok
      PROVE  encode(decode(SubSeq(wire, 1, n)).entries) = SubSeq(wire, 1, n)
  BY <1>2, <1>3, <1>7
<1> QED BY <1>6, <1>7

\* The entries are a message: set_raw gives a tag one entry.
LEMMA SetRawIs ==
  ASSUME NEW e, Message(e), NEW t \in Nat, NEW v \in Seq(Nat)
  PROVE  Message(set_raw(e, t, v))
<1>1. e \in Seq(Entry) /\ Len(e) \in Nat /\ DOMAIN e = 1..Len(e) /\ \A k \in 1..Len(e) : e[k] \in Entry
  BY DEF Message
<1> DEFINE x == <<t, v>>
<1>2. x \in Entry /\ x[1] = t
  BY DEF Entry
<1> HIDE DEF x
<1>3. \A a, b \in 1..Len(e) : e[a][1] = e[b][1] => a = b
  BY DEF Message
<1>4. CASE \E k \in DOMAIN e : e[k][1] = t
  <2> DEFINE g == [k \in 1..Len(e) |-> IF e[k][1] = t THEN x ELSE e[k]]
  <2>1. set_raw(e, t, v) = g
    BY <1>1, <1>4 DEF set_raw, x
  <2>2. g \in Seq(Entry) /\ Len(g) = Len(e)
    BY <1>1, <1>2
  <2>3. \A k \in 1..Len(e) : g[k][1] = e[k][1]
    BY <1>2
  <2> HIDE DEF g
  <2> QED BY <1>3, <2>1, <2>2, <2>3 DEF Message
<1>5. CASE ~ \E k \in DOMAIN e : e[k][1] = t
  <2> DEFINE g == Append(e, x)
  <2>1. set_raw(e, t, v) = g
    BY <1>5 DEF set_raw, x
  <2>2. g \in Seq(Entry) /\ Len(g) = Len(e) + 1 /\ g[Len(e) + 1] = x /\ \A k \in 1..Len(e) : g[k] = e[k]
    BY <1>1, <1>2
  <2> HIDE DEF g
  <2>3. ASSUME NEW a \in 1..Len(g), NEW b \in 1..Len(g), g[a][1] = g[b][1] PROVE a = b
    <3>1. \A k \in 1..Len(g) : k = Len(e) + 1 \/ k \in 1..Len(e)
      BY <1>1, <2>2
    <3>2. \A k \in 1..Len(e) : g[k][1] # t
      BY <1>1, <1>5, <2>2
    <3> QED BY <1>2, <1>3, <2>2, <2>3, <3>1, <3>2
  <2> QED BY <2>1, <2>2, <2>3 DEF Message
<1> QED BY <1>4, <1>5

\* A message that was built by setting one tag after another has each tag once, in a list of entries.
TlvInv == Message(tlv.entries)

\* What was set, set again or replaced is a message.
THEOREM TlvIsAMessage == Tlv8Spec => []TlvInv
<1>1. Tlv8Init => TlvInv
  <2> SUFFICES ASSUME Tlv8Init PROVE TlvInv
    OBVIOUS
  <2>1. tlv.entries = <<>>
    BY DEF Tlv8Init
  <2> QED BY <2>1 DEF TlvInv, Message
<1>2. TlvInv /\ [Tlv8Next]_tlv => TlvInv'
  <2> SUFFICES ASSUME TlvInv, [Tlv8Next]_tlv PROVE TlvInv'
    OBVIOUS
  <2>1. CASE SetTag
    <3>1. PICK tag \in Tags, value \in TlvValues :
             tlv' = [entries |-> set_raw(tlv.entries, tag, value), sets |-> tlv.sets + 1]
      BY <2>1 DEF SetTag
    <3>2. tag \in Nat /\ value \in Seq(Nat)
      BY Tlv8Assumption
    <3>3. tlv'.entries = set_raw(tlv.entries, tag, value)
      BY <3>1
    <3>4. Message(set_raw(tlv.entries, tag, value))
      BY <3>2, SetRawIs DEF TlvInv
    <3> QED BY <3>3, <3>4 DEF TlvInv
  <2>2. CASE UNCHANGED tlv
    BY <2>2 DEF TlvInv
  <2> QED BY <2>1, <2>2 DEF Tlv8Next
<1> QED BY <1>1, <1>2, PTL DEF Tlv8Spec

\* What tlv8.rs:20 says, for every MAX_CHUNK, all tags and all values: a message that was built with set_raw is
\* written by encode and read by decode as the same message, and what is cut off within an entry is not taken
\* for a shorter one.
THEOREM TlvRoundTrips == Tlv8Spec => []Tlv8RoundTrips
<1>1. TlvInv => Tlv8RoundTrips
  <2> SUFFICES ASSUME Message(tlv.entries) PROVE Tlv8RoundTrips
    BY DEF TlvInv
  <2> DEFINE m == tlv.entries
  <2> HIDE DEF m
  <2>1. Message(m)
    BY DEF m
  <2>2. LET wire == encode(m)
        IN  /\ decode(wire).ok /\ decode(wire).entries = m
            /\ \A n \in 0..Len(wire) :
                  LET cut == decode(SubSeq(wire, 1, n))
                  IN  cut.ok => encode(cut.entries) = SubSeq(wire, 1, n)
    BY <2>1, DecodeOfEncode
  <2> QED BY <2>2, Zenon DEF Tlv8RoundTrips, m
<1> QED BY <1>1, TlvIsAMessage, PTL
=============================================================================
