---------------------------- MODULE QueueProofs ----------------------------
(***************************************************************************)
(* Proofs about ListenQueue: that it implements AtomicQueue.  A request    *)
(* loads the profile, works out the next queue and writes it if the        *)
(* revision is still the one it loaded.  Every change of the queue raises  *)
(* the revision, so the write replaces the very queue that was loaded, and *)
(* it is the moment at which the request is served.                        *)
(*                                                                         *)
(* What the owner sees is the queue without the albums that the catalog    *)
(* lost.  The lemmas about such selections are inductions over sequences;  *)
(* they rest on the set form of induction (NatSetInduction), since the     *)
(* library's rules take an operator as a parameter.                        *)
(***************************************************************************)
EXTENDS ListenQueue, TransactionProofs, SequenceTheorems, WellFoundedInduction

(***************************************************************************)
(* Sequences                                                               *)
(***************************************************************************)
\* Induction over the natural numbers, for a set that is closed under successor.
LEMMA NatSetInduction ==
  ASSUME NEW T, 0 \in T, \A n \in Nat : n \in T => n + 1 \in T
  PROVE  Nat \subseteq T
<1> DEFINE R == OpToRel(<, Nat)
<1>1. IsWellFoundedOn(R, Nat)
  BY NatLessThanWellFounded
<1>2. \A x, y \in Nat : y < x => <<y, x>> \in R
  BY DEF OpToRel
<1> HIDE DEF R
<1> SUFFICES ASSUME Nat \ T # {} PROVE FALSE
  OBVIOUS
<1>3. PICK x \in Nat \ T : \A y \in Nat \ T : <<y, x>> \notin R
  <2> DEFINE U == Nat \ T
  <2>1. U \subseteq Nat /\ U # {}
    OBVIOUS
  <2> HIDE DEF U
  <2>2. \E x \in U : \A y \in U : ~(<<y, x>> \in R)
    BY <1>1, <2>1, WFMin
  <2> QED BY <2>2 DEF U
<1>4. x # 0 /\ x - 1 \in Nat /\ x - 1 < x /\ (x - 1) + 1 = x
  BY <1>3
<1>5. x - 1 \in T
  BY <1>2, <1>3, <1>4
<1> QED BY <1>3, <1>4, <1>5

\* For the provers, concatenation as an operator without any meaning of its own.
Join(a, b) == a \o b

\* It does not matter which of three sequences are joined first.
LEMMA JoinedInAnyOrder ==
  ASSUME NEW A, NEW a \in Seq(A), NEW b \in Seq(A), NEW c \in Seq(A)
  PROVE  Join(Join(a, b), c) = Join(a, Join(b, c))
BY ConcatAssociative DEF Join

\* f selects the members of S from each of the first m elements of the sequence.
Selects(f, seq, S, m) ==
  f = [n \in 0..m |-> IF n = 0 THEN <<>> ELSE IF seq[n] \in S THEN Append(f[n - 1], seq[n]) ELSE f[n - 1]]

\* A selection goes on for as long as the sequence does.
LEMMA SelectionsGoOn ==
  ASSUME NEW seq, NEW S, NEW m \in Nat, NEW f, Selects(f, seq, S, m)
  PROVE  \E g : Selects(g, seq, S, m + 1)
<1> DEFINE g == [n \in 0..(m + 1) |-> IF n = m + 1 THEN IF seq[m + 1] \in S THEN Append(f[m], seq[m + 1]) ELSE f[m]
                                      ELSE f[n]]
<1>1. \A n \in 0..m : f[n] = IF n = 0 THEN <<>> ELSE IF seq[n] \in S THEN Append(f[n - 1], seq[n]) ELSE f[n - 1]
  BY DEF Selects
<1>2. \A n \in 0..m : n \in 0..(m + 1) /\ n # m + 1 /\ g[n] = f[n]
  OBVIOUS
<1>3. m + 1 \in 0..(m + 1) /\ m \in 0..m /\ (m + 1) - 1 = m
      /\ g[m + 1] = IF seq[m + 1] \in S THEN Append(f[m], seq[m + 1]) ELSE f[m]
  OBVIOUS
<1>4. ASSUME NEW n \in 0..(m + 1)
      PROVE  g[n] = IF n = 0 THEN <<>> ELSE IF seq[n] \in S THEN Append(g[n - 1], seq[n]) ELSE g[n - 1]
  <2>1. CASE n = m + 1
    <3>1. g[n - 1] = f[m] /\ n # 0
      BY <1>2, <1>3, <2>1
    <3> HIDE DEF g
    <3> QED BY <1>3, <2>1, <3>1
  <2>2. CASE n = 0
    <3>1. n \in 0..m
      BY <2>2
    <3> HIDE DEF g
    <3> QED BY <1>1, <1>2, <2>2, <3>1
  <2>3. CASE n # 0 /\ n # m + 1
    <3>1. n \in 0..m /\ n - 1 \in 0..m
      BY <2>3
    <3> HIDE DEF g
    <3> QED BY <1>1, <1>2, <2>3, <3>1
  <2> QED BY <2>1, <2>2, <2>3
<1>5. g = [n \in 0..(m + 1) |-> g[n]]
  OBVIOUS
<1> HIDE DEF g
<1>6. Selects(g, seq, S, m + 1)
  BY <1>4, <1>5 DEF Selects
<1> QED BY <1>6

\* So there is one, and KeptOf is it.
LEMMA KeptOfSelects ==
  ASSUME NEW A, NEW seq \in Seq(A), NEW S
  PROVE  Selects(KeptOf(seq, S), seq, S, Len(seq))
<1> DEFINE T == { m \in Nat : \E f : Selects(f, seq, S, m) }
<1>1. 0 \in T
  <2> DEFINE f == [n \in 0..0 |-> <<>>]
  <2>1. \A n \in 0..0 : n = 0
    OBVIOUS
  <2>2. Selects(f, seq, S, 0)
    BY <2>1 DEF Selects
  <2> QED BY <2>2
<1>2. ASSUME NEW m \in Nat, m \in T PROVE m + 1 \in T
  <2>1. PICK f : Selects(f, seq, S, m)
    BY <1>2
  <2> QED BY <2>1, SelectionsGoOn
<1> HIDE DEF T
<1>3. Len(seq) \in T
  BY <1>1, <1>2, NatSetInduction
<1>4. \E f : Selects(f, seq, S, Len(seq))
  BY <1>3 DEF T
<1>5. KeptOf(seq, S) = CHOOSE f : Selects(f, seq, S, Len(seq))
  BY DEF KeptOf, Selects
<1> QED BY <1>4, <1>5

\* It starts with nothing and goes through the sequence element by element.
LEMMA KeptStepByStep ==
  ASSUME NEW A, NEW seq \in Seq(A), NEW S
  PROVE  /\ KeptOf(seq, S)[0] = <<>>
         /\ \A n \in Nat : n < Len(seq) =>
              KeptOf(seq, S)[n + 1] = IF seq[n + 1] \in S THEN Append(KeptOf(seq, S)[n], seq[n + 1]) ELSE KeptOf(seq, S)[n]
<1> DEFINE f == KeptOf(seq, S)
<1>1. Selects(f, seq, S, Len(seq)) /\ Len(seq) \in Nat
  BY KeptOfSelects, LenProperties
<1> HIDE DEF f
<1>2. \A n \in 0..Len(seq) : f[n] = IF n = 0 THEN <<>> ELSE IF seq[n] \in S THEN Append(f[n - 1], seq[n]) ELSE f[n - 1]
  BY <1>1 DEF Selects
<1>3. f[0] = <<>>
  BY <1>1, <1>2
<1>4. ASSUME NEW n \in Nat, n < Len(seq)
      PROVE  f[n + 1] = IF seq[n + 1] \in S THEN Append(f[n], seq[n + 1]) ELSE f[n]
  <2>1. n + 1 \in 0..Len(seq) /\ n + 1 # 0 /\ (n + 1) - 1 = n
    BY <1>1, <1>4
  <2> QED BY <1>2, <2>1
<1> QED BY <1>3, <1>4 DEF f

\* The members of sequences that are put together.
LEMMA ConcatMembers ==
  ASSUME NEW A, NEW s \in Seq(A), NEW t \in Seq(A)
  PROVE  /\ Elements(s \o t) = Elements(s) \cup Elements(t)
         /\ Injective(s) /\ Injective(t) /\ Elements(s) \cap Elements(t) = {} => Injective(s \o t)
<1>1. /\ s \o t \in Seq(A) /\ Len(s \o t) = Len(s) + Len(t)
      /\ \A i \in 1..(Len(s) + Len(t)) : (s \o t)[i] = IF i <= Len(s) THEN s[i] ELSE t[i - Len(s)]
  BY ConcatProperties
<1>2. /\ Len(s) \in Nat /\ Len(t) \in Nat /\ DOMAIN s = 1..Len(s) /\ DOMAIN t = 1..Len(t)
      /\ DOMAIN (s \o t) = 1..(Len(s) + Len(t))
  BY <1>1, LenProperties
<1>3. \A i \in 1..Len(s) : i \in 1..(Len(s) + Len(t)) /\ (s \o t)[i] = s[i]
  BY <1>1, <1>2
<1>4. ASSUME NEW i \in 1..Len(t) PROVE i + Len(s) \in 1..(Len(s) + Len(t)) /\ (s \o t)[i + Len(s)] = t[i]
  <2>1. i + Len(s) \in 1..(Len(s) + Len(t)) /\ ~(i + Len(s) <= Len(s)) /\ (i + Len(s)) - Len(s) = i
    BY <1>2
  <2> QED BY <1>1, <2>1
<1>5. ASSUME NEW i \in 1..(Len(s) + Len(t)), ~(i <= Len(s)) PROVE i - Len(s) \in 1..Len(t)
  BY <1>2, <1>5
<1>6. Elements(s \o t) = Elements(s) \cup Elements(t)
  <2>1. ASSUME NEW x \in Elements(s \o t) PROVE x \in Elements(s) \cup Elements(t)
    <3>1. PICK i \in 1..(Len(s) + Len(t)) : x = (s \o t)[i]
      BY <1>2, <2>1 DEF Elements
    <3>2. CASE i <= Len(s)
      BY <1>1, <1>2, <3>1, <3>2 DEF Elements
    <3>3. CASE ~(i <= Len(s))
      BY <1>1, <1>2, <1>5, <3>1, <3>3 DEF Elements
    <3> QED BY <3>2, <3>3
  <2>2. ASSUME NEW x \in Elements(s) PROVE x \in Elements(s \o t)
    BY <1>2, <1>3 DEF Elements
  <2>3. ASSUME NEW x \in Elements(t) PROVE x \in Elements(s \o t)
    <3>1. PICK i \in 1..Len(t) : x = t[i]
      BY <1>2 DEF Elements
    <3> QED BY <1>2, <1>4, <3>1 DEF Elements
  <2> QED BY <2>1, <2>2, <2>3
<1>7. ASSUME Injective(s), Injective(t), Elements(s) \cap Elements(t) = {} PROVE Injective(s \o t)
  <2> SUFFICES ASSUME NEW i \in 1..(Len(s) + Len(t)), NEW j \in 1..(Len(s) + Len(t)), (s \o t)[i] = (s \o t)[j]
               PROVE  i = j
    BY <1>2 DEF Injective
  <2>1. CASE i <= Len(s) /\ j <= Len(s)
    <3>1. i \in 1..Len(s) /\ j \in 1..Len(s) /\ s[i] = s[j]
      BY <1>1, <2>1
    <3> QED BY <1>2, <1>7, <3>1 DEF Injective
  <2>2. CASE ~(i <= Len(s)) /\ ~(j <= Len(s))
    <3>1. i - Len(s) \in 1..Len(t) /\ j - Len(s) \in 1..Len(t) /\ t[i - Len(s)] = t[j - Len(s)]
      BY <1>1, <1>5, <2>2
    <3>2. i - Len(s) = j - Len(s)
      BY <1>2, <1>7, <3>1 DEF Injective
    <3> QED BY <1>2, <3>2
  <2>3. ASSUME NEW k \in 1..(Len(s) + Len(t)), NEW m \in 1..(Len(s) + Len(t)), k <= Len(s), ~(m <= Len(s))
        PROVE  (s \o t)[k] # (s \o t)[m]
    <3>1. k \in 1..Len(s) /\ (s \o t)[k] = s[k]
      BY <1>1, <2>3
    <3>2. m - Len(s) \in 1..Len(t) /\ (s \o t)[m] = t[m - Len(s)]
      BY <1>1, <1>5, <2>3
    <3> QED BY <1>2, <1>7, <3>1, <3>2 DEF Elements
  <2> QED BY <2>1, <2>2, <2>3
<1> QED BY <1>6, <1>7

\* One element is a sequence without repetition.
LEMMA OneElement ==
  ASSUME NEW A, NEW e \in A
  PROVE  <<e>> \in Seq(A) /\ Len(<<e>>) = 1 /\ Elements(<<e>>) = {e} /\ Injective(<<e>>) /\ <<e>>[1] = e
<1>1. <<e>> \in Seq(A) /\ Len(<<e>>) = 1 /\ <<e>>[1] = e /\ DOMAIN <<e>> = {1}
  OBVIOUS
<1> QED BY <1>1 DEF Elements, Injective

\* The members of a sequence that grows by one.
LEMMA AppendMembers ==
  ASSUME NEW A, NEW s \in Seq(A), NEW e \in A
  PROVE  /\ Append(s, e) \in Seq(A) /\ Len(Append(s, e)) = Len(s) + 1
         /\ Elements(Append(s, e)) = Elements(s) \cup {e}
         /\ Injective(s) /\ e \notin Elements(s) => Injective(Append(s, e))
<1>1. Append(s, e) = s \o <<e>> /\ Append(s, e) \in Seq(A) /\ Len(Append(s, e)) = Len(s) + 1
  BY AppendIsConcat, AppendProperties
<1>2. <<e>> \in Seq(A) /\ Elements(<<e>>) = {e} /\ Injective(<<e>>)
  BY OneElement
<1>3. /\ Elements(s \o <<e>>) = Elements(s) \cup Elements(<<e>>)
      /\ Injective(s) /\ Injective(<<e>>) /\ Elements(s) \cap Elements(<<e>>) = {} => Injective(s \o <<e>>)
  BY <1>2, ConcatMembers
<1> QED BY <1>1, <1>2, <1>3

\* Only the one place of an element is between what comes before and after it.
LEMMA TheMiddle ==
  ASSUME NEW A, NEW s \in Seq(A), NEW t \in Seq(A), NEW x \in A
  PROVE  /\ (s \o <<x>>) \o t \in Seq(A) /\ Len((s \o <<x>>) \o t) = Len(s) + 1 + Len(t)
         /\ \A i \in 1..Len(s) : ((s \o <<x>>) \o t)[i] = s[i]
         /\ ((s \o <<x>>) \o t)[Len(s) + 1] = x
         /\ \A i \in 1..Len(t) : ((s \o <<x>>) \o t)[Len(s) + 1 + i] = t[i]
         /\ Elements((s \o <<x>>) \o t) = Elements(s) \cup {x} \cup Elements(t)
<1> DEFINE u == s \o <<x>>
<1>1. /\ <<x>> \in Seq(A) /\ Len(<<x>>) = 1 /\ Elements(<<x>>) = {x} /\ <<x>>[1] = x
      /\ Len(s) \in Nat /\ Len(t) \in Nat
  BY OneElement, LenProperties
<1>2. /\ u \in Seq(A) /\ Len(u) = Len(s) + 1
      /\ \A i \in 1..(Len(s) + 1) : u[i] = IF i <= Len(s) THEN s[i] ELSE x
  <2> DEFINE e == <<x>>
  <2>1. e \in Seq(A) /\ Len(e) = 1 /\ e[1] = x
    BY <1>1
  <2> HIDE DEF e
  <2>2. /\ s \o e \in Seq(A) /\ Len(s \o e) = Len(s) + Len(e)
        /\ \A i \in 1..(Len(s) + Len(e)) : (s \o e)[i] = IF i <= Len(s) THEN s[i] ELSE e[i - Len(s)]
    BY <2>1, ConcatProperties
  <2>3. \A i \in 1..(Len(s) + 1) : ~(i <= Len(s)) => i - Len(s) = 1
    BY <1>1
  <2>4. \A i \in 1..(Len(s) + 1) : (s \o e)[i] = IF i <= Len(s) THEN s[i] ELSE x
    BY <1>1, <2>1, <2>2, <2>3
  <2> QED BY <2>1, <2>2, <2>4 DEF e
<1>3. Elements(u) = Elements(s) \cup {x}
  <2> DEFINE e == <<x>>
  <2>1. e \in Seq(A) /\ Elements(e) = {x}
    BY <1>1
  <2> HIDE DEF e
  <2>2. Elements(s \o e) = Elements(s) \cup Elements(e)
    BY <2>1, ConcatMembers
  <2> QED BY <2>1, <2>2 DEF e
<1> HIDE DEF u
<1>0. u \in Seq(A)
  BY <1>2
<1>4. /\ u \o t \in Seq(A) /\ Len(u \o t) = Len(u) + Len(t)
      /\ \A i \in 1..(Len(u) + Len(t)) : (u \o t)[i] = IF i <= Len(u) THEN u[i] ELSE t[i - Len(u)]
  BY <1>0, ConcatProperties
<1>5. Elements(u \o t) = Elements(u) \cup Elements(t)
  BY <1>0, ConcatMembers
<1>6. ASSUME NEW i \in 1..Len(s) PROVE (u \o t)[i] = s[i]
  <2>1. i \in 1..(Len(u) + Len(t)) /\ i <= Len(u) /\ i \in 1..(Len(s) + 1) /\ i <= Len(s)
    BY <1>1, <1>2
  <2> QED BY <1>2, <1>4, <2>1
<1>7. (u \o t)[Len(s) + 1] = x
  <2>1. /\ Len(s) + 1 \in 1..(Len(u) + Len(t)) /\ Len(s) + 1 <= Len(u)
        /\ Len(s) + 1 \in 1..(Len(s) + 1) /\ ~(Len(s) + 1 <= Len(s)) /\ (Len(s) + 1) - Len(s) = 1
    BY <1>1, <1>2
  <2> QED BY <1>1, <1>2, <1>4, <2>1
<1>8. ASSUME NEW i \in 1..Len(t) PROVE (u \o t)[Len(s) + 1 + i] = t[i]
  <2>1. /\ Len(s) + 1 + i \in 1..(Len(u) + Len(t)) /\ ~(Len(s) + 1 + i <= Len(u))
        /\ (Len(s) + 1 + i) - Len(u) = i
    BY <1>1, <1>2
  <2> QED BY <1>4, <2>1
<1> QED BY <1>2, <1>3, <1>4, <1>5, <1>6, <1>7, <1>8 DEF u

\* A sequence is cut in two at any of its places.
LEMMA CutAt ==
  ASSUME NEW A, NEW q \in Seq(A), NEW p \in 1..Len(q)
  PROVE  /\ SubSeq(q, 1, p - 1) \in Seq(A) /\ Len(SubSeq(q, 1, p - 1)) = p - 1
         /\ \A i \in 1..(p - 1) : SubSeq(q, 1, p - 1)[i] = q[i]
         /\ SubSeq(q, p + 1, Len(q)) \in Seq(A) /\ Len(SubSeq(q, p + 1, Len(q))) = Len(q) - p
         /\ \A i \in 1..(Len(q) - p) : SubSeq(q, p + 1, Len(q))[i] = q[p + i]
<1>1. Len(q) \in Nat /\ p \in Nat /\ p <= Len(q) /\ 1 <= p
  BY LenProperties
<1>2. /\ \A i \in 1..(p - 1) : q[i] \in A
      /\ \A i \in (p + 1)..Len(q) : q[i] \in A
  <2>1. \A i \in 1..Len(q) : q[i] \in A
    BY ElementOfSeq
  <2> QED BY <1>1, <2>1
<1>3. /\ SubSeq(q, 1, p - 1) \in Seq(A)
      /\ Len(SubSeq(q, 1, p - 1)) = IF 1 <= p - 1 THEN (p - 1) - 1 + 1 ELSE 0
      /\ \A i \in 1..((p - 1) - 1 + 1) : SubSeq(q, 1, p - 1)[i] = q[1 + i - 1]
  <2>1. 1 \in Int /\ p - 1 \in Int
    BY <1>1
  <2> QED BY <1>2, <2>1, SubSeqProperties
<1>4. /\ SubSeq(q, p + 1, Len(q)) \in Seq(A)
      /\ Len(SubSeq(q, p + 1, Len(q))) = IF p + 1 <= Len(q) THEN Len(q) - (p + 1) + 1 ELSE 0
      /\ \A i \in 1..(Len(q) - (p + 1) + 1) : SubSeq(q, p + 1, Len(q))[i] = q[(p + 1) + i - 1]
  <2>1. p + 1 \in Int /\ Len(q) \in Int
    BY <1>1
  <2> QED BY <1>2, <2>1, SubSeqProperties
<1>5. (p - 1) - 1 + 1 = p - 1 /\ Len(q) - (p + 1) + 1 = Len(q) - p
  BY <1>1
<1>6. /\ Len(SubSeq(q, 1, p - 1)) = p - 1
      /\ Len(SubSeq(q, p + 1, Len(q))) = Len(q) - p
  BY <1>1, <1>3, <1>4
<1>7. ASSUME NEW i \in 1..(p - 1) PROVE SubSeq(q, 1, p - 1)[i] = q[i]
  <2>1. 1 + i - 1 = i
    BY <1>1
  <2> QED BY <1>3, <1>5, <2>1
<1>8. ASSUME NEW i \in 1..(Len(q) - p) PROVE SubSeq(q, p + 1, Len(q))[i] = q[p + i]
  <2>1. (p + 1) + i - 1 = p + i
    BY <1>1
  <2> QED BY <1>4, <1>5, <2>1
<1> QED BY <1>3, <1>4, <1>6, <1>7, <1>8

\* Taking out the one occurrence of an element leaves what came before and after it.
LEMMA WithoutMiddle ==
  ASSUME NEW A, NEW s \in Seq(A), NEW t \in Seq(A), NEW x \in A, x \notin Elements(s), x \notin Elements(t)
  PROVE  Without((s \o <<x>>) \o t, x) = s \o t
<1> DEFINE q == (s \o <<x>>) \o t
           p == Len(s) + 1
<1>1. /\ q \in Seq(A) /\ Len(q) = Len(s) + 1 + Len(t) /\ q[p] = x
      /\ \A i \in 1..Len(s) : q[i] = s[i]
      /\ \A i \in 1..Len(t) : q[Len(s) + 1 + i] = t[i]
  BY TheMiddle
<1> HIDE DEF q
<1>2. /\ Len(s) \in Nat /\ Len(t) \in Nat /\ DOMAIN s = 1..Len(s) /\ DOMAIN t = 1..Len(t)
      /\ DOMAIN q = 1..Len(q) /\ p \in 1..Len(q)
  <2>1. /\ Len(s) \in Nat /\ Len(t) \in Nat /\ DOMAIN s = 1..Len(s) /\ DOMAIN t = 1..Len(t)
        /\ DOMAIN q = 1..Len(q)
    BY <1>1, LenProperties
  <2> QED BY <1>1, <2>1
<1>3. ASSUME NEW i \in 1..Len(q), q[i] = x PROVE i = p
  <2>1. CASE i <= Len(s)
    <3>1. i \in 1..Len(s)
      BY <1>2, <2>1
    <3> QED BY <1>1, <1>2, <1>3, <3>1 DEF Elements
  <2>2. CASE i > Len(s) + 1
    <3>1. i - (Len(s) + 1) \in 1..Len(t) /\ Len(s) + 1 + (i - (Len(s) + 1)) = i
      BY <1>1, <1>2, <2>2
    <3> QED BY <1>1, <1>2, <1>3, <3>1 DEF Elements
  <2> QED BY <1>2, <2>1, <2>2
<1>4. (CHOOSE i \in DOMAIN q : q[i] = x) = p
  <2>1. \E i \in DOMAIN q : q[i] = x
    BY <1>1, <1>2
  <2> HIDE DEF p
  <2> QED BY <1>2, <1>3, <2>1
<1>5. /\ SubSeq(q, 1, p - 1) \in Seq(A) /\ Len(SubSeq(q, 1, p - 1)) = p - 1
      /\ \A i \in 1..(p - 1) : SubSeq(q, 1, p - 1)[i] = q[i]
      /\ SubSeq(q, p + 1, Len(q)) \in Seq(A) /\ Len(SubSeq(q, p + 1, Len(q))) = Len(q) - p
      /\ \A i \in 1..(Len(q) - p) : SubSeq(q, p + 1, Len(q))[i] = q[p + i]
  <2> HIDE DEF p
  <2> QED BY <1>1, <1>2, CutAt
<1>6. SubSeq(q, 1, p - 1) = s
  <2>1. p - 1 = Len(s)
    BY <1>2
  <2> HIDE DEF p
  <2>2. \A i \in 1..Len(s) : SubSeq(q, 1, p - 1)[i] = s[i]
    BY <1>1, <1>5, <2>1
  <2> QED BY <1>5, <2>1, <2>2, SeqEqual
<1>7. SubSeq(q, p + 1, Len(q)) = t
  <2>1. Len(q) - p = Len(t)
    BY <1>1, <1>2
  <2>2. \A i \in 1..Len(t) : SubSeq(q, p + 1, Len(q))[i] = t[i]
    BY <1>1, <1>5, <2>1
  <2> HIDE DEF p
  <2> QED BY <1>5, <2>1, <2>2, SeqEqual
<1>8. Without(q, x) = SubSeq(q, 1, p - 1) \o SubSeq(q, p + 1, Len(q))
  <2> HIDE DEF p
  <2> QED BY <1>4 DEF Without
<1> QED BY <1>6, <1>7, <1>8 DEF q

\* s and t are what comes before and after x in q, without repetition.
Around(q, x, s, t) ==
  /\ q = (s \o <<x>>) \o t /\ x \notin Elements(s) /\ x \notin Elements(t)
  /\ Injective(s) /\ Injective(t) /\ Elements(s) \cap Elements(t) = {}

\* Any element of a sequence without repetition is such a middle.
LEMMA EveryElementIsAMiddle ==
  ASSUME NEW A, NEW q \in Seq(A), Injective(q), NEW x \in Elements(q)
  PROVE  x \in A /\ \E s, t \in Seq(A) : Around(q, x, s, t)
<1>1. Len(q) \in Nat /\ DOMAIN q = 1..Len(q)
  BY LenProperties
<1>2. PICK p \in 1..Len(q) : q[p] = x
  BY <1>1 DEF Elements
<1>3. x \in A
  BY <1>2, ElementOfSeq
<1> DEFINE s == SubSeq(q, 1, p - 1)
           t == SubSeq(q, p + 1, Len(q))
<1>4. /\ s \in Seq(A) /\ Len(s) = p - 1 /\ \A i \in 1..(p - 1) : s[i] = q[i]
      /\ t \in Seq(A) /\ Len(t) = Len(q) - p /\ \A i \in 1..(Len(q) - p) : t[i] = q[p + i]
  BY CutAt
<1> HIDE DEF s, t
<1>5. DOMAIN s = 1..(p - 1) /\ DOMAIN t = 1..(Len(q) - p)
  BY <1>4, LenProperties
<1>6. /\ \A i \in 1..(p - 1) : i \in 1..Len(q) /\ i # p
      /\ \A i \in 1..(Len(q) - p) : p + i \in 1..Len(q) /\ p + i # p
      /\ \A i \in 1..(p - 1), j \in 1..(Len(q) - p) : i # p + j
      /\ \A i, j \in 1..(Len(q) - p) : p + i = p + j => i = j
  BY <1>1
<1>7. \A i, j \in 1..Len(q) : q[i] = q[j] => i = j
  BY <1>1 DEF Injective
<1>8. x \notin Elements(s) /\ Injective(s)
  <2>1. x \notin Elements(s)
    BY <1>2, <1>4, <1>5, <1>6, <1>7 DEF Elements
  <2>2. ASSUME NEW i \in 1..(p - 1), NEW j \in 1..(p - 1), s[i] = s[j] PROVE i = j
    <3>1. q[i] = q[j] /\ i \in 1..Len(q) /\ j \in 1..Len(q)
      BY <1>4, <1>6, <2>2
    <3> QED BY <1>7, <3>1
  <2> QED BY <1>5, <2>1, <2>2 DEF Injective
<1>9. x \notin Elements(t) /\ Injective(t)
  <2>1. ASSUME NEW i \in 1..(Len(q) - p) PROVE t[i] # x
    <3>1. t[i] = q[p + i] /\ p + i \in 1..Len(q) /\ p + i # p
      BY <1>4, <1>6
    <3> QED BY <1>2, <1>7, <3>1
  <2>2. ASSUME NEW i \in 1..(Len(q) - p), NEW j \in 1..(Len(q) - p), t[i] = t[j] PROVE i = j
    <3>1. q[p + i] = q[p + j] /\ p + i \in 1..Len(q) /\ p + j \in 1..Len(q)
      BY <1>4, <1>6, <2>2
    <3> QED BY <1>6, <1>7, <3>1
  <2> QED BY <1>5, <2>1, <2>2 DEF Elements, Injective
<1>10. Elements(s) \cap Elements(t) = {}
  <2> SUFFICES ASSUME NEW i \in 1..(p - 1), NEW j \in 1..(Len(q) - p) PROVE s[i] # t[j]
    BY <1>5 DEF Elements
  <2>1. i \in 1..Len(q) /\ p + j \in 1..Len(q) /\ i # p + j /\ s[i] = q[i] /\ t[j] = q[p + j]
    BY <1>4, <1>6
  <2> QED BY <1>7, <2>1
<1>11. q = (s \o <<x>>) \o t
  <2> DEFINE z == (s \o <<x>>) \o t
  <2>1. /\ z \in Seq(A) /\ Len(z) = Len(s) + 1 + Len(t) /\ z[Len(s) + 1] = x
        /\ \A i \in 1..Len(s) : z[i] = s[i]
        /\ \A i \in 1..Len(t) : z[Len(s) + 1 + i] = t[i]
    <3>1. s \in Seq(A) /\ t \in Seq(A)
      BY <1>4
    <3> QED BY <1>3, <3>1, TheMiddle
  <2> HIDE DEF z
  <2>2. Len(z) = Len(q) /\ Len(s) + 1 = p
    BY <1>1, <1>4, <2>1
  <2>3. ASSUME NEW i \in 1..Len(z) PROVE z[i] = q[i]
    <3>1. CASE i \in 1..(p - 1)
      BY <1>4, <2>1, <3>1
    <3>2. CASE i = p
      BY <1>2, <2>1, <2>2, <3>2
    <3>3. CASE i > p
      <4>1. i - p \in 1..(Len(q) - p) /\ p + (i - p) = i
        BY <1>1, <2>2, <3>3
      <4>2. t[i - p] = q[i]
        BY <1>4, <4>1
      <4>3. z[Len(s) + 1 + (i - p)] = t[i - p]
        BY <1>4, <2>1, <4>1
      <4>4. Len(s) + 1 + (i - p) = i
        BY <2>2, <4>1
      <4> QED BY <4>2, <4>3, <4>4
    <3> QED BY <1>1, <2>2, <3>1, <3>2, <3>3
  <2>4. z = q
    BY <2>1, <2>2, <2>3, SeqEqual
  <2> QED BY <2>4 DEF z
<1>12. Around(q, x, s, t)
  BY <1>8, <1>9, <1>10, <1>11 DEF Around
<1> QED BY <1>3, <1>4, <1>12

\* Taking out an element leaves the others, in their order.
LEMMA WithoutKeepsTheRest ==
  ASSUME NEW A, NEW q \in Seq(A), Injective(q), NEW x \in Elements(q)
  PROVE  /\ Without(q, x) \in Seq(A) /\ Len(Without(q, x)) + 1 = Len(q)
         /\ Elements(Without(q, x)) = Elements(q) \ {x}
         /\ Injective(Without(q, x))
<1>0. PICK s \in Seq(A), t \in Seq(A) : Around(q, x, s, t)
  BY EveryElementIsAMiddle
<1>1. /\ q = (s \o <<x>>) \o t /\ x \notin Elements(s) /\ x \notin Elements(t)
      /\ Injective(s) /\ Injective(t) /\ Elements(s) \cap Elements(t) = {}
  BY <1>0 DEF Around
<1>2. x \in A
  BY EveryElementIsAMiddle
<1>3. Without((s \o <<x>>) \o t, x) = s \o t
  BY <1>1, <1>2, WithoutMiddle
<1>4. /\ s \o t \in Seq(A) /\ Len(s \o t) = Len(s) + Len(t)
      /\ Len(s) \in Nat /\ Len(t) \in Nat
  BY ConcatProperties, LenProperties
<1>5. /\ Elements(s \o t) = Elements(s) \cup Elements(t)
      /\ Injective(s) /\ Injective(t) /\ Elements(s) \cap Elements(t) = {} => Injective(s \o t)
  BY ConcatMembers
<1>6. /\ Len((s \o <<x>>) \o t) = Len(s) + 1 + Len(t)
      /\ Elements((s \o <<x>>) \o t) = Elements(s) \cup {x} \cup Elements(t)
  BY <1>2, TheMiddle
<1>7. Without(q, x) = s \o t
  BY <1>1, <1>3
<1>8. Len(q) = Len(s) + 1 + Len(t) /\ Elements(q) = Elements(s) \cup {x} \cup Elements(t)
  BY <1>1, <1>6
<1>9. Len(s \o t) + 1 = Len(q)
  BY <1>4, <1>8
<1> QED BY <1>1, <1>4, <1>5, <1>7, <1>8, <1>9

(***************************************************************************)
(* Selections from a sequence                                              *)
(***************************************************************************)
\* Only has the members of S among those of the sequence, no more often than they were.
LEMMA OnlyMembers ==
  ASSUME NEW A, NEW q \in Seq(A), NEW S
  PROVE  /\ Only(q, S) \in Seq(A) /\ Len(Only(q, S)) <= Len(q)
         /\ Elements(Only(q, S)) = Elements(q) \cap S
         /\ Injective(q) => Injective(Only(q, S))
<1> DEFINE k == KeptOf(q, S)
           Upto(n) == { q[i] : i \in 1..n }
           Right(n) == /\ k[n] \in Seq(A) /\ Len(k[n]) <= n /\ Elements(k[n]) = Upto(n) \cap S
                       /\ Injective(q) => Injective(k[n])
           T == { n \in Nat : n <= Len(q) => Right(n) }
<1>1. Len(q) \in Nat /\ DOMAIN q = 1..Len(q)
  BY LenProperties
<1>2. /\ k[0] = <<>>
      /\ \A n \in Nat : n < Len(q) => k[n + 1] = IF q[n + 1] \in S THEN Append(k[n], q[n + 1]) ELSE k[n]
  BY KeptStepByStep
<1> HIDE DEF k
<1>3. 0 \in T
  <2>1. k[0] \in Seq(A) /\ Len(k[0]) = 0 /\ Elements(k[0]) = {} /\ Injective(k[0])
    BY <1>2 DEF Elements, Injective
  <2>2. Upto(0) = {}
    OBVIOUS
  <2> QED BY <2>1, <2>2
<1>4. ASSUME NEW n \in Nat, n \in T PROVE n + 1 \in T
  <2> SUFFICES ASSUME n + 1 <= Len(q) PROVE Right(n + 1)
    OBVIOUS
  <2>1. /\ k[n] \in Seq(A) /\ Len(k[n]) <= n /\ Elements(k[n]) = Upto(n) \cap S
        /\ Injective(q) => Injective(k[n])
    BY <1>1, <1>4
  <2>2. n + 1 \in 1..Len(q) /\ n < Len(q)
    BY <1>1
  <2>3. q[n + 1] \in A
    BY <2>2, ElementOfSeq
  <2>4. Upto(n + 1) = Upto(n) \cup {q[n + 1]}
    <3>1. 1..(n + 1) = (1..n) \cup {n + 1}
      OBVIOUS
    <3> QED BY <3>1
  <2>5. Injective(q) => q[n + 1] \notin Upto(n)
    <3> SUFFICES ASSUME Injective(q), NEW i \in 1..n PROVE q[n + 1] # q[i]
      OBVIOUS
    <3>1. i \in 1..Len(q) /\ i # n + 1
      BY <2>2
    <3> QED BY <1>1, <2>2, <3>1 DEF Injective
  <2> HIDE DEF Upto
  <2>6. CASE q[n + 1] \in S
    <3>1. k[n + 1] = Append(k[n], q[n + 1])
      BY <1>2, <2>2, <2>6
    <3>2. /\ Append(k[n], q[n + 1]) \in Seq(A) /\ Len(Append(k[n], q[n + 1])) = Len(k[n]) + 1
          /\ Elements(Append(k[n], q[n + 1])) = Elements(k[n]) \cup {q[n + 1]}
          /\ Injective(k[n]) /\ q[n + 1] \notin Elements(k[n]) => Injective(Append(k[n], q[n + 1]))
      BY <2>1, <2>3, AppendMembers
    <3>3. Len(k[n]) \in Nat
      BY <2>1, LenProperties
    <3>4. Len(k[n + 1]) <= n + 1
      BY <2>1, <3>1, <3>2, <3>3
    <3>5. Elements(k[n + 1]) = Upto(n + 1) \cap S
      BY <2>1, <2>4, <2>6, <3>1, <3>2
    <3>6. Injective(q) => Injective(k[n + 1])
      BY <2>1, <2>5, <3>1, <3>2
    <3> QED BY <3>1, <3>2, <3>4, <3>5, <3>6
  <2>7. CASE q[n + 1] \notin S
    <3>1. k[n + 1] = k[n]
      BY <1>2, <2>2, <2>7
    <3>2. Len(k[n]) \in Nat
      BY <2>1, LenProperties
    <3>3. Len(k[n + 1]) <= n + 1
      BY <2>1, <3>1, <3>2
    <3>4. Elements(k[n + 1]) = Upto(n + 1) \cap S
      BY <2>1, <2>4, <2>7, <3>1
    <3> QED BY <2>1, <3>1, <3>3, <3>4
  <2> QED BY <2>6, <2>7
<1> HIDE DEF T
<1>5. Len(q) \in T
  BY <1>1, <1>3, <1>4, NatSetInduction
<1>6. Right(Len(q))
  BY <1>1, <1>5 DEF T
<1>7. Upto(Len(q)) = Elements(q)
  BY <1>1 DEF Elements
<1> HIDE DEF Upto
<1> QED BY <1>6, <1>7 DEF k, Only

\* What is selected does not depend on the rest of the sequence.
LEMMA KeptOfAPrefix ==
  ASSUME NEW A, NEW s \in Seq(A), NEW t \in Seq(A), NEW S
  PROVE  KeptOf(s \o t, S)[Len(s)] = Only(s, S)
<1> DEFINE k == KeptOf(s \o t, S)
           h == KeptOf(s, S)
           T == { n \in Nat : n <= Len(s) => k[n] = h[n] }
<1>1. /\ s \o t \in Seq(A) /\ Len(s \o t) = Len(s) + Len(t) /\ Len(s) \in Nat /\ Len(t) \in Nat
      /\ \A i \in 1..(Len(s) + Len(t)) : (s \o t)[i] = IF i <= Len(s) THEN s[i] ELSE t[i - Len(s)]
  BY ConcatProperties, LenProperties
<1>2. /\ k[0] = <<>>
      /\ \A n \in Nat : n < Len(s \o t) =>
           k[n + 1] = IF (s \o t)[n + 1] \in S THEN Append(k[n], (s \o t)[n + 1]) ELSE k[n]
  <2> DEFINE q == s \o t
  <2>1. q \in Seq(A)
    BY <1>1
  <2> HIDE DEF q
  <2>2. /\ KeptOf(q, S)[0] = <<>>
        /\ \A n \in Nat : n < Len(q) =>
             KeptOf(q, S)[n + 1] = IF q[n + 1] \in S THEN Append(KeptOf(q, S)[n], q[n + 1]) ELSE KeptOf(q, S)[n]
    BY <2>1, KeptStepByStep
  <2> QED BY <2>2 DEF q
<1>3. /\ h[0] = <<>>
      /\ \A n \in Nat : n < Len(s) => h[n + 1] = IF s[n + 1] \in S THEN Append(h[n], s[n + 1]) ELSE h[n]
  BY KeptStepByStep
<1> HIDE DEF k, h
<1>4. 0 \in T
  BY <1>2, <1>3
<1>5. ASSUME NEW n \in Nat, n \in T PROVE n + 1 \in T
  <2> SUFFICES ASSUME n + 1 <= Len(s) PROVE k[n + 1] = h[n + 1]
    OBVIOUS
  <2>1. n < Len(s) /\ n < Len(s \o t) /\ n + 1 \in 1..(Len(s) + Len(t)) /\ k[n] = h[n]
    BY <1>1, <1>5
  <2>2. (s \o t)[n + 1] = s[n + 1]
    BY <1>1, <2>1
  <2> QED BY <1>2, <1>3, <2>1, <2>2
<1> HIDE DEF T
<1>6. Len(s) \in T
  BY <1>1, <1>4, <1>5, NatSetInduction
<1>7. k[Len(s)] = h[Len(s)]
  BY <1>1, <1>6 DEF T
<1> QED BY <1>7 DEF k, h, Only

\* The selection from two sequences put together is the two selections put together.
LEMMA OnlyOfConcat ==
  ASSUME NEW A, NEW s \in Seq(A), NEW t \in Seq(A), NEW S
  PROVE  Only(s \o t, S) = Only(s, S) \o Only(t, S)
<1> DEFINE k == KeptOf(s \o t, S)
           h == KeptOf(t, S)
           o == Only(s, S)
           T == { n \in Nat : n <= Len(t) => h[n] \in Seq(A) /\ k[Len(s) + n] = o \o h[n] }
<1>1. /\ s \o t \in Seq(A) /\ Len(s \o t) = Len(s) + Len(t) /\ Len(s) \in Nat /\ Len(t) \in Nat
      /\ \A i \in 1..(Len(s) + Len(t)) : (s \o t)[i] = IF i <= Len(s) THEN s[i] ELSE t[i - Len(s)]
  BY ConcatProperties, LenProperties
<1>2. \A n \in Nat : n < Len(s \o t) =>
        k[n + 1] = IF (s \o t)[n + 1] \in S THEN Append(k[n], (s \o t)[n + 1]) ELSE k[n]
  <2> DEFINE q == s \o t
  <2>1. q \in Seq(A)
    BY <1>1
  <2> HIDE DEF q
  <2>2. \A n \in Nat : n < Len(q) =>
          KeptOf(q, S)[n + 1] = IF q[n + 1] \in S THEN Append(KeptOf(q, S)[n], q[n + 1]) ELSE KeptOf(q, S)[n]
    BY <2>1, KeptStepByStep
  <2> QED BY <2>2 DEF q
<1>3. /\ h[0] = <<>>
      /\ \A n \in Nat : n < Len(t) => h[n + 1] = IF t[n + 1] \in S THEN Append(h[n], t[n + 1]) ELSE h[n]
  BY KeptStepByStep
<1>4. k[Len(s)] = o
  BY KeptOfAPrefix
<1>5. o \in Seq(A)
  BY OnlyMembers
<1> HIDE DEF k, h, o
<1>6. 0 \in T
  <2>1. Len(s) + 0 = Len(s) /\ h[0] \in Seq(A)
    BY <1>1, <1>3
  <2>2. o \o h[0] = o
    BY <1>3, <1>5, ConcatEmptySeq
  <2> QED BY <1>4, <2>1, <2>2
<1>7. ASSUME NEW n \in Nat, n \in T PROVE n + 1 \in T
  <2> SUFFICES ASSUME n + 1 <= Len(t)
               PROVE  h[n + 1] \in Seq(A) /\ k[Len(s) + (n + 1)] = o \o h[n + 1]
    OBVIOUS
  <2>1. /\ n < Len(t) /\ n + 1 \in 1..Len(t) /\ Len(s) + n \in Nat /\ Len(s) + n < Len(s \o t)
        /\ Len(s) + (n + 1) = (Len(s) + n) + 1
    BY <1>1
  <2>2. h[n] \in Seq(A) /\ k[Len(s) + n] = o \o h[n]
    BY <1>7, <2>1
  <2>3. (s \o t)[(Len(s) + n) + 1] = t[n + 1]
    <3>1. /\ (Len(s) + n) + 1 \in 1..(Len(s) + Len(t)) /\ ~((Len(s) + n) + 1 <= Len(s))
          /\ ((Len(s) + n) + 1) - Len(s) = n + 1
      BY <1>1, <2>1
    <3> QED BY <1>1, <3>1
  <2>4. t[n + 1] \in A
    BY <2>1, ElementOfSeq
  <2>5. k[(Len(s) + n) + 1] = IF t[n + 1] \in S THEN Append(k[Len(s) + n], t[n + 1]) ELSE k[Len(s) + n]
    BY <1>2, <2>1, <2>3
  <2>6. h[n + 1] = IF t[n + 1] \in S THEN Append(h[n], t[n + 1]) ELSE h[n]
    BY <1>3, <2>1
  <2>7. CASE t[n + 1] \in S
    <3> DEFINE e == <<t[n + 1]>>
    <3>1. e \in Seq(A) /\ o \o h[n] \in Seq(A) /\ Append(h[n], t[n + 1]) \in Seq(A)
      BY <1>5, <2>2, <2>4, ConcatProperties, AppendProperties
    <3>2. Append(h[n], t[n + 1]) = h[n] \o e /\ Append(o \o h[n], t[n + 1]) = (o \o h[n]) \o e
      BY <2>2, <2>4, <3>1, AppendIsConcat
    <3> HIDE DEF e
    <3>3. (o \o h[n]) \o e = o \o (h[n] \o e)
      <4> DEFINE g == h[n]
      <4>1. o \in Seq(A) /\ g \in Seq(A) /\ e \in Seq(A)
        BY <1>5, <2>2, <3>1
      <4> HIDE DEF g, T
      <4>2. Join(Join(o, g), e) = Join(o, Join(g, e))
        BY <4>1, JoinedInAnyOrder
      <4>3. (o \o g) \o e = o \o (g \o e)
        BY <4>2, Zenon DEF Join
      <4> QED BY <4>3 DEF g
    <3>4. k[(Len(s) + n) + 1] = (o \o h[n]) \o e /\ h[n + 1] = h[n] \o e
      BY <2>2, <2>5, <2>6, <2>7, <3>2
    <3>5. h[n + 1] \in Seq(A)
      BY <2>6, <2>7, <3>1
    <3>6. k[Len(s) + (n + 1)] = k[(Len(s) + n) + 1]
      BY <2>1
    <3> QED BY <3>3, <3>4, <3>5, <3>6
  <2>8. CASE t[n + 1] \notin S
    BY <2>1, <2>2, <2>5, <2>6, <2>8
  <2> QED BY <2>7, <2>8
<1> HIDE DEF T
<1>8. Len(t) \in T
  BY <1>1, <1>6, <1>7, NatSetInduction
<1>9. k[Len(s) + Len(t)] = o \o h[Len(t)]
  BY <1>1, <1>8 DEF T
<1> QED BY <1>1, <1>9 DEF k, h, o, Only

\* Nothing is selected from nothing; one element is, if it is in the set.
LEMMA OnlyOfOne ==
  ASSUME NEW A, NEW x \in A, NEW S
  PROVE  Only(<<>>, S) = <<>> /\ Only(<<x>>, S) = IF x \in S THEN <<x>> ELSE <<>>
<1>1. Only(<<>>, S) = <<>>
  <2> DEFINE q == <<>>
  <2>1. q \in Seq(A) /\ Len(q) = 0
    BY EmptySeq
  <2> HIDE DEF q
  <2>2. q \in Seq(A)
    BY <2>1
  <2>3. KeptOf(q, S)[0] = <<>>
    BY <2>2, KeptStepByStep
  <2>4. Only(q, S) = <<>>
    BY <2>1, <2>3 DEF Only
  <2> QED BY <2>4 DEF q
<1>2. Only(<<x>>, S) = IF x \in S THEN <<x>> ELSE <<>>
  <2> DEFINE q == <<x>>
  <2>1. q \in Seq(A) /\ Len(q) = 1 /\ q[1] = x /\ Append(<<>>, x) = q
    OBVIOUS
  <2> HIDE DEF q
  <2>2. /\ KeptOf(q, S)[0] = <<>>
        /\ \A n \in Nat : n < Len(q) =>
             KeptOf(q, S)[n + 1] = IF q[n + 1] \in S THEN Append(KeptOf(q, S)[n], q[n + 1]) ELSE KeptOf(q, S)[n]
    BY <2>1, KeptStepByStep
  <2>3. KeptOf(q, S)[1] = IF x \in S THEN Append(<<>>, x) ELSE <<>>
    <3>1. 0 \in Nat /\ 0 < Len(q) /\ 0 + 1 = 1
      BY <2>1
    <3>2. KeptOf(q, S)[0 + 1] = IF q[0 + 1] \in S THEN Append(KeptOf(q, S)[0], q[0 + 1]) ELSE KeptOf(q, S)[0]
      BY <2>2, <3>1
    <3> QED BY <2>1, <2>2, <3>1, <3>2
  <2>4. Only(q, S) = IF x \in S THEN q ELSE <<>>
    BY <2>1, <2>3 DEF Only
  <2> QED BY <2>4 DEF q
<1> QED BY <1>1, <1>2

\* A sequence of members of the set is left as it is.
LEMMA OnlyIsAll ==
  ASSUME NEW A, NEW q \in Seq(A), NEW S, Elements(q) \subseteq S
  PROVE  Only(q, S) = q
<1> DEFINE k == KeptOf(q, S)
           T == { n \in Nat : n <= Len(q) => k[n] = SubSeq(q, 1, n) }
<1>1. Len(q) \in Nat /\ DOMAIN q = 1..Len(q)
  BY LenProperties
<1>2. /\ k[0] = <<>>
      /\ \A n \in Nat : n < Len(q) => k[n + 1] = IF q[n + 1] \in S THEN Append(k[n], q[n + 1]) ELSE k[n]
  BY KeptStepByStep
<1> HIDE DEF k
<1>3. 0 \in T
  <2>1. SubSeq(q, 1, 0) = <<>>
    BY SubSeqEmpty
  <2> QED BY <1>2, <2>1
<1>4. ASSUME NEW n \in Nat, n \in T PROVE n + 1 \in T
  <2> SUFFICES ASSUME n + 1 <= Len(q) PROVE k[n + 1] = SubSeq(q, 1, n + 1)
    OBVIOUS
  <2>1. /\ n < Len(q) /\ n + 1 \in 1..Len(q) /\ 1 \in 1..Len(q) /\ n + 1 \in 1..Len(q) /\ (n + 1) - 1 = n
        /\ k[n] = SubSeq(q, 1, n)
    BY <1>1, <1>4
  <2>2. q[n + 1] \in S /\ q[n + 1] \in A
    BY <1>1, <2>1, ElementOfSeq DEF Elements
  <2>3. \A i \in 1..n : q[i] \in A
    <3>1. \A i \in 1..n : i \in 1..Len(q)
      BY <1>1, <2>1
    <3> QED BY <3>1, ElementOfSeq
  <2>4. SubSeq(q, 1, n) \in Seq(A)
    BY <2>3, SubSeqProperties
  <2>5. SubSeq(q, 1, n + 1) = SubSeq(q, 1, n) \o <<q[n + 1]>>
    <3> DEFINE m == n + 1
    <3>1. m \in 1..Len(q) /\ 1 \in 1..Len(q) /\ m - 1 = n
      BY <2>1
    <3> HIDE DEF m
    <3>2. SubSeq(q, 1, m) = SubSeq(q, 1, m - 1) \o <<q[m]>>
      BY <3>1, SubSeqRecursiveSecond
    <3> QED BY <3>1, <3>2 DEF m
  <2>6. Append(SubSeq(q, 1, n), q[n + 1]) = SubSeq(q, 1, n) \o <<q[n + 1]>>
    BY <2>2, <2>4, AppendIsConcat
  <2> QED BY <1>2, <2>1, <2>2, <2>5, <2>6
<1> HIDE DEF T
<1>5. Len(q) \in T
  BY <1>1, <1>3, <1>4, NatSetInduction
<1>6. k[Len(q)] = SubSeq(q, 1, Len(q))
  BY <1>1, <1>5 DEF T
<1>7. SubSeq(q, 1, Len(q)) = q
  BY SubSeqFull
<1> QED BY <1>6, <1>7 DEF k, Only

\* It is the same to take an element out before or after the selection.
LEMMA OnlyOfWithout ==
  ASSUME NEW A, NEW q \in Seq(A), Injective(q), NEW x \in Elements(q), NEW S, x \in S
  PROVE  Only(Without(q, x), S) = Without(Only(q, S), x)
<1>0. PICK s \in Seq(A), t \in Seq(A) : Around(q, x, s, t)
  BY EveryElementIsAMiddle
<1>1. q = (s \o <<x>>) \o t /\ x \notin Elements(s) /\ x \notin Elements(t)
  BY <1>0 DEF Around
<1>2. x \in A
  BY EveryElementIsAMiddle
<1>3. Without((s \o <<x>>) \o t, x) = s \o t
  BY <1>1, <1>2, WithoutMiddle
<1>4. Only(s \o t, S) = Only(s, S) \o Only(t, S)
  BY OnlyOfConcat
<1>5. Only((s \o <<x>>) \o t, S) = (Only(s, S) \o <<x>>) \o Only(t, S)
  <2> DEFINE e == <<x>>
  <2>1. e \in Seq(A) /\ Only(e, S) = e
    BY <1>2, OnlyOfOne
  <2> HIDE DEF e
  <2>0. e \in Seq(A)
    BY <2>1
  <2>2. s \o e \in Seq(A)
    BY <2>0, ConcatProperties
  <2>3. Only(s \o e, S) = Only(s, S) \o Only(e, S)
    BY <2>0, OnlyOfConcat
  <2> DEFINE u == s \o e
  <2>4. u \in Seq(A)
    BY <2>2
  <2> HIDE DEF u
  <2>5. Only(u \o t, S) = Only(u, S) \o Only(t, S)
    BY <2>4, OnlyOfConcat
  <2> QED BY <2>1, <2>3, <2>5 DEF e, u
<1>6. /\ Only(s, S) \in Seq(A) /\ Only(t, S) \in Seq(A)
      /\ Elements(Only(s, S)) = Elements(s) \cap S /\ Elements(Only(t, S)) = Elements(t) \cap S
  BY OnlyMembers
<1> DEFINE os == Only(s, S)
           ot == Only(t, S)
<1>7. os \in Seq(A) /\ ot \in Seq(A) /\ x \notin Elements(os) /\ x \notin Elements(ot)
  BY <1>1, <1>6
<1> HIDE DEF os, ot
<1>8. Without((os \o <<x>>) \o ot, x) = os \o ot
  BY <1>2, <1>7, WithoutMiddle
<1> QED BY <1>1, <1>3, <1>4, <1>5, <1>8 DEF os, ot

(***************************************************************************)
(* The inductive invariant                                                 *)
(***************************************************************************)
NoRequest == [op |-> "none"]
AnyRequest == Request \cup [op: {"reorder"}, revision: Nat, seen: Seq(Album), order: Seq(Album)]

\* What the owner may be shown and may ask for.
Orderly(q) == q \in Seq(Present) /\ Injective(q) /\ Len(q) <= MaxQueue

\* If r is still the revision, q is still what the owner sees.
WasShown(r, q) == r <= db.profile.rev /\ (r = db.profile.rev => q = Visible(db.profile))

\* The next queue is what the request makes of the queue as it is.
Answers(next, req) ==
  IF req.op = "reorder" THEN req.seen = Visible(db.profile) /\ next = req.order
  ELSE ~NoRoom(Visible(db.profile), req) /\ next = Change(Visible(db.profile), req)

Documents == [profile: Profile, diary: Nat]
DocumentsAreSound ==
  /\ db \in Documents /\ SoundProfile(db.profile)
  /\ \A l \in OpenClients : /\ tx[l].snap \in Documents /\ SoundProfile(tx[l].snap.profile)
                            /\ tx[l].req.album \in Present

Calls   == [req: AnyRequest \cup {NoRequest}, outcome: {"open", "ok", "full", "changed"}]
Works   == [pc: {"idle", "load", "write"}, attempts: 0..(WriteAttempts - 1), rev: Nat, next: Seq(Album)]
Screens == [revision: Nat, shown: Seq(Album)]

\* A caller's request, the work on it and the screen.
Sound(cl, w, v) ==
  /\ cl.req.op = "reorder" => WasShown(cl.req.revision, cl.req.seen) /\ Orderly(cl.req.order)
  /\ w.pc # "idle" => cl.outcome = "open" /\ cl.req # NoRequest
  /\ w.pc = "write" => /\ Orderly(w.next) /\ w.rev <= db.profile.rev
                       /\ w.rev = db.profile.rev => Answers(w.next, cl.req)
  /\ Orderly(v.shown) /\ WasShown(v.revision, v.shown)
CallersAreSound ==
  /\ call \in [Caller -> Calls] /\ work \in [Caller -> Works] /\ view \in [Caller -> Screens]
  /\ \A c \in Caller : Sound(call[c], work[c], view[c])

QueueInv == Transactions /\ DocumentsAreSound /\ CallersAreSound /\ sent \in 0..MaxRequests

(***************************************************************************)
(* Profiles and what becomes of them                                       *)
(***************************************************************************)
\* What an old or a new profile has for its queue is sound.
LEMMA EffectiveQueueIsSound ==
  ASSUME NEW p, SoundProfile(p)
  PROVE  /\ EffectiveQueue(p) \in Seq(Album) /\ Injective(EffectiveQueue(p)) /\ Len(EffectiveQueue(p)) <= MaxQueue
         /\ p.rev = 0 => \A a \in p.legacy : EffectiveQueue(p) = <<a>>
         /\ p.rev = 0 /\ p.legacy = {} => EffectiveQueue(p) = <<>>
<1>1. /\ p.queue \in Seq(Album) /\ p.rev \in Nat /\ p.legacy \subseteq Album /\ Injective(p.queue)
      /\ Len(p.queue) <= MaxQueue /\ \A a, b \in p.legacy : a = b
  BY DEF SoundProfile, Profile
<1>2. CASE p.rev > 0
  <2>1. EffectiveQueue(p) = p.queue /\ p.rev # 0
    BY <1>1, <1>2 DEF EffectiveQueue
  <2> QED BY <1>1, <2>1
<1>3. CASE p.rev = 0 /\ p.legacy = {}
  <2>1. EffectiveQueue(p) = <<>>
    BY <1>1, <1>3 DEF EffectiveQueue
  <2>2. Injective(<<>>) /\ <<>> \in Seq(Album) /\ Len(<<>>) = 0
    BY DEF Injective
  <2> QED BY <1>3, <2>1, <2>2, QueueAssumption
<1>4. CASE p.rev = 0 /\ p.legacy # {}
  <2>1. PICK a \in p.legacy : p.legacy = {a}
    BY <1>1, <1>4
  <2>2. (CHOOSE b \in p.legacy : TRUE) = a
    BY <2>1
  <2>3. EffectiveQueue(p) = <<a>>
    <3>1. ~(p.rev > 0) /\ ~(p.legacy = {})
      BY <1>4
    <3> QED BY <2>2, <3>1, Zenon DEF EffectiveQueue
  <2>4. <<a>> \in Seq(Album) /\ Len(<<a>>) = 1 /\ Injective(<<a>>)
    BY <1>1, OneElement
  <2>5. 1 <= MaxQueue
    BY QueueAssumption
  <2> QED BY <1>4, <2>1, <2>3, <2>4, <2>5
<1> QED BY <1>1, <1>2, <1>3, <1>4

\* A sequence of albums that are all present is one of present albums.
LEMMA SequenceOfItsElements ==
  ASSUME NEW A, NEW B, NEW q \in Seq(A), Elements(q) \subseteq B
  PROVE  q \in Seq(B)
<1>1. Len(q) \in Nat /\ DOMAIN q = 1..Len(q) /\ q \in [1..Len(q) -> A]
  BY LenProperties
<1>2. \A i \in 1..Len(q) : q[i] \in B
  BY <1>1 DEF Elements
<1>3. q \in [1..Len(q) -> B]
  BY <1>1, <1>2
<1> QED BY <1>1, <1>3, SeqDef

\* The elements of a sequence over a set are in that set.
LEMMA ElementsOfSequence ==
  ASSUME NEW A, NEW q \in Seq(A)
  PROVE  Elements(q) \subseteq A
<1>1. DOMAIN q = 1..Len(q)
  BY LenProperties
<1> QED BY <1>1, ElementOfSeq DEF Elements

\* What the owner sees of a sound profile.
LEMMA VisibleIsOrderly ==
  ASSUME NEW p, SoundProfile(p)
  PROVE  /\ Orderly(Visible(p)) /\ Elements(Visible(p)) = Elements(EffectiveQueue(p)) \cap Present
         /\ Elements(EffectiveQueue(p)) \subseteq Present => Visible(p) = EffectiveQueue(p)
<1> DEFINE q == EffectiveQueue(p)
<1>1. q \in Seq(Album) /\ Injective(q) /\ Len(q) <= MaxQueue
  BY EffectiveQueueIsSound
<1> HIDE DEF q
<1>2. /\ Only(q, Present) \in Seq(Album) /\ Len(Only(q, Present)) <= Len(q)
      /\ Elements(Only(q, Present)) = Elements(q) \cap Present
      /\ Injective(Only(q, Present))
  BY <1>1, OnlyMembers
<1>3. Elements(q) \subseteq Present => Only(q, Present) = q
  BY <1>1, OnlyIsAll
<1>4. Only(q, Present) \in Seq(Present)
  BY <1>2, SequenceOfItsElements
<1>5. Len(Only(q, Present)) <= MaxQueue
  <2>1. Len(q) \in Nat /\ Len(Only(q, Present)) \in Nat /\ MaxQueue \in Nat
    BY <1>1, <1>2, LenProperties, QueueAssumption
  <2> QED BY <1>1, <1>2, <2>1
<1> QED BY <1>2, <1>3, <1>4, <1>5 DEF q, Visible, Orderly

\* What a request makes of an orderly queue is orderly, unless there is no room.
LEMMA ChangeIsOrderly ==
  ASSUME NEW q, Orderly(q), NEW r \in Request, ~NoRoom(q, r)
  PROVE  Orderly(Change(q, r))
<1>1. q \in Seq(Present) /\ Injective(q) /\ Len(q) <= MaxQueue /\ Len(q) \in Nat /\ MaxQueue \in Nat
  BY LenProperties, QueueAssumption DEF Orderly
<1>2. /\ r.album \in Present /\ (r.op = "add" \/ r.op = "remove")
      /\ r.op = "add" => r.position \in Position
  BY DEF Request
<1> DEFINE a == r.album
           rest == Rest(q, a)
<1>3. /\ rest \in Seq(Present) /\ Injective(rest) /\ Elements(rest) = Elements(q) \ {a}
      /\ Len(rest) + (IF a \in Elements(q) THEN 1 ELSE 0) = Len(q) /\ Len(rest) \in Nat
  <2> HIDE DEF a
  <2>1. CASE a \in Elements(q)
    <3>1. rest = Without(q, a)
      BY <2>1 DEF Rest
    <3> HIDE DEF rest
    <3>2. /\ Without(q, a) \in Seq(Present) /\ Len(Without(q, a)) + 1 = Len(q)
          /\ Elements(Without(q, a)) = Elements(q) \ {a} /\ Injective(Without(q, a))
      BY <1>1, <2>1, WithoutKeepsTheRest
    <3> QED BY <2>1, <3>1, <3>2, LenProperties
  <2>2. CASE a \notin Elements(q)
    <3>1. rest = q
      BY <2>2 DEF Rest
    <3> HIDE DEF rest
    <3> QED BY <1>1, <2>2, <3>1
  <2> QED BY <2>1, <2>2
<1> HIDE DEF rest
<1>4. r.op = "add" => Len(rest) + 1 <= MaxQueue
  BY <1>1, <1>3 DEF NoRoom
<1> DEFINE e == <<a>>
<1>5. e \in Seq(Present) /\ Len(e) = 1 /\ Elements(e) = {a} /\ Injective(e)
  BY <1>2, OneElement
<1> HIDE DEF e
<1>6. ASSUME Len(rest) + 1 <= MaxQueue PROVE Orderly(rest \o e) /\ Orderly(e \o rest)
  <2>0. rest \in Seq(Present) /\ e \in Seq(Present)
    BY <1>3, <1>5
  <2>1. /\ rest \o e \in Seq(Present) /\ Len(rest \o e) = Len(rest) + Len(e)
        /\ e \o rest \in Seq(Present) /\ Len(e \o rest) = Len(e) + Len(rest)
    BY <2>0, ConcatProperties
  <2>2. Injective(rest) /\ Injective(e) /\ Elements(rest) \cap Elements(e) = {} => Injective(rest \o e)
    BY <2>0, ConcatMembers
  <2>3. Injective(e) /\ Injective(rest) /\ Elements(e) \cap Elements(rest) = {} => Injective(e \o rest)
    BY <2>0, ConcatMembers
  <2>4. Elements(rest) \cap Elements(e) = {} /\ Elements(e) \cap Elements(rest) = {}
    BY <1>3, <1>5
  <2>5. Injective(rest \o e) /\ Injective(e \o rest)
    BY <1>3, <1>5, <2>2, <2>3, <2>4
  <2>6. Len(rest \o e) <= MaxQueue /\ Len(e \o rest) <= MaxQueue
    BY <1>3, <1>5, <1>6, <2>1
  <2> QED BY <2>1, <2>5, <2>6 DEF Orderly
<1>7. CASE r.op = "add"
  <2>1. Change(q, r) = IF a \in Elements(q) /\ r.position = "none" THEN q
                       ELSE IF r.position = "top" THEN e \o rest ELSE rest \o e
    BY <1>7 DEF Change, PlaceAlbum, rest, e
  <2>2. Orderly(rest \o e) /\ Orderly(e \o rest)
    BY <1>4, <1>6, <1>7
  <2> QED BY <2>1, <2>2
<1>8. CASE r.op = "remove"
  <2>1. Change(q, r) = rest
    BY <1>8 DEF Change, rest
  <2>2. Len(rest) <= MaxQueue
    BY <1>1, <1>3
  <2> QED BY <1>3, <2>1, <2>2 DEF Orderly
<1> QED BY <1>2, <1>7, <1>8

\* A queue that is written is what the owner sees from then on.
LEMMA WrittenIsVisible ==
  ASSUME NEW p, SoundProfile(p), NEW q, Orderly(q)
  PROVE  /\ SoundProfile(Written(p, q, p.rev)) /\ Visible(Written(p, q, p.rev)) = q
         /\ Written(p, q, p.rev).rev > p.rev
<1> DEFINE w == Written(p, q, p.rev)
<1>1. q \in Seq(Album) /\ Injective(q) /\ Len(q) <= MaxQueue /\ Elements(q) \subseteq Present
  <2>1. q \in Seq(Present) /\ Injective(q) /\ Len(q) <= MaxQueue
    BY DEF Orderly
  <2>2. Present \subseteq Album
    BY DEF Present
  <2>3. q \in Seq(Album)
    BY <2>1, <2>2, SeqMonotonic
  <2> QED BY <2>1, <2>3, ElementsOfSequence
<1>2. w \in Profile /\ w.queue = q /\ w.rev = p.rev + 1 /\ w.legacy = {} /\ p.rev \in Nat
  <2> DEFINE r == p.rev + 1
             n == {}
  <2>1. p \in Profile /\ p.rev \in Nat /\ r \in Nat /\ n \in SUBSET Album
    BY DEF SoundProfile, Profile
  <2>2. w = [p EXCEPT !.queue = q, !.rev = r, !.legacy = n]
    BY DEF Written
  <2> HIDE DEF w, r, n
  <2>3. w \in Profile /\ w.queue = q /\ w.rev = r /\ w.legacy = n
    BY <1>1, <2>1, <2>2 DEF Profile
  <2> QED BY <2>1, <2>3 DEF r, n
<1> HIDE DEF w
<1>3. w.rev # 0 /\ w.rev > 0 /\ w.rev > p.rev
  BY <1>2
<1>4. SoundProfile(w)
  BY <1>1, <1>2, <1>3 DEF SoundProfile
<1>5. EffectiveQueue(w) = q
  BY <1>2, <1>3 DEF EffectiveQueue
<1>6. Visible(w) = q
  BY <1>1, <1>4, <1>5, VisibleIsOrderly
<1> QED BY <1>3, <1>4, <1>6 DEF w

\* Listening to an album takes it, and nothing else, out of what the owner sees,
\* and the revision tells if the profile changed.
LEMMA ListeningTakesOut ==
  ASSUME NEW p, SoundProfile(p), NEW a \in Present
  PROVE  /\ SoundProfile(WithoutListened(p, a))
         /\ Visible(WithoutListened(p, a)) = Rest(Visible(p), a)
         /\ a \notin Elements(EffectiveQueue(WithoutListened(p, a)))
         /\ WithoutListened(p, a) = p \/ WithoutListened(p, a).rev > p.rev
<1> DEFINE w == WithoutListened(p, a)
<1>1. /\ p \in Profile /\ p.queue \in Seq(Album) /\ p.rev \in Nat /\ p.legacy \subseteq Album /\ Injective(p.queue)
      /\ Len(p.queue) <= MaxQueue /\ a \in Album
      /\ \A x, y \in p.legacy : x = y
  BY DEF SoundProfile, Profile, Present
<1>2. /\ EffectiveQueue(p) \in Seq(Album) /\ Injective(EffectiveQueue(p))
      /\ Elements(Visible(p)) = Elements(EffectiveQueue(p)) \cap Present
  BY EffectiveQueueIsSound, VisibleIsOrderly
<1>3. ASSUME a \notin Elements(EffectiveQueue(p)) PROVE Visible(p) = Rest(Visible(p), a)
  BY <1>2, <1>3 DEF Rest
<1>4. CASE p.rev > 0 /\ a \in Elements(p.queue)
  <2> DEFINE q == Without(p.queue, a)
  <2>1. /\ q \in Seq(Album) /\ Len(q) + 1 = Len(p.queue) /\ Elements(q) = Elements(p.queue) \ {a} /\ Injective(q)
    BY <1>1, <1>4, WithoutKeepsTheRest
  <2>2. Only(q, Present) = Without(Only(p.queue, Present), a)
    BY <1>1, <1>4, OnlyOfWithout
  <2>3. w = [p EXCEPT !.queue = q, !.rev = @ + 1]
    BY <1>4 DEF WithoutListened
  <2> HIDE DEF q, w
  <2>4. w \in Profile /\ w.queue = q /\ w.rev = p.rev + 1 /\ w.legacy = p.legacy
    <3>1. p = [queue |-> p.queue, rev |-> p.rev, legacy |-> p.legacy]
      BY <1>1 DEF Profile
    <3>2. w = [queue |-> q, rev |-> p.rev + 1, legacy |-> p.legacy]
      BY <2>3, <3>1
    <3> QED BY <1>1, <2>1, <3>2 DEF Profile
  <2>5. EffectiveQueue(w) = q /\ EffectiveQueue(p) = p.queue /\ w.rev # 0 /\ w.rev > p.rev
    BY <1>1, <1>4, <2>4 DEF EffectiveQueue
  <2>6. Len(q) <= MaxQueue
    BY <1>1, <2>1, LenProperties, QueueAssumption
  <2>7. SoundProfile(w)
    BY <1>1, <2>1, <2>4, <2>5, <2>6 DEF SoundProfile
  <2>8. Visible(w) = Rest(Visible(p), a)
    <3>1. a \in Elements(Visible(p))
      BY <1>2, <1>4, <2>5
    <3> QED BY <2>2, <2>5, <3>1 DEF Visible, Rest
  <2>9. a \notin Elements(EffectiveQueue(w))
    BY <2>1, <2>5
  <2> QED BY <2>5, <2>7, <2>8, <2>9 DEF w
<1>5. CASE p.rev = 0 /\ a \in p.legacy
  <2>1. w = [p EXCEPT !.queue = <<>>, !.rev = 1, !.legacy = {}]
    BY <1>1, <1>5 DEF WithoutListened
  <2> DEFINE o == <<>>
  <2>2. o \in Seq(Album) /\ Injective(o) /\ Len(o) = 0 /\ Elements(o) = {}
    BY DEF Injective, Elements
  <2> HIDE DEF w
  <2>3. w \in Profile /\ w.queue = o /\ w.rev = 1 /\ w.legacy = {}
    BY <1>1, <2>1, <2>2 DEF Profile
  <2>4. EffectiveQueue(w) = o
    BY <2>3 DEF EffectiveQueue
  <2>5. SoundProfile(w)
    BY <2>2, <2>3, QueueAssumption DEF SoundProfile
  <2>6. EffectiveQueue(p) = <<a>>
    BY <1>5, EffectiveQueueIsSound
  <2>7. Elements(EffectiveQueue(p)) = {a}
    BY <1>1, <2>6, OneElement
  <2>8. Visible(p) = <<a>>
    BY <2>6, <2>7, VisibleIsOrderly
  <2>9. a \notin Elements(o) /\ o \in Seq(Album) /\ a \in Album
    BY <1>1, <2>2
  <2>10. Without(<<a>>, a) = o
    <3>1. Without((o \o <<a>>) \o o, a) = o \o o
      <4> HIDE DEF o
      <4> QED BY <2>9, WithoutMiddle
    <3>2. (o \o <<a>>) \o o = <<a>> /\ o \o o = o
      OBVIOUS
    <3> QED BY <3>1, <3>2
  <2>11. Visible(w) = o
    BY <2>2, <2>4, <2>5, VisibleIsOrderly
  <2>12. Visible(w) = Rest(Visible(p), a)
    <3>1. a \in Elements(Visible(p))
      BY <2>6, <2>7, <2>8
    <3> HIDE DEF o
    <3> QED BY <2>8, <2>10, <2>11, <3>1 DEF Rest
  <2>13. w.rev > p.rev
    BY <1>5, <2>3
  <2>14. a \notin Elements(EffectiveQueue(w))
    BY <2>4, <2>9
  <2> QED BY <2>5, <2>12, <2>13, <2>14 DEF w
<1>6. CASE ~(p.rev > 0 /\ a \in Elements(p.queue)) /\ ~(p.rev = 0 /\ a \in p.legacy)
  <2>1. w = p
    BY <1>6 DEF WithoutListened
  <2>2. a \notin Elements(EffectiveQueue(p))
    <3>1. CASE p.rev > 0
      BY <1>6, <3>1 DEF EffectiveQueue
    <3>2. CASE p.rev = 0 /\ p.legacy = {}
      <4>1. EffectiveQueue(p) = <<>>
        BY <3>2, EffectiveQueueIsSound
      <4> QED BY <4>1 DEF Elements
    <3>3. CASE p.rev = 0 /\ p.legacy # {}
      <4>1. PICK b \in p.legacy : TRUE
        BY <3>3
      <4>2. EffectiveQueue(p) = <<b>> /\ b \in Album /\ b # a
        BY <1>1, <1>6, <3>3, <4>1, EffectiveQueueIsSound
      <4>3. Elements(<<b>>) = {b}
        BY <4>2, OneElement
      <4> QED BY <4>2, <4>3
    <3> QED BY <1>1, <3>1, <3>2, <3>3
  <2> HIDE DEF w
  <2>3. Visible(w) = Rest(Visible(p), a)
    BY <1>3, <2>1, <2>2
  <2> QED BY <2>1, <2>2, <2>3 DEF w
<1> QED BY <1>4, <1>5, <1>6

(***************************************************************************)
(* Steps                                                                   *)
(***************************************************************************)
\* The revision tells whether the profile may have changed.
Moves == db'.profile = db.profile \/ db'.profile.rev > db.profile.rev

\* A step of the queue is one of what it promises, or none.
Refines == Promise!AtomicNext \/ (Visible(db'.profile) = Visible(db.profile) /\ call' = call)

\* Nothing stored changes.
LEMMA DocumentsStay ==
  ASSUME QueueInv, db' = db, tx' = tx
  PROVE  Transactions' /\ DocumentsAreSound' /\ Moves
<1>1. OpenClients' = OpenClients
  BY DEF OpenClients
<1>2. Transactions'
  BY <1>1 DEF QueueInv, Transactions, SnapshotShape, SnapshotsAreCurrent
<1>3. DocumentsAreSound'
  BY <1>1 DEF QueueInv, DocumentsAreSound
<1> QED BY <1>2, <1>3 DEF Moves

\* The open transactions keep the snapshots they have.
LEMMA DocumentsMove ==
  ASSUME DocumentsAreSound, db' \in Documents, SoundProfile(db'.profile),
         NEW others, others \subseteq OpenClients, NEW W, FallBehind(others, W)
  PROVE  DocumentsAreSound'
BY DEF DocumentsAreSound, FallBehind

\* What was sound of a caller stays sound.
LEMMA SoundnessStays ==
  ASSUME DocumentsAreSound, DocumentsAreSound', Moves,
         NEW cl \in Calls, NEW w \in Works, NEW v \in Screens, Sound(cl, w, v)
  PROVE  Sound(cl, w, v)'
<1>1. db.profile.rev \in Nat /\ db'.profile.rev \in Nat
  BY DEF DocumentsAreSound, Documents, Profile
<1>2. w.rev \in Nat /\ v.revision \in Nat
  BY DEF Works, Screens
<1>3. ASSUME NEW r \in Nat, NEW q, WasShown(r, q) PROVE WasShown(r, q)'
  <2>1. r <= db'.profile.rev
    BY <1>1, <1>3 DEF WasShown, Moves
  <2>2. r = db'.profile.rev => db'.profile = db.profile
    BY <1>1, <1>3 DEF WasShown, Moves
  <2>3. r = db'.profile.rev => q = Visible(db'.profile)
    BY <1>3, <2>2 DEF WasShown
  <2> QED BY <2>1, <2>3 DEF WasShown
<1>4. cl.req.op = "reorder" => cl.req.revision \in Nat
  BY DEF Calls, AnyRequest, NoRequest, Request
<1>5. cl.req.op = "reorder" => WasShown(cl.req.revision, cl.req.seen)' /\ Orderly(cl.req.order)
  BY <1>3, <1>4 DEF Sound
<1>6. Orderly(v.shown) /\ WasShown(v.revision, v.shown)'
  BY <1>2, <1>3 DEF Sound
<1>7. ASSUME w.pc = "write"
      PROVE  /\ Orderly(w.next) /\ w.rev <= db'.profile.rev
             /\ w.rev = db'.profile.rev => Answers(w.next, cl.req)'
  <2>1. /\ Orderly(w.next) /\ w.rev <= db.profile.rev
        /\ w.rev = db.profile.rev => Answers(w.next, cl.req)
    BY <1>7 DEF Sound
  <2>2. w.rev <= db'.profile.rev
    BY <1>1, <1>2, <2>1 DEF Moves
  <2>3. w.rev = db'.profile.rev => db'.profile = db.profile
    BY <1>1, <1>2, <2>1 DEF Moves
  <2>4. w.rev = db'.profile.rev => Answers(w.next, cl.req)'
    BY <2>1, <2>3 DEF Answers
  <2> QED BY <2>1, <2>2, <2>4
<1>8. w.pc # "idle" => cl.outcome = "open" /\ cl.req # NoRequest
  BY DEF Sound
<1> QED BY <1>5, <1>6, <1>7, <1>8 DEF Sound

\* Nothing happens to any caller.
LEMMA CallersStay ==
  ASSUME QueueInv, Transactions', DocumentsAreSound', Moves, sent' \in 0..MaxRequests,
         call' = call, work' = work, view' = view
  PROVE  QueueInv'
<1>1. ASSUME NEW c \in Caller PROVE Sound(call[c], work[c], view[c])'
  <2> DEFINE cl == call[c]  w == work[c]  v == view[c]
  <2>1. cl \in Calls /\ w \in Works /\ v \in Screens /\ Sound(cl, w, v)
    BY DEF QueueInv, CallersAreSound
  <2>2. call'[c] = cl /\ work'[c] = w /\ view'[c] = v
    OBVIOUS
  <2>3. DocumentsAreSound
    BY DEF QueueInv
  <2>4. \A x \in Calls, y \in Works, z \in Screens : Sound(x, y, z) => Sound(x, y, z)'
    BY <2>3, SoundnessStays
  <2> QED BY <2>1, <2>2, <2>4 DEF Sound
<1> QED BY <1>1 DEF QueueInv, CallersAreSound

\* One caller's request, work or screen changes, and stays sound as it changes.
LEMMA OneCallerMoves ==
  ASSUME QueueInv, Transactions', DocumentsAreSound', Moves, sent' \in 0..MaxRequests,
         NEW c \in Caller, NEW cl \in Calls, NEW w \in Works, NEW v \in Screens, Sound(cl, w, v),
         call' = [call EXCEPT ![c] = cl], work' = [work EXCEPT ![c] = w], view' = [view EXCEPT ![c] = v]
  PROVE  QueueInv'
<1>1. call \in [Caller -> Calls] /\ work \in [Caller -> Works] /\ view \in [Caller -> Screens]
  BY DEF QueueInv, CallersAreSound
<1>2. call' \in [Caller -> Calls] /\ work' \in [Caller -> Works] /\ view' \in [Caller -> Screens]
  BY <1>1
<1>3. \A x \in Calls, y \in Works, z \in Screens : Sound(x, y, z) => Sound(x, y, z)'
  <2>1. DocumentsAreSound
    BY DEF QueueInv
  <2> QED BY <2>1, SoundnessStays
<1>4. ASSUME NEW d \in Caller PROVE Sound(call[d], work[d], view[d])'
  <2>1. CASE d = c
    <3>1. call'[d] = cl /\ work'[d] = w /\ view'[d] = v
      BY <1>1, <2>1
    <3>2. Sound(cl, w, v)'
      BY <1>3
    <3> QED BY <3>1, <3>2 DEF Sound
  <2>2. CASE d # c
    <3> DEFINE x == call[d]  y == work[d]  z == view[d]
    <3>1. call'[d] = x /\ work'[d] = y /\ view'[d] = z
      BY <1>1, <2>2
    <3>2. x \in Calls /\ y \in Works /\ z \in Screens /\ Sound(x, y, z)
      BY DEF QueueInv, CallersAreSound
    <3> QED BY <1>3, <3>1, <3>2 DEF Sound
  <2> QED BY <2>1, <2>2
<1> QED BY <1>2, <1>4 DEF QueueInv, CallersAreSound

\* A permutation of an orderly queue is orderly.
LEMMA PermutedIsOrderly ==
  ASSUME NEW q, Orderly(q), NEW o \in Permuted(q)
  PROVE  Orderly(o)
<1>1. q \in Seq(Present) /\ DOMAIN q = 1..Len(q) /\ Len(q) \in Nat /\ Len(q) <= MaxQueue
  BY LenProperties DEF Orderly
<1>2. Elements(q) \subseteq Present
  BY <1>1, ElementsOfSequence
<1>3. o \in [1..Len(q) -> Present] /\ Injective(o)
  BY <1>1, <1>2 DEF Permuted
<1>4. o \in Seq(Present) /\ Len(o) = Len(q)
  BY <1>1, <1>3, SeqDef
<1> QED BY <1>1, <1>3, <1>4 DEF Orderly

\* What the server gives an answer to, and the work that ends with it.
Concluded(c, outcome) == [call[c] EXCEPT !.outcome = outcome]

LEMMA ConcludedIsSound ==
  ASSUME QueueInv, NEW c \in Caller, NEW outcome \in {"open", "ok", "full", "changed"}, Conclude(c, outcome)
  PROVE  /\ Concluded(c, outcome) \in Calls /\ NoWork \in Works /\ view[c] \in Screens
         /\ Sound(Concluded(c, outcome), NoWork, view[c])
         /\ call' = [call EXCEPT ![c] = Concluded(c, outcome)] /\ work' = [work EXCEPT ![c] = NoWork]
<1>1. call[c] \in Calls /\ Sound(call[c], work[c], view[c]) /\ view[c] \in Screens /\ call \in [Caller -> Calls]
  BY DEF QueueInv, CallersAreSound
<1>2. Concluded(c, outcome) \in Calls /\ Concluded(c, outcome).req = call[c].req
  BY <1>1 DEF Concluded, Calls
<1>3. NoWork \in Works /\ NoWork.pc = "idle"
  BY QueueAssumption DEF NoWork, Works
<1>4. Sound(Concluded(c, outcome), NoWork, view[c])
  BY <1>1, <1>2, <1>3 DEF Sound
<1>5. call' = [call EXCEPT ![c] = Concluded(c, outcome)] /\ work' = [work EXCEPT ![c] = NoWork]
  BY <1>1 DEF Conclude, Concluded
<1> QED BY <1>1, <1>2, <1>3, <1>4, <1>5

\* The caller's screen shows the queue as it is.
LEMMA ReadQueueKeepsIt ==
  ASSUME QueueInv, NEW c \in Caller, ReadQueue(c)
  PROVE  QueueInv' /\ Refines /\ Moves
<1> DEFINE v == OnScreen(db.profile)
<1>1. /\ db' = db /\ tx' = tx /\ call' = call /\ work' = work /\ sent' = sent
      /\ view' = [view EXCEPT ![c] = v]
  BY DEF ReadQueue
<1>2. call \in [Caller -> Calls] /\ work \in [Caller -> Works] /\ Sound(call[c], work[c], view[c])
  BY DEF QueueInv, CallersAreSound
<1>3. Orderly(Visible(db.profile)) /\ db.profile.rev \in Nat
  BY VisibleIsOrderly DEF QueueInv, DocumentsAreSound, SoundProfile, Profile
<1>4. v \in Screens /\ Orderly(v.shown) /\ WasShown(v.revision, v.shown)
  <2>1. Visible(db.profile) \in Seq(Album)
    BY <1>3, SeqMonotonic DEF Orderly, Present
  <2> QED BY <1>3, <2>1 DEF OnScreen, Screens, WasShown
<1> HIDE DEF v
<1>5. Sound(call[c], work[c], v)
  BY <1>2, <1>4 DEF Sound
<1>6. Transactions' /\ DocumentsAreSound' /\ Moves /\ sent' \in 0..MaxRequests
  BY <1>1, DocumentsStay DEF QueueInv
<1>7. /\ call[c] \in Calls /\ work[c] \in Works
      /\ call' = [call EXCEPT ![c] = call[c]] /\ work' = [work EXCEPT ![c] = work[c]]
  BY <1>1, <1>2
<1>8. QueueInv'
  BY <1>1, <1>4, <1>5, <1>6, <1>7, OneCallerMoves
<1>9. Refines
  BY <1>1 DEF Refines
<1> QED BY <1>6, <1>8, <1>9

\* A request arrives: it may be a reorder of what is on the caller's screen.
LEMMA SendRequestKeepsIt ==
  ASSUME QueueInv, NEW c \in Caller, SendRequest(c)
  PROVE  QueueInv' /\ Refines /\ Moves /\ db' = db
<1>1. /\ sent < MaxRequests /\ call[c] = NoCall /\ sent' = sent + 1 /\ view' = view
      /\ work' = [work EXCEPT ![c].pc = "load"] /\ WriteTouching(db, {"profile"})
  BY DEF SendRequest
<1>2. PICK r \in Request \cup ReorderOf(c) : call' = [call EXCEPT ![c].req = r]
  BY DEF SendRequest
<1>3. /\ call \in [Caller -> Calls] /\ work \in [Caller -> Works] /\ view \in [Caller -> Screens]
      /\ Sound(call[c], work[c], view[c]) /\ Orderly(view[c].shown) /\ WasShown(view[c].revision, view[c].shown)
      /\ view[c].revision \in Nat /\ view[c].shown \in Seq(Album)
  BY DEF QueueInv, CallersAreSound, Sound, Screens
<1>4. db' = db /\ Transactions' /\ FallBehind(OpenClients, {"profile"} \cup Changed(db, db))
  <2>1. DOMAIN db = {"profile", "diary"}
    BY DEF QueueInv, DocumentsAreSound, Documents
  <2>2. Transactions /\ {"profile"} \subseteq DOMAIN db
    BY <2>1 DEF QueueInv
  <2> QED BY <1>1, <2>2, WriteTouchingKeepsTransactions DEF WriteTouching
<1>5. DocumentsAreSound' /\ Moves
  <2>1. db' \in Documents /\ SoundProfile(db'.profile) /\ DocumentsAreSound
    BY <1>4 DEF QueueInv, DocumentsAreSound
  <2> QED BY <1>4, <2>1, DocumentsMove DEF Moves
<1> DEFINE cl == [req |-> r, outcome |-> "open"]
           w == [work[c] EXCEPT !.pc = "load"]
<1>6. /\ r \in AnyRequest /\ r # NoRequest
      /\ r.op = "reorder" => WasShown(r.revision, r.seen) /\ Orderly(r.order)
  <2>1. CASE r \in Request
    BY <2>1 DEF AnyRequest, Request, NoRequest
  <2>2. CASE r \in ReorderOf(c)
    <3>1. /\ r.op = "reorder" /\ r.revision = view[c].revision /\ r.seen = view[c].shown
          /\ r.order \in Permuted(view[c].shown)
          /\ r = [op |-> r.op, revision |-> r.revision, seen |-> r.seen, order |-> r.order]
      BY <2>2 DEF ReorderOf
    <3>2. Orderly(r.order)
      BY <1>3, <3>1, PermutedIsOrderly
    <3>3. r.order \in Seq(Album)
      BY <3>2, SeqMonotonic DEF Orderly, Present
    <3>4. r \in [op: {"reorder"}, revision: Nat, seen: Seq(Album), order: Seq(Album)]
      BY <1>3, <3>1, <3>3
    <3>5. r # NoRequest
      BY <3>1 DEF NoRequest
    <3> QED BY <1>3, <3>1, <3>2, <3>4, <3>5 DEF AnyRequest
  <2> QED BY <2>1, <2>2
<1>7. cl \in Calls /\ cl.req = r /\ cl.outcome = "open" /\ call' = [call EXCEPT ![c] = cl]
  <2>1. cl \in Calls /\ cl.req = r /\ cl.outcome = "open"
    BY <1>6 DEF Calls
  <2>2. [call[c] EXCEPT !.req = r] = cl
    BY <1>1 DEF NoCall
  <2>3. call' = [call EXCEPT ![c] = [call[c] EXCEPT !.req = r]]
    BY <1>2, <1>3
  <2> QED BY <2>1, <2>2, <2>3
<1>8. w \in Works /\ w.pc = "load" /\ work' = [work EXCEPT ![c] = w]
  BY <1>1, <1>3 DEF Works
<1> HIDE DEF cl, w
<1>9. Sound(cl, w, view[c])
  BY <1>3, <1>6, <1>7, <1>8 DEF Sound
<1>10. view[c] \in Screens /\ view' = [view EXCEPT ![c] = view[c]]
  BY <1>1, <1>3
<1>11. sent' \in 0..MaxRequests
  BY <1>1, QueueAssumption DEF QueueInv
<1>12. QueueInv'
  BY <1>4, <1>5, <1>7, <1>8, <1>9, <1>10, <1>11, OneCallerMoves
<1>13. Promise!Send(c)
  <2>1. call'[c].req = r
    BY <1>3, <1>7
  <2>2. call' = [call EXCEPT ![c].req = call'[c].req]
    BY <1>2, <2>1
  <2>3. Visible(db.profile)' = Visible(db.profile)
    BY <1>4
  <2> QED BY <1>1, <1>6, <2>1, <2>2, <2>3 DEF Promise!Send, Promise!NoCall, NoCall, AnyRequest
<1>14. Refines
  BY <1>13 DEF Refines, Promise!AtomicNext
<1> QED BY <1>4, <1>5, <1>12, <1>14

\* A request that is answered has the other answer than "open".
LEMMA AnswerKeepsIt ==
  ASSUME QueueInv, NEW c \in Caller, Answer(c)
  PROVE  QueueInv' /\ Refines /\ Moves /\ db' = db
<1>1. /\ db' = db /\ tx' = tx /\ work' = work /\ view' = view /\ sent' = sent
      /\ call[c].outcome # "open" /\ call' = [call EXCEPT ![c] = NoCall]
  BY DEF Answer
<1>2. /\ call \in [Caller -> Calls] /\ work \in [Caller -> Works] /\ view \in [Caller -> Screens]
      /\ Sound(call[c], work[c], view[c])
  BY DEF QueueInv, CallersAreSound
<1>3. NoCall \in Calls /\ NoCall.req.op # "reorder"
  BY DEF NoCall, Calls, NoRequest
<1>4. Sound(NoCall, work[c], view[c])
  BY <1>1, <1>2, <1>3 DEF Sound
<1>5. Transactions' /\ DocumentsAreSound' /\ Moves /\ sent' \in 0..MaxRequests
  BY <1>1, DocumentsStay DEF QueueInv
<1>6. /\ work[c] \in Works /\ view[c] \in Screens
      /\ work' = [work EXCEPT ![c] = work[c]] /\ view' = [view EXCEPT ![c] = view[c]]
  BY <1>1, <1>2
<1>7. QueueInv'
  <2> DEFINE cl == NoCall
  <2>1. cl \in Calls /\ Sound(cl, work[c], view[c]) /\ call' = [call EXCEPT ![c] = cl]
    BY <1>1, <1>3, <1>4
  <2> HIDE DEF cl
  <2> QED BY <1>5, <1>6, <2>1, OneCallerMoves
<1>8. Promise!Answer(c)
  <2>1. Visible(db.profile)' = Visible(db.profile)
    BY <1>1
  <2> QED BY <1>1, <2>1 DEF Promise!Answer, Promise!NoCall, NoCall
<1>9. Refines
  BY <1>8 DEF Refines, Promise!AtomicNext
<1> QED BY <1>1, <1>5, <1>7, <1>9

(***************************************************************************)
(* Requests take effect at one instant                                     *)
(***************************************************************************)
\* What a request makes of the queue is the effect that is promised.
LEMMA ChangeIsTheEffect ==
  ASSUME NEW r \in Request, ~NoRoom(Visible(db.profile), r), Visible(db'.profile) = Change(Visible(db.profile), r),
         MaxQueue \in Nat, Visible(db.profile) \in Seq(Album)
  PROVE  Promise!Effect(r)
<1> DEFINE q == Visible(db.profile)
           n == Visible(db'.profile)
<1>1. Visible(db.profile)' = n
  OBVIOUS
<1>2. Len(q) \in Nat
  BY LenProperties
<1>3. \A s, x : /\ Promise!Elements(s) = Elements(s) /\ Promise!Without(s, x) = Without(s, x)
                /\ (IF x \in Elements(s) THEN Without(s, x) ELSE s) = Rest(s, x)
  BY DEF Promise!Elements, Promise!Without, Elements, Without, Rest
<1>4. Promise!Rest(r.album) = Rest(q, r.album) /\ (Promise!Member(r.album) <=> r.album \in Elements(q))
  BY <1>3 DEF Promise!Rest, Promise!Member
<1>5. CASE r.op = "add"
  <2>1. r.album \in Elements(q) \/ Len(q) < MaxQueue
    BY <1>2, <1>5 DEF NoRoom
  <2>2. n = IF r.album \in Elements(q) /\ r.position = "none" THEN q
            ELSE IF r.position = "top" THEN <<r.album>> \o Rest(q, r.album) ELSE Rest(q, r.album) \o <<r.album>>
    BY <1>5 DEF Change, PlaceAlbum
  <2>3. Promise!Added(r)
    BY <1>1, <1>4, <2>1, <2>2 DEF Promise!Added, Promise!Top, Promise!Bottom
  <2> QED BY <1>5, <2>3 DEF Promise!Effect
<1>6. CASE r.op = "remove"
  <2>1. n = Rest(q, r.album)
    BY <1>6 DEF Change
  <2>2. Promise!Removed(r)
    BY <1>1, <1>4, <2>1 DEF Promise!Removed
  <2> QED BY <1>6, <2>2 DEF Promise!Effect
<1> QED BY <1>5, <1>6 DEF Request

\* Facts about a caller that the server works for.
LEMMA AtWork ==
  ASSUME QueueInv, NEW c \in Caller, work[c].pc # "idle"
  PROVE  /\ call \in [Caller -> Calls] /\ work \in [Caller -> Works] /\ view \in [Caller -> Screens]
         /\ Sound(call[c], work[c], view[c])
         /\ call[c].outcome = "open" /\ call[c] # Promise!NoCall
         /\ call[c].req \in AnyRequest
         /\ call[c].req.op # "reorder" => call[c].req \in Request
         /\ call[c].req.op = "reorder" => call[c].req.seen \in Seq(Album) /\ call[c].req.order \in Seq(Album)
<1>1. /\ call \in [Caller -> Calls] /\ work \in [Caller -> Works] /\ view \in [Caller -> Screens]
      /\ Sound(call[c], work[c], view[c])
  BY DEF QueueInv, CallersAreSound
<1>2. call[c].outcome = "open" /\ call[c].req # NoRequest
  BY <1>1 DEF Sound
<1>3. call[c].req \in AnyRequest
  BY <1>1, <1>2 DEF Calls
<1>4. call[c] # Promise!NoCall
  BY <1>2 DEF Promise!NoCall, NoRequest
<1>5. call[c].req.op # "reorder" => call[c].req \in Request
  BY <1>3 DEF AnyRequest
<1>6. call[c].req.op = "reorder" => call[c].req.seen \in Seq(Album) /\ call[c].req.order \in Seq(Album)
  BY <1>3 DEF AnyRequest, Request
<1> QED BY <1>1, <1>2, <1>3, <1>4, <1>5, <1>6

\* The invariant outlives the end of the work for a caller.
LEMMA ConcludeKeepsIt ==
  ASSUME QueueInv, Transactions', DocumentsAreSound', Moves, NEW c \in Caller,
         NEW outcome \in {"open", "ok", "full", "changed"}, Conclude(c, outcome), view' = view, sent' = sent
  PROVE  QueueInv' /\ call' = [call EXCEPT ![c] = Concluded(c, outcome)]
<1> DEFINE cl == Concluded(c, outcome)
           w == NoWork
<1>1. /\ cl \in Calls /\ w \in Works /\ view[c] \in Screens /\ Sound(cl, w, view[c])
      /\ call' = [call EXCEPT ![c] = cl] /\ work' = [work EXCEPT ![c] = w]
  BY ConcludedIsSound
<1>2. view' = [view EXCEPT ![c] = view[c]] /\ sent' \in 0..MaxRequests
  BY DEF QueueInv, CallersAreSound
<1> HIDE DEF cl, w
<1>3. QueueInv'
  BY <1>1, <1>2, OneCallerMoves
<1> QED BY <1>1, <1>3 DEF cl

\* A caller that is answered "ok" has been served, if the queue shows it.
LEMMA ConcludedIsServed ==
  ASSUME QueueInv, NEW c \in Caller, work[c].pc # "idle", Promise!Effect(call[c].req),
         call' = [call EXCEPT ![c] = Concluded(c, "ok")]
  PROVE  Refines
<1>1. call[c].outcome = "open" /\ call[c] # Promise!NoCall /\ call \in [Caller -> Calls]
  BY AtWork
<1>2. call' = [call EXCEPT ![c].outcome = "ok"]
  BY <1>1 DEF Concluded
<1> DEFINE e == Promise!Effect(call[c].req)
<1>3. e
  OBVIOUS
<1> HIDE DEF e
<1>4. Promise!Serve(c)
  BY <1>1, <1>2, <1>3 DEF Promise!Serve, e
<1> QED BY <1>4 DEF Refines, Promise!AtomicNext

\* A caller that is told of a change gets nothing changed.
LEMMA ConcludedIsRefused ==
  ASSUME QueueInv, NEW c \in Caller, work[c].pc # "idle", db' = db,
         call' = [call EXCEPT ![c] = Concluded(c, "changed")]
  PROVE  Refines
<1>1. call[c].outcome = "open" /\ call[c] # Promise!NoCall /\ call \in [Caller -> Calls]
  BY AtWork
<1>2. call' = [call EXCEPT ![c].outcome = "changed"]
  BY <1>1 DEF Concluded
<1>3. Visible(db.profile)' = Visible(db.profile)
  OBVIOUS
<1>4. Promise!RefuseChanged(c)
  BY <1>1, <1>2, <1>3 DEF Promise!RefuseChanged
<1> QED BY <1>4 DEF Refines, Promise!AtomicNext

\* An attempt that finds no room refuses; one that finds nothing to change is
\* served at once; any other remembers what it made of the queue it loaded.
LEMMA LoadToMutateKeepsIt ==
  ASSUME QueueInv, NEW c \in Caller, LoadToMutate(c)
  PROVE  QueueInv' /\ Refines /\ Moves /\ db' = db
<1> DEFINE r == call[c].req
           q == Visible(db.profile)
<1>1. /\ db' = db /\ tx' = tx /\ view' = view /\ sent' = sent
      /\ work[c].pc = "load" /\ r.op # "reorder" /\ work[c].pc # "idle"
  BY DEF LoadToMutate
<1>2. /\ call \in [Caller -> Calls] /\ work \in [Caller -> Works] /\ view \in [Caller -> Screens]
      /\ Sound(call[c], work[c], view[c]) /\ call[c].outcome = "open" /\ call[c] # Promise!NoCall
      /\ r \in Request /\ r # NoRequest
  BY <1>1, AtWork DEF Sound
<1>3. Transactions' /\ DocumentsAreSound' /\ Moves /\ sent' \in 0..MaxRequests
  BY <1>1, DocumentsStay DEF QueueInv
<1>4. /\ SoundProfile(db.profile) /\ db.profile.rev \in Nat /\ Orderly(q) /\ q \in Seq(Album)
      /\ MaxQueue \in Nat /\ Len(q) \in Nat /\ Len(q) <= MaxQueue
  <2>1. SoundProfile(db.profile) /\ db.profile.rev \in Nat
    BY DEF QueueInv, DocumentsAreSound, SoundProfile, Profile
  <2>2. Orderly(q)
    BY <2>1, VisibleIsOrderly
  <2>3. q \in Seq(Album) /\ Len(q) \in Nat /\ Len(q) <= MaxQueue
    BY <2>2, SeqMonotonic, LenProperties DEF Orderly, Present
  <2> QED BY <2>1, <2>2, <2>3, QueueAssumption
<1>5. CASE NoRoom(q, r) /\ Conclude(c, "full")
  <2>1. QueueInv' /\ call' = [call EXCEPT ![c] = Concluded(c, "full")]
    BY <1>1, <1>3, <1>5, ConcludeKeepsIt
  <2>2. call' = [call EXCEPT ![c].outcome = "full"]
    BY <1>2, <2>1 DEF Concluded
  <2>3. r.op = "add" /\ r.album \notin Elements(q) /\ Len(q) = MaxQueue
    BY <1>4, <1>5 DEF NoRoom
  <2>4. Visible(db.profile)' = q
    BY <1>1
  <2>5. Promise!RefuseFull(c)
    BY <1>2, <2>2, <2>3, <2>4 DEF Promise!RefuseFull, Promise!Member, Promise!Elements, Elements
  <2> QED BY <1>1, <1>3, <2>1, <2>5 DEF Refines, Promise!AtomicNext
<1>6. CASE ~NoRoom(q, r) /\ Change(q, r) = EffectiveQueue(db.profile) /\ Conclude(c, "ok")
  <2>1. QueueInv' /\ call' = [call EXCEPT ![c] = Concluded(c, "ok")]
    BY <1>1, <1>3, <1>6, ConcludeKeepsIt
  <2>2. Orderly(Change(q, r))
    BY <1>2, <1>4, <1>6, ChangeIsOrderly
  <2>3. Elements(Change(q, r)) \subseteq Present
    BY <2>2, ElementsOfSequence DEF Orderly
  <2>4. q = EffectiveQueue(db.profile)
    BY <1>4, <1>6, <2>3, VisibleIsOrderly
  <2>5. Visible(db'.profile) = Change(Visible(db.profile), r)
    BY <1>1, <1>6, <2>4
  <2>6. Promise!Effect(r)
    BY <1>2, <1>4, <1>6, <2>5, ChangeIsTheEffect
  <2> HIDE DEF r
  <2>7. Refines
    <3>1. Promise!Effect(call[c].req)
      BY <2>6 DEF r
    <3> QED BY <1>1, <2>1, <3>1, ConcludedIsServed
  <2> QED BY <1>1, <1>3, <2>1, <2>7
<1>7. CASE /\ ~NoRoom(q, r) /\ call' = call
           /\ work' = [work EXCEPT ![c] = [@ EXCEPT !.pc = "write", !.rev = db.profile.rev, !.next = Change(q, r)]]
  <2> DEFINE n == Change(q, r)
             rev == db.profile.rev
             w == [work[c] EXCEPT !.pc = "write", !.rev = rev, !.next = n]
  <2>1. Orderly(n)
    BY <1>2, <1>4, <1>7, ChangeIsOrderly
  <2>2. n \in Seq(Album) /\ rev \in Nat /\ rev <= db.profile.rev
    BY <1>4, <2>1, SeqMonotonic DEF Orderly, Present
  <2>3. Answers(n, r)
    BY <1>1, <1>7 DEF Answers
  <2>4. work' = [work EXCEPT ![c] = w]
    BY <1>2, <1>7
  <2> HIDE DEF n, rev
  <2>5. w \in Works /\ w.pc = "write" /\ w.rev = rev /\ w.next = n
    BY <1>2, <2>2 DEF Works
  <2> HIDE DEF w
  <2>6. Sound(call[c], w, view[c])
    BY <1>2, <2>1, <2>2, <2>3, <2>5 DEF Sound
  <2>7. /\ call[c] \in Calls /\ view[c] \in Screens
        /\ call' = [call EXCEPT ![c] = call[c]] /\ view' = [view EXCEPT ![c] = view[c]]
    BY <1>1, <1>2, <1>7
  <2>8. w \in Works
    BY <2>5
  <2>9. QueueInv'
    BY <1>3, <2>4, <2>6, <2>7, <2>8, OneCallerMoves
  <2> QED BY <1>1, <1>3, <1>7, <2>9 DEF Refines
<1>8. \/ NoRoom(q, r) /\ Conclude(c, "full")
      \/ ~NoRoom(q, r) /\ Change(q, r) = EffectiveQueue(db.profile) /\ Conclude(c, "ok")
      \/ /\ ~NoRoom(q, r) /\ call' = call
         /\ work' = [work EXCEPT ![c] = [@ EXCEPT !.pc = "write", !.rev = db.profile.rev, !.next = Change(q, r)]]
  BY DEF LoadToMutate
<1> QED BY <1>5, <1>6, <1>7, <1>8

\* A reorder goes on only if the queue is the one that the caller saw.
LEMMA LoadToReorderKeepsIt ==
  ASSUME QueueInv, NEW c \in Caller, LoadToReorder(c)
  PROVE  QueueInv' /\ Refines /\ Moves /\ db' = db
<1> DEFINE r == call[c].req
<1>1. /\ db' = db /\ tx' = tx /\ view' = view /\ sent' = sent
      /\ work[c].pc = "load" /\ r.op = "reorder" /\ work[c].pc # "idle"
  BY DEF LoadToReorder
<1>2. /\ call \in [Caller -> Calls] /\ work \in [Caller -> Works] /\ view \in [Caller -> Screens]
      /\ Sound(call[c], work[c], view[c]) /\ call[c].outcome = "open"
      /\ r.seen \in Seq(Album) /\ r.order \in Seq(Album) /\ r # NoRequest
  BY <1>1, AtWork DEF Sound
<1>3. Transactions' /\ DocumentsAreSound' /\ Moves /\ sent' \in 0..MaxRequests
  BY <1>1, DocumentsStay DEF QueueInv
<1>4. db.profile.rev \in Nat /\ WasShown(r.revision, r.seen) /\ Orderly(r.order)
  <2>1. db.profile.rev \in Nat
    BY DEF QueueInv, DocumentsAreSound, SoundProfile, Profile
  <2> QED BY <1>1, <1>2, <2>1 DEF Sound
<1>5. CASE Conclude(c, "changed")
  <2>1. QueueInv' /\ call' = [call EXCEPT ![c] = Concluded(c, "changed")]
    BY <1>1, <1>3, <1>5, ConcludeKeepsIt
  <2>2. Refines
    BY <1>1, <2>1, ConcludedIsRefused
  <2> QED BY <1>1, <1>3, <2>1, <2>2
<1>6. CASE /\ KnownOrder(c) /\ call' = call
           /\ work' = [work EXCEPT ![c] = [pc |-> "write", attempts |-> WriteAttempts - 1,
                                           rev |-> db.profile.rev, next |-> call[c].req.order]]
  <2> DEFINE n == r.order
             rev == db.profile.rev
             w == [pc |-> "write", attempts |-> WriteAttempts - 1, rev |-> rev, next |-> n]
  <2>1. Orderly(n) /\ n \in Seq(Album) /\ rev \in Nat /\ rev <= db.profile.rev
    BY <1>2, <1>4
  <2>2. Answers(n, r)
    <3>1. r.seen = Visible(db.profile)
      BY <1>4, <1>6 DEF KnownOrder, WasShown
    <3> QED BY <1>1, <3>1 DEF Answers
  <2>3. work' = [work EXCEPT ![c] = w]
    BY <1>6
  <2> HIDE DEF n, rev
  <2>4. w \in Works /\ w.pc = "write" /\ w.rev = rev /\ w.next = n
    <3>1. WriteAttempts - 1 \in 0..(WriteAttempts - 1)
      BY QueueAssumption
    <3> QED BY <2>1, <3>1 DEF Works
  <2> HIDE DEF w
  <2>5. Sound(call[c], w, view[c])
    BY <1>2, <2>1, <2>2, <2>4 DEF Sound
  <2>6. /\ call[c] \in Calls /\ view[c] \in Screens
        /\ call' = [call EXCEPT ![c] = call[c]] /\ view' = [view EXCEPT ![c] = view[c]]
    BY <1>1, <1>2, <1>6
  <2>7. w \in Works
    BY <2>4
  <2>8. QueueInv'
    BY <1>3, <2>3, <2>5, <2>6, <2>7, OneCallerMoves
  <2> QED BY <1>1, <1>3, <1>6, <2>8 DEF Refines
<1>7. \/ Conclude(c, "changed")
      \/ /\ KnownOrder(c) /\ call' = call
         /\ work' = [work EXCEPT ![c] = [pc |-> "write", attempts |-> WriteAttempts - 1,
                                         rev |-> db.profile.rev, next |-> call[c].req.order]]
  BY DEF LoadToReorder
<1> QED BY <1>5, <1>6, <1>7

\* A lost race is tried again, or given up.
LEMMA LoseRaceKeepsIt ==
  ASSUME QueueInv, NEW c \in Caller, LoseRace(c)
  PROVE  QueueInv' /\ Refines /\ Moves /\ db' = db
<1>1. /\ db' = db /\ tx' = tx /\ view' = view /\ sent' = sent /\ work[c].pc = "write" /\ work[c].pc # "idle"
  BY DEF LoseRace
<1>2. /\ call \in [Caller -> Calls] /\ work \in [Caller -> Works] /\ view \in [Caller -> Screens]
      /\ Sound(call[c], work[c], view[c]) /\ call[c].outcome = "open" /\ call[c].req # NoRequest
  BY <1>1, AtWork DEF Sound
<1>3. Transactions' /\ DocumentsAreSound' /\ Moves /\ sent' \in 0..MaxRequests
  BY <1>1, DocumentsStay DEF QueueInv
<1>4. CASE LastAttempt(c)
  <2>1. Conclude(c, "changed")
    BY <1>4 DEF LoseRace
  <2>2. QueueInv' /\ call' = [call EXCEPT ![c] = Concluded(c, "changed")]
    BY <1>1, <1>3, <2>1, ConcludeKeepsIt
  <2>3. Refines
    BY <1>1, <2>2, ConcludedIsRefused
  <2> QED BY <1>1, <1>3, <2>2, <2>3
<1>5. CASE ~LastAttempt(c)
  <2> DEFINE n == work[c].attempts + 1
             w == [NoWork EXCEPT !.pc = "load", !.attempts = n]
  <2>1. call' = call /\ work' = [work EXCEPT ![c] = w]
    BY <1>5 DEF LoseRace
  <2>2. n \in 0..(WriteAttempts - 1)
    <3>1. work[c].attempts \in 0..(WriteAttempts - 1) /\ WriteAttempts \in Nat
      BY <1>2, QueueAssumption DEF Works
    <3> QED BY <1>5, <3>1 DEF LastAttempt
  <2> HIDE DEF n
  <2>3. w \in Works /\ w.pc = "load"
    <3>1. NoWork \in Works
      BY QueueAssumption DEF NoWork, Works
    <3> QED BY <2>2, <3>1 DEF Works
  <2> HIDE DEF w
  <2>4. Sound(call[c], w, view[c])
    BY <1>2, <2>3 DEF Sound
  <2>5. /\ w \in Works /\ call[c] \in Calls /\ view[c] \in Screens
        /\ call' = [call EXCEPT ![c] = call[c]] /\ view' = [view EXCEPT ![c] = view[c]]
    BY <1>1, <1>2, <2>1, <2>3
  <2>6. QueueInv'
    BY <1>3, <2>1, <2>4, <2>5, OneCallerMoves
  <2> QED BY <1>1, <1>3, <2>1, <2>6 DEF Refines
<1> QED BY <1>4, <1>5

\* The write replaces the very queue that was loaded, since the revision is the
\* same: this is the instant at which the request takes effect.
LEMMA WriteQueueKeepsIt ==
  ASSUME QueueInv, NEW c \in Caller, WriteQueue(c)
  PROVE  QueueInv' /\ Refines /\ Moves /\ db'.diary = db.diary
<1> DEFINE r == call[c].req
           n == work[c].next
           p == Written(db.profile, n, db.profile.rev)
<1>1. /\ view' = view /\ sent' = sent /\ work[c].pc = "write" /\ work[c].pc # "idle"
      /\ work[c].rev = db.profile.rev /\ Conclude(c, "ok")
      /\ Write([db EXCEPT !.profile = Written(@, work[c].next, work[c].rev)])
  BY DEF WriteQueue, RevisionHolds
<1>2. /\ call \in [Caller -> Calls] /\ Sound(call[c], work[c], view[c])
      /\ r.op # "reorder" => r \in Request
  BY <1>1, AtWork
<1>3. Orderly(n) /\ Answers(n, r)
  BY <1>1, <1>2 DEF Sound
<1>4. SoundProfile(db.profile) /\ db \in Documents /\ DOMAIN db = {"profile", "diary"}
  BY DEF QueueInv, DocumentsAreSound, Documents
<1>5. SoundProfile(p) /\ Visible(p) = n /\ p.rev > db.profile.rev
  <2> HIDE DEF n
  <2> QED BY <1>3, <1>4, WrittenIsVisible
<1>6. Write([db EXCEPT !.profile = p])
  BY <1>1
<1> HIDE DEF p
<1> DEFINE t == [db EXCEPT !.profile = p]
<1>7. t \in Documents /\ t.profile = p /\ t.diary = db.diary /\ DOMAIN t = DOMAIN db
  <2>1. p \in Profile
    BY <1>5 DEF SoundProfile
  <2> QED BY <1>4, <2>1 DEF Documents
<1>8. db' = t /\ Write(t)
  BY <1>6 DEF Write
<1> HIDE DEF t
<1>9. Transactions' /\ FallBehind(OpenClients, Changed(db, t))
  BY <1>7, <1>8, WriteKeepsTransactions DEF QueueInv
<1>10. DocumentsAreSound' /\ Moves
  <2>1. DocumentsAreSound /\ db' \in Documents /\ SoundProfile(db'.profile)
    BY <1>5, <1>7, <1>8 DEF QueueInv
  <2> QED BY <1>5, <1>7, <1>8, <1>9, <2>1, DocumentsMove DEF Moves
<1>11. QueueInv' /\ call' = [call EXCEPT ![c] = Concluded(c, "ok")]
  BY <1>1, <1>9, <1>10, ConcludeKeepsIt
<1>12. Visible(db'.profile) = n
  BY <1>5, <1>7, <1>8
<1>13. Promise!Effect(r)
  <2>1. CASE r.op = "reorder"
    <3>1. r.seen = Visible(db.profile) /\ n = r.order
      BY <1>3, <2>1 DEF Answers
    <3>2. Visible(db.profile)' = r.order
      BY <1>12, <3>1
    <3>3. Promise!Reordered(r)
      BY <3>1, <3>2 DEF Promise!Reordered
    <3> QED BY <2>1, <3>3 DEF Promise!Effect
  <2>2. CASE r.op # "reorder"
    <3>1. r \in Request /\ ~NoRoom(Visible(db.profile), r) /\ n = Change(Visible(db.profile), r)
      BY <1>2, <1>3, <2>2 DEF Answers
    <3>2. Visible(db'.profile) = Change(Visible(db.profile), r)
      BY <1>12, <3>1
    <3>3. MaxQueue \in Nat /\ Visible(db.profile) \in Seq(Album)
      BY <1>4, VisibleIsOrderly, SeqMonotonic, QueueAssumption DEF Orderly, Present
    <3> HIDE DEF r
    <3> QED BY <3>1, <3>2, <3>3, ChangeIsTheEffect
  <2> QED BY <2>1, <2>2
<1>14. Refines
  <2>1. Promise!Effect(call[c].req)
    BY <1>13
  <2> HIDE DEF r
  <2> QED BY <1>1, <1>11, <2>1, ConcludedIsServed
<1> QED BY <1>7, <1>8, <1>10, <1>11, <1>14

(***************************************************************************)
(* Listens                                                                 *)
(***************************************************************************)
\* A listen that is committed has its album out of the queue.
Leaves ==
  \A l \in Client : l \in OpenClients /\ l \notin DOMAIN tx' /\ db'.diary # db.diary
                    => tx[l].req.album \notin Elements(EffectiveQueue(db'.profile))

\* A listen begins on the documents as they are.
LEMMA StartListenKeepsIt ==
  ASSUME QueueInv, NEW l \in Client, StartListen(l)
  PROVE  QueueInv' /\ Refines /\ Moves /\ db' = db
<1>1. PICK a \in Present : Begin(l, [op |-> "listen", album |-> a])
  BY DEF StartListen
<1>2. sent < MaxRequests /\ sent' = sent + 1 /\ call' = call /\ work' = work /\ view' = view
  BY DEF StartListen
<1> DEFINE r == [op |-> "listen", album |-> a]
<1>3. r.album = a /\ Begin(l, r) /\ Transactions
  BY <1>1 DEF QueueInv
<1> HIDE DEF r
<1>4. /\ Transactions' /\ db' = db /\ OpenClients' = OpenClients \cup {l}
      /\ tx'[l] = Fresh(r) /\ \A x \in OpenClients : tx'[x] = tx[x]
  BY <1>3, BeginKeepsTransactions
<1>5. Fresh(r).snap = db /\ Fresh(r).req = r
  BY DEF Fresh
<1>6. DocumentsAreSound'
  BY <1>3, <1>4, <1>5 DEF QueueInv, DocumentsAreSound
<1>7. Moves /\ sent' \in 0..MaxRequests
  BY <1>2, <1>4, QueueAssumption DEF QueueInv, Moves
<1>8. QueueInv'
  BY <1>2, <1>4, <1>6, <1>7, CallersStay
<1> QED BY <1>2, <1>4, <1>7, <1>8 DEF Refines

\* A listen that is tried again or given up leaves everything stored as it is.
LEMMA GiveUpListenKeepsIt ==
  ASSUME QueueInv, NEW l \in Client, GiveUpListen(l)
  PROVE  QueueInv' /\ Refines /\ Moves /\ db' = db
<1>1. call' = call /\ work' = work /\ view' = view /\ sent' = sent /\ Transactions /\ DocumentsAreSound
  BY DEF GiveUpListen, QueueInv
<1>2. Transactions' /\ DocumentsAreSound' /\ db' = db
  <2>1. CASE Retry(l)
    <3>1. /\ Transactions' /\ db' = db /\ l \in OpenClients /\ OpenClients' = OpenClients
          /\ tx'[l] = Fresh(tx[l].req) /\ \A x \in OpenClients \ {l} : tx'[x] = tx[x]
      BY <1>1, <2>1, RetryKeepsTransactions
    <3>2. Fresh(tx[l].req).snap = db /\ Fresh(tx[l].req).req = tx[l].req
      BY DEF Fresh
    <3>3. DocumentsAreSound'
      BY <1>1, <3>1, <3>2 DEF DocumentsAreSound
    <3> QED BY <3>1, <3>3
  <2>2. CASE Abort(l)
    <3>1. tx' = [x \in OpenClients \ {l} |-> tx[x]] /\ db' = db
      BY <2>2 DEF Abort
    <3>2. /\ Transactions' /\ OpenClients' = OpenClients \ {l}
          /\ \A x \in OpenClients \ {l} : tx'[x] = tx[x]
      BY <1>1, <3>1, DropKeepsTransactions
    <3>3. DocumentsAreSound'
      BY <1>1, <3>1, <3>2 DEF DocumentsAreSound
    <3> QED BY <3>1, <3>2, <3>3
  <2> QED BY <2>1, <2>2 DEF GiveUpListen
<1>3. Moves /\ sent' \in 0..MaxRequests
  BY <1>1, <1>2 DEF Moves, QueueInv
<1>4. QueueInv'
  BY <1>1, <1>2, <1>3, CallersStay
<1> QED BY <1>1, <1>2, <1>3, <1>4 DEF Refines

\* A listen writes the profile, so the snapshot it works on is the profile as it is.
LEMMA CommitListenKeepsIt ==
  ASSUME QueueInv, NEW l \in Client, CommitListen(l)
  PROVE  QueueInv' /\ Refines /\ Moves /\ Leaves
<1> DEFINE a == tx[l].req.album
           p == WithoutListened(tx[l].snap.profile, a)
           n == tx[l].snap.diary + 1
           t == [tx[l].snap EXCEPT !.profile = p, !.diary = n]
<1>1. /\ l \in OpenClients /\ CommitTouching(l, t, {"profile"})
      /\ call' = call /\ work' = work /\ view' = view /\ sent' = sent
  BY DEF CommitListen, ListenDocs
<1>2. /\ Transactions /\ db \in Documents /\ DOMAIN db = {"profile", "diary"} /\ a \in Present
      /\ tx[l].snap \in Documents /\ SoundProfile(tx[l].snap.profile) /\ SoundProfile(db.profile)
  BY <1>1 DEF QueueInv, DocumentsAreSound, Documents
<1> HIDE DEF a
<1>3. SoundProfile(p) /\ n \in Nat
  BY <1>2, ListeningTakesOut DEF Documents
<1> HIDE DEF n, p
<1>4. t \in Documents /\ t.profile = p /\ DOMAIN t = DOMAIN db
  BY <1>2, <1>3 DEF Documents, SoundProfile
<1> DEFINE W == {"profile"} \cup Changed(tx[l].snap, t)
<1> HIDE DEF t
<1>5. Transactions' /\ Committed(l, t, W)
  <2>1. {"profile"} \subseteq DOMAIN db
    BY <1>2
  <2> QED BY <1>1, <1>2, <1>4, <2>1, CommitTouchingKeepsTransactions
<1>6. "profile" \in W
  OBVIOUS
<1> HIDE DEF W
<1>7. /\ FallBehind(OpenClients \ {l}, W) /\ DOMAIN db' = DOMAIN db /\ OpenClients' = OpenClients \ {l}
      /\ tx[l].snap["profile"] = db["profile"] /\ db'["profile"] = t["profile"]
      /\ db'["diary"] = t["diary"] \/ db'["diary"] = db["diary"]
  BY <1>2, <1>5, <1>6 DEF Committed, FallBehind
<1>8. db'.profile = p /\ p = WithoutListened(db.profile, a)
  BY <1>4, <1>7 DEF p
<1>9. db' \in Documents
  <2>1. db' = [d \in {"profile", "diary"} |-> db'[d]]
    BY <1>1, <1>2, <1>7 DEF CommitTouching
  <2>2. db'.profile \in Profile /\ db'.diary \in Nat
    BY <1>2, <1>3, <1>4, <1>7, <1>8 DEF SoundProfile, Documents
  <2> QED BY <2>1, <2>2 DEF Documents
<1>10. DocumentsAreSound'
  <2>1. DocumentsAreSound /\ SoundProfile(db'.profile) /\ OpenClients \ {l} \subseteq OpenClients
    BY <1>3, <1>8 DEF QueueInv
  <2> QED BY <1>7, <1>9, <2>1, DocumentsMove
<1>11. /\ Visible(db'.profile) = Rest(Visible(db.profile), a)
       /\ a \notin Elements(EffectiveQueue(db'.profile))
       /\ db'.profile = db.profile \/ db'.profile.rev > db.profile.rev
  BY <1>2, <1>8, ListeningTakesOut
<1>12. Moves /\ sent' \in 0..MaxRequests
  BY <1>1, <1>11 DEF Moves, QueueInv
<1>13. QueueInv'
  BY <1>1, <1>5, <1>10, <1>12, CallersStay
<1>14. Leaves
  <2> SUFFICES ASSUME NEW x \in Client, x \in OpenClients, x \notin DOMAIN tx'
               PROVE  tx[x].req.album \notin Elements(EffectiveQueue(db'.profile))
    BY DEF Leaves
  <2>1. x = l
    BY <1>7 DEF OpenClients
  <2> QED BY <1>11, <2>1 DEF a
<1>15. Refines
  <2>1. Promise!Rest(a) = Rest(Visible(db.profile), a)
    BY DEF Promise!Rest, Promise!Member, Promise!Elements, Promise!Without, Elements, Without, Rest
  <2>2. Visible(db.profile)' = Rest(Visible(db.profile), a)
    BY <1>11
  <2>3. Promise!ListenTo(a)
    BY <1>1, <2>1, <2>2 DEF Promise!ListenTo
  <2>4. a \in Album
    BY <1>2 DEF Present
  <2> QED BY <2>3, <2>4 DEF Refines, Promise!AtomicNext
<1> QED BY <1>12, <1>13, <1>14, <1>15

(***************************************************************************)
(* The theorems                                                            *)
(***************************************************************************)
\* At first nobody has asked for anything, and the owner sees the stored queue.
LEMMA QueueInitIsSound ==
  ASSUME QueueInit
  PROVE  QueueInv /\ Promise!AtomicInit
<1>1. PICK p \in StartProfiles : db = [profile |-> p, diary |-> 0]
  BY DEF QueueInit
<1>2. /\ tx = [l \in {} |-> {}] /\ call = [c \in Caller |-> NoCall] /\ work = [c \in Caller |-> NoWork]
      /\ view = [c \in Caller |-> OnScreen(db.profile)] /\ sent = 0
  BY DEF QueueInit
<1>3. /\ SoundProfile(db.profile) /\ db \in Documents /\ OpenClients = {} /\ db.profile.rev \in Nat
      /\ MaxRequests \in Nat
  BY <1>1, <1>2, QueueAssumption DEF Documents, SoundProfile, Profile, OpenClients
<1>4. Transactions /\ DocumentsAreSound
  BY <1>3 DEF Transactions, SnapshotShape, SnapshotsAreCurrent, DocumentsAreSound
<1> DEFINE q == Visible(db.profile)
           v == OnScreen(db.profile)
<1>5. Orderly(q)
  BY <1>3, VisibleIsOrderly
<1>6. q \in Seq(Album) /\ Injective(q) /\ Len(q) <= MaxQueue
  BY <1>5, SeqMonotonic DEF Orderly, Present
<1>7. v \in Screens /\ v.revision = db.profile.rev /\ v.shown = q
  BY <1>3, <1>6 DEF OnScreen, Screens
<1>8. NoCall \in Calls /\ NoCall.req.op # "reorder" /\ NoWork \in Works /\ NoWork.pc = "idle"
  BY QueueAssumption DEF NoCall, Calls, NoRequest, NoWork, Works
<1>9. Sound(NoCall, NoWork, v)
  BY <1>3, <1>5, <1>7, <1>8 DEF Sound, WasShown
<1> HIDE DEF v
<1>10. CallersAreSound
  BY <1>2, <1>7, <1>8, <1>9 DEF CallersAreSound, v
<1>11. Promise!AtomicInit
  BY <1>2, <1>6 DEF Promise!AtomicInit, Promise!NoCall, NoCall, Promise!Injective, Injective
<1> QED BY <1>2, <1>3, <1>4, <1>10, <1>11 DEF QueueInv

\* A step keeps the invariant, is one that the promise allows, raises the
\* revision with the queue, and takes out the album of a listen it commits.
LEMMA QueueStep ==
  ASSUME QueueInv, [QueueNext]_queueVars
  PROVE  QueueInv' /\ Refines /\ Moves /\ Leaves
<1>1. ASSUME QueueInv' /\ Refines /\ Moves /\ db'.diary = db.diary
      PROVE  QueueInv' /\ Refines /\ Moves /\ Leaves
  BY <1>1 DEF Leaves
<1>2. ASSUME NEW c \in Caller,
             ReadQueue(c) \/ SendRequest(c) \/ LoadToMutate(c) \/ LoadToReorder(c)
             \/ WriteQueue(c) \/ LoseRace(c) \/ Answer(c)
      PROVE  QueueInv' /\ Refines /\ Moves /\ Leaves
  <2>1. CASE ReadQueue(c)
    <3>1. db' = db
      BY <2>1 DEF ReadQueue
    <3> QED BY <1>1, <2>1, <3>1, ReadQueueKeepsIt
  <2>2. CASE SendRequest(c)
    BY <1>1, <2>2, SendRequestKeepsIt
  <2>3. CASE LoadToMutate(c)
    BY <1>1, <2>3, LoadToMutateKeepsIt
  <2>4. CASE LoadToReorder(c)
    BY <1>1, <2>4, LoadToReorderKeepsIt
  <2>5. CASE WriteQueue(c)
    BY <1>1, <2>5, WriteQueueKeepsIt
  <2>6. CASE LoseRace(c)
    BY <1>1, <2>6, LoseRaceKeepsIt
  <2>7. CASE Answer(c)
    BY <1>1, <2>7, AnswerKeepsIt
  <2> QED BY <1>2, <2>1, <2>2, <2>3, <2>4, <2>5, <2>6, <2>7
<1>3. ASSUME NEW l \in Client, StartListen(l) \/ CommitListen(l) \/ GiveUpListen(l)
      PROVE  QueueInv' /\ Refines /\ Moves /\ Leaves
  <2>1. CASE StartListen(l)
    BY <1>1, <2>1, StartListenKeepsIt
  <2>2. CASE CommitListen(l)
    BY <2>2, CommitListenKeepsIt
  <2>3. CASE GiveUpListen(l)
    BY <1>1, <2>3, GiveUpListenKeepsIt
  <2> QED BY <1>3, <2>1, <2>2, <2>3
<1>4. CASE UNCHANGED queueVars
  <2>1. db' = db /\ tx' = tx /\ call' = call /\ work' = work /\ view' = view /\ sent' = sent
    BY <1>4 DEF queueVars
  <2>2. Transactions' /\ DocumentsAreSound' /\ Moves /\ sent' \in 0..MaxRequests
    BY <2>1, DocumentsStay DEF QueueInv
  <2>3. QueueInv'
    BY <2>1, <2>2, CallersStay
  <2> QED BY <1>1, <2>1, <2>2, <2>3 DEF Refines
<1>5. CASE QueueNext
  BY <1>2, <1>3, <1>5 DEF QueueNext
<1> QED BY <1>4, <1>5

\* The documents, the callers' requests, work and screens are as QueueInv says.
THEOREM QueueInvariant == QueueSpec => []QueueInv
<1>1. QueueInit => QueueInv
  BY QueueInitIsSound
<1>2. QueueInv /\ [QueueNext]_queueVars => QueueInv'
  BY QueueStep
<1> QED BY <1>1, <1>2, PTL DEF QueueSpec

\* QueueTypeOK: stored documents, transactions, requests, work and screens have their types.
THEOREM QueueTypes == QueueSpec => []QueueTypeOK
<1>1. QueueInv => QueueTypeOK
  BY DEF QueueInv, QueueTypeOK, Transactions, DocumentsAreSound, Documents, CallersAreSound, Calls, Works, Screens
<1> QED BY <1>1, QueueInvariant, PTL

\* QueueIsBounded: the stored queue repeats no album and never outgrows its limit,
\* though placeAlbum checks the limit on a queue that was loaded earlier.
THEOREM QueueStaysBounded == QueueSpec => []QueueIsBounded
<1>1. QueueInv => QueueIsBounded
  BY DEF QueueInv, DocumentsAreSound, SoundProfile, QueueIsBounded
<1> QED BY <1>1, QueueInvariant, PTL

\* ServedAtomically: every request on the queue takes effect at one instant, on
\* the queue as it then is, or changes nothing (mutateQueue, reorderQueue).
THEOREM QueueIsServedAtomically == QueueSpec => ServedAtomically
<1>1. QueueInit => Promise!AtomicInit
  BY QueueInitIsSound
<1>2. QueueInv /\ [QueueNext]_queueVars => [Promise!AtomicNext]_<<Visible(db.profile), call>>
  <2> SUFFICES ASSUME QueueInv, [QueueNext]_queueVars
               PROVE  Promise!AtomicNext \/ UNCHANGED <<Visible(db.profile), call>>
    OBVIOUS
  <2>1. Refines
    BY QueueStep
  <2>2. CASE Visible(db'.profile) = Visible(db.profile) /\ call' = call
    <3>1. Visible(db.profile)' = Visible(db.profile)
      BY <2>2
    <3> QED BY <2>2, <3>1
  <2> QED BY <2>1, <2>2 DEF Refines
<1> QED BY <1>1, <1>2, QueueInvariant, PTL DEF QueueSpec, ServedAtomically, Promise!AtomicSpec

\* ListenedLeaves: when a listen is committed its album is queued no more.
THEOREM ListenedAlbumsLeave == QueueSpec => ListenedLeaves
<1>1. QueueInv /\ [QueueNext]_queueVars => [Leaves]_queueVars
  BY QueueStep
<1> QED BY <1>1, QueueInvariant, PTL DEF QueueSpec, ListenedLeaves, Leaves

\* RevisionsTellChanges: no change of what the owner sees leaves the revision as it was.
THEOREM RevisionsTell == QueueSpec => RevisionsTellChanges
<1> DEFINE Tells == Visible(db'.profile) # Visible(db.profile) => db'.profile.rev > db.profile.rev
<1>1. QueueInv /\ [QueueNext]_queueVars => [Tells]_queueVars
  BY QueueStep DEF Moves
<1> QED BY <1>1, QueueInvariant, PTL DEF QueueSpec, RevisionsTellChanges

\* ServedInOneStep: the three together, which is what the owner may count on.
THEOREM QueueIsServedInOneStep == QueueSpec => ServedInOneStep
BY QueueIsServedAtomically, ListenedAlbumsLeave, RevisionsTell DEF ServedInOneStep
=============================================================================
