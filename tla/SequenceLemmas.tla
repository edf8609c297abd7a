--------------------------- MODULE SequenceLemmas ---------------------------
(***************************************************************************)
(* Facts about sequences that the proofs about queues and texts share.     *)
(*                                                                         *)
(* A loop of the program is a recursive function in the model.  That there *)
(* is one, and what it computes, is shown by going to the least number at  *)
(* which it would fail (Least, UpTo, LoopExists).                          *)
(***************************************************************************)
EXTENDS Naturals, Sequences, FiniteSetsExt, SequenceTheorems, TLAPS
LOCAL INSTANCE WellFoundedInduction

-----------------------------------------------------------------------------
(***************************************************************************)
(* Queues: what they list, and that they list it once                      *)
(***************************************************************************)

Listed(s) == {s[i] : i \in DOMAIN s}

Distinct(s) == \A i, j \in DOMAIN s : s[i] = s[j] => i = j

(* What is taken from the front was one element, and is no longer listed. *)
LEMMA TakeFront ==
  ASSUME NEW S, NEW s \in Seq(S), s # <<>>
  PROVE  /\ Head(s) \in S /\ Tail(s) \in Seq(S)
         /\ Listed(s) = {Head(s)} \cup Listed(Tail(s))
         /\ Distinct(s) => Distinct(Tail(s)) /\ Head(s) \notin Listed(Tail(s))
<1>1. /\ Head(s) \in S /\ Tail(s) \in Seq(S)
      /\ Len(Tail(s)) = Len(s) - 1 /\ Len(s) \in Nat /\ Len(s) > 0
      /\ DOMAIN s = 1 .. Len(s) /\ DOMAIN Tail(s) = 1 .. Len(Tail(s))
      /\ Head(s) = s[1]
      /\ \A i \in 1 .. Len(Tail(s)) : Tail(s)[i] = s[i + 1]
  BY HeadTailProperties, LenProperties
<1>2. ASSUME NEW i \in DOMAIN s
      PROVE  s[i] \in {Head(s)} \cup Listed(Tail(s))
  <2>1. CASE i = 1
    BY <1>1, <2>1
  <2>2. CASE i # 1
    <3>1. i - 1 \in DOMAIN Tail(s) /\ Tail(s)[i - 1] = s[i]
      BY <1>1, <2>2
    <3> QED BY <3>1 DEF Listed
  <2> QED BY <2>1, <2>2
<1>3. ASSUME NEW i \in DOMAIN Tail(s)
      PROVE  i + 1 \in DOMAIN s /\ i + 1 # 1 /\ Tail(s)[i] = s[i + 1]
  BY <1>1
<1>4. 1 \in DOMAIN s
  BY <1>1
<1>5. Listed(s) = {Head(s)} \cup Listed(Tail(s))
  <2>1. Listed(s) \subseteq {Head(s)} \cup Listed(Tail(s))
    BY <1>2 DEF Listed
  <2>2. Head(s) \in Listed(s)
    BY <1>1, <1>4 DEF Listed
  <2>3. Listed(Tail(s)) \subseteq Listed(s)
    BY <1>3 DEF Listed
  <2> QED BY <2>1, <2>2, <2>3
<1>6. ASSUME Distinct(s)
      PROVE  Distinct(Tail(s)) /\ Head(s) \notin Listed(Tail(s))
  <2>1. ASSUME NEW i \in DOMAIN Tail(s), NEW j \in DOMAIN Tail(s), Tail(s)[i] = Tail(s)[j]
        PROVE  i = j
    <3>1. i + 1 = j + 1
      BY <1>3, <1>6, <2>1 DEF Distinct
    <3> QED BY <3>1, <1>1
  <2>2. ASSUME NEW i \in DOMAIN Tail(s)
        PROVE  Tail(s)[i] # Head(s)
    BY <1>1, <1>3, <1>4, <1>6 DEF Distinct
  <2> QED BY <2>1, <2>2 DEF Distinct, Listed
<1> QED BY <1>1, <1>5, <1>6

(* What is appended is listed, and once if it was not listed before. *)
LEMMA PutLast ==
  ASSUME NEW S, NEW s \in Seq(S), NEW e \in S
  PROVE  /\ Append(s, e) \in Seq(S)
         /\ Listed(Append(s, e)) = Listed(s) \cup {e}
         /\ Distinct(s) /\ e \notin Listed(s) => Distinct(Append(s, e))
<1>1. /\ Append(s, e) \in Seq(S) /\ Len(s) \in Nat
      /\ DOMAIN s = 1 .. Len(s) /\ DOMAIN Append(s, e) = 1 .. Len(s) + 1
      /\ \A i \in 1 .. Len(s) : Append(s, e)[i] = s[i]
      /\ Append(s, e)[Len(s) + 1] = e
  BY AppendProperties, LenProperties
<1>2. Len(s) + 1 \in DOMAIN Append(s, e)
  BY <1>1
<1>3. \A i \in DOMAIN Append(s, e) : i \in DOMAIN s \/ i = Len(s) + 1
  BY <1>1
<1>4. \A i \in DOMAIN s : i \in DOMAIN Append(s, e) /\ Append(s, e)[i] = s[i]
  BY <1>1
<1>5. Listed(Append(s, e)) = Listed(s) \cup {e}
  BY <1>1, <1>2, <1>3, <1>4 DEF Listed
<1>6. ASSUME Distinct(s), e \notin Listed(s)
      PROVE  Distinct(Append(s, e))
  <2>1. \A i \in DOMAIN s : s[i] # e
    BY <1>6 DEF Listed
  <2> QED BY <1>1, <1>3, <1>4, <1>6, <2>1 DEF Distinct
<1> QED BY <1>1, <1>5, <1>6

-----------------------------------------------------------------------------
(***************************************************************************)
(* Loops and texts                                                         *)
(***************************************************************************)

Below == {p \in Nat \X Nat : p[1] < p[2]}

(* Numbers that are natural have a least one. *)
LEMMA Least ==
  ASSUME NEW S \in SUBSET Nat, S # {}
  PROVE  \E m \in S : \A n \in S : m <= n
<1>1. IsWellFoundedOn(Below, Nat)
  <2>1. OpToRel(<, Nat) = Below
    BY DEF OpToRel, Below
  <2> QED BY <2>1, NatLessThanWellFounded, Zenon
<1>2. PICK m \in S : \A n \in S : ~(<<n, m>> \in Below)
  BY <1>1, WFMin, Zenon
<1>3. ASSUME NEW n \in S PROVE m <= n
  <2>1. <<n, m>> \notin Below
    BY <1>2
  <2> QED BY <2>1 DEF Below
<1> QED BY <1>3

(* Induction up to N, for a set of numbers. *)
LEMMA UpTo ==
  ASSUME NEW N \in Nat, NEW S, 0 \in S,
         \A n \in 1 .. N : n - 1 \in S => n \in S
  PROVE  \A n \in 0 .. N : n \in S
<1> DEFINE T == {n \in 0 .. N : n \notin S}
<1> SUFFICES ASSUME T # {} PROVE FALSE
  OBVIOUS
<1>1. T \in SUBSET Nat
  OBVIOUS
<1>2. PICK m \in T : \A n \in T : m <= n
  BY <1>1, Least, Zenon
<1>3. m \in 0 .. N /\ m \notin S /\ m # 0
  OBVIOUS
<1>4. m \in 1 .. N /\ m - 1 \in 0 .. N /\ ~(m <= m - 1)
  BY <1>3
<1>5. m - 1 \in S
  BY <1>2, <1>4
<1> QED BY <1>3, <1>4, <1>5

(* A loop over the list s that makes one step for each element, as a       *)
(* function of how many it has seen.                                       *)
Steps(A, L) == [A \X L -> A]

IsLoop(f, s, A, first, step) ==
  /\ f \in [0 .. Len(s) -> A] /\ f[0] = first
  /\ \A n \in 1 .. Len(s) : f[n] = step[<<f[n - 1], s[n]>>]

(* There is one for every list, first value and step. *)
LEMMA LoopExists ==
  ASSUME NEW A, NEW L, NEW s \in Seq(L), NEW first \in A, NEW step \in Steps(A, L)
  PROVE  \E f : IsLoop(f, s, A, first, step)
<1> DEFINE Good(f, m) == /\ f \in [0 .. m -> A] /\ f[0] = first
                         /\ \A n \in 1 .. m : f[n] = step[<<f[n - 1], s[n]>>]
<1> DEFINE S == {m \in 0 .. Len(s) : \E f : Good(f, m)}
<1>1. Len(s) \in Nat /\ \A n \in 1 .. Len(s) : s[n] \in L
  BY LenProperties
<1>2. 0 \in S
  <2>1. Good([n \in 0 .. 0 |-> first], 0)
    OBVIOUS
  <2>2. 0 \in 0 .. Len(s)
    BY <1>1
  <2> HIDE DEF Good
  <2> QED BY <2>1, <2>2, Zenon
<1>3. ASSUME NEW m \in 1 .. Len(s), m - 1 \in S PROVE m \in S
  <2>1. PICK f : Good(f, m - 1)
    BY <1>3
  <2> DEFINE g == [n \in 0 .. m |-> IF n = m THEN step[<<f[m - 1], s[m]>>] ELSE f[n]]
  <2>2. f[m - 1] \in A /\ s[m] \in L
    BY <1>1, <2>1
  <2>3. step[<<f[m - 1], s[m]>>] \in A
    BY <2>2 DEF Steps
  <2>4. g \in [0 .. m -> A] /\ g[0] = first
    BY <1>1, <2>1, <2>3
  <2>5. ASSUME NEW n \in 1 .. m PROVE g[n] = step[<<g[n - 1], s[n]>>]
    <3>1. n - 1 \in 0 .. m /\ n - 1 # m /\ g[n - 1] = f[n - 1]
      BY <1>1
    <3>2. CASE n = m
      BY <3>1, <3>2
    <3>3. CASE n # m
      <4>1. n \in 1 .. m - 1 /\ g[n] = f[n]
        BY <1>1, <3>3
      <4> QED BY <2>1, <3>1, <4>1
    <3> QED BY <3>2, <3>3
  <2>6. Good(g, m)
    BY <2>4, <2>5, Zenon
  <2> HIDE DEF Good
  <2> QED BY <1>1, <2>6
<1> HIDE DEF S
<1>4. \A n \in 0 .. Len(s) : n \in S
  <2>1. \A n \in 1 .. Len(s) : n - 1 \in S => n \in S
    BY <1>3
  <2> QED BY <1>1, <1>2, <2>1, UpTo, Zenon
<1>5. Len(s) \in S
  BY <1>1, <1>4
<1> QED BY <1>5 DEF S, IsLoop

(* The first place of b in a text, 0 when it has none. *)
FirstOf(s, b) ==
  LET at == {i \in 1 .. Len(s) : s[i] = b} IN IF at # {} THEN Min(at) ELSE 0

(* It is the first one, and 0 only when b is nowhere. *)
LEMMA FirstIs ==
  ASSUME NEW S, NEW s \in Seq(S), NEW b
  PROVE  \/ FirstOf(s, b) = 0 /\ \A i \in 1 .. Len(s) : s[i] # b
         \/ /\ FirstOf(s, b) \in 1 .. Len(s) /\ s[FirstOf(s, b)] = b
            /\ \A i \in 1 .. Len(s) : i < FirstOf(s, b) => s[i] # b
<1> DEFINE I == {i \in 1 .. Len(s) : s[i] = b}
<1>1. FirstOf(s, b) = IF I # {} THEN Min(I) ELSE 0
  BY Zenon DEF FirstOf
<1>2. CASE I = {}
  BY <1>1, <1>2
<1>3. CASE I # {}
  <2>1. I \in SUBSET Nat
    OBVIOUS
  <2>2. \E m \in I : \A n \in I : m <= n
    BY <1>3, <2>1, Least, Zenon
  <2>3. PICK m \in I : m = FirstOf(s, b) /\ \A n \in I : m <= n
    BY <1>1, <1>3, <2>2 DEF Min
  <2>4. \A i \in 1 .. Len(s) : i < m => s[i] # b
    <3>1. \A i \in 1 .. Len(s) : s[i] = b => i \in I
      OBVIOUS
    <3>2. Len(s) \in Nat
      BY LenProperties
    <3> QED BY <2>3, <3>1, <3>2
  <2> QED BY <2>3, <2>4
<1> QED BY <1>2, <1>3

(* The n elements of a text that follow its first a. *)
Part(s, a, n) == SubSeq(s, a + 1, a + n)

(* It is a text of n elements, those of the longer one moved by a. *)
LEMMA PartOf ==
  ASSUME NEW S, NEW s \in Seq(S), NEW a \in Nat, NEW n \in Nat, a + n <= Len(s)
  PROVE  /\ Part(s, a, n) \in Seq(S)
         /\ Len(Part(s, a, n)) = n
         /\ \A j \in 1 .. n : Part(s, a, n)[j] = s[a + j]
<1>1. \A j \in a + 1 .. a + n : s[j] \in S
  BY LenProperties
<1>2. PICK m \in Int, k \in Int : m = a + 1 /\ k = a + n
  OBVIOUS
<1>3. /\ SubSeq(s, m, k) \in Seq(S)
      /\ Len(SubSeq(s, m, k)) = IF m <= k THEN k - m + 1 ELSE 0
      /\ \A j \in 1 .. k - m + 1 : SubSeq(s, m, k)[j] = s[m + j - 1]
  BY <1>1, <1>2, SubSeqProperties
<1>4. (IF m <= k THEN k - m + 1 ELSE 0) = n /\ k - m + 1 = n
  BY <1>2
<1>5. \A j \in 1 .. n : m + j - 1 = a + j
  BY <1>2
<1>6. Part(s, a, n) = SubSeq(s, m, k)
  BY <1>2 DEF Part
<1> QED BY <1>3, <1>4, <1>5, <1>6, Zenon

(* Two texts agree where their elements do. *)
LEMMA SameParts ==
  ASSUME NEW S, NEW s \in Seq(S), NEW a \in Nat, NEW t \in Seq(S), NEW b \in Nat,
         NEW n \in Nat, a + n <= Len(s), b + n <= Len(t),
         \A j \in 1 .. n : s[a + j] = t[b + j]
  PROVE  Part(s, a, n) = Part(t, b, n)
<1>1. /\ Part(s, a, n) \in Seq(S) /\ Len(Part(s, a, n)) = n
      /\ \A j \in 1 .. n : Part(s, a, n)[j] = s[a + j]
  BY PartOf, Zenon
<1>2. /\ Part(t, b, n) \in Seq(S) /\ Len(Part(t, b, n)) = n
      /\ \A j \in 1 .. n : Part(t, b, n)[j] = t[b + j]
  BY PartOf
<1> QED BY <1>1, <1>2, SeqEqual, Zenon

(* The same of the first n elements. *)
LEMMA BeginningOf ==
  ASSUME NEW S, NEW s \in Seq(S), NEW n \in Nat, n <= Len(s)
  PROVE  /\ SubSeq(s, 1, n) \in Seq(S)
         /\ Len(SubSeq(s, 1, n)) = n
         /\ \A j \in 1 .. n : SubSeq(s, 1, n)[j] = s[j]
<1>1. PICK a \in Nat : a = 0
  OBVIOUS
<1>2. a + n <= Len(s) /\ a + 1 = 1 /\ a + n = n /\ \A j \in 1 .. n : a + j = j
  BY <1>1
<1>3. /\ Part(s, a, n) \in Seq(S)
      /\ Len(Part(s, a, n)) = n
      /\ \A j \in 1 .. n : Part(s, a, n)[j] = s[a + j]
  BY <1>2, PartOf
<1>4. Part(s, a, n) = SubSeq(s, 1, n)
  BY <1>2, Zenon DEF Part
<1> QED BY <1>2, <1>3, <1>4

(* Beginnings of the same length agree where their elements do. *)
LEMMA SameBeginnings ==
  ASSUME NEW S, NEW s \in Seq(S), NEW t \in Seq(S),
         NEW n \in Nat, n <= Len(s), n <= Len(t), \A j \in 1 .. n : s[j] = t[j]
  PROVE  SubSeq(s, 1, n) = SubSeq(t, 1, n)
<1>1. /\ SubSeq(s, 1, n) \in Seq(S) /\ Len(SubSeq(s, 1, n)) = n
      /\ \A j \in 1 .. n : SubSeq(s, 1, n)[j] = s[j]
  BY BeginningOf
<1>2. /\ SubSeq(t, 1, n) \in Seq(S) /\ Len(SubSeq(t, 1, n)) = n
      /\ \A j \in 1 .. n : SubSeq(t, 1, n)[j] = t[j]
  BY BeginningOf
<1> QED BY <1>1, <1>2, SeqEqual

(* A text is the joining of pieces when each step adds the next one. *)
Joining(e, q, N, S) ==
  /\ e \in [0 .. N -> Seq(S)] /\ e[0] = <<>>
  /\ \A n \in 1 .. N : q[n] \in Seq(S) /\ e[n] = e[n - 1] \o q[n]

(* What there is after m pieces is a beginning of what there is after N. *)
BeginsAs(e, N, m) ==
  /\ Len(e[m]) <= Len(e[N])
  /\ \A i \in 1 .. Len(e[m]) : e[N][i] = e[m][i]

(* So it is for every joining. *)
LEMMA JoiningBegins ==
  ASSUME NEW S, NEW N \in Nat, NEW e, NEW q, Joining(e, q, N, S), NEW m \in 0 .. N
  PROVE  BeginsAs(e, N, m)
<1> DEFINE B(n) == /\ Len(e[n]) <= Len(e[N])
                   /\ \A i \in 1 .. Len(e[n]) : e[N][i] = e[n][i]
<1> DEFINE T == {d \in 0 .. N : B(N - d)}
<1>1. /\ e \in [0 .. N -> Seq(S)]
      /\ \A n \in 1 .. N : q[n] \in Seq(S) /\ e[n] = e[n - 1] \o q[n]
  BY Zenon DEF Joining
<1>2. \A n \in 0 .. N : e[n] \in Seq(S) /\ Len(e[n]) \in Nat
  BY <1>1, LenProperties
<1>3. 0 \in T
  <2>1. N - 0 = N /\ N \in 0 .. N
    OBVIOUS
  <2>2. B(N)
    BY <1>2, <2>1
  <2> HIDE DEF B
  <2>3. B(N - 0)
    BY <2>1, <2>2, Zenon
  <2> QED BY <2>3
<1>4. ASSUME NEW d \in 1 .. N, d - 1 \in T PROVE d \in T
  <2>1. PICK n \in 1 .. N, k \in 0 .. N :
           n = N - (d - 1) /\ k = N - d /\ k = n - 1 /\ n \in 0 .. N
    <3>1. /\ N - (d - 1) \in 1 .. N /\ N - d \in 0 .. N /\ N - d = (N - (d - 1)) - 1
          /\ N - (d - 1) \in 0 .. N
      OBVIOUS
    <3> QED BY <3>1, Zenon
  <2>2. B(n)
    BY <1>4, <2>1, Zenon
  <2>3. PICK p \in Seq(S) : p = q[n]
    BY <1>1, Zenon
  <2>4. e[n] = e[k] \o p /\ e[k] \in Seq(S)
    BY <1>1, <2>1, <2>3, Zenon
  <2>5. /\ Len(e[k] \o p) = Len(e[k]) + Len(p)
        /\ \A i \in 1 .. Len(e[k]) + Len(p) :
             (e[k] \o p)[i] = IF i <= Len(e[k]) THEN e[k][i] ELSE p[i - Len(e[k])]
    BY <2>4, ConcatProperties, Zenon
  <2>6. PICK a \in Nat, b \in Nat, c \in Nat :
           a = Len(e[k]) /\ b = Len(p) /\ c = Len(e[N])
    <3>1. Len(e[k]) \in Nat /\ Len(p) \in Nat /\ N \in 0 .. N
      BY <1>2, LenProperties
    <3> QED BY <1>2, <3>1, Zenon
  <2>7. /\ Len(e[n]) = a + b
        /\ \A i \in 1 .. a + b : e[n][i] = IF i <= a THEN e[k][i] ELSE p[i - a]
    BY <2>4, <2>5, <2>6, Zenon
  <2>8. a + b <= c /\ \A i \in 1 .. a + b : e[N][i] = e[n][i]
    BY <2>2, <2>6, <2>7, Zenon
  <2>9. a <= c /\ \A i \in 1 .. a : i \in 1 .. a + b /\ i <= a
    BY <2>8
  <2>10. \A i \in 1 .. a : e[N][i] = e[k][i]
    BY <2>7, <2>8, <2>9, Zenon
  <2>11. B(k)
    BY <2>6, <2>9, <2>10, Zenon
  <2>12. d \in 0 .. N
    OBVIOUS
  <2> HIDE DEF B
  <2> QED BY <2>1, <2>11, <2>12, Zenon
<1>5. \A d \in 0 .. N : d \in T
  <2> HIDE DEF T
  <2> QED BY <1>3, <1>4, UpTo, Zenon
<1>6. N - m \in 0 .. N /\ N - (N - m) = m
  OBVIOUS
<1> HIDE DEF B
<1>7. B(N - (N - m))
  BY <1>5, <1>6, Zenon
<1>8. B(m)
  BY <1>6, <1>7, Zenon
<1> QED BY <1>8, Zenon DEF B, BeginsAs

(* Where piece n is in the whole. *)
PieceIs(e, q, N, n) ==
  /\ Len(e[n - 1]) \in Nat /\ Len(q[n]) \in Nat
  /\ Len(e[n]) = Len(e[n - 1]) + Len(q[n]) /\ Len(e[n]) <= Len(e[N])
  /\ \A i \in 1 .. Len(q[n]) : e[N][Len(e[n - 1]) + i] = q[n][i]

(* Each piece is found again behind those before it. *)
LEMMA PieceAt ==
  ASSUME NEW S, NEW N \in Nat, NEW e, NEW q, Joining(e, q, N, S), NEW n \in 1 .. N
  PROVE  PieceIs(e, q, N, n)
<1>1. PICK m \in 0 .. N : m = n - 1 /\ n \in 0 .. N
  <2>1. n - 1 \in 0 .. N /\ n \in 0 .. N
    OBVIOUS
  <2> QED BY <2>1, Zenon
<1>2. e[m] \in Seq(S) /\ q[n] \in Seq(S) /\ e[n] = e[m] \o q[n]
  BY <1>1, Zenon DEF Joining
<1>3. PICK a \in Nat, b \in Nat : a = Len(e[m]) /\ b = Len(q[n])
  BY <1>2, LenProperties
<1>4. /\ Len(e[m] \o q[n]) = Len(e[m]) + Len(q[n])
      /\ \A i \in 1 .. Len(e[m]) + Len(q[n]) :
           (e[m] \o q[n])[i] = IF i <= Len(e[m]) THEN e[m][i] ELSE q[n][i - Len(e[m])]
  BY <1>2, ConcatProperties, Zenon
<1>5. /\ Len(e[n]) = a + b
      /\ \A i \in 1 .. a + b : e[n][i] = IF i <= a THEN e[m][i] ELSE q[n][i - a]
  BY <1>2, <1>3, <1>4, Zenon
<1>6. \A i \in 1 .. b : a + i \in 1 .. a + b /\ ~(a + i <= a) /\ (a + i) - a = i
  OBVIOUS
<1>7. Len(e[n]) <= Len(e[N]) /\ \A i \in 1 .. Len(e[n]) : e[N][i] = e[n][i]
  <2>1. n \in 0 .. N /\ Joining(e, q, N, S)
    BY <1>1, Zenon
  <2>2. BeginsAs(e, N, n)
    BY <2>1, JoiningBegins
  <2> QED BY <2>2, Zenon DEF BeginsAs
<1>8. \A i \in 1 .. b : e[N][a + i] = q[n][i]
  BY <1>5, <1>6, <1>7, Zenon
<1> QED BY <1>1, <1>3, <1>5, <1>7, <1>8, Zenon DEF PieceIs

(* A text with b between two others, byte by byte. *)
LEMMA AroundIs ==
  ASSUME NEW S, NEW a \in Seq(S), NEW b \in S, NEW v \in Seq(S)
  PROVE  /\ a \o <<b>> \o v \in Seq(S)
         /\ Len(a \o <<b>> \o v) = Len(a) + 1 + Len(v)
         /\ \A i \in 1 .. Len(a) : (a \o <<b>> \o v)[i] = a[i]
         /\ (a \o <<b>> \o v)[Len(a) + 1] = b
         /\ \A i \in 1 .. Len(v) : (a \o <<b>> \o v)[(Len(a) + 1) + i] = v[i]
<1>1. PICK one \in Seq(S) : one = <<b>> /\ Len(one) = 1 /\ one[1] = b
  <2>1. <<b>> \in Seq(S) /\ Len(<<b>>) = 1 /\ <<b>>[1] = b
    OBVIOUS
  <2> QED BY <2>1, Zenon
<1>2. PICK x \in Seq(S) : x = a \o one
  BY ConcatProperties, Zenon
<1>3. PICK w \in Seq(S) : w = x \o v
  BY ConcatProperties, Zenon
<1>4. PICK l \in Nat, m \in Nat : l = Len(a) /\ m = Len(v)
  BY LenProperties
<1>5. Len(x) = l + 1 /\ \A i \in 1 .. l + 1 : x[i] = IF i <= l THEN a[i] ELSE one[i - l]
  <2>1. /\ Len(a \o one) = Len(a) + Len(one)
        /\ \A i \in 1 .. Len(a) + Len(one) :
             (a \o one)[i] = IF i <= Len(a) THEN a[i] ELSE one[i - Len(a)]
    BY ConcatProperties
  <2> QED BY <1>1, <1>2, <1>4, <2>1, Zenon
<1>6. /\ Len(w) = (l + 1) + m
      /\ \A i \in 1 .. (l + 1) + m : w[i] = IF i <= l + 1 THEN x[i] ELSE v[i - (l + 1)]
  <2>1. /\ Len(x \o v) = Len(x) + Len(v)
        /\ \A i \in 1 .. Len(x) + Len(v) :
             (x \o v)[i] = IF i <= Len(x) THEN x[i] ELSE v[i - Len(x)]
    BY ConcatProperties
  <2> QED BY <1>3, <1>4, <1>5, <2>1, Zenon
<1>7. \A i \in 1 .. l : w[i] = a[i]
  BY <1>5, <1>6
<1>8. w[l + 1] = b
  BY <1>1, <1>5, <1>6
<1>9. \A i \in 1 .. m : w[(l + 1) + i] = v[i]
  <2>1. \A i \in 1 .. m : /\ (l + 1) + i \in 1 .. (l + 1) + m /\ ~((l + 1) + i <= l + 1)
                          /\ ((l + 1) + i) - (l + 1) = i
    OBVIOUS
  <2> QED BY <1>6, <2>1, Zenon
<1>10. w = a \o <<b>> \o v
  BY <1>1, <1>2, <1>3, Zenon
<1> QED BY <1>4, <1>6, <1>7, <1>8, <1>9, <1>10, Zenon

(* A text whose first b splits it into a and v. *)
SplitsInto(w, b, a, v) ==
  /\ FirstOf(w, b) = Len(a) + 1
  /\ SubSeq(w, 1, FirstOf(w, b) - 1) = a
  /\ SubSeq(w, FirstOf(w, b) + 1, Len(w)) = v

(* A text with b between two others is such a one, if there is no b before. *)
LEMMA SplitsAround ==
  ASSUME NEW S, NEW a \in Seq(S), NEW b \in S, NEW v \in Seq(S),
         \A i \in 1 .. Len(a) : a[i] # b,
         NEW w, w = a \o <<b>> \o v
  PROVE  w \in Seq(S) /\ SplitsInto(w, b, a, v)
<1>1. PICK l \in Nat, m \in Nat : l = Len(a) /\ m = Len(v)
  BY LenProperties
<1>2. /\ w \in Seq(S) /\ Len(w) = l + 1 + m
      /\ \A i \in 1 .. l : w[i] = a[i]
      /\ w[l + 1] = b
      /\ \A i \in 1 .. m : w[(l + 1) + i] = v[i]
  <2>1. /\ w \in Seq(S) /\ Len(w) = Len(a) + 1 + Len(v)
        /\ \A i \in 1 .. Len(a) : w[i] = a[i]
        /\ w[Len(a) + 1] = b
        /\ \A i \in 1 .. Len(v) : w[(Len(a) + 1) + i] = v[i]
    BY AroundIs
  <2> QED BY <1>1, <2>1, Zenon
<1>3. FirstOf(w, b) = l + 1
  <2>1. \A i \in 1 .. l : w[i] # b
    BY <1>1, <1>2, Zenon
  <2>2. l + 1 \in 1 .. Len(w)
    BY <1>2
  <2>3. \/ FirstOf(w, b) = 0 /\ \A i \in 1 .. Len(w) : w[i] # b
        \/ /\ FirstOf(w, b) \in 1 .. Len(w) /\ w[FirstOf(w, b)] = b
           /\ \A i \in 1 .. Len(w) : i < FirstOf(w, b) => w[i] # b
    <3>1. w \in Seq(S)
      BY <1>2, Zenon
    <3>2. ASSUME NEW s \in Seq(S)
          PROVE  \/ FirstOf(s, b) = 0 /\ \A i \in 1 .. Len(s) : s[i] # b
                 \/ /\ FirstOf(s, b) \in 1 .. Len(s) /\ s[FirstOf(s, b)] = b
                    /\ \A i \in 1 .. Len(s) : i < FirstOf(s, b) => s[i] # b
      BY <3>2, FirstIs, Zenon
    <3> QED BY <3>1, <3>2, Zenon
  <2>4. /\ FirstOf(w, b) \in 1 .. Len(w) /\ w[FirstOf(w, b)] = b
        /\ ~(l + 1 < FirstOf(w, b))
    BY <1>2, <2>2, <2>3, Zenon
  <2>5. PICK p \in 1 .. Len(w) : p = FirstOf(w, b) /\ w[p] = b /\ ~(l + 1 < p)
    BY <2>4, Zenon
  <2>6. p \notin 1 .. l
    BY <2>1, <2>5, Zenon
  <2>7. p = l + 1
    BY <1>2, <2>5, <2>6
  <2> QED BY <2>5, <2>7, Zenon
<1>4. SubSeq(w, 1, l) = a
  <2>1. l <= Len(w)
    BY <1>2
  <2>2. /\ SubSeq(w, 1, l) \in Seq(S) /\ Len(SubSeq(w, 1, l)) = l
        /\ \A j \in 1 .. l : SubSeq(w, 1, l)[j] = w[j]
    BY <1>2, <2>1, BeginningOf
  <2> QED BY <1>1, <1>2, <2>2, SeqEqual
<1>5. SubSeq(w, (l + 1) + 1, Len(w)) = v
  <2>1. PICK c \in Nat : c = l + 1 /\ c + m = Len(w) /\ c + m <= Len(w)
    BY <1>2
  <2>2. /\ Part(w, c, m) \in Seq(S) /\ Len(Part(w, c, m)) = m
        /\ \A j \in 1 .. m : Part(w, c, m)[j] = w[c + j]
    <3>1. w \in Seq(S) /\ c + m <= Len(w)
      BY <1>2, <2>1, Zenon
    <3> QED BY <3>1, PartOf, Zenon
  <2>3. \A j \in 1 .. m : Part(w, c, m)[j] = v[j]
    BY <1>2, <2>1, <2>2, Zenon
  <2>4. Part(w, c, m) = v
    BY <1>1, <2>2, <2>3, SeqEqual, Zenon
  <2>5. Part(w, c, m) = SubSeq(w, (l + 1) + 1, Len(w))
    BY <2>1, Zenon DEF Part
  <2> QED BY <2>4, <2>5, Zenon
<1>6. FirstOf(w, b) - 1 = l
  BY <1>3
<1> QED BY <1>1, <1>2, <1>3, <1>4, <1>5, <1>6, Zenon DEF SplitsInto
=============================================================================
