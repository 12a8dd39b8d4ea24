--------------------------- MODULE SequenceLemmas ---------------------------
(***************************************************************************)
(* Facts about numbers and sequences that the proofs share.                *)
(*                                                                         *)
(* Induction is stated over a set of numbers, so that a proof instantiates *)
(* it with the set of those for which its claim holds.  From it follow     *)
(* what a chain of digests commits to and what a recursive selection of    *)
(* lines returns.                                                          *)
(***************************************************************************)
EXTENDS Integers, Sequences, SequenceTheorems, WellFoundedInduction, TLAPS

Less == {ss \in Nat \X Nat : ss[1] < ss[2]}

LEMMA LessWellFounded == IsWellFoundedOn(Less, Nat)
<1>1. OpToRel(<, Nat) = Less
  BY DEF OpToRel, Less
<1> QED BY <1>1, NatLessThanWellFounded

(* A non-empty set of numbers has a least one ...                          *)
LEMMA FirstExists ==
  ASSUME NEW T \in SUBSET Nat, T # {}
  PROVE  \E x \in T : \A y \in T : x <= y
<1>1. PICK x \in T : \A y \in T : <<y, x>> \notin Less
  BY WFMin, LessWellFounded
<1>2. \A y \in T : x <= y
  <2> TAKE y \in T
  <2>1. x \in Nat /\ y \in Nat
    OBVIOUS
  <2>2. ~ (y < x)
    BY <1>1, <2>1 DEF Less
  <2> QED BY <2>1, <2>2
<1> QED BY <1>2

(* ... and one of line numbers has a last one.                             *)
LEMMA LastExists ==
  ASSUME NEW n \in Nat, NEW S \in SUBSET (1..n), S # {}
  PROVE  \E i \in S : \A j \in S : j <= i
<1> DEFINE T == {n - i : i \in S}
<1>1. T \in SUBSET Nat
  OBVIOUS
<1>2. T # {}
  <2>1. PICK i \in S : TRUE
    OBVIOUS
  <2>2. n - i \in T
    BY <2>1
  <2> QED BY <2>2
<1>3. PICK x \in T : \A y \in T : x <= y
  <2> HIDE DEF T
  <2> QED BY <1>1, <1>2, FirstExists
<1>4. PICK i \in S : x = n - i
  OBVIOUS
<1>5. \A j \in S : j <= i
  <2> TAKE j \in S
  <2>1. x <= n - j
    BY <1>3
  <2> QED BY <1>4, <2>1
<1> QED BY <1>5

(* Induction: a set with 0 that is closed under successors.                *)
LEMMA Induction ==
  ASSUME NEW S, 0 \in S, \A n \in Nat : n \in S => n + 1 \in S
  PROVE  \A n \in Nat : n \in S
<1> SUFFICES ASSUME Nat \ S # {} PROVE FALSE
  OBVIOUS
<1>1. PICK x \in Nat \ S : \A y \in Nat \ S : x <= y
  <2>1. Nat \ S \in SUBSET Nat
    OBVIOUS
  <2> QED BY <2>1, FirstExists
<1>2. x # 0
  OBVIOUS
<1>3. x - 1 \in Nat /\ x - 1 \in S
  BY <1>1, <1>2
<1>4. (x - 1) + 1 \in S
  BY <1>3
<1> QED BY <1>4
-----------------------------------------------------------------------------
(* A chain in which every digest appends an entry to the digest before it  *)
(* holds, at its i-th place, the first i entries.                          *)
Grows(h, e, n) ==
  \A i \in 1..n : h[i] = Append(IF i = 1 THEN << >> ELSE h[i - 1], e[i])

Firsts(e, i) == [j \in 1..i |-> e[j]]

LEMMA DigestsByPlace ==
  ASSUME NEW n \in Nat, NEW E, NEW e \in [1..n -> E], NEW h, Grows(h, e, n)
  PROVE  \A i \in 1..n : h[i] \in Seq(E) /\ h[i] = Firsts(e, i)
<1> DEFINE Holds(i) == h[i] \in Seq(E) /\ h[i] = Firsts(e, i)
           S == {i \in Nat : i \in 1..n => Holds(i)}
<1>1. 0 \in S
  OBVIOUS
<1>2. ASSUME NEW i \in Nat, i \in S, i + 1 \in 1..n PROVE Holds(i + 1)
  <2> DEFINE before == IF i + 1 = 1 THEN << >> ELSE h[i]
  <2>1. e[i + 1] \in E
    BY <1>2
  <2>2. before \in Seq(E) /\ Len(before) = i /\ \A j \in 1..i : before[j] = e[j]
    <3>1. CASE i = 0
      BY <3>1, EmptySeq
    <3>2. CASE i # 0
      <4>1. Holds(i)
        BY <1>2, <3>2
      <4>2. h[i] = [j \in 1..i |-> e[j]]
        BY <4>1 DEF Firsts
      <4> HIDE DEF Holds
      <4>3. DOMAIN h[i] = 1..i /\ \A j \in 1..i : h[i][j] = e[j]
        BY <4>2
      <4>4. h[i] \in Seq(E)
        BY <4>1 DEF Holds
      <4> QED BY <3>2, <4>3, <4>4, LenProperties
    <3> QED BY <3>1, <3>2
  <2>3. h[i + 1] = Append(before, e[i + 1])
    <3>1. (i + 1) - 1 = i
      OBVIOUS
    <3> QED BY <1>2, <3>1 DEF Grows
  <2> DEFINE d == h[i + 1]
  <2> HIDE DEF before, d
  <2>4. /\ d \in Seq(E) /\ Len(d) = i + 1
        /\ \A j \in 1..i : d[j] = e[j]
        /\ d[i + 1] = e[i + 1]
    <3>1. d = Append(before, e[i + 1])
      BY <2>3 DEF d
    <3> QED BY <2>1, <2>2, <3>1, AppendProperties
  <2>5. \A j \in 1..(i + 1) : d[j] = e[j]
    BY <1>2, <2>4
  <2>6. d = [j \in 1..(i + 1) |-> d[j]]
    BY <2>4, LenProperties
  <2>7. d = [j \in 1..(i + 1) |-> e[j]]
    BY <2>5, <2>6, Zenon
  <2> QED BY <2>4, <2>7 DEF d, Firsts
<1>3. \A i \in Nat : i \in S
  <2> HIDE DEF Holds
  <2>1. \A i \in Nat : i \in S => i + 1 \in S
    BY <1>2
  <2> HIDE DEF S
  <2> QED BY <1>1, <2>1, Induction
<1> QED BY <1>3
-----------------------------------------------------------------------------
(* A recursive selection: f[i] is what is taken of the first i lines, the  *)
(* ones whose numbers are in T.                                            *)
(* whose numbers are in T.                                                 *)
Selects(f, log, T) ==
  f = [i \in 0..Len(log) |->
         IF i = 0 THEN << >>
         ELSE IF i \in T THEN Append(f[i - 1], log[i]) ELSE f[i - 1]]

(* There is such a function, so the recursion defines one ...              *)
LEMMA SelectionExists ==
  ASSUME NEW E, NEW log \in Seq(E), NEW T
  PROVE  \E f : Selects(f, log, T)
<1> DEFINE n == Len(log)
           Up(f, m) == /\ f[0] = << >>
                       /\ \A i \in 1..m : f[i] = IF i \in T THEN Append(f[i - 1], log[i]) ELSE f[i - 1]
           S == {m \in Nat : \E f : DOMAIN f = 0..m /\ Up(f, m)}
<1>1. 0 \in S
  <2>1. DOMAIN [i \in 0..0 |-> << >>] = 0..0 /\ Up([i \in 0..0 |-> << >>], 0)
    OBVIOUS
  <2> QED BY <2>1
<1>2. ASSUME NEW m \in Nat, m \in S PROVE m + 1 \in S
  <2>1. PICK f : DOMAIN f = 0..m /\ Up(f, m)
    BY <1>2
  <2> DEFINE next == IF m + 1 \in T THEN Append(f[m], log[m + 1]) ELSE f[m]
             g == [i \in 0..(m + 1) |-> IF i = m + 1 THEN next ELSE f[i]]
  <2>2. DOMAIN g = 0..(m + 1) /\ g[m + 1] = next /\ \A i \in 0..m : g[i] = f[i]
    <3> HIDE DEF next
    <3> QED OBVIOUS
  <2> HIDE DEF g
  <2>3. g[0] = << >>
    BY <2>1, <2>2
  <2>4. ASSUME NEW i \in 1..(m + 1)
        PROVE  g[i] = IF i \in T THEN Append(g[i - 1], log[i]) ELSE g[i - 1]
    <3>1. CASE i = m + 1
      <4>1. g[i] = next /\ g[i - 1] = f[m]
        BY <2>2, <3>1
      <4> QED BY <3>1, <4>1
    <3>2. CASE i # m + 1
      <4>1. i \in 1..m /\ g[i] = f[i] /\ g[i - 1] = f[i - 1]
        BY <2>2, <3>2
      <4> QED BY <2>1, <4>1
    <3> QED BY <3>1, <3>2
  <2> QED BY <2>2, <2>3, <2>4
<1>3. n \in S
  <2>1. n \in Nat
    BY LenProperties
  <2> HIDE DEF S, n
  <2> QED BY <1>1, <1>2, <2>1, Induction
<1>4. PICK f : DOMAIN f = 0..n /\ Up(f, n)
  BY <1>3
<1> DEFINE body(i) == IF i = 0 THEN << >>
                      ELSE IF i \in T THEN Append(f[i - 1], log[i]) ELSE f[i - 1]
           g == [i \in 0..n |-> f[i]]
<1>5. \A i \in 0..n : g[i] = body(i)
  <2>1. n \in Nat
    BY LenProperties
  <2> HIDE DEF n
  <2> TAKE i \in 0..n
  <2>2. i = 0 \/ i \in 1..n
    BY <2>1
  <2> QED BY <1>4, <2>2
<1>6. g = [i \in 0..n |-> body(i)]
  <2> HIDE DEF n, body
  <2> QED BY <1>5
<1>7. \A i \in 0..n : i # 0 => g[i - 1] = f[i - 1]
  <2>1. n \in Nat
    BY LenProperties
  <2> HIDE DEF n
  <2> QED BY <2>1
<1>8. Selects(g, log, T)
  <2>1. \A i \in 0..n : body(i) = IF i = 0 THEN << >>
                ELSE IF i \in T THEN Append(g[i - 1], log[i]) ELSE g[i - 1]
    <3> HIDE DEF g
    <3> QED BY <1>7
  <2> HIDE DEF body, g
  <2> QED BY <1>6, <2>1, Zenon DEF Selects
<1> QED BY <1>8

(* ... and if the first k lines are taken, they come first.                *)
LEMMA SelectionKeeps ==
  ASSUME NEW E, NEW log \in Seq(E), NEW T, NEW f, Selects(f, log, T),
         NEW k \in Nat, k <= Len(log), 1..k \subseteq T
  PROVE  /\ f[Len(log)] \in Seq(E) /\ k <= Len(f[Len(log)])
         /\ \A i \in 1..k : f[Len(log)][i] = log[i]
<1> DEFINE n == Len(log)
           Least(m) == IF m < k THEN m ELSE k
           Good(m) == /\ f[m] \in Seq(E) /\ Least(m) <= Len(f[m])
                      /\ m <= k => Len(f[m]) = m
                      /\ \A i \in 1..Least(m) : f[m][i] = log[i]
           S == {m \in Nat : m <= n => Good(m)}
<1>1. n \in Nat /\ \A i \in 1..n : log[i] \in E
  BY ElementOfSeq, LenProperties
<1>2. f[0] = << >> /\ \A i \in 1..n : f[i] = IF i \in T THEN Append(f[i - 1], log[i]) ELSE f[i - 1]
  <2> HIDE DEF n
  <2>1. f = [i \in 0..n |->
              IF i = 0 THEN << >>
              ELSE IF i \in T THEN Append(f[i - 1], log[i]) ELSE f[i - 1]]
    BY Zenon DEF Selects, n
  <2>2. 0 \in 0..n /\ \A i \in 1..n : i \in 0..n /\ i # 0
    BY <1>1
  <2> QED BY <2>1, <2>2, Zenon
<1>3. Good(0)
  BY <1>2, EmptySeq
<1>4. ASSUME NEW m \in Nat, m + 1 <= n, Good(m) PROVE Good(m + 1)
  <2> DEFINE a == f[m]
             b == f[m + 1]
             l == log[m + 1]
  <2>1. b = IF m + 1 \in T THEN Append(a, l) ELSE a
    <3>1. m + 1 \in 1..n /\ (m + 1) - 1 = m
      BY <1>1, <1>4
    <3> QED BY <1>2, <3>1
  <2>2. l \in E
    <3>1. m + 1 \in 1..n
      BY <1>1, <1>4
    <3> QED BY <1>1, <3>1
  <2>3. m + 1 <= k => m + 1 \in T
    OBVIOUS
  <2>4. /\ a \in Seq(E) /\ Len(a) \in Nat /\ Least(m) <= Len(a) /\ (m <= k => Len(a) = m)
        /\ \A i \in 1..Least(m) : a[i] = log[i]
    BY <1>4, LenProperties
  <2> HIDE DEF a, b
  <2>5. CASE m + 1 \in T
    <3>1. b \in Seq(E) /\ Len(b) = Len(a) + 1 /\ (\A i \in 1..Len(a) : b[i] = a[i]) /\ b[Len(a) + 1] = l
      BY <2>1, <2>2, <2>4, <2>5, AppendProperties
    <3>2. \A i \in 1..Least(m + 1) : b[i] = log[i]
      BY <2>4, <3>1
    <3>3. Least(m + 1) <= Len(b) /\ (m + 1 <= k => Len(b) = m + 1)
      BY <2>4, <3>1
    <3> QED BY <3>1, <3>2, <3>3 DEF b
  <2>6. CASE m + 1 \notin T
    BY <2>1, <2>3, <2>4, <2>6 DEF b
  <2> QED BY <2>5, <2>6
<1>5. \A m \in Nat : m \in S
  <2> HIDE DEF Good
  <2>1. 0 \in S
    BY <1>3
  <2>2. \A m \in Nat : m \in S => m + 1 \in S
    BY <1>1, <1>4
  <2> HIDE DEF S
  <2> QED BY <2>1, <2>2, Induction
<1> QED BY <1>1, <1>5
-----------------------------------------------------------------------------
(***************************************************************************)
(* Rows: a sequence with the set of what stands in it. A table that is put *)
(* together from pieces is a row of what the pieces are made of, and what  *)
(* stands before what in a piece stands so in the table.                   *)
(***************************************************************************)
\* A table of gates is a sequence.
List(s) == \E S : s \in Seq(S)

\* A row of gates, and which gates it is made of.
Row(s, gs) == List(s) /\ gs = {s[i] : i \in DOMAIN s}

\* u is s and then t.
Joined(s, t, u) ==
  /\ List(u) /\ Len(s) \in Nat /\ DOMAIN s = 1..Len(s) /\ DOMAIN u \in SUBSET Nat
  /\ \A i \in DOMAIN u :
       \/ i \in DOMAIN s /\ u[i] = s[i] /\ i <= Len(s)
       \/ i - Len(s) \in DOMAIN t /\ u[i] = t[i - Len(s)] /\ i > Len(s)
  /\ \A i \in DOMAIN s : i \in DOMAIN u /\ u[i] = s[i]
  /\ \A i \in DOMAIN t : i + Len(s) \in DOMAIN u /\ u[i + Len(s)] = t[i]

(* Where the elements of two sequences stand in their concatenation.       *)
LEMMA CatIndex ==
  ASSUME NEW s, List(s), NEW t, List(t)
  PROVE  Joined(s, t, s \o t)
<1>1. PICK S : s \in Seq(S)
  BY DEF List
<1>2. PICK T : t \in Seq(T)
  BY DEF List
<1>3. PICK U : U = S \cup T
  OBVIOUS
<1>4. s \in Seq(U) /\ t \in Seq(U)
  BY <1>1, <1>2, <1>3, SeqMonotonic
<1>5. s \o t \in Seq(U) /\ Len(s \o t) = Len(s) + Len(t)
  BY <1>4, ConcatProperties
<1>6. \A i \in 1..(Len(s) + Len(t)) : (s \o t)[i] = IF i <= Len(s) THEN s[i] ELSE t[i - Len(s)]
  BY <1>4, ConcatProperties
<1>7. DOMAIN s = 1..Len(s) /\ DOMAIN t = 1..Len(t) /\ DOMAIN (s \o t) = 1..(Len(s) + Len(t))
  BY <1>4, <1>5, LenProperties
<1>8. Len(s) \in Nat /\ Len(t) \in Nat
  BY <1>4, LenProperties
<1>9. List(s \o t)
  BY <1>5 DEF List
<1> QED BY <1>5, <1>6, <1>7, <1>8, <1>9 DEF Joined

(* A concatenation is a row of what the two rows are made of.              *)
LEMMA CatRow ==
  ASSUME NEW s, NEW E, Row(s, E), NEW t, NEW D, Row(t, D)
  PROVE  Row(s \o t, E \cup D)
<1>1. PICK u : u = s \o t
  OBVIOUS
<1>2. Joined(s, t, u)
  BY <1>1, CatIndex DEF Row
<1>3. E \cup D = {u[i] : i \in DOMAIN u}
  <2>1. ASSUME NEW g \in E \cup D
        PROVE  \E i \in DOMAIN u : g = u[i]
    BY <1>2 DEF Joined, Row
  <2>2. ASSUME NEW i \in DOMAIN u
        PROVE  u[i] \in E \cup D
    BY <1>2 DEF Joined, Row
  <2> QED BY <2>1, <2>2
<1> QED BY <1>1, <1>2, <1>3 DEF Row, Joined

(* A sequence that is written out is a row of its elements.                *)
LEMMA Literals ==
  ASSUME NEW a, NEW b, NEW c, NEW d, NEW e, NEW f, NEW g, NEW h, NEW i, NEW j, NEW k
  PROVE  /\ Row(<<a>>, {a})
         /\ Row(<<a, b>>, {a, b})
         /\ Row(<<a, b, c>>, {a, b, c})
         /\ Row(<<a, b, c, d>>, {a, b, c, d})
         /\ Row(<<a, b, c, d, e>>, {a, b, c, d, e})
         /\ Row(<<a, b, c, d, e, f>>, {a, b, c, d, e, f})
         /\ Row(<<a, b, c, d, e, f, g>>, {a, b, c, d, e, f, g})
         /\ Row(<<a, b, c, d, e, f, g, h, i>>, {a, b, c, d, e, f, g, h, i})
         /\ Row(<<a, b, c, d, e, f, g, h, i, j, k>>, {a, b, c, d, e, f, g, h, i, j, k})
<1>1. Row(<<a>>, {a})
  <2>1. <<a>> \in Seq({a})
    OBVIOUS
  <2>2. {a} = {<<a>>[n] : n \in DOMAIN <<a>>}
    OBVIOUS
  <2> QED BY <2>1, <2>2 DEF Row, List
<1>2. Row(<<a, b>>, {a, b})
  <2>1. <<a, b>> \in Seq({a, b})
    OBVIOUS
  <2>2. {a, b} = {<<a, b>>[n] : n \in DOMAIN <<a, b>>}
    OBVIOUS
  <2> QED BY <2>1, <2>2 DEF Row, List
<1>3. Row(<<a, b, c>>, {a, b, c})
  <2>1. <<a, b, c>> \in Seq({a, b, c})
    OBVIOUS
  <2>2. {a, b, c} = {<<a, b, c>>[n] : n \in DOMAIN <<a, b, c>>}
    OBVIOUS
  <2> QED BY <2>1, <2>2 DEF Row, List
<1>4. Row(<<a, b, c, d>>, {a, b, c, d})
  <2>1. <<a, b, c, d>> \in Seq({a, b, c, d})
    OBVIOUS
  <2>2. {a, b, c, d} = {<<a, b, c, d>>[n] : n \in DOMAIN <<a, b, c, d>>}
    OBVIOUS
  <2> QED BY <2>1, <2>2 DEF Row, List
<1>5. Row(<<a, b, c, d, e>>, {a, b, c, d, e})
  <2>1. <<a, b, c, d, e>> \in Seq({a, b, c, d, e})
    OBVIOUS
  <2>2. {a, b, c, d, e} = {<<a, b, c, d, e>>[n] : n \in DOMAIN <<a, b, c, d, e>>}
    OBVIOUS
  <2> QED BY <2>1, <2>2 DEF Row, List
<1>6. Row(<<a, b, c, d, e, f>>, {a, b, c, d, e, f})
  <2>1. <<a, b, c, d, e, f>> \in Seq({a, b, c, d, e, f})
    OBVIOUS
  <2>2. {a, b, c, d, e, f} = {<<a, b, c, d, e, f>>[n] : n \in DOMAIN <<a, b, c, d, e, f>>}
    OBVIOUS
  <2> QED BY <2>1, <2>2 DEF Row, List
<1>7. Row(<<a, b, c, d, e, f, g>>, {a, b, c, d, e, f, g})
  <2>1. <<a, b, c, d, e, f, g>> \in Seq({a, b, c, d, e, f, g})
    OBVIOUS
  <2>2. {a, b, c, d, e, f, g} = {<<a, b, c, d, e, f, g>>[n] : n \in DOMAIN <<a, b, c, d, e, f, g>>}
    OBVIOUS
  <2> QED BY <2>1, <2>2 DEF Row, List
<1>8. Row(<<a, b, c, d, e, f, g, h, i>>, {a, b, c, d, e, f, g, h, i})
  <2>1. <<a, b, c, d, e, f, g, h, i>> \in Seq({a, b, c, d, e, f, g, h, i})
    OBVIOUS
  <2>2. PICK s : s = <<a, b, c, d, e, f, g, h, i>>
    OBVIOUS
  <2>3. /\ DOMAIN s = 1..9 /\ s[1] = a /\ s[2] = b /\ s[3] = c /\ s[4] = d /\ s[5] = e /\ s[6] = f
        /\ s[7] = g /\ s[8] = h /\ s[9] = i
    BY <2>2
  <2>4. {a, b, c, d, e, f, g, h, i} \subseteq {s[n] : n \in DOMAIN s}
    BY <2>3
  <2>5. \A n \in DOMAIN s : s[n] \in {a, b, c, d, e, f, g, h, i}
    BY <2>3
  <2>6. {a, b, c, d, e, f, g, h, i} = {s[n] : n \in DOMAIN s}
    BY <2>4, <2>5
  <2> QED BY <2>1, <2>2, <2>6 DEF Row, List
<1>9. Row(<<a, b, c, d, e, f, g, h, i, j, k>>, {a, b, c, d, e, f, g, h, i, j, k})
  <2>1. <<a, b, c, d, e, f, g, h, i, j, k>> \in Seq({a, b, c, d, e, f, g, h, i, j, k})
    OBVIOUS
  <2>2. PICK s : s = <<a, b, c, d, e, f, g, h, i, j, k>>
    OBVIOUS
  <2>3. /\ DOMAIN s = 1..11 /\ s[1] = a /\ s[2] = b /\ s[3] = c /\ s[4] = d /\ s[5] = e /\ s[6] = f
        /\ s[7] = g /\ s[8] = h /\ s[9] = i /\ s[10] = j /\ s[11] = k
    BY <2>2
  <2>4. {a, b, c, d, e, f, g, h, i, j, k} \subseteq {s[n] : n \in DOMAIN s}
    BY <2>3
  <2>5. \A n \in DOMAIN s : s[n] \in {a, b, c, d, e, f, g, h, i, j, k}
    BY <2>3
  <2>6. {a, b, c, d, e, f, g, h, i, j, k} = {s[n] : n \in DOMAIN s}
    BY <2>4, <2>5
  <2> QED BY <2>1, <2>2, <2>6 DEF Row, List
<1> QED BY <1>1, <1>2, <1>3, <1>4, <1>5, <1>6, <1>7, <1>8, <1>9

\* Every g has an h before it.
Preceded(s, g, h) == \A i \in DOMAIN s : s[i] = g => \E j \in DOMAIN s : j < i /\ s[j] = h

(* What stands before a gate in a table that is put together.              *)
LEMMA CatPreceded ==
  ASSUME NEW s, NEW E, Row(s, E), NEW t, NEW D, Row(t, D), NEW g, NEW h
  PROVE  /\ g \notin E /\ h \in E => Preceded(s \o t, g, h)
         /\ g \notin D /\ Preceded(s, g, h) => Preceded(s \o t, g, h)
<1>1. PICK u : u = s \o t
  OBVIOUS
<1>2. Joined(s, t, u)
  BY <1>1, CatIndex DEF Row
<1>3. ASSUME g \notin E, h \in E, NEW i \in DOMAIN u, u[i] = g
      PROVE  \E j \in DOMAIN u : j < i /\ u[j] = h
  <2>1. i > Len(s) /\ i \in Nat /\ Len(s) \in Nat /\ DOMAIN s = 1..Len(s)
    BY <1>2, <1>3 DEF Joined, Row
  <2>2. PICK j \in DOMAIN s : s[j] = h
    BY <1>3 DEF Row
  <2>3. j \in DOMAIN u /\ u[j] = h
    BY <1>2, <2>2 DEF Joined
  <2> QED BY <2>1, <2>3
<1>4. ASSUME g \notin D, Preceded(s, g, h), NEW i \in DOMAIN u, u[i] = g
      PROVE  \E j \in DOMAIN u : j < i /\ u[j] = h
  <2>1. i \in DOMAIN s /\ s[i] = g
    BY <1>2, <1>4 DEF Joined, Row
  <2>2. PICK j \in DOMAIN s : j < i /\ s[j] = h
    BY <1>4, <2>1 DEF Preceded
  <2>3. j \in DOMAIN u /\ u[j] = h
    BY <1>2, <2>2 DEF Joined
  <2> QED BY <2>2, <2>3
<1> QED BY <1>1, <1>3, <1>4 DEF Preceded
=============================================================================
