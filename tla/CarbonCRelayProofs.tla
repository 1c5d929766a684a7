-------------------------- MODULE CarbonCRelayProofs --------------------------
(***************************************************************************)
(* What the parser of carbon-c-relay's configuration makes of a file       *)
(* (CarbonCRelay.tla), for any statements of the grammar, in any number.   *)
(*                                                                         *)
(* A statement has as many fields as its writer likes, so what the loop of *)
(* clusterEndpoints finds in it takes an induction over its positions.  It *)
(* rests on a fact about sets of numbers (Induction), and needs two things *)
(* first: that the recursive functions in the definitions of Words and     *)
(* FlattenSeq exist, and the equations they satisfy.                       *)
(***************************************************************************)
EXTENDS CarbonCRelay, SequenceTheorems, NaturalsInduction, WellFoundedInduction, TLAPS

-----------------------------------------------------------------------------
(* Induction and the least element, for sets of numbers *)

LEMMA Induction ==
  ASSUME NEW S, S \subseteq Nat, 0 \in S, \A n \in S : n + 1 \in S
  PROVE  S = Nat
<1> DEFINE R == {p \in Nat \X Nat : p[1] < p[2]}
           T == Nat \ S
<1>1. IsWellFoundedOn(R, Nat)
  BY NatLessThanWellFounded DEF OpToRel
<1>2. SUFFICES ASSUME T # {} PROVE FALSE
  OBVIOUS
<1>3. PICK x \in T : \A y \in T : <<y, x>> \notin R
  <2> HIDE DEF R
  <2> QED BY <1>1, <1>2, WFMin
<1>4. x # 0 /\ x - 1 \in Nat
  OBVIOUS
<1>5. x - 1 \notin T
  <2>1. <<x - 1, x>> \in R
    BY <1>4
  <2> QED BY <1>3, <2>1
<1>6. x - 1 \in S
  BY <1>4, <1>5
<1> QED BY <1>4, <1>6

LEMMA Least ==
  ASSUME NEW S, S \subseteq Nat, S # {}
  PROVE  \E x \in S : \A y \in S : x <= y
<1> DEFINE R == {p \in Nat \X Nat : p[1] < p[2]}
<1>1. IsWellFoundedOn(R, Nat)
  BY NatLessThanWellFounded DEF OpToRel
<1>2. PICK x \in S : \A y \in S : <<y, x>> \notin R
  <2> HIDE DEF R
  <2> QED BY <1>1, WFMin
<1>3. ASSUME NEW y \in S PROVE x <= y
  <2>1. <<y, x>> \notin R
    BY <1>2
  <2> QED BY <2>1
<1> QED BY <1>3

-----------------------------------------------------------------------------
(* FlattenSeq *)

\* The function that the definition of FlattenSeq chooses, for n sequences.
IsFlatten(f, seqs, n) ==
  f = [i \in 1 .. n |-> IF i = 1 THEN seqs[i] ELSE f[i - 1] \o seqs[i]]

LEMMA FlattenAt ==
  ASSUME NEW f, NEW seqs, NEW n, IsFlatten(f, seqs, n), NEW i \in 1 .. n
  PROVE  f[i] = IF i = 1 THEN seqs[i] ELSE f[i - 1] \o seqs[i]
<1> DEFINE g == [j \in 1 .. n |-> IF j = 1 THEN seqs[j] ELSE f[j - 1] \o seqs[j]]
<1>1. f = g
  BY Zenon DEF IsFlatten
<1>2. g[i] = IF i = 1 THEN seqs[i] ELSE f[i - 1] \o seqs[i]
  OBVIOUS
<1> HIDE DEF g
<1> QED BY <1>1, <1>2, Zenon

LEMMA FlattenLast ==
  ASSUME NEW f, NEW seqs, NEW n \in Nat \ {0}, IsFlatten(f, seqs, n + 1)
  PROVE  f[n + 1] = f[n] \o seqs[n + 1]
<1>1. n + 1 \in 1 .. n + 1
  OBVIOUS
<1>2. f[n + 1] = IF n + 1 = 1 THEN seqs[n + 1] ELSE f[(n + 1) - 1] \o seqs[n + 1]
  BY <1>1, FlattenAt
<1>3. n + 1 # 1 /\ (n + 1) - 1 = n
  OBVIOUS
<1> QED BY <1>2, <1>3, Zenon

LEMMA FlattenExists ==
  ASSUME NEW X, NEW seqs \in Seq(Seq(X))
  PROVE  \A n \in Nat : n <= Len(seqs) => \E f \in [1 .. n -> Seq(X)] : IsFlatten(f, seqs, n)
<1> DEFINE S == {n \in Nat : n <= Len(seqs) => \E f \in [1 .. n -> Seq(X)] : IsFlatten(f, seqs, n)}
<1>1. 0 \in S
  <2> DEFINE f == [i \in 1 .. 0 |-> <<>>]
  <2>1. f \in [1 .. 0 -> Seq(X)] /\ IsFlatten(f, seqs, 0)
    BY DEF IsFlatten
  <2> QED BY <2>1
<1>2. ASSUME NEW n \in S PROVE n + 1 \in S
  <2>1. SUFFICES ASSUME n + 1 <= Len(seqs)
                 PROVE  \E f \in [1 .. n + 1 -> Seq(X)] : IsFlatten(f, seqs, n + 1)
    OBVIOUS
  <2>2. PICK f \in [1 .. n -> Seq(X)] : IsFlatten(f, seqs, n)
    BY <2>1
  <2> DEFINE last == IF n = 0 THEN seqs[1] ELSE f[n] \o seqs[n + 1]
             g == [i \in 1 .. n + 1 |-> IF i = n + 1 THEN last ELSE f[i]]
  <2>3. last \in Seq(X)
    BY <2>1
  <2>4. g \in [1 .. n + 1 -> Seq(X)]
    BY <2>3
  <2>5. ASSUME NEW i \in 1 .. n + 1
        PROVE  g[i] = IF i = 1 THEN seqs[i] ELSE g[i - 1] \o seqs[i]
    <3>1. CASE i = n + 1
      BY <3>1
    <3>2. CASE i # n + 1
      <4>1. i \in 1 .. n /\ g[i] = f[i]
        BY <3>2
      <4>2. i # 1 => g[i - 1] = f[i - 1]
        BY <4>1
      <4> QED BY <2>2, <4>1, <4>2 DEF IsFlatten
    <3> QED BY <3>1, <3>2
  <2> QED BY <2>4, <2>5 DEF IsFlatten
<1> HIDE DEF S
<1>3. S = Nat
  <2>1. S \subseteq Nat
    BY DEF S
  <2> QED BY <2>1, <1>1, <1>2, Induction
<1> QED BY <1>3 DEF S

LEMMA FlattenUnique ==
  ASSUME NEW f, NEW g, NEW s, NEW t, NEW n \in Nat, NEW m \in Nat, n <= m,
         IsFlatten(f, s, n), IsFlatten(g, t, m), \A i \in 1 .. n : s[i] = t[i]
  PROVE  \A i \in 1 .. n : f[i] = g[i]
<1> DEFINE S == {k \in Nat : k \in 1 .. n => f[k] = g[k]}
<1>1. 0 \in S
  OBVIOUS
<1>2. ASSUME NEW k \in S PROVE k + 1 \in S
  <2>1. SUFFICES ASSUME k + 1 \in 1 .. n PROVE f[k + 1] = g[k + 1]
    OBVIOUS
  <2>2. f[k + 1] = IF k + 1 = 1 THEN s[k + 1] ELSE f[k + 1 - 1] \o s[k + 1]
    BY <2>1, FlattenAt
  <2>3. g[k + 1] = IF k + 1 = 1 THEN t[k + 1] ELSE g[k + 1 - 1] \o t[k + 1]
    BY <2>1, FlattenAt
  <2>4. k + 1 # 1 => f[k] = g[k]
    BY <2>1
  <2> QED BY <2>1, <2>2, <2>3, <2>4
<1> HIDE DEF S
<1>3. S = Nat
  <2>1. S \subseteq Nat
    BY DEF S
  <2> QED BY <2>1, <1>1, <1>2, Induction
<1> QED BY <1>3 DEF S

LEMMA FlattenEquation ==
  ASSUME NEW X, NEW seqs \in Seq(Seq(X)), Len(seqs) # 0
  PROVE  \E f : /\ f \in [1 .. Len(seqs) -> Seq(X)]
                 /\ IsFlatten(f, seqs, Len(seqs))
                 /\ FlattenSeq(seqs) = f[Len(seqs)]
<1> DEFINE n == Len(seqs)
           c == CHOOSE f : f = [i \in 1 .. n |-> IF i = 1 THEN seqs[i] ELSE f[i - 1] \o seqs[i]]
<1>1. PICK f \in [1 .. n -> Seq(X)] : IsFlatten(f, seqs, n)
  BY FlattenExists
<1>2. IsFlatten(c, seqs, n)
  <2>1. \E g : g = [i \in 1 .. n |-> IF i = 1 THEN seqs[i] ELSE g[i - 1] \o seqs[i]]
    BY <1>1 DEF IsFlatten
  <2> QED BY <2>1, Zenon DEF IsFlatten
<1>3. FlattenSeq(seqs) = c[n]
  BY DEF FlattenSeq
<1> HIDE DEF c
<1>4. c[n] = f[n]
  BY <1>1, <1>2, FlattenUnique
<1> QED BY <1>1, <1>3, <1>4

LEMMA FlattenEmpty == FlattenSeq(<<>>) = <<>>
  BY DEF FlattenSeq

LEMMA FlattenType ==
  ASSUME NEW X, NEW seqs \in Seq(Seq(X))
  PROVE  FlattenSeq(seqs) \in Seq(X)
<1>1. CASE Len(seqs) = 0
  <2>1. seqs = <<>>
    BY <1>1
  <2>2. FlattenSeq(seqs) = <<>>
    BY <2>1, FlattenEmpty
  <2> QED BY <2>2
<1>2. CASE Len(seqs) # 0
  <2> DEFINE n == Len(seqs)
  <2>1. PICK f : f \in [1 .. n -> Seq(X)] /\ FlattenSeq(seqs) = f[n]
    BY <1>2, FlattenEquation
  <2>2. n \in 1 .. n
    BY <1>2
  <2> HIDE DEF n
  <2> QED BY <2>1, <2>2
<1> QED BY <1>1, <1>2

LEMMA FlattenAppend ==
  ASSUME NEW X, NEW seqs \in Seq(Seq(X)), NEW s \in Seq(X)
  PROVE  FlattenSeq(Append(seqs, s)) = FlattenSeq(seqs) \o s
<1> DEFINE t == Append(seqs, s)
           n == Len(seqs)
<1>1. t \in Seq(Seq(X)) /\ Len(t) = n + 1 /\ t[n + 1] = s /\ \A i \in 1 .. n : t[i] = seqs[i]
  OBVIOUS
<1> HIDE DEF t
<1>2. PICK g : IsFlatten(g, t, n + 1) /\ FlattenSeq(t) = g[n + 1]
  BY <1>1, FlattenEquation
<1>3. CASE n = 0
  <2>1. seqs = <<>>
    BY <1>3
  <2>2. FlattenSeq(t) = s
    BY <1>1, <1>2, <1>3 DEF IsFlatten
  <2> QED BY <2>1, <2>2, FlattenEmpty DEF t
<1>4. CASE n # 0
  <2>1. PICK f : IsFlatten(f, seqs, n) /\ FlattenSeq(seqs) = f[n]
    BY <1>4, FlattenEquation
  <2>2. f[n] = g[n]
    <3>1. n \in Nat /\ n \in 1 .. n
      BY <1>4
    <3>2. \A i \in 1 .. n : seqs[i] = t[i]
      BY <1>1
    <3> HIDE DEF n
    <3>3. \A i \in 1 .. n : f[i] = g[i]
      <4>1. n + 1 \in Nat /\ n <= n + 1
        BY <3>1
      <4>2. IsFlatten(f, seqs, n) /\ IsFlatten(g, t, n + 1)
        BY <1>2, <2>1
      <4> QED BY <3>1, <3>2, <4>1, <4>2, FlattenUnique
    <3> QED BY <3>1, <3>3
  <2>3. g[n + 1] = g[n] \o t[n + 1]
    <3>1. IsFlatten(g, t, n + 1) /\ n \in Nat \ {0}
      BY <1>2, <1>4
    <3> HIDE DEF n
    <3> QED BY <3>1, FlattenLast
  <2> QED BY <1>1, <1>2, <2>1, <2>2, <2>3 DEF t
<1> QED BY <1>3, <1>4

-----------------------------------------------------------------------------
(* Words *)

\* What a field is; the provers do not know that a literal is in STRING.
Field == STRING \cup {"file", End}

LEMMA ConsType ==
  ASSUME NEW S, NEW x \in S, NEW s \in Seq(S)
  PROVE  <<x>> \o s \in Seq(S) /\ <<x>> \in Seq(S) /\ <<>> \in Seq(S)
  OBVIOUS

\* The body of the recursive function in Words, at position i.
WordsFrom(f, fields, i) ==
  IF i > Len(fields) THEN <<>>
  ELSE CASE fields[i] = "file" -> <<"file">>
         [] fields[i] \in StopWords -> <<>>
         [] fields[i] \in Flags -> f[i + 1]
         [] fields[i] \in Options -> f[i + 2]
         [] OTHER -> <<fields[i]>> \o f[i + 1]

LEMMA WordsFromCases ==
  ASSUME NEW f, NEW fields, NEW i
  PROVE  /\ i > Len(fields) => WordsFrom(f, fields, i) = <<>>
         /\ ~(i > Len(fields)) =>
              /\ fields[i] = "file" => WordsFrom(f, fields, i) = <<"file">>
              /\ fields[i] \in StopWords => WordsFrom(f, fields, i) = <<>>
              /\ fields[i] \in Flags => WordsFrom(f, fields, i) = f[i + 1]
              /\ fields[i] \in Options => WordsFrom(f, fields, i) = f[i + 2]
              /\ fields[i] \notin Flags \cup Options \cup StopWords \cup {"file"} =>
                   WordsFrom(f, fields, i) = <<fields[i]>> \o f[i + 1]
  BY DEF WordsFrom, Flags, Options, StopWords

LEMMA WordsFromType ==
  ASSUME NEW f, NEW fields \in Seq(Field), NEW i \in Nat \ {0},
         f[i + 1] \in Seq(Field), f[i + 2] \in Seq(Field)
  PROVE  WordsFrom(f, fields, i) \in Seq(Field)
<1>1. CASE i > Len(fields)
  <2>1. WordsFrom(f, fields, i) = <<>>
    BY <1>1, WordsFromCases
  <2> QED BY <2>1
<1>2. CASE ~(i > Len(fields))
  <2>1. fields[i] \in Field
    BY <1>2
  <2>2. fields[i] \in StopWords \/ fields[i] \in Flags \/ fields[i] \in Options \/ fields[i] = "file"
        \/ fields[i] \notin Flags \cup Options \cup StopWords \cup {"file"}
    OBVIOUS
  <2> DEFINE word == fields[i]
             tail == f[i + 1]
             file == "file"
  <2>3. <<word>> \o tail \in Seq(Field)
    <3>1. word \in Field /\ tail \in Seq(Field)
      BY <2>1
    <3> HIDE DEF word, tail
    <3> QED BY <3>1, ConsType
  <2>4. <<file>> \in Seq(Field) /\ <<>> \in Seq(Field)
    <3>1. file \in Field
      BY DEF Field
    <3> HIDE DEF file
    <3> QED BY <3>1
  <2>5. \/ WordsFrom(f, fields, i) = <<>>
        \/ WordsFrom(f, fields, i) = <<file>>
        \/ WordsFrom(f, fields, i) = f[i + 1]
        \/ WordsFrom(f, fields, i) = f[i + 2]
        \/ WordsFrom(f, fields, i) = <<word>> \o tail
    BY <1>2, <2>2, WordsFromCases, Zenon
  <2> QED BY <2>3, <2>4, <2>5
<1> QED BY <1>1, <1>2

\* There is such a function: one that is right for the last n positions can be
\* made right for one more.
LEMMA WordsExists ==
  ASSUME NEW fields \in Seq(Field)
  PROVE  \E f : f = [i \in Nat |-> WordsFrom(f, fields, i)]
<1> DEFINE Solves(f, n) == \A i \in Nat : i + n > Len(fields) => f[i] = WordsFrom(f, fields, i)
           S == {n \in Nat : \E f : f = [i \in Nat |-> f[i]] /\ Solves(f, n)}
<1>1. 0 \in S
  <2> DEFINE f == [i \in Nat |-> <<>>]
  <2>1. ASSUME NEW i \in Nat, i > Len(fields) PROVE f[i] = WordsFrom(f, fields, i)
    <3>1. f[i] = <<>>
      OBVIOUS
    <3> HIDE DEF f
    <3> QED BY <2>1, <3>1, WordsFromCases
  <2>2. f = [i \in Nat |-> f[i]]
    OBVIOUS
  <2> QED BY <2>1, <2>2
<1>2. ASSUME NEW n \in S PROVE n + 1 \in S
  <2>1. PICK f : Solves(f, n)
    OBVIOUS
  <2> DEFINE g == [i \in Nat |-> WordsFrom(f, fields, i)]
  <2>2. ASSUME NEW i \in Nat, i + n > Len(fields) PROVE g[i] = f[i]
    BY <2>1, <2>2
  <2>3. ASSUME NEW i \in Nat, i + (n + 1) > Len(fields)
        PROVE  g[i] = WordsFrom(g, fields, i)
    <3>1. g[i + 1] = f[i + 1] /\ g[i + 2] = f[i + 2]
      BY <2>2, <2>3
    <3>2. g[i] = WordsFrom(f, fields, i)
      OBVIOUS
    <3> HIDE DEF g
    <3> QED BY <3>1, <3>2 DEF WordsFrom
  <2>4. g = [i \in Nat |-> g[i]]
    OBVIOUS
  <2>5. Solves(g, n + 1)
    BY <2>3
  <2> HIDE DEF g, Solves
  <2> QED BY <2>4, <2>5
<1>3. Len(fields) + 1 \in S
  <2> HIDE DEF S
  <2>1. S = Nat
    <3>1. S \subseteq Nat
      BY DEF S
    <3> QED BY <3>1, <1>1, <1>2, Induction
  <2> QED BY <2>1
<1>4. PICK f : f = [i \in Nat |-> f[i]] /\ Solves(f, Len(fields) + 1)
  BY <1>3
<1>5. \A i \in Nat : f[i] = WordsFrom(f, fields, i)
  BY <1>4
<1>6. f = [i \in Nat |-> WordsFrom(f, fields, i)]
  BY <1>4, <1>5
<1> QED BY <1>6

\* That function, on the positions there are.
IsWords(from, fields) ==
  /\ from \in [Nat \ {0} -> Seq(Field)]
  /\ Words(fields) = from[3]
  /\ \A i \in Nat \ {0} : from[i] = WordsFrom(from, fields, i)

LEMMA WordsEquation ==
  ASSUME NEW fields \in Seq(Field)
  PROVE  \E from : IsWords(from, fields)
<1> DEFINE rhs(f) == [i \in Nat |-> IF i > Len(fields) THEN <<>>
        ELSE CASE fields[i] = "file" -> <<"file">>
               [] fields[i] \in StopWords -> <<>>
               [] fields[i] \in Flags -> f[i + 1]
               [] fields[i] \in Options -> f[i + 2]
               [] OTHER -> <<fields[i]>> \o f[i + 1]]
           c == CHOOSE f : f = rhs(f)
<1>1. Words(fields) = c[3]
  BY DEF Words
<1>2. c = rhs(c)
  <2>1. \E f : f = rhs(f)
    BY WordsExists DEF WordsFrom
  <2> HIDE DEF rhs
  <2> QED BY <2>1, Zenon
<1>3. \A i \in Nat : rhs(c)[i] = WordsFrom(c, fields, i)
  <2> HIDE DEF c
  <2> QED BY DEF WordsFrom
<1> HIDE DEF c, rhs
<1>4. \A i \in Nat : c[i] = WordsFrom(c, fields, i)
  BY <1>2, <1>3, Zenon
<1> DEFINE S == {n \in Nat : \A i \in Nat \ {0} : i + n > Len(fields) => c[i] \in Seq(Field)}
<1>5. 0 \in S
  <2> SUFFICES ASSUME NEW i \in Nat \ {0}, i > Len(fields) PROVE c[i] \in Seq(Field)
    OBVIOUS
  <2>1. c[i] = <<>>
    BY <1>4, WordsFromCases
  <2> QED BY <2>1
<1>6. ASSUME NEW n \in S PROVE n + 1 \in S
  <2> SUFFICES ASSUME NEW i \in Nat \ {0}, i + (n + 1) > Len(fields) PROVE c[i] \in Seq(Field)
    OBVIOUS
  <2>1. c[i + 1] \in Seq(Field) /\ c[i + 2] \in Seq(Field)
    OBVIOUS
  <2> QED BY <1>4, <2>1, WordsFromType
<1>7. Len(fields) \in S
  <2> HIDE DEF S
  <2>1. S = Nat
    <3>1. S \subseteq Nat
      BY DEF S
    <3> QED BY <3>1, <1>5, <1>6, Induction
  <2> QED BY <2>1
<1>8. \A i \in Nat \ {0} : c[i] \in Seq(Field)
  BY <1>7
<1> DEFINE from == [i \in Nat \ {0} |-> c[i]]
<1>9. from \in [Nat \ {0} -> Seq(Field)] /\ Words(fields) = from[3]
  BY <1>1, <1>8
<1>10. ASSUME NEW i \in Nat \ {0} PROVE from[i] = WordsFrom(from, fields, i)
  <2>1. from[i] = WordsFrom(c, fields, i) /\ from[i + 1] = c[i + 1] /\ from[i + 2] = c[i + 2]
    BY <1>4
  <2> HIDE DEF from
  <2> QED BY <2>1 DEF WordsFrom
<1> QED BY <1>9, <1>10 DEF IsWords

-----------------------------------------------------------------------------
(* HostsAmong *)

HostAt(w, P, i) == i \in P /\ w[i] \in Hosts

\* H[i]: the hosts among the first i positions.
IsHosts(H, w, P) ==
  /\ H \in [0 .. Len(w) -> Seq(Hosts)]
  /\ H[0] = <<>> /\ H[Len(w)] = HostsAmong(w, P)
  /\ \A i \in 1 .. Len(w) :
       /\ HostAt(w, P, i) => H[i] = H[i - 1] \o <<w[i]>>
       /\ ~HostAt(w, P, i) => H[i] = H[i - 1]

LEMMA HostsEquation ==
  ASSUME NEW w \in Seq(Field), NEW P
  PROVE  \E H : IsHosts(H, w, P)
<1> DEFINE n == Len(w)
           hosts == [i \in DOMAIN w |-> IF i \in P /\ w[i] \in Hosts THEN <<w[i]>> ELSE <<>>]
           H == [i \in 0 .. n |-> FlattenSeq(SubSeq(hosts, 1, i))]
<1>1. /\ hosts \in Seq(Seq(Hosts)) /\ Len(hosts) = n
      /\ \A i \in 1 .. n : /\ HostAt(w, P, i) => hosts[i] = <<w[i]>>
                           /\ ~HostAt(w, P, i) => hosts[i] = <<>>
      /\ HostsAmong(w, P) = FlattenSeq(hosts)
  <2>1. \A i \in DOMAIN w : hosts[i] \in Seq(Hosts)
    OBVIOUS
  <2>2. DOMAIN w = 1 .. n /\ n \in Nat
    OBVIOUS
  <2>3. hosts \in Seq(Seq(Hosts)) /\ Len(hosts) = n
    <3>1. hosts \in [1 .. n -> Seq(Hosts)]
      BY <2>1, <2>2
    <3> HIDE DEF hosts, n
    <3> QED BY <3>1, <2>2
  <2>4. \A i \in 1 .. n : /\ HostAt(w, P, i) => hosts[i] = <<w[i]>>
                          /\ ~HostAt(w, P, i) => hosts[i] = <<>>
    BY <2>2 DEF HostAt
  <2> QED BY <2>3, <2>4 DEF HostsAmong
<1>2. n \in Nat
  OBVIOUS
<1> HIDE DEF hosts, n
<1>3. \A i \in 0 .. n : SubSeq(hosts, 1, i) \in Seq(Seq(Hosts))
  BY <1>1, <1>2
<1>4. H \in [0 .. n -> Seq(Hosts)]
  BY <1>3, FlattenType
<1>5. H[0] = <<>>
  <2>1. SubSeq(hosts, 1, 0) = <<>>
    BY <1>1
  <2>2. H[0] = FlattenSeq(SubSeq(hosts, 1, 0))
    BY <1>2
  <2> QED BY <2>1, <2>2, FlattenEmpty, Zenon
<1>6. H[n] = HostsAmong(w, P)
  <2>1. SubSeq(hosts, 1, n) = hosts
    BY <1>1, <1>2
  <2>2. H[n] = FlattenSeq(SubSeq(hosts, 1, n))
    BY <1>2
  <2> QED BY <1>1, <2>1, <2>2, Zenon
<1>7. ASSUME NEW i \in 1 .. n
      PROVE  H[i] = H[i - 1] \o hosts[i] /\ H[i - 1] \in Seq(Hosts)
  <2>1. SubSeq(hosts, 1, i) = Append(SubSeq(hosts, 1, i - 1), hosts[i])
    BY <1>1, <1>2
  <2>2. SubSeq(hosts, 1, i - 1) \in Seq(Seq(Hosts)) /\ hosts[i] \in Seq(Hosts)
    BY <1>1, <1>2
  <2>3. FlattenSeq(SubSeq(hosts, 1, i)) = FlattenSeq(SubSeq(hosts, 1, i - 1)) \o hosts[i]
    BY <2>1, <2>2, FlattenAppend
  <2>4. FlattenSeq(SubSeq(hosts, 1, i - 1)) \in Seq(Hosts)
    BY <2>2, FlattenType
  <2>5. i \in 0 .. n /\ i - 1 \in 0 .. n
    BY <1>2
  <2>6. H[i] = FlattenSeq(SubSeq(hosts, 1, i)) /\ H[i - 1] = FlattenSeq(SubSeq(hosts, 1, i - 1))
    BY <2>5, Zenon
  <2> QED BY <2>3, <2>4, <2>6, Zenon
<1> HIDE DEF H
<1>8. ASSUME NEW i \in 1 .. n
      PROVE  /\ HostAt(w, P, i) => H[i] = H[i - 1] \o <<w[i]>>
             /\ ~HostAt(w, P, i) => H[i] = H[i - 1]
  <2>1. CASE HostAt(w, P, i)
    BY <1>1, <1>7, <2>1
  <2>2. CASE ~HostAt(w, P, i)
    <3>1. hosts[i] = <<>>
      BY <1>1, <2>2
    <3>2. H[i - 1] \in Seq(Hosts) /\ H[i] = H[i - 1] \o <<>>
      BY <1>7, <3>1
    <3> QED BY <2>2, <3>2
  <2> QED BY <2>1, <2>2
<1> QED BY <1>4, <1>5, <1>6, <1>8 DEF IsHosts, n

\* Positions that hold no host add nothing.
LEMMA HostsStay ==
  ASSUME NEW w \in Seq(Field), NEW P, NEW H, IsHosts(H, w, P),
         NEW m \in 0 .. Len(w), \A i \in m + 1 .. Len(w) : ~HostAt(w, P, i)
  PROVE  H[m] = HostsAmong(w, P)
<1> DEFINE S == {n \in Nat : n \in m .. Len(w) => H[n] = H[m]}
<1>1. 0 \in S
  OBVIOUS
<1>2. ASSUME NEW n \in S PROVE n + 1 \in S
  <2>1. SUFFICES ASSUME n + 1 \in m .. Len(w), n + 1 # m PROVE H[n + 1] = H[m]
    OBVIOUS
  <2>2. n + 1 \in 1 .. Len(w) /\ n + 1 \in m + 1 .. Len(w) /\ n \in m .. Len(w)
    BY <2>1
  <2>3. H[n + 1] = H[(n + 1) - 1]
    BY <2>2 DEF IsHosts
  <2>4. (n + 1) - 1 = n /\ H[n] = H[m]
    BY <2>2
  <2> QED BY <2>3, <2>4
<1> HIDE DEF S
<1>3. S = Nat
  <2>1. S \subseteq Nat
    BY DEF S
  <2> QED BY <2>1, <1>1, <1>2, Induction
<1>4. Len(w) \in S /\ Len(w) \in m .. Len(w)
  BY <1>3
<1> QED BY <1>4 DEF S, IsHosts

\* A position that holds a host adds it.
LEMMA HostsFound ==
  ASSUME NEW w \in Seq(Field), NEW P, NEW m \in 1 .. Len(w), HostAt(w, P, m)
  PROVE  HostsAmong(w, P) # <<>>
<1>1. PICK H : IsHosts(H, w, P)
  BY HostsEquation
<1> DEFINE S == {n \in Nat : n \in m .. Len(w) => H[n] # <<>>}
<1>2. \A i \in 0 .. Len(w) : H[i] \in Seq(Hosts)
  BY <1>1 DEF IsHosts
<1>3. 0 \in S
  OBVIOUS
<1>4. ASSUME NEW n \in S PROVE n + 1 \in S
  <2>1. SUFFICES ASSUME n + 1 \in m .. Len(w) PROVE H[n + 1] # <<>>
    OBVIOUS
  <2> DEFINE i == n + 1
  <2>2. i \in 1 .. Len(w) /\ i - 1 \in 0 .. Len(w) /\ i - 1 = n
    BY <2>1
  <2>3. H[i - 1] \in Seq(Hosts)
    BY <1>2, <2>2
  <2>4. CASE HostAt(w, P, i)
    <3>1. H[i] = H[i - 1] \o <<w[i]>>
      BY <1>1, <2>2, <2>4 DEF IsHosts
    <3> QED BY <2>3, <3>1
  <2>5. CASE ~HostAt(w, P, i)
    <3>1. H[i] = H[i - 1]
      BY <1>1, <2>2, <2>5 DEF IsHosts
    <3>2. i # m
      BY <2>5
    <3>3. n \in m .. Len(w)
      BY <2>1, <2>2, <3>2
    <3> QED BY <2>2, <3>1, <3>3
  <2> QED BY <2>4, <2>5
<1> HIDE DEF S
<1>5. S = Nat
  <2>1. S \subseteq Nat
    BY DEF S
  <2> QED BY <2>1, <1>3, <1>4, Induction
<1>6. Len(w) \in S /\ Len(w) \in m .. Len(w)
  BY <1>5
<1> QED BY <1>1, <1>6 DEF S, IsHosts

LEMMA HostsNone ==
  ASSUME NEW w \in Seq(Field), NEW P, \A i \in 1 .. Len(w) : ~HostAt(w, P, i)
  PROVE  HostsAmong(w, P) = <<>>
<1>1. PICK H : IsHosts(H, w, P)
  BY HostsEquation
<1>2. 0 \in 0 .. Len(w) /\ \A i \in 0 + 1 .. Len(w) : ~HostAt(w, P, i)
  OBVIOUS
<1>3. H[0] = HostsAmong(w, P)
  BY <1>1, <1>2, HostsStay
<1> QED BY <1>1, <1>3 DEF IsHosts

-----------------------------------------------------------------------------
(* clusterEndpoints *)

LEMMA Keywords ==
  ASSUME NEW x
  PROVE  /\ x \in Hosts => x \notin Flags \cup Options \cup StopWords \cup {"file"}
         /\ x \in Flags => x \notin Options \cup StopWords \cup {"file"}
         /\ x \in Options => x \notin StopWords \cup {"file"}
         /\ x = "file" => x \notin StopWords
  BY GrammarAssumption DEF Flags, Options, StopWords

\* The loop's place: at the value of an option, which it jumps over, or not.
AtValue(w, i) == i > 3 /\ w[i - 1] \in Options

\* The fields begin with the words of a statement.
Begins(w, fields) == Len(w) <= Len(fields) /\ \A i \in 1 .. Len(w) : fields[i] = w[i]

\* Up to position i, the hosts and what the loop still finds make the whole.
LoopInv(H, from, w, i) ==
  IF AtValue(w, i) THEN from[3] = H[i - 1] \o from[i + 1]
                   ELSE from[3] = H[i - 1] \o from[i]

LEMMA Regroup ==
  ASSUME NEW S, NEW s \in Seq(S), NEW t \in Seq(S), NEW x \in S
  PROVE  s \o (<<x>> \o t) = (s \o <<x>>) \o t
<1>1. <<x>> \in Seq(S)
  OBVIOUS
<1> QED BY <1>1, ConcatAssociative

LEMMA LoopStart ==
  ASSUME NEW w \in Seq(Field), NEW fields \in Seq(Field), Len(w) >= 4,
         NEW H, IsHosts(H, w, BeforeStop(w)), NEW from, IsWords(from, fields)
  PROVE  LoopInv(H, from, w, 3)
<1>1. 1 \in 1 .. Len(w) /\ 2 \in 1 .. Len(w)
  OBVIOUS
<1>2. ~HostAt(w, BeforeStop(w), 1) /\ ~HostAt(w, BeforeStop(w), 2)
  BY DEF HostAt, BeforeStop
<1>3. H[1] = H[1 - 1] /\ H[2] = H[2 - 1]
  BY <1>1, <1>2 DEF IsHosts
<1>4. H[3 - 1] = <<>>
  BY <1>3 DEF IsHosts
<1>5. from[3] \in Seq(Field)
  BY DEF IsWords
<1>6. H[3 - 1] \o from[3] = from[3]
  BY <1>4, <1>5
<1>7. ~AtValue(w, 3)
  BY DEF AtValue
<1> QED BY <1>6, <1>7 DEF LoopInv

LEMMA LoopStep ==
  ASSUME NEW w \in Seq(Field), NEW fields \in Seq(Field),
         ClusterGrammar(w), Begins(w, fields),
         NEW H, IsHosts(H, w, BeforeStop(w)), NEW from, IsWords(from, fields),
         NEW i \in Listed(w), i > 3 => i - 1 \in Listed(w), LoopInv(H, from, w, i)
  PROVE  LoopInv(H, from, w, i + 1)
<1>1. /\ i \in BeforeStop(w) /\ i \in 3 .. Len(w)
      /\ w[i] \notin StopWords /\ w[i] # "file"
  BY DEF Listed, BeforeStop
<1>2. i \in 1 .. Len(w) /\ i \in Nat \ {0} /\ i + 1 \in Nat \ {0} /\ i + 2 \in Nat \ {0} /\ ~(i > Len(fields)) /\ fields[i] = w[i]
  BY <1>1 DEF Begins
<1>3. /\ w[i] \in Hosts => H[i] = H[i - 1] \o <<w[i]>>
      /\ w[i] \notin Hosts => H[i] = H[i - 1]
  BY <1>1, <1>2 DEF IsHosts, HostAt
<1>4. /\ w[i] \in Flags => from[i] = from[i + 1]
      /\ w[i] \in Options => from[i] = from[i + 2]
      /\ w[i] \in Hosts => from[i] = <<w[i]>> \o from[i + 1]
  <2>1. from[i] = WordsFrom(from, fields, i)
    BY <1>2 DEF IsWords
  <2>2. w[i] \in Hosts => w[i] \notin Flags \cup Options \cup StopWords \cup {"file"}
    BY Keywords
  <2> QED BY <1>2, <2>1, <2>2, WordsFromCases
<1>5. (i + 1) - 1 = i /\ (i + 1) + 1 = i + 2 /\ (AtValue(w, i + 1) <=> w[i] \in Options)
  BY <1>2, <1>1 DEF AtValue
<1>6. CASE AtValue(w, i)
  <2>1. i - 1 \in Listed(w) /\ w[i - 1] \in Options /\ (i - 1) + 1 = i
    BY <1>2, <1>6 DEF AtValue
  <2>2. w[i] \notin Flags \cup Options \cup Hosts
    BY <2>1 DEF ClusterGrammar, HasValue
  <2>3. from[3] = H[i] \o from[i + 1]
    BY <1>3, <1>6, <2>2 DEF LoopInv
  <2> QED BY <1>5, <2>2, <2>3 DEF LoopInv
<1>7. CASE ~AtValue(w, i)
  <2>1. from[3] = H[i - 1] \o from[i]
    BY <1>7 DEF LoopInv
  <2>2. w[i] \in Flags \cup Options \cup Hosts
    BY <1>1, <1>7 DEF ClusterGrammar, AtValue, Listed, BeforeStop
  <2>3. CASE w[i] \in Flags
    <3>1. w[i] \notin Options /\ w[i] \notin Hosts
      BY <2>3, Keywords
    <3>2. from[3] = H[i] \o from[i + 1]
      BY <1>3, <1>4, <2>1, <2>3, <3>1
    <3> QED BY <1>5, <3>1, <3>2 DEF LoopInv
  <2>4. CASE w[i] \in Options
    <3>1. w[i] \notin Hosts
      BY <2>4, Keywords
    <3>2. from[3] = H[i] \o from[i + 2]
      BY <1>3, <1>4, <2>1, <2>4, <3>1
    <3> QED BY <1>5, <2>4, <3>2 DEF LoopInv
  <2>5. CASE w[i] \in Hosts
    <3>1. w[i] \notin Options
      BY <2>5, Keywords
    <3>2. H[i - 1] \in Seq(Field) /\ from[i + 1] \in Seq(Field) /\ w[i] \in Field
      <4>1. H[i - 1] \in Seq(Hosts)
        <5>1. i - 1 \in 0 .. Len(w)
          BY <1>2
        <5> QED BY <5>1 DEF IsHosts
      <4>2. Hosts \subseteq Field
        BY CarbonCRelayAssumption DEF Field
      <4>3. H[i - 1] \in Seq(Field)
        BY <4>1, <4>2
      <4> QED BY <1>2, <4>3 DEF IsWords
    <3>3. H[i - 1] \o (<<w[i]>> \o from[i + 1]) = (H[i - 1] \o <<w[i]>>) \o from[i + 1]
      <4> DEFINE s == H[i - 1]
                 t == from[i + 1]
                 x == w[i]
      <4>1. s \in Seq(Field) /\ t \in Seq(Field) /\ x \in Field
        BY <3>2
      <4> HIDE DEF s, t, x
      <4>2. s \o (<<x>> \o t) = (s \o <<x>>) \o t
        BY <4>1, Regroup
      <4> QED BY <4>2 DEF s, t, x
    <3>4. from[3] = H[i] \o from[i + 1]
      BY <1>3, <1>4, <2>1, <2>5, <3>3
    <3> QED BY <1>5, <3>1, <3>4 DEF LoopInv
  <2> QED BY <2>2, <2>3, <2>4, <2>5
<1> QED BY <1>6, <1>7

\* The first position that is not listed is no option's value.
LoopStops(H, from, w, e) ==
  /\ from[3] = H[e - 1] \o from[e]
  /\ \A j \in 3 .. e - 1 : j \in Listed(w)
  /\ e \notin Listed(w)

LEMMA LoopEnd ==
  ASSUME NEW w \in Seq(Field), NEW fields \in Seq(Field),
         ClusterGrammar(w), Begins(w, fields),
         NEW H, IsHosts(H, w, BeforeStop(w)), NEW from, IsWords(from, fields)
  PROVE  \E e \in 3 .. Len(w) + 1 : LoopStops(H, from, w, e)
<1> DEFINE E == {i \in Nat : i >= 3 /\ i \notin Listed(w)}
<1>0. Len(w) >= 4 /\ Len(w) \in Nat
  BY DEF ClusterGrammar
<1>1. Len(w) + 1 \in E
  BY <1>0 DEF Listed, BeforeStop
<1>2. PICK e \in E : \A y \in E : e <= y
  BY <1>1, Least
<1>3. e \in 3 .. Len(w) + 1 /\ e \notin Listed(w)
  BY <1>0, <1>1, <1>2
<1>4. \A j \in 3 .. e - 1 : j \in Listed(w)
  BY <1>2, <1>3
<1> DEFINE S == {i \in Nat : i \in 3 .. e => LoopInv(H, from, w, i)}
<1>5. 0 \in S
  OBVIOUS
<1>6. ASSUME NEW i \in S PROVE i + 1 \in S
  <2> SUFFICES ASSUME i + 1 \in 3 .. e PROVE LoopInv(H, from, w, i + 1)
    OBVIOUS
  <2>1. CASE i = 2
    <3>1. i + 1 = 3
      BY <2>1
    <3>2. LoopInv(H, from, w, 3)
      BY <1>0, LoopStart
    <3> QED BY <3>1, <3>2
  <2>2. CASE i # 2
    <3>1. i \in Listed(w) /\ (i > 3 => i - 1 \in Listed(w)) /\ LoopInv(H, from, w, i)
      BY <1>3, <1>4, <2>2
    <3> QED BY <3>1, LoopStep
  <2> QED BY <2>1, <2>2
<1>7. LoopInv(H, from, w, e)
  <2> HIDE DEF S
  <2>1. S = Nat
    <3>1. S \subseteq Nat
      BY DEF S
    <3> QED BY <3>1, <1>5, <1>6, Induction
  <2> QED BY <1>3, <2>1 DEF S
<1>8. ~AtValue(w, e)
  <2> SUFFICES ASSUME e > 3, w[e - 1] \in Options PROVE FALSE
    BY DEF AtValue
  <2>1. e - 1 \in Listed(w) /\ (e - 1) + 1 = e
    BY <1>3, <1>4
  <2>2. (e - 1) + 1 \in Listed(w)
    BY <2>1 DEF ClusterGrammar, HasValue
  <2> QED BY <1>3, <2>1, <2>2
<1>9. from[3] = H[e - 1] \o from[e]
  BY <1>7, <1>8 DEF LoopInv
<1> QED BY <1>3, <1>4, <1>9 DEF LoopStops

\* The loop finds the hosts before the first stop word, and then whatever
\* follows the statement in the fields; or it finds "file".
LEMMA WordsOfCluster ==
  ASSUME NEW w \in Seq(Field), NEW fields \in Seq(Field),
         ClusterGrammar(w), Begins(w, fields)
  PROVE  /\ ListsFile(w) => Contains(Words(fields), "file")
         /\ ~ListsFile(w) =>
              \E more \in Seq(Field) :
                /\ Words(fields) = HostsAmong(w, BeforeStop(w)) \o more
                /\ Len(w) = Len(fields) => more = <<>>
<1> DEFINE hosts == HostsAmong(w, BeforeStop(w))
<1>1. PICK H : IsHosts(H, w, BeforeStop(w))
  BY HostsEquation
<1>2. PICK from : IsWords(from, fields)
  BY WordsEquation
<1>3. PICK e \in 3 .. Len(w) + 1 : LoopStops(H, from, w, e)
  BY <1>1, <1>2, LoopEnd, Zenon
<1> USE DEF LoopStops
<1>4. /\ Words(fields) = H[e - 1] \o from[e] /\ from[e] = WordsFrom(from, fields, e)
      /\ from[e] \in Seq(Field) /\ H[e - 1] \in Seq(Hosts) /\ Len(w) \in Nat
  <2>1. e \in Nat \ {0} /\ e - 1 \in 0 .. Len(w) /\ Len(w) \in Nat
    OBVIOUS
  <2> QED BY <1>1, <1>2, <1>3, <2>1 DEF IsWords, IsHosts
<1>5. hosts \in Seq(Field)
  <2>1. Len(w) \in 0 .. Len(w)
    OBVIOUS
  <2>2. hosts \in Seq(Hosts)
    BY <1>1, <2>1 DEF IsHosts
  <2>3. Hosts \subseteq Field
    BY CarbonCRelayAssumption DEF Field
  <2> HIDE DEF hosts
  <2> QED BY <2>2, <2>3
<1>6. CASE e = Len(w) + 1
  <2>1. ~ListsFile(w)
    BY <1>3, <1>6 DEF ListsFile, Listed, BeforeStop
  <2>2. H[e - 1] = hosts
    <3>1. e - 1 = Len(w)
      BY <1>4, <1>6
    <3> QED BY <1>1, <3>1 DEF IsHosts
  <2>3. Len(w) = Len(fields) => from[e] = <<>>
    <3> SUFFICES ASSUME Len(w) = Len(fields) PROVE from[e] = <<>>
      OBVIOUS
    <3>1. e > Len(fields)
      BY <1>4, <1>6
    <3> QED BY <1>4, <3>1, WordsFromCases
  <2> QED BY <1>4, <2>1, <2>2, <2>3
<1>7. CASE e # Len(w) + 1
  <2>1. /\ e \in 3 .. Len(w) /\ e \in 1 .. Len(w) /\ fields[e] = w[e] /\ ~(e > Len(fields))
        /\ e - 1 \in 0 .. Len(w)
    BY <1>4, <1>7 DEF Begins
  <2>2. \A j \in 3 .. e - 1 : w[j] \notin StopWords /\ w[j] # "file"
    BY <1>3 DEF Listed, BeforeStop
  <2>3. CASE w[e] \in StopWords
    <3>1. ~ListsFile(w)
      <4> SUFFICES ASSUME NEW i \in BeforeStop(w), w[i] = "file" PROVE FALSE
        BY DEF ListsFile
      <4>1. i < e
        BY <2>1, <2>3 DEF BeforeStop
      <4> QED BY <2>2, <4>1 DEF BeforeStop
    <3>2. \A i \in (e - 1) + 1 .. Len(w) : ~HostAt(w, BeforeStop(w), i)
      BY <2>1, <2>3 DEF HostAt, BeforeStop
    <3>3. H[e - 1] = hosts
      BY <1>1, <2>1, <3>2, HostsStay
    <3>4. from[e] = <<>>
      BY <1>4, <2>1, <2>3, WordsFromCases
    <3> QED BY <1>4, <3>1, <3>3, <3>4
  <2>4. CASE w[e] \notin StopWords
    <3>1. e \in BeforeStop(w)
      BY <2>1, <2>2, <2>4 DEF BeforeStop
    <3>2. w[e] = "file"
      BY <1>3, <2>1, <2>2, <3>1 DEF Listed
    <3>3. ListsFile(w)
      BY <3>1, <3>2 DEF ListsFile
    <3>4. from[e] = <<"file">>
      BY <1>4, <2>1, <3>2, WordsFromCases
    <3> DEFINE a == H[e - 1]
    <3>5. Words(fields) = a \o <<"file">> /\ a \in Seq(Hosts)
      BY <1>4, <3>4
    <3> HIDE DEF a
    <3>6. Len(a) + 1 \in 1 .. Len(a \o <<"file">>) /\ (a \o <<"file">>)[Len(a) + 1] = "file"
      BY <3>5
    <3> QED BY <3>3, <3>5, <3>6 DEF Contains
  <2> QED BY <2>3, <2>4
<1> QED BY <1>6, <1>7

-----------------------------------------------------------------------------
(* The cluster that comes of the fields *)

LEMMA SeqSubset ==
  ASSUME NEW S, NEW T, S \subseteq T, NEW s \in Seq(S)
  PROVE  s \in Seq(T)
  OBVIOUS

LEMMA FunctionSeq ==
  ASSUME NEW S, NEW n \in Nat, NEW f \in [1 .. n -> S]
  PROVE  f \in Seq(S) /\ Len(f) = n
  OBVIOUS

AnyCluster == {Cluster(name, words) : name \in Field, words \in Seq(Field)}

LEMMA ClusterEndpointsType ==
  ASSUME NEW fields \in Seq(Field)
  PROVE  /\ clusterEndpoints(fields) \in Seq(AnyCluster)
         /\ Len(fields) < 4 => clusterEndpoints(fields) = <<>>
<1> DEFINE words == Words(fields)
           name == fields[2]
<1>1. words \in Seq(Field)
  <2>1. PICK from : IsWords(from, fields)
    BY WordsEquation
  <2> QED BY <2>1 DEF IsWords
<1>2. \/ clusterEndpoints(fields) = <<>>
      \/ clusterEndpoints(fields) = <<Cluster(name, words)>> /\ ~(Len(fields) < 4)
  BY DEF clusterEndpoints
<1>3. Len(fields) < 4 => clusterEndpoints(fields) = <<>>
  BY <1>2
<1>4. ASSUME ~(Len(fields) < 4) PROVE <<Cluster(name, words)>> \in Seq(AnyCluster)
  <2>1. name \in Field
    BY <1>4
  <2>2. Cluster(name, words) \in AnyCluster
    BY <1>1, <2>1 DEF AnyCluster
  <2> DEFINE c == Cluster(name, words)
  <2> HIDE DEF c
  <2>3. <<c>> \in Seq(AnyCluster)
    BY <2>2 DEF c
  <2> QED BY <2>3 DEF c
<1> DEFINE result == <<Cluster(name, words)>>
<1> HIDE DEF result
<1>5. clusterEndpoints(fields) = <<>> \/ (clusterEndpoints(fields) = result /\ result \in Seq(AnyCluster))
  BY <1>2, <1>4, Zenon DEF result
<1>6. clusterEndpoints(fields) \in Seq(AnyCluster)
  <2>1. <<>> \in Seq(AnyCluster)
    OBVIOUS
  <2> QED BY <1>5, <2>1, Zenon
<1> QED BY <1>3, <1>6

LEMMA StatementFacts ==
  ASSUME NEW w \in Statements
  PROVE  /\ w \in Seq(Field) /\ Len(w) \in Nat /\ Len(w) >= 3
         /\ \A i \in 1 .. Len(w) : w[i] # End
         /\ w[1] = "cluster" => ClusterGrammar(w)
         /\ w[1] # "cluster" => w[3] # "cluster"
<1>1. w \in Seq(STRING) /\ Len(w) >= 3
  BY CarbonCRelayAssumption
<1>2. w \in Seq(Field)
  <2>1. STRING \subseteq Field
    BY DEF Field
  <2> QED BY <1>1, <2>1, SeqSubset
<1>3. DOMAIN w = 1 .. Len(w)
  BY <1>1
<1>4. \A i \in DOMAIN w : w[i] # End
  BY GrammarAssumption
<1>5. IF w[1] = "cluster" THEN ClusterGrammar(w) ELSE w[3] # "cluster"
  BY GrammarAssumption
<1>6. \A i \in 1 .. Len(w) : w[i] # End
  BY <1>3, <1>4, Zenon
<1>7. Len(w) \in Nat
  BY <1>1
<1> QED BY <1>1, <1>2, <1>5, <1>6, <1>7, Zenon

\* A cluster names hosts, and before the first stop word, unless it is a file.
LEMMA HostsOfCluster ==
  ASSUME NEW w \in Statements, w[1] = "cluster"
  PROVE  /\ ListsFile(w) => HostsAmong(w, 3 .. Len(w)) = <<>>
         /\ ~ListsFile(w) => HostsAmong(w, 3 .. Len(w)) # <<>> /\ HostsAmong(w, BeforeStop(w)) # <<>>
<1>1. w \in Seq(Field) /\ ClusterGrammar(w)
  BY StatementFacts
<1>2. ASSUME ListsFile(w) PROVE HostsAmong(w, 3 .. Len(w)) = <<>>
  <2>1. \A i \in 1 .. Len(w) : ~HostAt(w, 3 .. Len(w), i)
    BY <1>1, <1>2 DEF ClusterGrammar, NamesHosts, HostAt
  <2> QED BY <1>1, <2>1, HostsNone
<1>3. ASSUME ~ListsFile(w)
      PROVE  HostsAmong(w, 3 .. Len(w)) # <<>> /\ HostsAmong(w, BeforeStop(w)) # <<>>
  <2>1. PICK i \in Listed(w) : w[i] \in Hosts
    BY <1>1, <1>3 DEF ClusterGrammar
  <2>2. i \in 1 .. Len(w) /\ HostAt(w, 3 .. Len(w), i) /\ HostAt(w, BeforeStop(w), i)
    BY <2>1 DEF Listed, BeforeStop, HostAt
  <2> QED BY <1>1, <2>2, HostsFound
<1> QED BY <1>2, <1>3

LEMMA HostsAmongType ==
  ASSUME NEW w \in Seq(Field), NEW P
  PROVE  HostsAmong(w, P) \in Seq(Hosts) /\ HostsAmong(w, P) \in Seq(Field)
<1>1. PICK H : IsHosts(H, w, P)
  BY HostsEquation
<1>2. Len(w) \in 0 .. Len(w)
  OBVIOUS
<1> DEFINE hosts == HostsAmong(w, P)
<1>3. hosts \in Seq(Hosts)
  BY <1>1, <1>2 DEF IsHosts
<1>4. Hosts \subseteq Field
  BY CarbonCRelayAssumption DEF Field
<1> HIDE DEF hosts
<1>5. hosts \in Seq(Field)
  BY <1>3, <1>4
<1> QED BY <1>3, <1>5 DEF hosts

Leading(w) == HostsAmong(w, BeforeStop(w))
Named(w) == HostsAmong(w, 3 .. Len(w))

\* What the parser makes of fields that begin with a cluster statement.
LEMMA Parsed ==
  ASSUME NEW w \in Statements, w[1] = "cluster", NEW fields \in Seq(Field), Begins(w, fields)
  PROVE  /\ Named(w) = <<>> => clusterEndpoints(fields) = <<>>
         /\ \/ clusterEndpoints(fields) = <<>>
            \/ \E more \in Seq(Field) : clusterEndpoints(fields) = <<Cluster(w[2], Leading(w) \o more)>>
         /\ Named(w) # <<>> /\ Len(w) = Len(fields) =>
              clusterEndpoints(fields) = <<Cluster(w[2], Leading(w))>>
<1> DEFINE words == Words(fields)
           first == Leading(w)
<1>1. w \in Seq(Field) /\ ClusterGrammar(w) /\ Len(w) >= 3
  BY StatementFacts
<1>2. Len(fields) >= 4 /\ Len(fields) \in Nat /\ fields[2] = w[2]
  BY <1>1 DEF ClusterGrammar, Begins
<1>3. clusterEndpoints(fields) = IF words = <<>> \/ Contains(words, "file") THEN <<>>
                                  ELSE <<Cluster(w[2], words)>>
  BY <1>2 DEF clusterEndpoints
<1>4. CASE ListsFile(w)
  <2>1. Contains(words, "file") /\ Named(w) = <<>>
    BY <1>1, <1>4, WordsOfCluster, HostsOfCluster DEF Named
  <2> QED BY <1>3, <2>1
<1>5. CASE ~ListsFile(w)
  <2>1. Named(w) # <<>> /\ first # <<>> /\ first \in Seq(Hosts) /\ first \in Seq(Field)
    BY <1>1, <1>5, HostsOfCluster, HostsAmongType DEF Named, Leading
  <2>2. PICK more \in Seq(Field) : words = first \o more /\ (Len(w) = Len(fields) => more = <<>>)
    BY <1>1, <1>5, WordsOfCluster DEF Leading
  <2> HIDE DEF words, first
  <2>3. \/ clusterEndpoints(fields) = <<>>
        \/ clusterEndpoints(fields) = <<Cluster(w[2], first \o more)>>
    BY <1>3, <2>2
  <2>4. ASSUME Len(w) = Len(fields) PROVE clusterEndpoints(fields) = <<Cluster(w[2], first)>>
    <3>1. words = first
      BY <2>1, <2>2, <2>4
    <3>2. ~Contains(first, "file")
      <4>1. \A i \in 1 .. Len(first) : first[i] \in Hosts
        BY <2>1
      <4>2. \A i \in 1 .. Len(first) : first[i] # "file"
        BY <4>1, Keywords
      <4> QED BY <4>2 DEF Contains
    <3> QED BY <1>3, <2>1, <3>1, <3>2
  <2> QED BY <2>1, <2>3, <2>4 DEF first
<1> QED BY <1>4, <1>5

\* More words are more endpoints behind the first ones.
LEMMA EndpointsPrefix ==
  ASSUME NEW name, NEW s \in Seq(Field), NEW more \in Seq(Field)
  PROVE  /\ Cluster(name, s \o more).name = name
         /\ IsPrefix(Cluster(name, s).endpoints, Cluster(name, s \o more).endpoints)
<1> DEFINE E == {Endpoint(x) : x \in Field}
           t == s \o more
           p == [i \in DOMAIN s |-> Endpoint(s[i])]
           q == [i \in DOMAIN t |-> Endpoint(t[i])]
<1>1. /\ t \in Seq(Field) /\ Len(s) \in Nat /\ Len(t) \in Nat /\ Len(s) <= Len(t)
      /\ \A i \in 1 .. Len(s) : t[i] = s[i]
      /\ DOMAIN s = 1 .. Len(s) /\ DOMAIN t = 1 .. Len(t)
  OBVIOUS
<1>2. /\ Cluster(name, t).name = name /\ Cluster(name, s).endpoints = p
      /\ Cluster(name, t).endpoints = q
  BY DEF Cluster
<1> HIDE DEF t
<1>3. \A i \in 1 .. Len(s) : s[i] \in Field
  OBVIOUS
<1>4. p \in [1 .. Len(s) -> E] /\ q \in [1 .. Len(t) -> E]
  BY <1>1, <1>3
<1>5. \A i \in 1 .. Len(s) : p[i] = q[i]
  BY <1>1
<1> HIDE DEF p, q, E
<1>6. p \in Seq(E) /\ Len(p) = Len(s) /\ q \in Seq(E) /\ Len(q) = Len(t)
  BY <1>1, <1>4, FunctionSeq
<1>7. IsPrefix(p, q)
  BY <1>1, <1>5, <1>6 DEF IsPrefix
<1> QED BY <1>2, <1>7 DEF t

-----------------------------------------------------------------------------
(* The text before a ";" *)

Body(w) == SubSeq(w, 3, Len(w))
Opening(w) == SubSeq(w, 1, 2)

LEMMA OpeningBody ==
  ASSUME NEW S, NEW s \in Seq(S), Len(s) >= 3
  PROVE  SubSeq(s, 1, 2) \o SubSeq(s, 3, Len(s)) = s
  OBVIOUS

LEMMA StatementParts ==
  ASSUME NEW w \in Statements
  PROVE  /\ Opening(w) \in Seq(Field) /\ Len(Opening(w)) = 2 /\ Opening(w)[1] = w[1]
         /\ Body(w) \in Seq(Field) /\ Len(Body(w)) >= 1 /\ Body(w)[1] = w[3]
         /\ Opening(w) \o Body(w) = w
         /\ \A i \in 1 .. Len(Opening(w)) : Opening(w)[i] # End
         /\ \A i \in 1 .. Len(Body(w)) : Body(w)[i] # End
<1>1. w \in Seq(Field) /\ Len(w) \in Nat /\ Len(w) >= 3 /\ \A i \in 1 .. Len(w) : w[i] # End
  BY StatementFacts
<1>2. /\ Opening(w) \in Seq(Field) /\ Len(Opening(w)) = 2
      /\ \A i \in 1 .. 2 : Opening(w)[i] = w[i]
  BY <1>1 DEF Opening
<1>3. /\ Body(w) \in Seq(Field) /\ Len(Body(w)) = Len(w) - 2
      /\ \A i \in 1 .. Len(w) - 2 : Body(w)[i] = w[i + 2]
  BY <1>1 DEF Body
<1>4. Opening(w) \o Body(w) = w
  BY <1>1, OpeningBody DEF Opening, Body
<1>5. Opening(w)[1] = w[1] /\ Body(w)[1] = w[3] /\ Len(Body(w)) >= 1
  BY <1>1, <1>2, <1>3
<1>6. \A i \in 1 .. Len(Opening(w)) : Opening(w)[i] # End
  BY <1>1, <1>2
<1>7. \A i \in 1 .. Len(Body(w)) : Body(w)[i] # End
  <2> SUFFICES ASSUME NEW i \in 1 .. Len(w) - 2 PROVE Body(w)[i] # End
    BY <1>3
  <2>1. Body(w)[i] = w[i + 2] /\ i + 2 \in 1 .. Len(w)
    BY <1>1, <1>3
  <2> QED BY <1>1, <2>1
<1> QED BY <1>2, <1>3, <1>4, <1>5, <1>6, <1>7

LEMMA FirstEnd ==
  ASSUME NEW line, NEW e \in 1 .. Len(line), Len(line) \in Nat, line[e] = End,
         \A i \in 1 .. e - 1 : line[i] # End
  PROVE  BeforeEnd(line) = SubSeq(line, 1, e - 1)
<1> DEFINE I == {i \in 1 .. Len(line) : line[i] = End}
           m == CHOOSE x \in I : \A y \in I : x =< y
<1>1. e \in I /\ \A y \in I : e =< y
  OBVIOUS
<1>2. m \in I /\ \A y \in I : m =< y
  <2> HIDE DEF I
  <2> QED BY <1>1
<1> HIDE DEF m
<1>3. m = e
  BY <1>1, <1>2
<1>4. BeforeEnd(line) = IF m = 0 THEN line ELSE SubSeq(line, 1, m - 1)
  BY <1>1 DEF BeforeEnd, SelectInSeq, Min, m
<1> QED BY <1>3, <1>4

LEMMA NoEnd ==
  ASSUME NEW line \in Seq(Field), \A i \in 1 .. Len(line) : line[i] # End
  PROVE  BeforeEnd(line) = line /\ ~Contains(line, End)
<1> DEFINE I == {i \in 1 .. Len(line) : line[i] = End}
<1>1. I = {}
  OBVIOUS
<1>2. BeforeEnd(line) = line
  BY <1>1 DEF BeforeEnd, SelectInSeq
<1> QED BY <1>2 DEF Contains

LEMMA WithEnd ==
  ASSUME NEW line \in Seq(Field), \A i \in 1 .. Len(line) : line[i] # End
  PROVE  BeforeEnd(Append(line, End)) = line /\ Contains(Append(line, End), End)
<1> DEFINE l == Append(line, End)
           e == Len(line) + 1
<1>1. /\ Len(l) = e /\ l[e] = End /\ e \in 1 .. e /\ e \in Nat /\ e - 1 = Len(line)
      /\ \A i \in 1 .. Len(line) : l[i] = line[i]
  OBVIOUS
<1>2. SubSeq(l, 1, Len(line)) = line
  OBVIOUS
<1> HIDE DEF l, e
<1>3. BeforeEnd(l) = SubSeq(l, 1, e - 1)
  BY <1>1, FirstEnd
<1>4. Contains(l, End)
  BY <1>1 DEF Contains
<1> QED BY <1>1, <1>2, <1>3, <1>4 DEF l

-----------------------------------------------------------------------------
(***************************************************************************)
(* The invariant.  What matters is which statement the fields come from:   *)
(* none yet, the cluster whose first line was just read, or one that was   *)
(* read whole and kept for when the next begins.  Only a cluster closed on *)
(* its own first line is still open then and swallows what follows, so the *)
(* fields begin with it in any case (FieldsInv); and as long as it is well *)
(* laid, nothing comes of it.  Hence the sum: what is in the result and    *)
(* what the fields will add to it are together what the statements mean    *)
(* that were read so far (SumInv).                                         *)
(***************************************************************************)

Statement == [words : Statements, layout : Layouts]

TypeInv ==
  /\ written \in Seq(Statement)
  /\ rest \in Seq(Seq(Field))
  /\ found \in BOOLEAN
  /\ clusterFields \in Seq(Field)
  /\ clusters \in Seq(AnyCluster)
  /\ done \in BOOLEAN

\* What is still to be read of a statement.
AtStart(s, lines) == lines = Lines(s.words, s.layout)
AtBody(s, lines) ==
  \/ s.layout = "block" /\ lines = <<Body(s.words), <<End>>>>
  \/ s.layout = "closed" /\ lines = <<Append(Body(s.words), End)>>
AtClose(s, lines) == s.layout = "block" /\ lines = <<<<End>>>>

Current == written[Len(written)]

\* The lines to be read are of the last statement; a cluster's lines are read
\* from its first on.
ReadingInv ==
  rest # <<>> =>
    /\ written # <<>> /\ ~done
    /\ AtStart(Current, rest) \/ AtBody(Current, rest) \/ AtClose(Current, rest)
    /\ IsCluster(Current) /\ ~found => AtStart(Current, rest)

\* Only the first line of a cluster has been read.
Opened ==
  /\ written # <<>> /\ AtBody(Current, rest) /\ IsCluster(Current)
  /\ found /\ clusterFields = Opening(Current.words)

\* The fields are those of a cluster statement, which have swallowed later
\* statements only when it was on one line.
Held(i) ==
  /\ IsCluster(written[i])
  /\ \/ clusterFields = written[i].words
     \/ written[i].layout = "oneLine" /\ i < Len(written) /\ Begins(written[i].words, clusterFields)
  /\ found => written[i].layout = "oneLine" \/ (i = Len(written) /\ AtClose(Current, rest))
  /\ AtStart(Current, rest) => i < Len(written)

FieldsInv ==
  \/ clusterFields = <<>> /\ ~found
  \/ Opened
  \/ \E i \in DOMAIN written : Held(i)

\* What the first n statements mean.
MeantUpTo(stmts, n) == FlattenSeq([i \in 1 .. n |-> Meant(stmts[i])])

\* A cluster that is being read does not count yet.
Pending ==
  /\ rest # <<>> /\ IsCluster(Current)
  /\ AtStart(Current, rest) \/ AtBody(Current, rest)
Left == IF done THEN <<>> ELSE clusterEndpoints(clusterFields)

SumInv ==
  WellLaid =>
    clusters \o Left = MeantUpTo(written, IF Pending THEN Len(written) - 1 ELSE Len(written))

IInv == TypeInv /\ ReadingInv /\ FieldsInv /\ SumInv /\ BeginsAsWritten

-----------------------------------------------------------------------------
(* The lines of a statement *)

\* A line's text, and whether a ";" ends it.
Reads(line, text, ends) == BeforeEnd(line) = text /\ (Contains(line, End) <=> ends)

LEMMA EndIsNoCluster == End # "cluster"
  BY Zenon DEF End

LEMMA LinesOf ==
  ASSUME NEW w
  PROVE  /\ Lines(w, "block") = <<Opening(w), Body(w), <<End>>>>
         /\ Lines(w, "closed") = <<Opening(w), Append(Body(w), End)>>
         /\ Lines(w, "oneLine") = <<Append(w, End)>>
  BY DEF Lines, Opening, Body

\* A statement's lines tell how far it has been read.
LEMMA Phases ==
  ASSUME NEW s \in Statement, NEW r
  PROVE  /\ AtStart(s, r) => r # <<>> /\ ~AtBody(s, r) /\ ~AtClose(s, r)
         /\ AtBody(s, r) => r # <<>> /\ ~AtClose(s, r) /\ s.layout # "oneLine"
         /\ AtClose(s, r) => r # <<>> /\ s.layout # "oneLine"
<1> DEFINE w == s.words
           o == Opening(w)
           b == Body(w)
           be == Append(b, End)
           we == Append(w, End)
<1>1. s.layout \in Layouts
  BY DEF Statement
<1>2. /\ Lines(w, "block") = <<o, b, <<End>>>>
      /\ Lines(w, "closed") = <<o, be>>
      /\ Lines(w, "oneLine") = <<we>>
  BY LinesOf
<1> HIDE DEF o, b, be, we
<1> DEFINE e == <<End>>
<1>3. CASE s.layout = "block"
  <2>1. /\ AtStart(s, r) => r = <<o, b, e>>
        /\ AtBody(s, r) => r = <<b, e>>
        /\ AtClose(s, r) => r = <<e>>
    BY <1>2, <1>3, Zenon DEF AtStart, AtBody, AtClose, b, w, e
  <2> HIDE DEF e
  <2>2. /\ Len(<<o, b, e>>) = 3 /\ Len(<<b, e>>) = 2 /\ Len(<<e>>) = 1 /\ Len(<<>>) = 0
    OBVIOUS
  <2>3. /\ r = <<o, b, e>> => Len(r) = 3
        /\ r = <<b, e>> => Len(r) = 2
        /\ r = <<e>> => Len(r) = 1
        /\ r = <<>> => Len(r) = 0
    BY <2>2, Zenon
  <2>4. s.layout # "oneLine"
    BY <1>3
  <2> QED BY <2>1, <2>4, <2>3
<1>4. CASE s.layout = "closed"
  <2>1. /\ AtStart(s, r) => r = <<o, be>>
        /\ AtBody(s, r) => r = <<be>>
        /\ ~AtClose(s, r)
    BY <1>2, <1>4, Zenon DEF AtStart, AtBody, AtClose, be, b, w
  <2>2. /\ r = <<o, be>> => r # <<>> /\ r # <<be>>
        /\ r = <<be>> => r # <<>>
    OBVIOUS
  <2>3. s.layout # "oneLine"
    BY <1>4
  <2> QED BY <2>1, <2>2, <2>3, Zenon
<1>5. CASE s.layout = "oneLine"
  BY <1>2, <1>5 DEF AtStart, AtBody, AtClose, w
<1> QED BY <1>1, <1>3, <1>4, <1>5 DEF Layouts

\* The line that is read next, and what is left after it.
OpensBlock(s, r) ==
  /\ AtStart(s, r) /\ s.layout # "oneLine"
  /\ Reads(Head(r), Opening(s.words), FALSE) /\ Head(r)[1] = s.words[1] /\ AtBody(s, Tail(r))
IsOneLine(s, r) ==
  /\ AtStart(s, r) /\ s.layout = "oneLine"
  /\ Reads(Head(r), s.words, TRUE) /\ Head(r)[1] = s.words[1] /\ Tail(r) = <<>>
IsBody(s, r) ==
  /\ AtBody(s, r) /\ s.layout = "block"
  /\ Reads(Head(r), Body(s.words), FALSE) /\ Head(r)[1] = s.words[3] /\ AtClose(s, Tail(r))
IsClosedBody(s, r) ==
  /\ AtBody(s, r) /\ s.layout = "closed"
  /\ Reads(Head(r), Body(s.words), TRUE) /\ Head(r)[1] = s.words[3] /\ Tail(r) = <<>>
IsClose(s, r) ==
  /\ AtClose(s, r)
  /\ Reads(Head(r), <<>>, TRUE) /\ Head(r)[1] # "cluster" /\ Tail(r) = <<>>

LEMMA NextLine ==
  ASSUME NEW s \in Statement, NEW r, AtStart(s, r) \/ AtBody(s, r) \/ AtClose(s, r)
  PROVE  OpensBlock(s, r) \/ IsOneLine(s, r) \/ IsBody(s, r) \/ IsClosedBody(s, r) \/ IsClose(s, r)
<1> DEFINE w == s.words
           o == Opening(w)
           b == Body(w)
           be == Append(b, End)
           we == Append(w, End)
           e == <<End>>
<1>1. s.layout \in Layouts /\ w \in Statements
  BY DEF Statement
<1>2. /\ w \in Seq(Field) /\ Len(w) \in Nat /\ Len(w) >= 3
      /\ \A i \in 1 .. Len(w) : w[i] # End
  BY <1>1, StatementFacts
<1>3. /\ o \in Seq(Field) /\ Len(o) = 2 /\ o[1] = w[1]
      /\ b \in Seq(Field) /\ Len(b) >= 1 /\ b[1] = w[3]
      /\ \A i \in 1 .. Len(o) : o[i] # End
      /\ \A i \in 1 .. Len(b) : b[i] # End
  BY <1>1, StatementParts
<1>4. /\ Lines(w, "block") = <<o, b, e>>
      /\ Lines(w, "closed") = <<o, be>>
      /\ Lines(w, "oneLine") = <<we>>
  BY LinesOf
<1>5. Reads(o, o, FALSE)
  BY <1>3, NoEnd DEF Reads
<1>6. Reads(b, b, FALSE)
  BY <1>3, NoEnd DEF Reads
<1>7. Reads(be, b, TRUE) /\ be[1] = b[1]
  BY <1>3, WithEnd DEF Reads
<1>8. Reads(we, w, TRUE) /\ we[1] = w[1]
  BY <1>2, WithEnd DEF Reads
<1>9. Reads(e, <<>>, TRUE) /\ e[1] # "cluster"
  <2>1. <<>> \in Seq(Field) /\ Append(<<>>, End) = e /\ \A i \in 1 .. Len(<<>>) : <<>>[i] # End
    OBVIOUS
  <2>2. BeforeEnd(Append(<<>>, End)) = <<>> /\ Contains(Append(<<>>, End), End)
    BY <2>1, WithEnd
  <2>3. BeforeEnd(e) = <<>> /\ Contains(e, End)
    BY <2>1, <2>2, Zenon
  <2> QED BY <2>3, EndIsNoCluster DEF Reads
<1> HIDE DEF w, o, b, be, we, e
<1>10. CASE AtStart(s, r)
  <2>1. CASE s.layout = "block"
    <3>1. r = <<o, b, e>>
      BY <1>4, <1>10, <2>1 DEF AtStart, w
    <3>2. Head(r) = o /\ Tail(r) = <<b, e>>
      BY <3>1
    <3>3. OpensBlock(s, r)
      BY <1>3, <1>5, <1>10, <2>1, <3>2 DEF OpensBlock, AtBody, o, b, e, w
    <3> QED BY <3>3
  <2>2. CASE s.layout = "closed"
    <3>1. r = <<o, be>>
      BY <1>4, <1>10, <2>2 DEF AtStart, w
    <3>2. Head(r) = o /\ Tail(r) = <<be>>
      BY <3>1
    <3>3. OpensBlock(s, r)
      BY <1>3, <1>5, <1>10, <2>2, <3>2 DEF OpensBlock, AtBody, o, b, be, w
    <3> QED BY <3>3
  <2>3. CASE s.layout = "oneLine"
    <3>1. r = <<we>>
      BY <1>4, <1>10, <2>3 DEF AtStart, w
    <3>2. Head(r) = we /\ Tail(r) = <<>>
      BY <3>1
    <3>3. IsOneLine(s, r)
      BY <1>8, <1>10, <2>3, <3>2 DEF IsOneLine, w
    <3> QED BY <3>3
  <2> QED BY <1>1, <2>1, <2>2, <2>3 DEF Layouts
<1>11. CASE AtBody(s, r)
  <2>1. CASE s.layout = "block" /\ r = <<b, e>>
    <3>1. Head(r) = b /\ Tail(r) = <<e>>
      BY <2>1
    <3>2. IsBody(s, r)
      BY <1>3, <1>6, <1>11, <2>1, <3>1 DEF IsBody, AtClose, b, e, w
    <3> QED BY <3>2
  <2>2. CASE s.layout = "closed" /\ r = <<be>>
    <3>1. Head(r) = be /\ Tail(r) = <<>>
      BY <2>2
    <3>2. IsClosedBody(s, r)
      BY <1>3, <1>7, <1>11, <2>2, <3>1 DEF IsClosedBody, b, w
    <3> QED BY <3>2
  <2> QED BY <1>11, <2>1, <2>2 DEF AtBody, be, b, e, w
<1>12. CASE AtClose(s, r)
  <2>1. Head(r) = e /\ Tail(r) = <<>>
    BY <1>12 DEF AtClose, e
  <2>2. IsClose(s, r)
    BY <1>9, <1>12, <2>1 DEF IsClose
  <2> QED BY <2>2
<1> QED BY <1>10, <1>11, <1>12

-----------------------------------------------------------------------------
(* What statements mean *)

LEMMA CurrentStatement ==
  ASSUME TypeInv
  PROVE  /\ \A i \in DOMAIN written : /\ written[i] \in Statement /\ written[i].words \in Statements
                                      /\ written[i].layout \in Layouts
         /\ Len(written) \in Nat /\ DOMAIN written = 1 .. Len(written)
         /\ written # <<>> => Len(written) \in DOMAIN written
<1>1. written \in Seq(Statement)
  BY DEF TypeInv
<1>2. \A i \in DOMAIN written : written[i] \in Statement
  BY <1>1
<1>3. Len(written) \in Nat /\ DOMAIN written = 1 .. Len(written)
      /\ (written # <<>> => Len(written) \in DOMAIN written)
  BY <1>1
<1> QED BY <1>2, <1>3 DEF Statement

LEMMA MeantType ==
  ASSUME NEW s \in Statement
  PROVE  /\ Meant(s) \in Seq(AnyCluster)
         /\ ~IsCluster(s) => Meant(s) = <<>>
         /\ HostsOf(s) = Named(s.words) /\ FirstHosts(s) = Leading(s.words)
<1> DEFINE w == s.words
           hosts == HostsOf(s)
           name == w[2]
           c == Cluster(name, hosts)
<1>1. w \in Statements
  BY DEF Statement
<1>2. w \in Seq(Field) /\ name \in Field
  <2>1. w \in Seq(Field) /\ Len(w) >= 3
    BY <1>1, StatementFacts
  <2> QED BY <2>1
<1>3. hosts = Named(w) /\ FirstHosts(s) = Leading(w)
  BY DEF HostsOf, FirstHosts, Named, Leading
<1>4. hosts \in Seq(Field)
  BY <1>2, <1>3, HostsAmongType DEF Named
<1>5. c \in AnyCluster
  <2> HIDE DEF hosts, name
  <2> QED BY <1>2, <1>4 DEF AnyCluster
<1>6. Meant(s) = <<>> \/ Meant(s) = <<c>>
  BY DEF Meant
<1>7. <<>> \in Seq(AnyCluster) /\ <<c>> \in Seq(AnyCluster)
  <2> HIDE DEF c
  <2> QED BY <1>5
<1>8. Meant(s) \in Seq(AnyCluster)
  BY <1>6, <1>7, Zenon
<1>9. ~IsCluster(s) => Meant(s) = <<>>
  BY DEF Meant
<1> QED BY <1>3, <1>8, <1>9

LEMMA LeadingIsAll ==
  ASSUME NEW s \in Statement, ~HostAfterProto(s)
  PROVE  Leading(s.words) = Named(s.words)
<1> DEFINE w == s.words
           P == BeforeStop(w)
           Q == 3 .. Len(w)
<1>1. P \subseteq Q
  BY DEF BeforeStop
<1>2. \A i \in DOMAIN w : (i \in P /\ w[i] \in Hosts) <=> (i \in Q /\ w[i] \in Hosts)
  BY <1>1 DEF HostAfterProto
<1> DEFINE f == [i \in DOMAIN w |-> IF i \in P /\ w[i] \in Hosts THEN <<w[i]>> ELSE <<>>]
           g == [i \in DOMAIN w |-> IF i \in Q /\ w[i] \in Hosts THEN <<w[i]>> ELSE <<>>]
<1>3. f = g
  <2> HIDE DEF P, Q
  <2> QED BY <1>2
<1>4. Leading(w) = FlattenSeq(f) /\ Named(w) = FlattenSeq(g)
  BY DEF Leading, Named, HostsAmong
<1> HIDE DEF f, g
<1> QED BY <1>3, <1>4

\* A cluster whose protocols come last, read as it is.
LEMMA ParsedWhole ==
  ASSUME NEW s \in Statement, IsCluster(s), ~HostAfterProto(s)
  PROVE  clusterEndpoints(s.words) = Meant(s)
<1> DEFINE w == s.words
<1>1. w \in Statements /\ w[1] = "cluster"
  BY DEF Statement, IsCluster
<1>2. w \in Seq(Field) /\ Len(w) \in Nat /\ Begins(w, w)
  BY <1>1, StatementFacts DEF Begins
<1>3. HostsOf(s) = Named(w) /\ Leading(w) = Named(w)
  BY MeantType, LeadingIsAll
<1>4. /\ Named(w) = <<>> => clusterEndpoints(w) = <<>>
      /\ Named(w) # <<>> => clusterEndpoints(w) = <<Cluster(w[2], Leading(w))>>
  BY <1>1, <1>2, Parsed
<1> QED BY <1>3, <1>4 DEF Meant

LEMMA SeqFunction ==
  ASSUME NEW S, NEW s \in Seq(S)
  PROVE  s \in [1 .. Len(s) -> S]
  OBVIOUS

LEMMA AppendAsFunction ==
  ASSUME NEW S, NEW n \in Nat, NEW f \in [1 .. n -> S], NEW x \in S
  PROVE  [i \in 1 .. n + 1 |-> IF i = n + 1 THEN x ELSE f[i]] = Append(f, x)
<1>1. f \in Seq(S) /\ Len(f) = n
  BY FunctionSeq
<1>2. Append(f, x) \in [1 .. n + 1 -> S]
  <2> DEFINE g == Append(f, x)
  <2>1. g \in Seq(S) /\ Len(g) = n + 1
    BY <1>1
  <2> HIDE DEF g
  <2>2. g \in [1 .. Len(g) -> S]
    BY <2>1, SeqFunction
  <2> QED BY <2>1, <2>2, Zenon DEF g
<1>3. \A i \in 1 .. n + 1 : Append(f, x)[i] = IF i = n + 1 THEN x ELSE f[i]
  BY <1>1
<1> DEFINE g == Append(f, x)
<1> HIDE DEF g
<1> QED BY <1>2, <1>3 DEF g

\* One more statement adds what it means.
LEMMA MeantUpToStep ==
  ASSUME NEW stmts \in Seq(Statement), NEW n \in 0 .. Len(stmts)
  PROVE  /\ MeantUpTo(stmts, n) \in Seq(AnyCluster)
         /\ n < Len(stmts) => MeantUpTo(stmts, n + 1) = MeantUpTo(stmts, n) \o Meant(stmts[n + 1])
<1> DEFINE F(k) == [i \in 1 .. k |-> Meant(stmts[i])]
<1>1. \A i \in 1 .. Len(stmts) : Meant(stmts[i]) \in Seq(AnyCluster)
  BY MeantType
<1>2. n \in Nat /\ F(n) \in [1 .. n -> Seq(AnyCluster)]
  BY <1>1
<1>3. F(n) \in Seq(Seq(AnyCluster)) /\ Len(F(n)) = n
  <2> HIDE DEF F
  <2> QED BY <1>2, FunctionSeq
<1>4. MeantUpTo(stmts, n) = FlattenSeq(F(n))
  BY DEF MeantUpTo
<1>5. MeantUpTo(stmts, n) \in Seq(AnyCluster)
  <2> HIDE DEF F
  <2> QED BY <1>3, <1>4, FlattenType
<1>6. ASSUME n < Len(stmts)
      PROVE  MeantUpTo(stmts, n + 1) = MeantUpTo(stmts, n) \o Meant(stmts[n + 1])
  <2> DEFINE m == Meant(stmts[n + 1])
  <2>1. m \in Seq(AnyCluster)
    BY <1>1, <1>6
  <2>2. F(n + 1) = Append(F(n), m)
    <3> DEFINE f == F(n)
               g == F(n + 1)
    <3>1. \A i \in 1 .. n + 1 : g[i] = IF i = n + 1 THEN m ELSE f[i]
      BY <1>2
    <3>2. g = [i \in 1 .. n + 1 |-> IF i = n + 1 THEN m ELSE f[i]]
      <4>1. g = [i \in 1 .. n + 1 |-> g[i]]
        OBVIOUS
      <4> HIDE DEF g, f, m
      <4> QED BY <3>1, <4>1
    <3>3. f \in [1 .. n -> Seq(AnyCluster)] /\ n \in Nat
      BY <1>2
    <3> HIDE DEF f, g, m
    <3>4. [i \in 1 .. n + 1 |-> IF i = n + 1 THEN m ELSE f[i]] = Append(f, m)
      BY <2>1, <3>3, AppendAsFunction
    <3>5. g = Append(f, m)
      BY <3>2, <3>4, Zenon
    <3> QED BY <3>5 DEF f, g
  <2>3. MeantUpTo(stmts, n + 1) = FlattenSeq(F(n + 1))
    BY DEF MeantUpTo
  <2> HIDE DEF F, m
  <2>4. FlattenSeq(Append(F(n), m)) = FlattenSeq(F(n)) \o m
    BY <1>3, <2>1, FlattenAppend
  <2> QED BY <1>4, <2>2, <2>3, <2>4, Zenon DEF m
<1> QED BY <1>5, <1>6

LEMMA MeantUpToMore ==
  ASSUME NEW stmts \in Seq(Statement), NEW s, NEW n \in 0 .. Len(stmts)
  PROVE  MeantUpTo(Append(stmts, s), n) = MeantUpTo(stmts, n)
<1>1. \A i \in 1 .. n : Append(stmts, s)[i] = stmts[i]
  OBVIOUS
<1> DEFINE t == Append(stmts, s)
<1> HIDE DEF t
<1>2. [i \in 1 .. n |-> Meant(t[i])] = [i \in 1 .. n |-> Meant(stmts[i])]
  BY <1>1 DEF t
<1> QED BY <1>2 DEF MeantUpTo, t

-----------------------------------------------------------------------------
(* What ReadLine does, by the line it reads *)

Read == UNCHANGED <<written, done>> /\ rest' = Tail(rest)

\* It is the first line of a cluster.
BeginsAs(text) ==
  /\ ~found /\ IsCluster(Current) /\ AtStart(Current, rest)
  /\ clusters' = clusters \o clusterEndpoints(clusterFields)
  /\ found' = TRUE /\ clusterFields' = text
BeginsBlock == BeginsAs(Opening(Current.words)) /\ AtBody(Current, rest')
BeginsLine ==
  BeginsAs(Current.words) /\ Current.layout = "oneLine" /\ rest' = <<>>

\* It is a line of another statement.
Skips ==
  /\ ~found /\ ~IsCluster(Current)
  /\ UNCHANGED <<found, clusterFields, clusters>>
  /\ rest' = <<>> \/ AtBody(Current, rest') \/ AtClose(Current, rest')

\* It goes on, or seems to go on, with the statement before.
Adds(text) ==
  /\ found /\ UNCHANGED clusters
  /\ text \in Seq(Field) /\ clusterFields' = clusterFields \o text
AddsStart(text) ==
  /\ Adds(text) /\ AtStart(Current, rest)
  /\ \/ found' = TRUE /\ AtBody(Current, rest')
     \/ found' = FALSE /\ rest' = <<>>
AddsBody ==
  /\ Adds(Body(Current.words)) /\ AtBody(Current, rest)
  /\ \/ found' = TRUE /\ AtClose(Current, rest')
     \/ found' = FALSE /\ rest' = <<>>
AddsNothing ==
  /\ Adds(<<>>) /\ AtClose(Current, rest)
  /\ found' = FALSE /\ rest' = <<>>

LEMMA ReadLineCases ==
  ASSUME TypeInv, ReadingInv, ReadLine
  PROVE  /\ Read /\ rest # <<>> /\ written # <<>> /\ ~done
         /\ Current \in Statement /\ Current.words \in Statements
         /\ \/ BeginsBlock \/ BeginsLine \/ Skips
            \/ (\E text : AddsStart(text)) \/ AddsBody \/ AddsNothing
<1> DEFINE s == Current
           line == Head(rest)
<1>1. /\ Read /\ rest # <<>> /\ written # <<>> /\ ~done
      /\ AtStart(s, rest) \/ AtBody(s, rest) \/ AtClose(s, rest)
      /\ (IsCluster(s) /\ ~found) => AtStart(s, rest)
  BY DEF ReadLine, ReadingInv, Read
<1>2. s \in Statement /\ s.words \in Statements
  BY <1>1, CurrentStatement DEF Current
<1>3. Continue(line) \/ Begin(line) \/ Skip(line)
  BY DEF ReadLine
<1>4. OpensBlock(s, rest) \/ IsOneLine(s, rest) \/ IsBody(s, rest) \/ IsClosedBody(s, rest)
      \/ IsClose(s, rest)
  <2> HIDE DEF s
  <2> QED BY <1>1, <1>2, NextLine
<1>5. /\ AtBody(s, rest) => ~AtStart(s, rest)
      /\ AtClose(s, rest) => ~AtStart(s, rest)
  <2> HIDE DEF s
  <2> QED BY <1>2, Phases
<1>6. /\ Opening(s.words) \in Seq(Field) /\ Body(s.words) \in Seq(Field)
      /\ s.words \in Seq(Field)
      /\ s.words[1] # "cluster" => s.words[3] # "cluster"
  BY <1>2, StatementParts, StatementFacts
<1> HIDE DEF s, line
<1>7. CASE found
  <2>1. Continue(line)
    BY <1>3, <1>7 DEF Begin, Skip
  <2>2. CASE OpensBlock(s, rest)
    <3>1. AddsStart(Opening(s.words))
      BY <1>1, <1>6, <2>1, <2>2, <1>7
      DEF OpensBlock, Reads, Continue, AddsStart, Adds, Read, s, line
    <3> QED BY <1>1, <1>2, <3>1 DEF s
  <2>3. CASE IsOneLine(s, rest)
    <3>1. AddsStart(s.words)
      BY <1>1, <1>6, <2>1, <2>3, <1>7
      DEF IsOneLine, Reads, Continue, AddsStart, Adds, Read, s, line
    <3> QED BY <1>1, <1>2, <3>1 DEF s
  <2>4. CASE IsBody(s, rest)
    <3>1. AddsBody
      BY <1>1, <1>6, <2>1, <2>4, <1>7
      DEF IsBody, Reads, Continue, AddsBody, Adds, Read, s, line
    <3> QED BY <1>1, <1>2, <3>1 DEF s
  <2>5. CASE IsClosedBody(s, rest)
    <3>1. AddsBody
      BY <1>1, <1>6, <2>1, <2>5, <1>7
      DEF IsClosedBody, Reads, Continue, AddsBody, Adds, Read, s, line
    <3> QED BY <1>1, <1>2, <3>1 DEF s
  <2>6. CASE IsClose(s, rest)
    <3>1. <<>> \in Seq(Field)
      OBVIOUS
    <3>2. AddsNothing
      BY <1>1, <2>1, <2>6, <1>7, <3>1
      DEF IsClose, Reads, Continue, AddsNothing, Adds, Read, s, line
    <3> QED BY <1>1, <1>2, <3>2 DEF s
  <2> QED BY <1>4, <2>2, <2>3, <2>4, <2>5, <2>6
<1>8. CASE ~found
  <2>1. Begin(line) \/ Skip(line)
    BY <1>3, <1>8 DEF Continue
  <2>2. CASE IsCluster(s)
    <3>1. AtStart(s, rest)
      BY <1>1, <1>8, <2>2
    <3>2. OpensBlock(s, rest) \/ IsOneLine(s, rest)
      BY <1>4, <1>5, <3>1 DEF IsBody, IsClosedBody, IsClose
    <3>3. line[1] = "cluster"
      BY <2>2, <3>2 DEF OpensBlock, IsOneLine, IsCluster, line
    <3>4. Begin(line)
      BY <2>1, <3>3 DEF Skip
    <3>5. CASE OpensBlock(s, rest)
      <4>1. BeginsBlock
        BY <1>1, <1>8, <2>2, <3>1, <3>4, <3>5
        DEF OpensBlock, Reads, Begin, BeginsBlock, BeginsAs, Read, s, line
      <4> QED BY <1>1, <1>2, <4>1 DEF s
    <3>6. CASE IsOneLine(s, rest)
      <4>1. BeginsLine
        BY <1>1, <1>8, <2>2, <3>1, <3>4, <3>6
        DEF IsOneLine, Reads, Begin, BeginsLine, BeginsAs, Read, s, line
      <4> QED BY <1>1, <1>2, <4>1 DEF s
    <3> QED BY <3>2, <3>5, <3>6
  <2>3. CASE ~IsCluster(s)
    <3>1. line[1] # "cluster"
      BY <1>4, <1>6, <2>3
      DEF OpensBlock, IsOneLine, IsBody, IsClosedBody, IsClose, IsCluster, line
    <3>2. Skip(line)
      BY <2>1, <3>1 DEF Begin
    <3>3. rest' = <<>> \/ AtBody(s, rest') \/ AtClose(s, rest')
      BY <1>1, <1>4 DEF OpensBlock, IsOneLine, IsBody, IsClosedBody, IsClose, Read
    <3>4. Skips
      BY <1>8, <2>3, <3>2, <3>3 DEF Skip, Skips, s
    <3> QED BY <1>1, <1>2, <3>4 DEF s
  <2> QED BY <2>2, <2>3
<1> QED BY <1>7, <1>8

-----------------------------------------------------------------------------
(* The invariant is inductive *)

LEMMA LinesType ==
  ASSUME NEW w \in Statements, NEW layout \in Layouts
  PROVE  Lines(w, layout) \in Seq(Seq(Field))
<1> DEFINE o == Opening(w)
           b == Body(w)
           be == Append(b, End)
           we == Append(w, End)
           e == <<End>>
<1>1. End \in Field
  BY DEF Field
<1>2. o \in Seq(Field) /\ b \in Seq(Field) /\ w \in Seq(Field)
  BY StatementParts, StatementFacts
<1>3. e \in Seq(Field)
  BY <1>1
<1>4. be \in Seq(Field) /\ we \in Seq(Field)
  <2> HIDE DEF b
  <2> QED BY <1>1, <1>2
<1>5. /\ Lines(w, "block") = <<o, b, e>>
      /\ Lines(w, "closed") = <<o, be>>
      /\ Lines(w, "oneLine") = <<we>>
  BY LinesOf
<1> HIDE DEF o, b, be, we, e
<1> DEFINE T == Seq(Field)
<1>6. o \in T /\ b \in T /\ be \in T /\ we \in T /\ e \in T
  BY <1>2, <1>3, <1>4
<1> HIDE DEF T
<1>7. <<o, b, e>> \in Seq(T) /\ <<o, be>> \in Seq(T) /\ <<we>> \in Seq(T)
  BY <1>6
<1>8. layout = "block" \/ layout = "closed" \/ layout = "oneLine"
  BY DEF Layouts
<1> QED BY <1>5, <1>7, <1>8 DEF T

LEMMA ConcatType ==
  ASSUME NEW S, NEW s \in Seq(S), NEW t \in Seq(S)
  PROVE  s \o t \in Seq(S)
  OBVIOUS

LEMMA TypeStep ==
  ASSUME TypeInv, ReadingInv, [Next]_vars
  PROVE  TypeInv'
<1>1. clusterEndpoints(clusterFields) \in Seq(AnyCluster)
  BY ClusterEndpointsType DEF TypeInv
<1>2. clusters \o clusterEndpoints(clusterFields) \in Seq(AnyCluster)
  <2> DEFINE more == clusterEndpoints(clusterFields)
  <2>1. clusters \in Seq(AnyCluster) /\ more \in Seq(AnyCluster)
    BY <1>1 DEF TypeInv
  <2> HIDE DEF more
  <2> QED BY <2>1, ConcatType DEF more
<1>3. CASE NextStatement
  <2>1. PICK w \in Statements, layout \in Layouts :
          /\ written' = Append(written, [words |-> w, layout |-> layout])
          /\ rest' = Lines(w, layout)
    BY <1>3 DEF NextStatement
  <2>2. written' \in Seq(Statement)
    <3> DEFINE s == [words |-> w, layout |-> layout]
    <3>1. s \in Statement
      BY DEF Statement
    <3> HIDE DEF s
    <3> QED BY <2>1, <3>1 DEF TypeInv, s
  <2>3. rest' \in Seq(Seq(Field))
    BY <2>1, LinesType
  <2> QED BY <1>3, <2>2, <2>3 DEF NextStatement, TypeInv
<1>4. CASE ReadLine
  <2>1. /\ Read /\ rest # <<>> /\ Current.words \in Statements
        /\ \/ BeginsBlock \/ BeginsLine \/ Skips
           \/ (\E text : AddsStart(text)) \/ AddsBody \/ AddsNothing
    BY <1>4, ReadLineCases
  <2>2. written' = written /\ done' = done /\ rest' \in Seq(Seq(Field))
    <3> DEFINE T == Seq(Field)
    <3>1. rest \in Seq(T) /\ rest # <<>> /\ rest' = Tail(rest)
      BY <2>1 DEF TypeInv, Read
    <3> HIDE DEF T
    <3>2. rest' \in Seq(T)
      BY <3>1
    <3> QED BY <2>1, <3>2 DEF Read, T
  <2>3. CASE \E text : BeginsAs(text) /\ text \in Seq(Field)
    BY <1>2, <2>2, <2>3 DEF BeginsAs, TypeInv
  <2>4. CASE Skips
    BY <2>2, <2>4 DEF Skips, TypeInv
  <2>5. CASE \E text : Adds(text) /\ found' \in BOOLEAN
    <3>1. PICK text : Adds(text) /\ found' \in BOOLEAN
      BY <2>5
    <3>2. clusterFields' \in Seq(Field)
      <4>1. clusterFields \in Seq(Field) /\ text \in Seq(Field)
            /\ clusterFields' = clusterFields \o text
        BY <3>1 DEF Adds, TypeInv
      <4> QED BY <4>1, ConcatType
    <3> QED BY <2>2, <3>1, <3>2 DEF Adds, TypeInv
  <2>6. Opening(Current.words) \in Seq(Field) /\ Current.words \in Seq(Field)
    BY <2>1, StatementParts, StatementFacts
  <2>7. BeginsBlock \/ BeginsLine => \E text : BeginsAs(text) /\ text \in Seq(Field)
    BY <2>6 DEF BeginsBlock, BeginsLine
  <2>8. ASSUME (\E text : AddsStart(text)) \/ AddsBody \/ AddsNothing
        PROVE  \E text : Adds(text) /\ found' \in BOOLEAN
    BY <2>8 DEF AddsStart, AddsBody, AddsNothing
  <2> QED BY <2>1, <2>3, <2>4, <2>5, <2>7, <2>8
<1>5. CASE EndOfFile
  BY <1>2, <1>5 DEF EndOfFile, TypeInv
<1>6. CASE UNCHANGED vars
  BY <1>6 DEF vars, TypeInv
<1> QED BY <1>3, <1>4, <1>5, <1>6 DEF Next

\* The operator's statement, which goes behind the others.
LEMMA NextStatementFacts ==
  ASSUME TypeInv, NextStatement
  PROVE  /\ ~done /\ rest = <<>>
         /\ UNCHANGED <<found, clusterFields, clusters, done>>
         /\ \E s \in Statement :
              /\ written' = Append(written, s) /\ Current' = s /\ AtStart(Current', rest')
              /\ Len(written') = Len(written) + 1 /\ Len(written) \in Nat
              /\ DOMAIN written = 1 .. Len(written) /\ DOMAIN written' = 1 .. Len(written')
              /\ \A i \in DOMAIN written : written'[i] = written[i]
<1>1. PICK w \in Statements, layout \in Layouts :
        /\ written' = Append(written, [words |-> w, layout |-> layout])
        /\ rest' = Lines(w, layout)
  BY DEF NextStatement
<1> DEFINE s == [words |-> w, layout |-> layout]
<1>2. s \in Statement /\ s.words = w /\ s.layout = layout
  BY DEF Statement
<1>3. AtStart(s, rest')
  BY <1>1, <1>2 DEF AtStart
<1>4. written' = Append(written, s)
  BY <1>1
<1> HIDE DEF s
<1>5. /\ Len(written') = Len(written) + 1 /\ Len(written) \in Nat
      /\ DOMAIN written = 1 .. Len(written) /\ DOMAIN written' = 1 .. Len(written')
      /\ \A i \in DOMAIN written : written'[i] = written[i]
      /\ written'[Len(written')] = s
  BY <1>2, <1>4 DEF TypeInv
<1>6. Current' = s
  BY <1>5 DEF Current
<1>7. /\ ~done /\ rest = <<>>
      /\ UNCHANGED <<found, clusterFields, clusters, done>>
  BY DEF NextStatement
<1> QED BY <1>2, <1>3, <1>4, <1>5, <1>6, <1>7

LEMMA CurrentStays ==
  ASSUME written' = written
  PROVE  Current' = Current
  BY DEF Current

LEMMA ReadingStep ==
  ASSUME TypeInv, ReadingInv, [Next]_vars
  PROVE  ReadingInv'
<1>1. CASE NextStatement
  <2>1. PICK s \in Statement :
          /\ AtStart(Current', rest') /\ Len(written') = Len(written) + 1 /\ Len(written) \in Nat
    BY <1>1, NextStatementFacts
  <2>2. written' # <<>> /\ ~done'
    <3>1. written' # <<>>
      BY <2>1
    <3> QED BY <1>1, <3>1 DEF NextStatement
  <2> QED BY <2>1, <2>2 DEF ReadingInv
<1>2. CASE ReadLine
  <2>1. /\ Read /\ rest # <<>> /\ written # <<>> /\ ~done /\ Current \in Statement
        /\ \/ BeginsBlock \/ BeginsLine \/ Skips
           \/ (\E text : AddsStart(text)) \/ AddsBody \/ AddsNothing
    BY <1>2, ReadLineCases
  <2>2. Current' = Current /\ written' = written /\ done' = done
    BY <2>1, CurrentStays DEF Read
  <2>3. /\ rest' = <<>> \/ AtBody(Current, rest') \/ AtClose(Current, rest')
        /\ rest' = <<>> \/ found' = TRUE \/ ~IsCluster(Current)
    BY <2>1 DEF BeginsBlock, BeginsLine, BeginsAs, Skips, AddsStart, AddsBody, AddsNothing
  <2> QED BY <2>1, <2>2, <2>3 DEF ReadingInv
<1>3. CASE EndOfFile
  BY <1>3 DEF EndOfFile, ReadingInv
<1>4. CASE UNCHANGED vars
  <2>1. Current' = Current
    BY <1>4, CurrentStays DEF vars
  <2> QED BY <1>4, <2>1 DEF vars, ReadingInv
<1> QED BY <1>1, <1>2, <1>3, <1>4 DEF Next

-----------------------------------------------------------------------------

LEMMA BeginsMore ==
  ASSUME NEW w \in Seq(Field), NEW fields \in Seq(Field), NEW text \in Seq(Field),
         fields = w \/ Begins(w, fields)
  PROVE  Begins(w, fields \o text)
  BY DEF Begins

\* An opened cluster is completed by its body.
LEMMA OpenedRead ==
  ASSUME TypeInv, ReadingInv, ReadLine, Opened
  PROVE  /\ AddsBody /\ clusterFields' = Current.words
         /\ IsCluster(Current) /\ AtBody(Current, rest) /\ written # <<>>
<1>1. /\ Current \in Statement /\ Current.words \in Statements
      /\ \/ BeginsBlock \/ BeginsLine \/ Skips
         \/ (\E text : AddsStart(text)) \/ AddsBody \/ AddsNothing
  BY ReadLineCases
<1>2. ~AtStart(Current, rest) /\ ~AtClose(Current, rest) /\ found
      /\ clusterFields = Opening(Current.words)
  BY <1>1, Phases DEF Opened
<1>3. AddsBody
  BY <1>1, <1>2 DEF BeginsBlock, BeginsLine, BeginsAs, Skips, AddsStart, AddsNothing
<1>4. clusterFields' = Opening(Current.words) \o Body(Current.words)
  BY <1>2, <1>3 DEF AddsBody, Adds
<1>5. Opening(Current.words) \o Body(Current.words) = Current.words
  BY <1>1, StatementParts
<1> QED BY <1>3, <1>4, <1>5 DEF Opened

\* A cluster that is held while a line is added to it is one that was not
\* closed, and a later statement's line, or the line that closes it.
LEMMA HeldRead ==
  ASSUME TypeInv, ReadingInv, ReadLine, found, NEW i \in DOMAIN written, Held(i)
  PROVE  \/ AddsNothing /\ clusterFields' = clusterFields
         \/ /\ written[i].layout = "oneLine" /\ i < Len(written)
            /\ Begins(written[i].words, clusterFields') /\ clusterFields' \in Seq(Field)
            /\ UNCHANGED clusters
            /\ rest' = <<>> \/ AtBody(Current, rest') \/ AtClose(Current, rest')
<1>1. /\ Current \in Statement /\ Current.words \in Statements
      /\ \/ BeginsBlock \/ BeginsLine \/ Skips
         \/ (\E text : AddsStart(text)) \/ AddsBody \/ AddsNothing
  BY ReadLineCases
<1>2. (\E text : AddsStart(text)) \/ AddsBody \/ AddsNothing
  BY <1>1 DEF BeginsBlock, BeginsLine, BeginsAs, Skips
<1>3. clusterFields \in Seq(Field)
  BY DEF TypeInv
<1>4. CASE AddsNothing
  <2>1. clusterFields' = clusterFields
    <3>1. clusterFields' = clusterFields \o <<>>
      BY <1>4 DEF AddsNothing, Adds
    <3> QED BY <1>3, <3>1
  <2> QED BY <1>4, <2>1
<1>5. CASE ~AddsNothing
  <2>1. PICK text : /\ Adds(text)
                    /\ rest' = <<>> \/ AtBody(Current, rest') \/ AtClose(Current, rest')
                    /\ AtStart(Current, rest) \/ AtBody(Current, rest)
    BY <1>2, <1>5 DEF AddsStart, AddsBody
  <2>2. written[i].layout = "oneLine"
    <3>1. AtBody(Current, rest) \/ AtStart(Current, rest) => ~AtClose(Current, rest)
      BY <1>1, Phases
    <3> QED BY <2>1, <3>1 DEF Held
  <2>3. i < Len(written)
    <3>1. Len(written) \in Nat /\ DOMAIN written = 1 .. Len(written)
      BY CurrentStatement
    <3>2. i # Len(written)
      <4> SUFFICES ASSUME i = Len(written) PROVE FALSE
        OBVIOUS
      <4>1. Current.layout = "oneLine"
        BY <2>2 DEF Current
      <4>2. AtStart(Current, rest)
        BY <1>1, <2>1, <4>1, Phases
      <4> QED BY <3>1, <4>2 DEF Held
    <3> QED BY <3>1, <3>2
  <2>4. written[i].words \in Seq(Field)
    <3>1. written[i].words \in Statements
      BY CurrentStatement
    <3> QED BY <3>1, StatementFacts
  <2>5. text \in Seq(Field) /\ clusterFields' = clusterFields \o text /\ UNCHANGED clusters
    BY <2>1 DEF Adds
  <2>6. clusterFields' \in Seq(Field)
    BY <1>3, <2>5, ConcatType
  <2>7. Begins(written[i].words, clusterFields')
    <3> DEFINE w == written[i].words
    <3>1. clusterFields = w \/ Begins(w, clusterFields)
      BY DEF Held
    <3>2. w \in Seq(Field)
      BY <2>4
    <3> HIDE DEF w
    <3>3. Begins(w, clusterFields \o text)
      BY <1>3, <2>5, <3>1, <3>2, BeginsMore
    <3> QED BY <2>5, <3>3 DEF w
  <2> QED BY <2>1, <2>2, <2>3, <2>5, <2>6, <2>7
<1> QED BY <1>4, <1>5

LEMMA FieldsStep ==
  ASSUME TypeInv, ReadingInv, FieldsInv, [Next]_vars
  PROVE  FieldsInv'
<1>1. CASE NextStatement
  <2>1. /\ ~done /\ rest = <<>> /\ UNCHANGED <<found, clusterFields>>
        /\ Len(written') = Len(written) + 1 /\ Len(written) \in Nat
        /\ DOMAIN written = 1 .. Len(written) /\ DOMAIN written' = 1 .. Len(written')
        /\ \A i \in DOMAIN written : written'[i] = written[i]
    BY <1>1, NextStatementFacts
  <2>2. \A i \in DOMAIN written : i \in DOMAIN written' /\ i < Len(written')
    BY <2>1
  <2>3. ASSUME NEW s \in Statement PROVE ~AtBody(s, <<>>) /\ ~AtClose(s, <<>>)
    BY Phases
  <2>4. ~Opened
    <3> SUFFICES ASSUME Opened PROVE FALSE
      OBVIOUS
    <3>1. Current \in Statement
      BY CurrentStatement DEF Opened, Current
    <3> QED BY <2>1, <2>3, <3>1 DEF Opened
  <2>5. ASSUME NEW i \in DOMAIN written, Held(i) PROVE Held(i)'
    <3>1. found => written[i].layout = "oneLine"
      <4> SUFFICES ASSUME found, i = Len(written), AtClose(Current, rest) PROVE FALSE
        BY <2>5 DEF Held
      <4>1. Current \in Statement
        BY CurrentStatement DEF Current
      <4> QED BY <2>1, <2>3, <4>1
    <3>2. written'[i] = written[i] /\ i < Len(written')
      BY <2>1, <2>2
    <3> QED BY <2>1, <2>5, <3>1, <3>2 DEF Held
  <2> QED BY <2>1, <2>2, <2>4, <2>5 DEF FieldsInv
<1>2. CASE ReadLine
  <2>1. /\ Read /\ rest # <<>> /\ written # <<>> /\ Current \in Statement
        /\ \/ BeginsBlock \/ BeginsLine \/ Skips
           \/ (\E text : AddsStart(text)) \/ AddsBody \/ AddsNothing
    BY <1>2, ReadLineCases
  <2>2. Current' = Current /\ written' = written
    BY <2>1, CurrentStays DEF Read
  <2>3. /\ Len(written) \in Nat /\ Len(written) \in DOMAIN written
    BY <2>1, CurrentStatement
  <2>4. ~AtStart(Current, rest')
    <3>1. rest' = <<>> \/ AtBody(Current, rest') \/ AtClose(Current, rest')
      BY <2>1 DEF BeginsBlock, BeginsLine, BeginsAs, Skips, AddsStart, AddsBody, AddsNothing
    <3> QED BY <2>1, <3>1, Phases
  <2>5. CASE BeginsBlock
    <3>1. Opened'
      BY <2>1, <2>2, <2>5 DEF BeginsBlock, BeginsAs, Opened
    <3> QED BY <3>1 DEF FieldsInv
  <2>6. CASE BeginsLine
    <3>1. Held(Len(written))'
      BY <2>2, <2>4, <2>6 DEF BeginsLine, BeginsAs, Held, Current
    <3>2. Len(written') \in DOMAIN written'
      BY <2>2, <2>3
    <3> QED BY <3>1, <3>2 DEF FieldsInv
  <2>7. CASE Skips
    <3>1. ~found /\ found' = found /\ clusterFields' = clusterFields
      BY <2>7 DEF Skips
    <3>2. ASSUME NEW i \in DOMAIN written, Held(i) PROVE Held(i)'
      BY <2>2, <2>4, <3>1, <3>2 DEF Held
    <3> QED BY <2>2, <3>1, <3>2 DEF FieldsInv, Opened
  <2>8. CASE found
    <3>1. CASE Opened
      <4>1. AddsBody /\ clusterFields' = Current.words /\ IsCluster(Current)
        BY <1>2, <3>1, OpenedRead
      <4>2. found' => AtClose(Current, rest')
        BY <4>1 DEF AddsBody
      <4>3. Held(Len(written))'
        BY <2>2, <2>4, <4>1, <4>2 DEF Held, Current
      <4>4. Len(written') \in DOMAIN written'
        BY <2>2, <2>3
      <4> QED BY <4>3, <4>4 DEF FieldsInv
    <3>2. ASSUME NEW i \in DOMAIN written, Held(i) PROVE Held(i)'
      <4>1. CASE AddsNothing /\ clusterFields' = clusterFields
        <5>1. found' = FALSE
          BY <4>1 DEF AddsNothing
        <5> QED BY <2>2, <2>4, <3>2, <4>1, <5>1 DEF Held
      <4>2. CASE /\ written[i].layout = "oneLine" /\ i < Len(written)
                 /\ Begins(written[i].words, clusterFields')
        BY <2>2, <2>4, <3>2, <4>2 DEF Held
      <4> QED BY <1>2, <2>8, <3>2, <4>1, <4>2, HeldRead
    <3> QED BY <2>2, <2>8, <3>1, <3>2 DEF FieldsInv
  <2> QED BY <2>1, <2>5, <2>6, <2>7, <2>8 DEF AddsStart, AddsBody, AddsNothing, Adds
<1>3. CASE UNCHANGED <<written, rest, found, clusterFields>>
  <2>1. Current' = Current
    BY <1>3, CurrentStays
  <2>2. ASSUME NEW i \in DOMAIN written, Held(i) PROVE Held(i)'
    BY <1>3, <2>1, <2>2 DEF Held
  <2> QED BY <1>3, <2>1, <2>2 DEF FieldsInv, Opened
<1> QED BY <1>1, <1>2, <1>3 DEF Next, EndOfFile, vars

-----------------------------------------------------------------------------

LEMMA EmptyLeft == clusterEndpoints(<<>>) = <<>>
<1>1. <<>> \in Seq(Field) /\ Len(<<>>) < 4
  OBVIOUS
<1> QED BY <1>1, ClusterEndpointsType

LEMMA OpeningLeft ==
  ASSUME NEW w \in Statements
  PROVE  clusterEndpoints(Opening(w)) = <<>>
<1>1. Opening(w) \in Seq(Field) /\ Len(Opening(w)) = 2
  BY StatementParts
<1>2. Len(Opening(w)) < 4
  BY <1>1
<1> QED BY <1>1, <1>2, ClusterEndpointsType

\* What is written so far, when the last statement is a cluster read whole.
LEMMA LastCounts ==
  ASSUME TypeInv, WellLaid, written # <<>>, IsCluster(Current)
  PROVE  MeantUpTo(written, Len(written)) =
           MeantUpTo(written, Len(written) - 1) \o clusterEndpoints(Current.words)
<1> DEFINE n == Len(written) - 1
<1>1. /\ n \in 0 .. Len(written) /\ n < Len(written) /\ n + 1 = Len(written)
      /\ Len(written) \in DOMAIN written /\ written \in Seq(Statement)
  BY DEF TypeInv
<1>2. Current \in Statement
  BY <1>1, CurrentStatement DEF Current
<1>3. ~HostAfterProto(Current)
  BY <1>1 DEF WellLaid, Current
<1>4. clusterEndpoints(Current.words) = Meant(Current)
  BY <1>2, <1>3, ParsedWhole
<1> HIDE DEF n
<1>5. MeantUpTo(written, n + 1) = MeantUpTo(written, n) \o Meant(written[n + 1])
  BY <1>1, MeantUpToStep
<1> QED BY <1>1, <1>4, <1>5 DEF Current, n

\* A well-laid cluster on one line that is not the last statement names no
\* hosts, and is the last cluster: nothing comes of it, whatever it swallows.
LEMMA NothingLeft ==
  ASSUME TypeInv, WellLaid, NEW i \in DOMAIN written, IsCluster(written[i]),
         written[i].layout = "oneLine", i < Len(written), NEW fields \in Seq(Field),
         Begins(written[i].words, fields)
  PROVE  clusterEndpoints(fields) = <<>> /\ ~IsCluster(Current)
<1>1. /\ i # Len(written) /\ Len(written) \in i + 1 .. Len(written)
  <2>1. Len(written) \in Nat /\ DOMAIN written = 1 .. Len(written)
    BY CurrentStatement
  <2> QED BY <2>1
<1>2. /\ \A j \in i + 1 .. Len(written) : ~IsCluster(written[j])
      /\ HostsOf(written[i]) = <<>>
  BY <1>1 DEF WellLaid
<1>3. ~IsCluster(Current)
  BY <1>1, <1>2 DEF Current
<1>4. written[i] \in Statement /\ written[i].words \in Statements
  BY CurrentStatement
<1>5. Named(written[i].words) = <<>> /\ written[i].words[1] = "cluster"
  BY <1>2, <1>4, MeantType DEF IsCluster
<1>6. clusterEndpoints(fields) = <<>>
  BY <1>4, <1>5, Parsed
<1> QED BY <1>3, <1>6

LEMMA WellLaidBefore ==
  ASSUME TypeInv, NextStatement, WellLaid'
  PROVE  WellLaid
<1>1. /\ Len(written') = Len(written) + 1 /\ Len(written) \in Nat
      /\ DOMAIN written = 1 .. Len(written) /\ DOMAIN written' = 1 .. Len(written')
      /\ \A i \in DOMAIN written : written'[i] = written[i]
  BY NextStatementFacts
<1> SUFFICES ASSUME NEW i \in DOMAIN written, IsCluster(written[i])
             PROVE  /\ ~HostAfterProto(written[i])
                    /\ written[i].layout = "oneLine" =>
                         /\ \A j \in i + 1 .. Len(written) : ~IsCluster(written[j])
                         /\ HostsOf(written[i]) # <<>> => i = Len(written)
  BY DEF WellLaid
<1>2. i \in DOMAIN written' /\ written'[i] = written[i] /\ i # Len(written')
  BY <1>1
<1>3. /\ ~HostAfterProto(written[i])
      /\ written[i].layout = "oneLine" =>
           /\ \A j \in i + 1 .. Len(written') : ~IsCluster(written'[j])
           /\ HostsOf(written[i]) = <<>>
  BY <1>2 DEF WellLaid
<1>4. ASSUME written[i].layout = "oneLine", NEW j \in i + 1 .. Len(written)
      PROVE  ~IsCluster(written[j])
  <2>1. j \in DOMAIN written /\ j \in i + 1 .. Len(written')
    BY <1>1
  <2> QED BY <1>1, <1>3, <1>4, <2>1
<1> QED BY <1>3, <1>4

\* The sum stands at the first n statements.
Sum(n) == clusters \o Left = MeantUpTo(written, n)

LEMMA SumStep ==
  ASSUME TypeInv, TypeInv', ReadingInv, FieldsInv, SumInv, [Next]_vars, WellLaid'
  PROVE  IF Pending' THEN Sum(Len(written) - 1)' ELSE Sum(Len(written))'
<1> USE DEF Sum
<1>0. /\ clusters \in Seq(AnyCluster) /\ clusters' \in Seq(AnyCluster)
      /\ clusters \o <<>> = clusters /\ clusters' \o <<>> = clusters'
  BY DEF TypeInv
<1>1. CASE NextStatement
  <2>1. WellLaid
    BY <1>1, WellLaidBefore
  <2>2. /\ ~done /\ rest = <<>> /\ UNCHANGED <<found, clusterFields, clusters, done>>
        /\ Len(written') = Len(written) + 1 /\ Len(written) \in Nat
    BY <1>1, NextStatementFacts
  <2>3. PICK s \in Statement : /\ written' = Append(written, s) /\ Current' = s
                               /\ AtStart(Current', rest')
    BY <1>1, NextStatementFacts
  <2>4. clusters \o Left = MeantUpTo(written, Len(written))
    BY <2>1, <2>2 DEF SumInv, Pending
  <2>5. clusters' \o Left' = clusters \o Left
    BY <2>2 DEF Left
  <2>6. MeantUpTo(written', Len(written)) = MeantUpTo(written, Len(written))
    BY <2>2, <2>3, MeantUpToMore DEF TypeInv
  <2>7. MeantUpTo(written', Len(written) + 1) = MeantUpTo(written', Len(written)) \o Meant(s)
    <3>1. written' \in Seq(Statement) /\ Len(written) \in 0 .. Len(written') /\ Len(written) < Len(written')
      BY <2>2 DEF TypeInv
    <3>2. written'[Len(written) + 1] = s
      BY <2>2, <2>3 DEF Current
    <3> DEFINE t == written'
               n == Len(written)
    <3> HIDE DEF t, n
    <3>3. MeantUpTo(t, n + 1) = MeantUpTo(t, n) \o Meant(t[n + 1])
      BY <3>1, MeantUpToStep DEF t, n
    <3> QED BY <3>2, <3>3 DEF t, n
  <2>8. MeantUpTo(written, Len(written)) \in Seq(AnyCluster)
    <3>1. written \in Seq(Statement) /\ Len(written) \in 0 .. Len(written)
      BY DEF TypeInv
    <3> QED BY <3>1, MeantUpToStep
  <2>9. CASE IsCluster(s)
    <3>1. Len(written') - 1 = Len(written)
      BY <2>2
    <3>2. Pending'
      <4>1. rest' # <<>>
        BY <2>3, Phases
      <4> QED BY <2>3, <2>9, <4>1 DEF Pending
    <3> QED BY <2>4, <2>5, <2>6, <3>1, <3>2
  <2>10. CASE ~IsCluster(s)
    <3>1. ~Pending'
      BY <2>3, <2>10 DEF Pending
    <3>2. MeantUpTo(written', Len(written')) = MeantUpTo(written, Len(written)) \o <<>>
      <4>1. Meant(s) = <<>>
        BY <2>10, MeantType
      <4> QED BY <2>2, <2>6, <2>7, <4>1
    <3>3. MeantUpTo(written, Len(written)) \o <<>> = MeantUpTo(written, Len(written))
      <4> DEFINE m == MeantUpTo(written, Len(written))
      <4>1. m \in Seq(AnyCluster)
        BY <2>8
      <4> HIDE DEF m
      <4>2. m \o <<>> = m
        BY <4>1
      <4> QED BY <4>2 DEF m
    <3> QED BY <2>4, <2>5, <3>1, <3>2, <3>3
  <2> QED BY <2>9, <2>10
<1>2. CASE ReadLine
  <2>1. /\ Read /\ rest # <<>> /\ written # <<>> /\ ~done
        /\ Current \in Statement /\ Current.words \in Statements
        /\ \/ BeginsBlock \/ BeginsLine \/ Skips
           \/ (\E text : AddsStart(text)) \/ AddsBody \/ AddsNothing
    BY <1>2, ReadLineCases
  <2>2. Current' = Current /\ written' = written /\ done' = done
    BY <2>1, CurrentStays DEF Read
  <2>3. WellLaid
    BY <2>2 DEF WellLaid
  <2>4. clusters \o clusterEndpoints(clusterFields) =
          MeantUpTo(written, IF Pending THEN Len(written) - 1 ELSE Len(written))
    BY <2>1, <2>3 DEF SumInv, Left
  <2>5. Left' = clusterEndpoints(clusterFields')
    BY <2>1, <2>2 DEF Left
  <2>6. IsCluster(Current) => MeantUpTo(written, Len(written)) =
          MeantUpTo(written, Len(written) - 1) \o clusterEndpoints(Current.words)
    BY <2>1, <2>3, LastCounts
  <2>7. CASE BeginsBlock
    <3>1. Pending /\ Pending'
      BY <2>1, <2>2, <2>7, Phases DEF BeginsBlock, BeginsAs, Pending
    <3>2. clusterEndpoints(clusterFields') = <<>>
      BY <2>1, <2>7, OpeningLeft DEF BeginsBlock, BeginsAs
    <3>3. clusters' = clusters \o clusterEndpoints(clusterFields)
      BY <2>7 DEF BeginsBlock, BeginsAs
    <3> QED BY <1>0, <2>2, <2>4, <2>5, <3>1, <3>2, <3>3
  <2>8. CASE BeginsLine
    <3>1. Pending /\ ~Pending' /\ IsCluster(Current)
      BY <2>1, <2>8 DEF BeginsLine, BeginsAs, Pending
    <3>2. clusters' = clusters \o clusterEndpoints(clusterFields) /\ clusterFields' = Current.words
      BY <2>8 DEF BeginsLine, BeginsAs
    <3> QED BY <2>2, <2>4, <2>5, <2>6, <3>1, <3>2
  <2>9. CASE Skips
    <3>1. ~Pending /\ ~Pending'
      BY <2>2, <2>9 DEF Skips, Pending
    <3>2. clusters' = clusters /\ clusterFields' = clusterFields
      BY <2>9 DEF Skips
    <3> QED BY <2>2, <2>4, <2>5, <3>1, <3>2
  <2>10. CASE found /\ Opened
    <3>1. AddsBody /\ clusterFields' = Current.words /\ IsCluster(Current)
      BY <1>2, <2>10, OpenedRead
    <3>2. Pending
      BY <2>1, <2>10 DEF Opened, Pending
    <3>3. ~Pending'
      <4>1. rest' = <<>> \/ AtClose(Current, rest')
        BY <3>1 DEF AddsBody
      <4> QED BY <2>1, <2>2, <4>1, Phases DEF Pending
    <3>4. clusterEndpoints(clusterFields) = <<>>
      BY <2>1, <2>10, OpeningLeft DEF Opened
    <3>5. clusters' = clusters
      BY <3>1 DEF AddsBody, Adds
    <3> QED BY <1>0, <2>2, <2>4, <2>5, <2>6, <3>1, <3>2, <3>3, <3>4, <3>5
  <2>11. ASSUME found, NEW i \in DOMAIN written, Held(i)
         PROVE  IF Pending' THEN Sum(Len(written) - 1)' ELSE Sum(Len(written))'
    <3>1. CASE AddsNothing /\ clusterFields' = clusterFields
      <4>1. ~Pending /\ ~Pending'
        BY <2>1, <2>2, <3>1, Phases DEF AddsNothing, Pending
      <4>2. clusters' = clusters
        BY <3>1 DEF AddsNothing, Adds
      <4> QED BY <2>2, <2>4, <2>5, <3>1, <4>1, <4>2
    <3>2. CASE /\ written[i].layout = "oneLine" /\ i < Len(written)
               /\ Begins(written[i].words, clusterFields') /\ clusterFields' \in Seq(Field)
               /\ UNCHANGED clusters
      <4>1. IsCluster(written[i]) /\ clusterFields \in Seq(Field)
            /\ Begins(written[i].words, clusterFields)
        <5>1. written[i].words \in Seq(Field)
          <6>1. written[i].words \in Statements
            BY CurrentStatement
          <6> QED BY <6>1, StatementFacts
        <5> QED BY <2>11, <5>1 DEF Held, TypeInv, Begins
      <4>2. /\ clusterEndpoints(clusterFields) = <<>> /\ ~IsCluster(Current)
            /\ clusterEndpoints(clusterFields') = <<>>
        BY <2>3, <3>2, <4>1, NothingLeft
      <4>3. ~Pending /\ ~Pending'
        BY <2>2, <4>2 DEF Pending
      <4> QED BY <2>2, <2>4, <2>5, <3>2, <4>2, <4>3
    <3> QED BY <1>2, <2>11, <3>1, <3>2, HeldRead
  <2>12. (\E text : AddsStart(text)) \/ AddsBody \/ AddsNothing => found
    BY DEF AddsStart, AddsBody, AddsNothing, Adds
  <2> QED BY <2>1, <2>7, <2>8, <2>9, <2>10, <2>11, <2>12 DEF FieldsInv
<1>3. CASE EndOfFile
  <2>1. WellLaid /\ ~done /\ rest = <<>> /\ rest' = rest /\ written' = written
        /\ clusters' = clusters \o clusterEndpoints(clusterFields) /\ done'
    BY <1>3 DEF EndOfFile, WellLaid
  <2>2. ~Pending /\ ~Pending'
    BY <2>1 DEF Pending
  <2>3. clusters \o clusterEndpoints(clusterFields) = MeantUpTo(written, Len(written))
    BY <2>1, <2>2 DEF SumInv, Left
  <2>4. Left' = <<>>
    BY <2>1 DEF Left
  <2> QED BY <1>0, <2>1, <2>2, <2>3, <2>4
<1>4. CASE UNCHANGED vars
  <2>1. WellLaid /\ Pending' = Pending /\ Left' = Left /\ Current' = Current
    <3>1. Current' = Current
      BY <1>4, CurrentStays DEF vars
    <3> QED BY <1>4, <3>1 DEF vars, WellLaid, Pending, Left
  <2> QED BY <1>4, <2>1 DEF vars, SumInv
<1> QED BY <1>1, <1>2, <1>3, <1>4 DEF Next

-----------------------------------------------------------------------------

\* Where a cluster that is returned comes from.
From(c, s) ==
  /\ IsCluster(s) /\ HostsOf(s) # <<>>
  /\ c.name = s.words[2]
  /\ IsPrefix(Cluster(c.name, FirstHosts(s)).endpoints, c.endpoints)

LEMMA ClusterOrigin ==
  ASSUME NEW s \in Statement, IsCluster(s), NEW fields \in Seq(Field),
         fields = s.words \/ Begins(s.words, fields)
  PROVE  \/ clusterEndpoints(fields) = <<>>
         \/ \E c \in AnyCluster : clusterEndpoints(fields) = <<c>> /\ From(c, s)
<1> DEFINE w == s.words
           first == Leading(w)
<1>1. /\ w \in Statements /\ w[1] = "cluster"
      /\ HostsOf(s) = Named(w) /\ FirstHosts(s) = first
  BY MeantType DEF Statement, IsCluster
<1>2. w \in Seq(Field) /\ Len(w) >= 3 /\ w[2] \in Field /\ first \in Seq(Field)
  <2>1. w \in Seq(Field) /\ Len(w) >= 3
    BY <1>1, StatementFacts
  <2>2. first \in Seq(Field)
    BY <2>1, HostsAmongType DEF Leading
  <2> QED BY <2>1, <2>2
<1>3. Begins(w, fields)
  BY <1>2 DEF Begins
<1>4. Named(w) = <<>> => clusterEndpoints(fields) = <<>>
  BY <1>1, <1>3, Parsed
<1>5. \/ clusterEndpoints(fields) = <<>>
      \/ \E more \in Seq(Field) : clusterEndpoints(fields) = <<Cluster(w[2], first \o more)>>
  BY <1>1, <1>3, Parsed
<1>6. ASSUME NEW more \in Seq(Field), Named(w) # <<>>
      PROVE  From(Cluster(w[2], first \o more), s) /\ Cluster(w[2], first \o more) \in AnyCluster
  <2> DEFINE name == w[2]
             f == first
             c == Cluster(name, f \o more)
  <2> HIDE DEF f, name
  <2>1. f \in Seq(Field) /\ name \in Field
    BY <1>2 DEF f, name
  <2>2. c.name = name /\ IsPrefix(Cluster(name, f).endpoints, c.endpoints)
    BY <2>1, EndpointsPrefix
  <2>3. c \in AnyCluster
    <3>1. f \o more \in Seq(Field)
      BY <2>1, ConcatType
    <3> DEFINE words == f \o more
    <3> HIDE DEF words
    <3>2. words \in Seq(Field)
      BY <3>1 DEF words
    <3>3. Cluster(name, words) \in AnyCluster
      BY <2>1, <3>2 DEF AnyCluster
    <3> QED BY <3>3 DEF words
  <2> HIDE DEF c
  <2>4. From(c, s)
    BY <1>1, <1>6, <2>2 DEF From, name, f
  <2> QED BY <2>3, <2>4 DEF c, f, name
<1> QED BY <1>4, <1>5, <1>6

\* What becomes a cluster is a statement that was read whole, or more.
LEMMA FieldsOrigin ==
  ASSUME TypeInv, FieldsInv, ~Opened
  PROVE  \/ clusterEndpoints(clusterFields) = <<>>
         \/ \E c \in AnyCluster : /\ clusterEndpoints(clusterFields) = <<c>>
                                  /\ \E i \in DOMAIN written : From(c, written[i])
<1>1. CASE clusterFields = <<>>
  BY <1>1, EmptyLeft
<1>2. CASE \E i \in DOMAIN written : Held(i)
  <2>1. PICK i \in DOMAIN written : Held(i)
    BY <1>2
  <2>2. written[i] \in Statement /\ clusterFields \in Seq(Field)
    BY CurrentStatement DEF TypeInv
  <2>3. \/ clusterEndpoints(clusterFields) = <<>>
        \/ \E c \in AnyCluster : clusterEndpoints(clusterFields) = <<c>> /\ From(c, written[i])
    BY <2>1, <2>2, ClusterOrigin DEF Held
  <2> QED BY <2>3
<1> QED BY <1>1, <1>2 DEF FieldsInv

AllFrom(cs, stmts) ==
  \A k \in DOMAIN cs : \E i \in DOMAIN stmts : From(cs[k], stmts[i])

LEMMA BeginsAsWrittenIs == BeginsAsWritten <=> AllFrom(clusters, written)
  BY DEF BeginsAsWritten, AllFrom, From, ToSet

LEMMA AllFromMore ==
  ASSUME NEW cs \in Seq(AnyCluster), NEW c \in AnyCluster, NEW stmts,
         AllFrom(cs, stmts), \E i \in DOMAIN stmts : From(c, stmts[i])
  PROVE  AllFrom(cs \o <<c>>, stmts)
<1> SUFFICES ASSUME NEW k \in DOMAIN (cs \o <<c>>)
             PROVE  \E i \in DOMAIN stmts : From((cs \o <<c>>)[k], stmts[i])
  BY DEF AllFrom
<1>1. (k \in DOMAIN cs /\ (cs \o <<c>>)[k] = cs[k]) \/ (cs \o <<c>>)[k] = c
  OBVIOUS
<1> QED BY <1>1 DEF AllFrom

LEMMA BeginsStep ==
  ASSUME TypeInv, ReadingInv, FieldsInv, BeginsAsWritten, [Next]_vars
  PROVE  BeginsAsWritten'
<1>1. AllFrom(clusters, written)
  BY BeginsAsWrittenIs
<1>2. SUFFICES AllFrom(clusters', written')
  BY DEF BeginsAsWritten, AllFrom, From, ToSet
<1>3. ASSUME ~Opened, clusters' = clusters \o clusterEndpoints(clusterFields), written' = written
      PROVE  AllFrom(clusters', written')
  <2>1. clusters \in Seq(AnyCluster)
    BY DEF TypeInv
  <2>2. CASE clusterEndpoints(clusterFields) = <<>>
    <3>1. clusters \o <<>> = clusters
      BY <2>1
    <3> QED BY <1>1, <1>3, <2>2, <3>1
  <2>3. CASE \E c \in AnyCluster : /\ clusterEndpoints(clusterFields) = <<c>>
                                   /\ \E i \in DOMAIN written : From(c, written[i])
    BY <1>1, <1>3, <2>1, <2>3, AllFromMore
  <2> QED BY <1>3, <2>2, <2>3, FieldsOrigin
<1>4. CASE NextStatement
  <2>1. /\ clusters' = clusters /\ Len(written') = Len(written) + 1 /\ Len(written) \in Nat
        /\ DOMAIN written = 1 .. Len(written) /\ DOMAIN written' = 1 .. Len(written')
        /\ \A i \in DOMAIN written : written'[i] = written[i]
    BY <1>4, NextStatementFacts
  <2>2. \A i \in DOMAIN written : i \in DOMAIN written'
    BY <2>1
  <2> QED BY <1>1, <2>1, <2>2 DEF AllFrom
<1>5. CASE ReadLine
  <2>1. /\ Read /\ Current \in Statement
        /\ \/ BeginsBlock \/ BeginsLine \/ Skips
           \/ (\E text : AddsStart(text)) \/ AddsBody \/ AddsNothing
    BY <1>5, ReadLineCases
  <2>2. CASE BeginsBlock \/ BeginsLine
    <3>1. ~Opened /\ clusters' = clusters \o clusterEndpoints(clusterFields)
      BY <2>2 DEF BeginsBlock, BeginsLine, BeginsAs, Opened
    <3> QED BY <1>3, <2>1, <3>1 DEF Read
  <2>3. CASE clusters' = clusters
    BY <1>1, <2>1, <2>3 DEF Read
  <2> QED BY <2>1, <2>2, <2>3 DEF Skips, AddsStart, AddsBody, AddsNothing, Adds
<1>6. CASE EndOfFile
  <2>1. ~Opened
    <3> SUFFICES ASSUME Opened PROVE FALSE
      OBVIOUS
    <3>1. Current \in Statement /\ AtBody(Current, rest)
      BY CurrentStatement DEF Opened, Current
    <3>2. rest # <<>>
      BY <3>1, Phases
    <3> QED BY <1>6, <3>2 DEF EndOfFile
  <2> QED BY <1>3, <1>6, <2>1 DEF EndOfFile
<1>7. CASE UNCHANGED vars
  BY <1>1, <1>7 DEF vars
<1> QED BY <1>4, <1>5, <1>6, <1>7 DEF Next

-----------------------------------------------------------------------------

(* The theorems *)

LEMMA InitInv == Init => IInv
<1> SUFFICES ASSUME Init PROVE IInv
  OBVIOUS
<1>1. TypeInv
  <2>1. \A S : <<>> \in Seq(S)
    OBVIOUS
  <2> QED BY <2>1 DEF Init, TypeInv
<1>2. ReadingInv /\ FieldsInv
  BY DEF Init, ReadingInv, FieldsInv
<1>3. SumInv
  <2>1. Left = <<>>
    BY EmptyLeft DEF Init, Left
  <2>2. ~Pending
    BY DEF Init, Pending
  <2>3. MeantUpTo(written, Len(written)) = <<>>
    <3>1. Len(written) = 0
      BY DEF Init
    <3>2. [i \in 1 .. 0 |-> Meant(written[i])] = <<>>
      OBVIOUS
    <3> QED BY <3>1, <3>2, FlattenEmpty DEF MeantUpTo
  <2>4. clusters \o <<>> = <<>>
    BY DEF Init
  <2> QED BY <2>1, <2>2, <2>3, <2>4 DEF SumInv
<1>4. BeginsAsWritten
  BY DEF Init, BeginsAsWritten, ToSet
<1> QED BY <1>1, <1>2, <1>3, <1>4 DEF IInv

LEMMA NextInv == IInv /\ [Next]_vars => IInv'
<1> SUFFICES ASSUME IInv, [Next]_vars PROVE IInv'
  OBVIOUS
<1>1. TypeInv /\ ReadingInv /\ FieldsInv /\ SumInv /\ BeginsAsWritten
  BY DEF IInv
<1>2. TypeInv'
  BY <1>1, TypeStep
<1>3. ReadingInv' /\ FieldsInv' /\ BeginsAsWritten'
  BY <1>1, ReadingStep, FieldsStep, BeginsStep
<1>4. SumInv'
  <2> SUFFICES ASSUME WellLaid'
               PROVE  (clusters \o Left =
                        MeantUpTo(written, IF Pending THEN Len(written) - 1 ELSE Len(written)))'
    BY DEF SumInv
  <2>1. IF Pending' THEN Sum(Len(written) - 1)' ELSE Sum(Len(written))'
    BY <1>1, <1>2, SumStep
  <2> QED BY <2>1 DEF Sum
<1> QED BY <1>2, <1>3, <1>4 DEF IInv

\* Every state of the parser: the fields it holds are those of one statement, or
\* begin with it, and the result is what was meant so far, if the file is well
\* laid (carbon_c_relay.go:71-136).
THEOREM ReaderInvariant == Spec => []IInv
BY InitInv, NextInv, PTL DEF Spec

\* In a file of any length and any statements of the grammar, well laid or not, a
\* cluster that is returned is one that was written and has at least the hosts
\* before its first protocol, in order (carbon_c_relay.go:21-68).
THEOREM EveryClusterBeginsAsWritten == Spec => []BeginsAsWritten
<1>1. IInv => BeginsAsWritten
  BY DEF IInv
<1> QED BY <1>1, ReaderInvariant, PTL

\* A well-laid file of any length is read as it is meant: every cluster with
\* hosts, in order, with all of them, and no other (carbon_c_relay.go:71-136).
THEOREM WellLaidFileIsReadAsMeant == Spec => []ClustersAsWritten
<1>1. IInv => ClustersAsWritten
  <2> SUFFICES ASSUME IInv, done, WellLaid
               PROVE  clusters = FlattenSeq([i \in DOMAIN written |-> Meant(written[i])])
    BY DEF ClustersAsWritten
  <2>1. TypeInv /\ ReadingInv /\ SumInv
    BY DEF IInv
  <2>2. ~Pending
    BY <2>1 DEF ReadingInv, Pending
  <2>3. clusters \o <<>> = MeantUpTo(written, Len(written))
    BY <2>1, <2>2 DEF SumInv, Left
  <2>4. clusters \o <<>> = clusters
    BY <2>1 DEF TypeInv
  <2>5. DOMAIN written = 1 .. Len(written)
    BY <2>1, CurrentStatement
  <2> QED BY <2>3, <2>4, <2>5 DEF MeantUpTo
<1> QED BY <1>1, ReaderInvariant, PTL
=============================================================================
