------------------------ MODULE ExperimentalProofs ------------------------
(***************************************************************************)
(* Proofs about ExperimentalCodec, for any number of segments, sections,   *)
(* cells and snapshots, any palettes, with the model and without.          *)
(*                                                                         *)
(* Each stream of the file is filled by a class of the places that a sweep *)
(* visits.  While it is written it holds, in the order of the sweep, what  *)
(* the places of its class gave so far; in the file it stands at an        *)
(* offset.  The reader finds the offsets by counting, and while it sweeps, *)
(* its cursor in a stream is as far from the offset as places of the class *)
(* were swept: so it is at the field of the place it has come to.          *)
(*                                                                         *)
(* The definitions that begin the argument take the region as a parameter, *)
(* since it is the same for writer and reader.                             *)
(***************************************************************************)
EXTENDS ExperimentalCodec, NaturalSets, SequenceTheorems, FiniteSetTheorems, TLAPS

-----------------------------------------------------------------------------
(* Texts                                                                   *)

(* A sequence, of whatever it is. *)
IsText(text) == \E S : text \in Seq(S)

(* One text stands in another, from a place on. *)
StandsIn(part, whole, base) ==
  /\ base + Len(part) <= Len(whole)
  /\ \A i \in 1..Len(part) : whole[base + i] = part[i]

(* The lengths of texts are numbers. *)
LEMMA TextType ==
  ASSUME NEW text, IsText(text)
  PROVE  Len(text) \in Nat /\ DOMAIN text = 1..Len(text)
<1>1. PICK S : text \in Seq(S)
  BY DEF IsText
<1> QED BY <1>1, LenProperties

(* A function on the numbers up to n is a text. *)
LEMMA FunctionIsText ==
  ASSUME NEW n \in Nat, NEW f, f = [i \in 1..n |-> f[i]]
  PROVE  IsText(f) /\ Len(f) = n /\ DOMAIN f = 1..n
<1> DEFINE S == {f[i] : i \in 1..n}
<1>1. f \in [1..n -> S]
  <2>1. \A i \in 1..n : f[i] \in S
    OBVIOUS
  <2>2. [i \in 1..n |-> f[i]] \in [1..n -> S]
    BY <2>1
  <2> QED BY <2>2
<1> HIDE DEF S
<1>2. f \in Seq(S)
  BY <1>1, SeqDef
<1>3. IsText(f)
  BY <1>2 DEF IsText
<1>4. DOMAIN f = 1..n /\ DOMAIN f = 1..Len(f) /\ Len(f) \in Nat
  BY <1>1, <1>2, LenProperties
<1>5. Len(f) = n
  BY <1>4
<1> QED BY <1>3, <1>4, <1>5

(* Two texts have a set in common. *)
LEMMA TextsMeet ==
  ASSUME NEW a, NEW b, IsText(a), IsText(b)
  PROVE  \E S : a \in Seq(S) /\ b \in Seq(S)
<1>1. PICK S : a \in Seq(S)
  BY DEF IsText
<1>2. PICK T : b \in Seq(T)
  BY DEF IsText
<1> DEFINE U == S \cup T
<1>3. S \subseteq U /\ T \subseteq U
  OBVIOUS
<1> HIDE DEF U
<1>4. a \in Seq(U)
  BY <1>1, <1>3, SeqMonotonic
<1>5. b \in Seq(U)
  BY <1>2, <1>3, SeqMonotonic
<1> QED BY <1>4, <1>5

(* One text after the other. *)
LEMMA JoinOfTwo ==
  ASSUME NEW a, NEW b, IsText(a), IsText(b), NEW whole, whole = a \o b
  PROVE  /\ IsText(whole)
         /\ Len(whole) = Len(a) + Len(b)
         /\ StandsIn(a, whole, 0)
         /\ StandsIn(b, whole, Len(a))
<1>1. PICK S : a \in Seq(S) /\ b \in Seq(S)
  BY TextsMeet
<1>2. /\ whole \in Seq(S) /\ Len(whole) = Len(a) + Len(b)
      /\ \A i \in 1..(Len(a) + Len(b)) : whole[i] = IF i <= Len(a) THEN a[i] ELSE b[i - Len(a)]
  BY <1>1, ConcatProperties
<1>3. Len(a) \in Nat /\ Len(b) \in Nat
  BY TextType
<1>4. StandsIn(a, whole, 0)
  BY <1>2, <1>3 DEF StandsIn
<1>5. StandsIn(b, whole, Len(a))
  <2>1. \A i \in 1..Len(b) : /\ Len(a) + i \in 1..(Len(a) + Len(b))
                             /\ ~(Len(a) + i <= Len(a)) /\ (Len(a) + i) - Len(a) = i
    BY <1>3
  <2> QED BY <1>2, <1>3, <2>1 DEF StandsIn
<1>6. IsText(whole)
  BY <1>2 DEF IsText
<1> QED BY <1>2, <1>4, <1>5, <1>6

(* A text has one more field. *)
OneMore(text, longer, kind, value) ==
  /\ Len(longer) = Len(text) + 1 /\ Len(text) \in Nat
  /\ \A i \in 1..Len(text) : longer[i] = text[i]
  /\ longer[Len(text) + 1] = [kind |-> kind, value |-> value]

(* A text with one field more. *)
LEMMA JoinOfOne ==
  ASSUME NEW text, IsText(text), NEW kind, NEW value,
         NEW one, one = Fields(kind, <<value>>), NEW longer, longer = text \o one
  PROVE  IsText(longer) /\ OneMore(text, longer, kind, value)
<1>1. DOMAIN <<value>> = 1..1 /\ <<value>>[1] = value
  OBVIOUS
<1>2. one = [i \in 1..1 |-> [kind |-> kind, value |-> <<value>>[i]]]
  BY <1>1 DEF Fields
<1>3. one[1] = [kind |-> kind, value |-> value]
  BY <1>1, <1>2
<1>4. one = [i \in 1..1 |-> one[i]]
  BY <1>2
<1>6. IsText(one) /\ Len(one) = 1
  BY <1>4, FunctionIsText
<1>7. /\ IsText(longer) /\ Len(longer) = Len(text) + Len(one)
      /\ StandsIn(text, longer, 0) /\ StandsIn(one, longer, Len(text))
  BY <1>6, JoinOfTwo
<1>8. Len(text) \in Nat
  BY TextType
<1>9. \A i \in 1..Len(text) : 0 + i = i
  BY <1>8
<1>10. 1 \in 1..1
  OBVIOUS
<1> QED BY <1>3, <1>6, <1>7, <1>8, <1>9, <1>10 DEF StandsIn, OneMore

(* Fields of a kind *)
LEMMA FieldsType ==
  ASSUME NEW kind, NEW values, IsText(values), NEW fields, fields = Fields(kind, values)
  PROVE  /\ IsText(fields)
         /\ Len(fields) = Len(values)
         /\ \A i \in 1..Len(values) : fields[i] = [kind |-> kind, value |-> values[i]]
<1>1. Len(values) \in Nat /\ DOMAIN values = 1..Len(values)
  BY TextType
<1>2. fields = [i \in 1..Len(values) |-> [kind |-> kind, value |-> values[i]]]
  BY <1>1 DEF Fields
<1>3. \A i \in 1..Len(values) : fields[i] = [kind |-> kind, value |-> values[i]]
  BY <1>2
<1>4. fields = [i \in 1..Len(values) |-> fields[i]]
  BY <1>2
<1>5. IsText(fields) /\ Len(fields) = Len(values)
  BY <1>1, <1>4, FunctionIsText
<1> QED BY <1>3, <1>5

(* What stands in a part stands in the whole. *)
LEMMA StandsInWhole ==
  ASSUME NEW a, NEW b, NEW c, NEW m \in Nat, NEW n \in Nat,
         Len(a) \in Nat, Len(b) \in Nat, Len(c) \in Nat,
         StandsIn(a, b, m), StandsIn(b, c, n)
  PROVE  StandsIn(a, c, n + m)
<1>1. \A i \in 1..Len(a) : m + i \in 1..Len(b) /\ n + (m + i) = (n + m) + i
  BY DEF StandsIn
<1>2. (n + m) + Len(a) <= Len(c)
  BY DEF StandsIn
<1> QED BY <1>1, <1>2 DEF StandsIn

(* A text is a sequence of its elements. *)
LEMMA ElementsOfText ==
  ASSUME NEW text, IsText(text), NEW U, \A i \in 1..Len(text) : text[i] \in U
  PROVE  text \in Seq(U)
<1>1. PICK S : text \in Seq(S)
  BY DEF IsText
<1>2. Len(text) \in Nat /\ text \in [1..Len(text) -> S]
  BY <1>1, LenProperties
<1>3. text \in [1..Len(text) -> U]
  BY <1>2
<1> QED BY <1>2, <1>3, SeqDef

(* Where the texts of a sequence begin. *)
BeginAt(starts, texts, whole) ==
  /\ starts \in [0..Len(texts) -> Nat]
  /\ starts[0] = 0
  /\ \A k \in 1..Len(texts) : /\ starts[k] = starts[k - 1] + Len(texts[k])
                              /\ StandsIn(texts[k], whole, starts[k - 1])
  /\ Len(whole) = starts[Len(texts)]

(* All of a sequence of texts. *)
LEMMA JoinOfAll ==
  ASSUME NEW texts, IsText(texts), \A k \in 1..Len(texts) : IsText(texts[k]),
         NEW whole, whole = Joined(texts)
  PROVE  IsText(whole) /\ \E starts : BeginAt(starts, texts, whole)
<1> DEFINE n == Len(texts)
           U == UNION {{texts[k][i] : i \in 1..Len(texts[k])} : k \in 1..n}
           step == [k \in 1..n |-> [t \in Seq(U) |-> t \o texts[k]]]
           Steps(f) == f = [k \in 0..n |-> IF k = 0 THEN <<>> ELSE f[k - 1] \o texts[k]]
           joined == CHOOSE f : Steps(f)
<1>1. n \in Nat
  BY TextType
<1>2. \A k \in 1..n : texts[k] \in Seq(U)
  <2> TAKE k \in 1..n
  <2>1. \A i \in 1..Len(texts[k]) : texts[k][i] \in U
    OBVIOUS
  <2> HIDE DEF U
  <2> QED BY <2>1, ElementsOfText
<1>3. whole = joined[n]
  BY DEF Joined
<1>4. \A k \in 1..n : \A t \in Seq(U) : step[k][t] = t \o texts[k]
  OBVIOUS
<1> HIDE DEF U
<1>5. step \in StepsUpTo(n, Seq(U))
  BY <1>2, ConcatProperties DEF StepsUpTo
<1> HIDE DEF step, n
<1>6. PICK f : IsRecursion(f, n, Seq(U), <<>>, step)
  <2>1. <<>> \in Seq(U)
    BY EmptySeq
  <2> QED BY <1>1, <1>5, <2>1, RecursionExists
<1>7. f \in [0..n -> Seq(U)] /\ f[0] = <<>> /\ \A k \in 1..n : f[k] = step[k][f[k - 1]]
  BY <1>6 DEF IsRecursion
<1>8. \A k \in 1..n : k - 1 \in 0..n /\ f[k - 1] \in Seq(U)
  BY <1>1, <1>7
<1>9. \A k \in 1..n : f[k] = f[k - 1] \o texts[k]
  BY <1>4, <1>7, <1>8
<1>10. \A k \in 0..n : f[k] = IF k = 0 THEN <<>> ELSE f[k - 1] \o texts[k]
  <2>1. \A k \in 0..n : k = 0 \/ k \in 1..n
    BY <1>1
  <2>2. \A k \in 1..n : k # 0
    OBVIOUS
  <2> QED BY <1>7, <1>9, <2>1, <2>2
<1>11. Steps(f)
  BY <1>7, <1>10
<1>12. Steps(joined)
  BY <1>11
<1> HIDE DEF joined
<1> DEFINE Same == {k \in 0..n : joined[k] = f[k]}
<1>13. 0 \in Same
  BY <1>1, <1>7, <1>12
<1>14. ASSUME NEW k \in 0..(n - 1), k \in Same
       PROVE  k + 1 \in Same
  <2>1. k + 1 \in 0..n /\ k + 1 # 0 /\ k + 1 \in 1..n /\ (k + 1) - 1 = k
    BY <1>1
  <2>2. joined[k + 1] = joined[k] \o texts[k + 1]
    BY <1>12, <2>1
  <2>3. f[k + 1] = f[k] \o texts[k + 1]
    BY <1>9, <2>1
  <2> QED BY <1>14, <2>1, <2>2, <2>3
<1> HIDE DEF Same
<1>15. 0..n \subseteq Same
  BY <1>1, <1>13, <1>14, AllUpTo
<1>16. whole = f[n] /\ n \in 0..n
  <2>1. n \in 0..n
    BY <1>1
  <2> QED BY <1>3, <1>15, <2>1 DEF Same
<1> DEFINE starts == [k \in 0..n |-> Len(f[k])]
<1>17. starts \in [0..n -> Nat] /\ starts[0] = 0 /\ Len(whole) = starts[n]
  <2>1. \A k \in 0..n : Len(f[k]) \in Nat
    <3> TAKE k \in 0..n
    <3>1. f[k] \in Seq(U)
      BY <1>7
    <3> QED BY <3>1, LenProperties
  <2>2. Len(<<>>) = 0 /\ 0 \in 0..n
    BY <1>1
  <2>3. starts[0] = Len(f[0]) /\ starts[n] = Len(f[n])
    BY <1>16, <2>2
  <2>4. starts \in [0..n -> Nat]
    BY <2>1
  <2> QED BY <1>7, <1>16, <2>2, <2>3, <2>4
<1>18. \A k \in 0..n : starts[k] = Len(f[k])
  OBVIOUS
<1> HIDE DEF starts
<1>19. ASSUME NEW k \in 1..n
       PROVE  /\ f[k] \in Seq(U) /\ Len(f[k]) \in Nat /\ Len(f[k - 1]) \in Nat
              /\ k - 1 \in 0..n /\ k \in 0..n
              /\ starts[k] = starts[k - 1] + Len(texts[k])
              /\ StandsIn(f[k - 1], f[k], 0)
              /\ StandsIn(texts[k], f[k], starts[k - 1])
  <2>0. k - 1 \in 0..n /\ k \in 0..n
    BY <1>1
  <2>1. f[k] = f[k - 1] \o texts[k] /\ f[k - 1] \in Seq(U) /\ f[k] \in Seq(U)
    <3>1. f[k] = f[k - 1] \o texts[k]
      BY <1>9
    <3> QED BY <1>7, <2>0, <3>1
  <2>2. IsText(f[k - 1]) /\ IsText(texts[k]) /\ IsText(f[k])
    BY <1>2, <2>1 DEF IsText
  <2>3. /\ Len(f[k]) = Len(f[k - 1]) + Len(texts[k])
        /\ StandsIn(f[k - 1], f[k], 0) /\ StandsIn(texts[k], f[k], Len(f[k - 1]))
    BY <2>1, <2>2, JoinOfTwo
  <2>4. Len(f[k]) \in Nat /\ Len(f[k - 1]) \in Nat
    BY <2>2, TextType
  <2> QED BY <1>18, <2>0, <2>1, <2>3, <2>4
<1>20. ASSUME NEW k \in 1..n
       PROVE  StandsIn(texts[k], whole, starts[k - 1])
  <2> DEFINE Good == {m \in k..n : StandsIn(texts[k], f[m], starts[k - 1])}
  <2>1. k \in Nat /\ k <= n /\ k \in Good
    BY <1>1, <1>19
  <2>2. ASSUME NEW m \in k..(n - 1), m \in Good PROVE m + 1 \in Good
    <3>1. m + 1 \in 1..n /\ (m + 1) - 1 = m /\ m + 1 \in k..n /\ m \in 1..n
      BY <1>1, <2>1
    <3>2. StandsIn(f[m], f[m + 1], 0) /\ Len(f[m]) \in Nat /\ Len(f[m + 1]) \in Nat
      BY <1>19, <3>1
    <3>3. starts[k - 1] \in Nat /\ 0 + starts[k - 1] = starts[k - 1]
      <4>1. k - 1 \in 0..n
        BY <1>19
      <4> QED BY <1>17, <4>1
    <3>4. Len(texts[k]) \in Nat
      BY TextType DEF n
    <3>5. PICK text, base : text = texts[k] /\ base = starts[k - 1]
      OBVIOUS
    <3>6. StandsIn(text, f[m], base) /\ Len(text) \in Nat /\ base \in Nat
      BY <2>2, <3>3, <3>4, <3>5
    <3>7. StandsIn(text, f[m + 1], 0 + base)
      BY <3>2, <3>6, StandsInWhole
    <3> QED BY <3>1, <3>3, <3>5, <3>7
  <2>3. n \in k..n
    BY <1>1, <2>1
  <2> HIDE DEF Good
  <2>4. k..n \subseteq Good
    BY <1>1, <2>1, <2>2, AllUpTo
  <2> QED BY <1>16, <2>3, <2>4 DEF Good
<1>21. BeginAt(starts, texts, whole)
  BY <1>17, <1>19, <1>20 DEF BeginAt, n
<1>22. IsText(whole)
  BY <1>7, <1>16 DEF IsText
<1> QED BY <1>21, <1>22

-----------------------------------------------------------------------------
(* Orders                                                                  *)

(* The same number of elements. *)
LEMMA AsMany ==
  ASSUME NEW S, NEW T, IsFiniteSet(S), NEW g \in [S -> T],
         \A x, y \in S : g[x] = g[y] => x = y,
         \A t \in T : \E x \in S : g[x] = t
  PROVE  IsFiniteSet(T) /\ Cardinality(T) = Cardinality(S)
<1>1. g \in Injection(S, T)
  BY IsInjection
<1>2. g \in Surjection(S, T)
  BY DEF Surjection
<1>3. ExistsBijection(S, T)
  BY <1>1, <1>2 DEF ExistsBijection, Bijection
<1> QED BY <1>3, FS_Bijection

Places == [level : Nat, scan : Nat]

(* A set of places to visit. *)
IsTour(S) == S \subseteq Places /\ IsFiniteSet(S)

(* How many of a tour come before a place. *)
At(S, p) == Cardinality({q \in S : Before(q, p)})

(* The order of the sweep. *)
LEMMA SweepIsOrder ==
  /\ \A p \in Places : ~Before(p, p)
  /\ \A p, q, r \in Places : Before(p, q) /\ Before(q, r) => Before(p, r)
  /\ \A p, q \in Places : p # q => Before(p, q) \/ Before(q, p)
  /\ \A p, q \in Places : ~(Before(p, q) /\ Before(q, p))
<1>1. \A p \in Places : p.level \in Nat /\ p.scan \in Nat
  BY DEF Places
<1>2. \A p, q \in Places : p.level = q.level /\ p.scan = q.scan => p = q
  BY DEF Places
<1>3. \A p \in Places : ~Before(p, p)
  BY <1>1 DEF Before
<1>4. \A p, q, r \in Places : Before(p, q) /\ Before(q, r) => Before(p, r)
  BY <1>1 DEF Before
<1>5. \A p, q \in Places : p # q => Before(p, q) \/ Before(q, p)
  BY <1>1, <1>2 DEF Before
<1> QED BY <1>3, <1>4, <1>5

(* Every place of a tour has its number. *)
LEMMA NumbersInTour ==
  ASSUME NEW S, IsTour(S)
  PROVE  /\ Cardinality(S) \in Nat
         /\ \A p \in S : At(S, p) \in 0..(Cardinality(S) - 1)
         /\ \A p, q \in S : At(S, p) = At(S, q) => p = q
         /\ \A k \in 0..(Cardinality(S) - 1) : \E p \in S : At(S, p) = k
<1> DEFINE R == {pair \in Places \X Places : Before(pair[1], pair[2])}
<1>1. \A p, q \in Places : <<p, q>> \in R <=> Before(p, q)
  OBVIOUS
<1> HIDE DEF R
<1>2. S \subseteq Places /\ IsFiniteSet(S)
  BY DEF IsTour
<1>3. Orders(R, S)
  BY <1>1, <1>2, SweepIsOrder DEF Orders
<1>4. \A p \in S : Rank(R, S, p) = At(S, p)
  <2> TAKE p \in S
  <2>1. {y \in S : <<y, p>> \in R} = {q \in S : Before(q, p)}
    BY <1>1, <1>2
  <2> QED BY <2>1 DEF Rank, At
<1>5. /\ Cardinality(S) \in Nat
      /\ \A x \in S : Rank(R, S, x) \in 0..(Cardinality(S) - 1)
      /\ \A x, y \in S : Rank(R, S, x) = Rank(R, S, y) => x = y
      /\ \A k \in 0..(Cardinality(S) - 1) : \E x \in S : Rank(R, S, x) = k
  BY <1>2, <1>3, RanksAreDistinct
<1> QED BY <1>4, <1>5

(* The places in their order. *)
LEMMA SweptTour ==
  ASSUME NEW S, IsTour(S), NEW swept, swept = Swept(S)
  PROVE  /\ IsText(swept) /\ Len(swept) = Cardinality(S)
         /\ \A p \in S : At(S, p) + 1 \in 1..Cardinality(S) /\ swept[At(S, p) + 1] = p
         /\ \A k \in 1..Cardinality(S) : swept[k] \in S /\ At(S, swept[k]) + 1 = k
<1> DEFINE n == Cardinality(S)
<1>1. /\ n \in Nat
      /\ \A p \in S : At(S, p) \in 0..(n - 1)
      /\ \A p, q \in S : At(S, p) = At(S, q) => p = q
      /\ \A k \in 0..(n - 1) : \E p \in S : At(S, p) = k
  BY NumbersInTour
<1>2. swept = [k \in 1..n |-> CHOOSE p \in S : At(S, p) = k - 1]
  BY DEF Swept, At
<1> HIDE DEF n
<1>3. ASSUME NEW k \in 1..n
      PROVE  swept[k] \in S /\ At(S, swept[k]) = k - 1
  <2>1. k - 1 \in 0..(n - 1)
    BY <1>1
  <2>2. \E p \in S : At(S, p) = k - 1
    BY <1>1, <2>1
  <2>3. swept[k] = CHOOSE p \in S : At(S, p) = k - 1
    BY <1>2
  <2> QED BY <2>2, <2>3
<1>4. ASSUME NEW p \in S
      PROVE  At(S, p) + 1 \in 1..n /\ swept[At(S, p) + 1] = p
  <2>1. PICK k \in 1..n : k = At(S, p) + 1 /\ k - 1 = At(S, p)
    BY <1>1
  <2> QED BY <1>1, <1>3, <2>1
<1>5. swept = [k \in 1..n |-> swept[k]]
  BY <1>2
<1>6. IsText(swept) /\ Len(swept) = n
  BY <1>1, <1>5, FunctionIsText
<1>7. \A k \in 1..n : swept[k] \in S /\ At(S, swept[k]) + 1 = k
  BY <1>1, <1>3
<1> QED BY <1>4, <1>6, <1>7 DEF n

(* How many numbers of a set are below one. *)
Below(S, n) == Cardinality({x \in S : x < n})

(* Numbers in their order. *)
LEMMA AscendingNumbers ==
  ASSUME NEW S, S \subseteq Nat, IsFiniteSet(S), NEW ascending, ascending = Ascending(S)
  PROVE  /\ IsText(ascending) /\ Len(ascending) = Cardinality(S) /\ Cardinality(S) \in Nat
         /\ \A n \in S : Below(S, n) + 1 \in 1..Cardinality(S) /\ ascending[Below(S, n) + 1] = n
         /\ \A k \in 1..Cardinality(S) : ascending[k] \in S /\ Below(S, ascending[k]) + 1 = k
<1> DEFINE R == {pair \in Nat \X Nat : pair[1] < pair[2]}
           c == Cardinality(S)
<1>1. \A p, q \in Nat : <<p, q>> \in R <=> p < q
  OBVIOUS
<1> HIDE DEF R
<1>3. Orders(R, S)
  <2>1. \A x \in S : <<x, x>> \notin R
    BY <1>1
  <2>2. \A x, y, z \in S : <<x, y>> \in R /\ <<y, z>> \in R => <<x, z>> \in R
    <3>1. \A x, y, z \in Nat : x < y /\ y < z => x < z
      OBVIOUS
    <3> QED BY <1>1, <3>1
  <2>3. \A x, y \in S : x # y => <<x, y>> \in R \/ <<y, x>> \in R
    <3>1. \A x, y \in Nat : x # y => x < y \/ y < x
      OBVIOUS
    <3> QED BY <1>1, <3>1
  <2> QED BY <2>1, <2>2, <2>3 DEF Orders
<1>4. \A p \in S : Rank(R, S, p) = Below(S, p)
  <2> TAKE p \in S
  <2>1. {y \in S : <<y, p>> \in R} = {q \in S : q < p}
    BY <1>1
  <2> QED BY <2>1 DEF Rank, Below
<1>5. /\ c \in Nat
      /\ \A x \in S : Below(S, x) \in 0..(c - 1)
      /\ \A x, y \in S : Below(S, x) = Below(S, y) => x = y
      /\ \A k \in 0..(c - 1) : \E x \in S : Below(S, x) = k
  <2>1. /\ Cardinality(S) \in Nat
        /\ \A x \in S : Rank(R, S, x) \in 0..(Cardinality(S) - 1)
        /\ \A x, y \in S : Rank(R, S, x) = Rank(R, S, y) => x = y
        /\ \A k \in 0..(Cardinality(S) - 1) : \E x \in S : Rank(R, S, x) = k
    BY ONLY <1>3, IsFiniteSet(S), RanksAreDistinct
  <2>2. /\ c \in Nat
        /\ \A x \in S : Rank(R, S, x) \in 0..(c - 1)
        /\ \A x, y \in S : Rank(R, S, x) = Rank(R, S, y) => x = y
        /\ \A k \in 0..(c - 1) : \E x \in S : Rank(R, S, x) = k
    BY ONLY <2>1 DEF c
  <2> HIDE DEF c
  <2> QED BY <1>4, <2>2
<1>6. ascending = [k \in 1..c |-> CHOOSE n \in S : Below(S, n) = k - 1]
  BY DEF Ascending, Below
<1> HIDE DEF c
<1>7. ASSUME NEW k \in 1..c
      PROVE  ascending[k] \in S /\ Below(S, ascending[k]) = k - 1
  <2>1. k - 1 \in 0..(c - 1)
    BY <1>5
  <2>2. \E p \in S : Below(S, p) = k - 1
    BY <1>5, <2>1
  <2>3. ascending[k] = CHOOSE p \in S : Below(S, p) = k - 1
    BY <1>6
  <2> QED BY <2>2, <2>3
<1>8. ASSUME NEW n \in S
      PROVE  Below(S, n) + 1 \in 1..c /\ ascending[Below(S, n) + 1] = n
  <2>1. PICK k \in 1..c : k = Below(S, n) + 1 /\ k - 1 = Below(S, n)
    BY <1>5
  <2> QED BY <1>5, <1>7, <2>1
<1>9. ascending = [k \in 1..c |-> ascending[k]]
  BY <1>6
<1>10. IsText(ascending) /\ Len(ascending) = c
  BY <1>5, <1>9, FunctionIsText
<1>11. \A k \in 1..c : ascending[k] \in S /\ Below(S, ascending[k]) + 1 = k
  BY <1>5, <1>7
<1> QED BY <1>5, <1>8, <1>10, <1>11 DEF c

(* The places left come after those that are done. *)
IsLeftOf(left, all) ==
  /\ left \subseteq all
  /\ \A p \in left, q \in all \ left : Before(q, p)

(* How a class of places goes on with the next place. *)
GoesOnIn(K, left, p) ==
  /\ IsTour(K) /\ Cardinality(K \ left) \in Nat
  /\ p \in K => /\ At(K, p) = Cardinality(K \ left)
                /\ Cardinality(K \ (left \ {p})) = Cardinality(K \ left) + 1
                /\ K \ (left \ {p}) = (K \ left) \cup {p}
                /\ Cardinality(K \ left) < Cardinality(K)
  /\ p \notin K => K \ (left \ {p}) = K \ left

(* The next place, and what of any set of places is done then. *)
LEMMA NextPlace ==
  ASSUME NEW all, IsTour(all), NEW left, IsLeftOf(left, all), left # {},
         NEW p, p = First(left)
  PROVE  /\ p \in left /\ p \in all /\ p \in Places
         /\ IsLeftOf(left \ {p}, all)
         /\ \A K \in SUBSET all : GoesOnIn(K, left, p)
<1>1. left \subseteq all /\ all \subseteq Places /\ IsFiniteSet(all)
  BY DEF IsTour, IsLeftOf
<1>2. IsTour(left)
  BY <1>1, FS_Subset DEF IsTour
<1>3. PICK first \in left : At(left, first) = 0
  <2>1. Cardinality(left) \in Nat /\ Cardinality(left) # 0
    BY <1>2, FS_EmptySet, FS_CardinalityType DEF IsTour
  <2>2. 0 \in 0..(Cardinality(left) - 1)
    BY <2>1
  <2> QED BY <1>2, <2>2, NumbersInTour
<1>4. {q \in left : Before(q, first)} = {}
  <2>1. IsFiniteSet({q \in left : Before(q, first)})
    BY <1>2, FS_Subset DEF IsTour
  <2> QED BY <1>3, <2>1, FS_EmptySet DEF At
<1>5. \A q \in left \ {first} : Before(first, q)
  BY <1>1, <1>4, SweepIsOrder
<1>6. p \in left /\ \A q \in left \ {p} : Before(p, q)
  BY <1>5 DEF First
<1>7. IsLeftOf(left \ {p}, all)
  BY <1>1, <1>6 DEF IsLeftOf
<1>8. ASSUME NEW K \in SUBSET all
      PROVE  /\ IsTour(K) /\ Cardinality(K \ left) \in Nat
             /\ p \in K => /\ At(K, p) = Cardinality(K \ left)
                           /\ Cardinality(K \ (left \ {p})) = Cardinality(K \ left) + 1
                           /\ K \ (left \ {p}) = (K \ left) \cup {p}
                           /\ Cardinality(K \ left) < Cardinality(K)
             /\ p \notin K => K \ (left \ {p}) = K \ left
  <2>1. IsFiniteSet(K) /\ IsFiniteSet(K \ left) /\ K \ left \in SUBSET K
    BY <1>1, FS_Subset
  <2>2. Cardinality(K \ left) \in Nat /\ Cardinality(K) \in Nat
    BY <2>1, FS_CardinalityType
  <2>3. ASSUME p \in K
        PROVE  /\ At(K, p) = Cardinality(K \ left)
               /\ Cardinality(K \ (left \ {p})) = Cardinality(K \ left) + 1
               /\ K \ (left \ {p}) = (K \ left) \cup {p}
               /\ Cardinality(K \ left) < Cardinality(K)
    <3>1. ASSUME NEW q \in K PROVE Before(q, p) <=> q \notin left
      <4>1. CASE q \notin left
        <5>1. q \in all \ left
          BY <4>1
        <5> QED BY <1>6, <4>1, <5>1 DEF IsLeftOf
      <4>2. CASE q \in left
        <5>1. q = p \/ Before(p, q)
          BY <1>6, <4>2
        <5>2. q \in Places /\ p \in Places
          BY <1>1, <1>6
        <5> QED BY <4>2, <5>1, <5>2, SweepIsOrder
      <4> QED BY <4>1, <4>2
    <3>2. {q \in K : Before(q, p)} = K \ left
      BY <3>1
    <3>3. K \ (left \ {p}) = (K \ left) \cup {p} /\ p \notin K \ left
      BY <1>6, <2>3
    <3>4. Cardinality((K \ left) \cup {p}) = Cardinality(K \ left) + 1
      BY <2>1, <3>3, FS_AddElement
    <3>5. (K \ left) \cup {p} \in SUBSET K
      BY <2>3
    <3>6. Cardinality((K \ left) \cup {p}) <= Cardinality(K)
      BY <2>1, <3>5, FS_Subset
    <3>7. At(K, p) = Cardinality(K \ left)
      BY <3>2 DEF At
    <3>8. Cardinality(K \ left) < Cardinality(K)
      BY <2>2, <3>4, <3>6
    <3>9. Cardinality(K \ (left \ {p})) = Cardinality(K \ left) + 1
      BY <3>3, <3>4
    <3> QED BY <3>3, <3>7, <3>8, <3>9
  <2>4. IsTour(K)
    BY <1>1, <2>1 DEF IsTour
  <2> QED BY <2>2, <2>3, <2>4
<1>9. p \in all /\ p \in Places
  BY <1>1, <1>6
<1>10. \A K \in SUBSET all : GoesOnIn(K, left, p)
  BY <1>8 DEF GoesOnIn
<1> QED BY <1>6, <1>7, <1>9, <1>10

-----------------------------------------------------------------------------
(* What is written                                                         *)

Hist(r, d, s) == IF r[SlotOf(s)].present THEN r[SlotOf(s)].sections[d][SectionOf(s)] ELSE <<>>

Lengths(r, d) == [s \in Scans |-> Len(Hist(r, d, s))]

Tour(r, d) == Visited(Lengths(r, d))

Snap(r, d, p) == Hist(r, d, p.scan)[p.level + 1]

InModel(m, d, p) == m /\ d = "block" /\ p.level = 0

Fits(r) == \A d \in Domains, s \in Scans : Lengths(r, d)[s] <= MAX_COUNT

Snapshots(d) == SingleSnapshots \cup PalettedSnapshots(d)

(* Numbers that the parameters are. *)
LEMMA Parameters ==
  /\ SlotCount \in Nat \ {0} /\ SectionCount \in Nat \ {0}
  /\ MAX_INDIRECT_PALETTE_SIZE \in Nat \ {0} /\ MAX_COUNT \in Nat \ {0}
  BY ParametersOK

(* Every scan is of a section of a segment. *)
LEMMA ScanType ==
  /\ SlotCount * SectionCount \in Nat
  /\ \A s \in Scans : s \in Nat /\ SlotOf(s) \in Slots /\ SectionOf(s) \in 1..SectionCount
<1>1. SlotCount \in Nat \ {0} /\ SectionCount \in Nat \ {0}
  BY Parameters
<1>2. SlotCount * SectionCount \in Nat
  BY <1>1, ProductType
<1>3. ASSUME NEW s \in Scans
      PROVE  s \in Nat /\ SlotOf(s) \in Slots /\ SectionOf(s) \in 1..SectionCount
  <2>1. s \in Nat /\ s - 1 \in Nat /\ s - 1 < SlotCount * SectionCount
    BY <1>2 DEF Scans
  <2>2. PICK n : n = s - 1
    OBVIOUS
  <2>3. PICK q, t : q = n \div SectionCount /\ t = n % SectionCount
    OBVIOUS
  <2>4. q \in Nat /\ t \in 0..(SectionCount - 1) /\ n = SectionCount * q + t
    BY <1>1, <2>1, <2>2, <2>3, Division
  <2>5. q < SlotCount
    <3>1. SUFFICES ASSUME SlotCount <= q PROVE FALSE
      BY <1>1, <2>4
    <3>2. PICK e \in Nat : q = SlotCount + e
      <4>1. q - SlotCount \in Nat /\ q = SlotCount + (q - SlotCount)
        BY <1>1, <2>4, <3>1
      <4> QED BY <4>1
    <3>3. SectionCount * q = SlotCount * SectionCount + SectionCount * e
      BY <1>1, <3>2
    <3>4. SectionCount * e \in Nat /\ SectionCount * q \in Nat
      BY <1>1, <2>4, <3>2, ProductType
    <3> QED BY <1>2, <2>1, <2>2, <2>4, <3>3, <3>4
  <2>6. SlotOf(s) = q + 1 /\ SectionOf(s) = t + 1
    BY <2>2, <2>3 DEF SlotOf, SectionOf
  <2> QED BY <1>1, <2>1, <2>4, <2>5, <2>6 DEF Slots
<1> QED BY <1>2, <1>3

(* The snapshots of a section. *)
LEMMA HistoryType ==
  ASSUME NEW r \in Regions, NEW d \in Domains, NEW s \in Scans
  PROVE  /\ Hist(r, d, s) \in Seq(Snapshots(d))
         /\ Len(Hist(r, d, s)) \in Nat
         /\ Lengths(r, d)[s] = Len(Hist(r, d, s))
         /\ \A k \in 1..Len(Hist(r, d, s)) : Hist(r, d, s)[k] \in Snapshots(d)
<1>1. SlotOf(s) \in Slots /\ SectionOf(s) \in 1..SectionCount
  BY ScanType
<1>2. Hist(r, d, s) \in Seq(Snapshots(d))
  <2>1. CASE r[SlotOf(s)].present
    <3>1. r[SlotOf(s)].sections[d][SectionOf(s)] \in Histories(d)
      BY <1>1, <2>1, ParametersOK
    <3> QED BY <2>1, <3>1 DEF Hist, Histories, Snapshots
  <2>2. CASE ~r[SlotOf(s)].present
    <3>1. Hist(r, d, s) = <<>>
      BY <2>2 DEF Hist
    <3> QED BY <3>1, EmptySeq
  <2> QED BY <2>1, <2>2
<1>3. PICK h : h = Hist(r, d, s)
  OBVIOUS
<1>4. h \in Seq(Snapshots(d))
  BY <1>2, <1>3
<1>5. Len(h) \in Nat
  BY <1>4, LenProperties
<1>6. \A k \in 1..Len(h) : h[k] \in Snapshots(d)
  BY <1>4, ElementOfSeq
<1>7. Lengths(r, d)[s] = Len(h)
  BY <1>3 DEF Lengths
<1> QED BY <1>2, <1>3, <1>5, <1>6, <1>7

(* The places of the snapshots. *)
LEMMA TourType ==
  ASSUME NEW r \in Regions, NEW d \in Domains
  PROVE  /\ IsTour(Tour(r, d))
         /\ \A p \in Tour(r, d) :
              /\ p \in Places /\ p.level \in Nat /\ p.scan \in Scans
              /\ p.level < Lengths(r, d)[p.scan]
              /\ p.level + 1 \in 1..Len(Hist(r, d, p.scan))
              /\ Snap(r, d, p) \in Snapshots(d)
         /\ \A s \in Scans, k \in Nat :
              k < MAX_COUNT /\ k < Lengths(r, d)[s] => [level |-> k, scan |-> s] \in Tour(r, d)
<1> DEFINE T == {s \in Scans : Lengths(r, d)[s] > 0}
           L == 0..(MAX_COUNT - 1)
           G == {[level |-> level, scan |-> scan] : level \in L, scan \in T}
           g == [pair \in L \X T |-> [level |-> pair[1], scan |-> pair[2]]]
<1>1. MAX_COUNT \in Nat /\ \A s \in Scans : s \in Nat /\ Lengths(r, d)[s] \in Nat
  BY Parameters, ScanType, HistoryType
<1>2. Tour(r, d) = {p \in G : p.level < Lengths(r, d)[p.scan]}
  BY DEF Tour, Visited, Positions
<1>3. IsFiniteSet(L) /\ IsFiniteSet(T)
  <2>1. IsFiniteSet(Scans)
    BY ScanType, FS_Interval DEF Scans
  <2>2. T \in SUBSET Scans
    OBVIOUS
  <2>3. IsFiniteSet(L)
    <3>1. 0 \in Int /\ MAX_COUNT - 1 \in Int
      BY <1>1
    <3> QED BY <3>1, FS_Interval
  <2> HIDE DEF T
  <2> QED BY <2>1, <2>2, <2>3, FS_Subset
<1>4. g \in Surjection(L \X T, G)
  <2>1. g \in [L \X T -> G]
    OBVIOUS
  <2>2. \A x \in G : \E pair \in L \X T : g[pair] = x
    <3> TAKE x \in G
    <3>1. PICK level \in L, scan \in T : x = [level |-> level, scan |-> scan]
      OBVIOUS
    <3>2. <<level, scan>> \in L \X T /\ g[<<level, scan>>] = x
      BY <3>1
    <3> QED BY <3>2
  <2> HIDE DEF G, g, L, T
  <2> QED BY <2>1, <2>2 DEF Surjection
<1>5. IsFiniteSet(G)
  <2>1. IsFiniteSet(L \X T)
    BY <1>3, FS_Product
  <2> HIDE DEF G, g, L, T
  <2> QED BY <1>4, <2>1, FS_Surjection
<1>6. \A p \in G : p \in Places /\ p.level \in Nat /\ p.scan \in Scans
  BY <1>1 DEF Places
<1>7. \A s \in Scans, k \in Nat :
        k < MAX_COUNT /\ k < Lengths(r, d)[s] => [level |-> k, scan |-> s] \in Tour(r, d)
  <2> SUFFICES ASSUME NEW s \in Scans, NEW k \in Nat, k < MAX_COUNT, k < Lengths(r, d)[s]
               PROVE  [level |-> k, scan |-> s] \in Tour(r, d)
    OBVIOUS
  <2>1. k \in L /\ s \in T
    BY <1>1
  <2> QED BY <1>2, <2>1
<1> HIDE DEF G
<1>8. IsTour(Tour(r, d))
  <2>1. Tour(r, d) \in SUBSET G
    BY <1>2
  <2> QED BY <1>5, <1>6, <2>1, FS_Subset DEF IsTour
<1>9. ASSUME NEW p \in Tour(r, d)
      PROVE  /\ p \in Places /\ p.level \in Nat /\ p.scan \in Scans
             /\ p.level < Lengths(r, d)[p.scan]
             /\ p.level + 1 \in 1..Len(Hist(r, d, p.scan))
             /\ Snap(r, d, p) \in Snapshots(d)
  <2>1. p \in G /\ p.level < Lengths(r, d)[p.scan]
    BY <1>2
  <2>2. PICK s \in Scans, k \in Nat : s = p.scan /\ k = p.level
    BY <1>6, <2>1
  <2>3. Lengths(r, d)[s] = Len(Hist(r, d, s)) /\ Len(Hist(r, d, s)) \in Nat
        /\ \A i \in 1..Len(Hist(r, d, s)) : Hist(r, d, s)[i] \in Snapshots(d)
    BY HistoryType
  <2>4. k + 1 \in 1..Len(Hist(r, d, s))
    BY <2>1, <2>2, <2>3
  <2> QED BY <1>6, <2>1, <2>2, <2>3, <2>4 DEF Snap
<1> QED BY <1>7, <1>8, <1>9

-----------------------------------------------------------------------------
(* Streams                                                                 *)

Base(K, d) == IF d = "block" THEN 0 ELSE Cardinality(K["block"])

(* A stream has a field for each of some places, of blocks before biomes.  *)
Tells(text, kind, K, value, left) ==
  /\ IsText(text)
  /\ Len(text) = Cardinality(K["block"] \ left["block"]) + Cardinality(K["biome"] \ left["biome"])
  /\ \A d \in Domains : \A p \in K[d] \ left[d] :
       text[Base(K, d) + At(K[d], p) + 1] = [kind |-> kind, value |-> value[d][p]]

(* What is left to visit. *)
AreLeft(left, r) ==
  /\ left \in [Domains -> SUBSET Places]
  /\ \A d \in Domains : IsLeftOf(left[d], Tour(r, d))
  /\ left["block"] # {} => left["biome"] = Tour(r, "biome")

IsNext(left, next, d, p) ==
  /\ d \in Domains /\ left[d] # {} /\ p = First(left[d])
  /\ d = "biome" => left["block"] = {}
  /\ next = [left EXCEPT ![d] = @ \ {p}]

AreOfTours(K, r) == \A d \in Domains : K[d] \subseteq Tour(r, d)

(* After the next place. *)
LEMMA NextLeft ==
  ASSUME NEW r \in Regions, NEW left, NEW next, NEW d, NEW p,
         AreLeft(left, r), IsNext(left, next, d, p)
  PROVE  /\ AreLeft(next, r) /\ d \in Domains
         /\ p \in left[d] /\ p \in Tour(r, d) /\ p \in Places
         /\ next[d] = left[d] \ {p}
         /\ \A x \in Domains : x # d => next[x] = left[x]
<1>1. d \in Domains /\ IsTour(Tour(r, d)) /\ IsLeftOf(left[d], Tour(r, d)) /\ left[d] # {} /\ p = First(left[d])
  BY TourType DEF IsNext, AreLeft
<1>2. p \in left[d] /\ p \in Tour(r, d) /\ p \in Places /\ IsLeftOf(left[d] \ {p}, Tour(r, d))
  BY <1>1, NextPlace
<1>3. next[d] = left[d] \ {p} /\ \A x \in Domains : x # d => next[x] = left[x]
  BY <1>1 DEF IsNext, AreLeft
<1>4. next \in [Domains -> SUBSET Places]
  BY <1>1 DEF IsNext, AreLeft
<1>5. \A x \in Domains : IsLeftOf(next[x], Tour(r, x))
  BY <1>2, <1>3 DEF AreLeft
<1>6. next["block"] # {} => next["biome"] = Tour(r, "biome")
  BY <1>1, <1>3 DEF AreLeft, IsNext, Domains
<1> QED BY <1>1, <1>2, <1>3, <1>4, <1>5, <1>6 DEF AreLeft

(* How much of a class is done. *)
LEMMA DoneOf ==
  ASSUME NEW r \in Regions, NEW left, AreLeft(left, r), NEW K, AreOfTours(K, r),
         NEW d \in Domains
  PROVE  /\ Cardinality(K[d]) \in Nat /\ Cardinality(K[d] \ left[d]) \in Nat
         /\ IsTour(K[d])
         /\ \A p \in K[d] : At(K[d], p) \in 0..(Cardinality(K[d]) - 1)
         /\ \A p, q \in K[d] : At(K[d], p) = At(K[d], q) => p = q
         /\ \A p \in K[d] \ left[d] : At(K[d], p) < Cardinality(K[d] \ left[d])
<1>1. IsTour(Tour(r, d)) /\ K[d] \in SUBSET Tour(r, d)
  BY TourType DEF AreOfTours
<1>2. IsTour(K[d]) /\ IsTour(K[d] \ left[d])
  BY <1>1, FS_Subset DEF IsTour
<1>3. /\ Cardinality(K[d]) \in Nat
      /\ \A p \in K[d] : At(K[d], p) \in 0..(Cardinality(K[d]) - 1)
      /\ \A p, q \in K[d] : At(K[d], p) = At(K[d], q) => p = q
  BY <1>2, NumbersInTour
<1>4. /\ Cardinality(K[d] \ left[d]) \in Nat
      /\ \A p \in K[d] \ left[d] : At(K[d] \ left[d], p) \in 0..(Cardinality(K[d] \ left[d]) - 1)
  BY <1>2, NumbersInTour
<1>5. ASSUME NEW p \in K[d] \ left[d]
      PROVE  At(K[d], p) = At(K[d] \ left[d], p)
  <2>1. ASSUME NEW q \in left[d] PROVE ~Before(q, p)
    <3>0. IsLeftOf(left[d], Tour(r, d))
      BY DEF AreLeft
    <3>1. IsLeftOf(left[d], Tour(r, d)) /\ p \in Tour(r, d) \ left[d]
      BY <1>1, <3>0
    <3>2. Before(p, q) /\ p \in Places /\ q \in Places
      BY <1>1, <3>1 DEF IsLeftOf, IsTour
    <3> QED BY <3>2, SweepIsOrder
  <2>2. {q \in K[d] : Before(q, p)} = {q \in K[d] \ left[d] : Before(q, p)}
    BY <2>1
  <2> QED BY <2>2 DEF At
<1>6. ASSUME NEW p \in K[d] \ left[d]
      PROVE  At(K[d], p) < Cardinality(K[d] \ left[d])
  BY <1>4, <1>5
<1> QED BY <1>2, <1>3, <1>4, <1>6

(* A text and a field that follows it *)
IsLonger(longer, text, kind, value) == longer = text \o Fields(kind, <<value>>)

(* A field is added for the next place. *)
LEMMA TellsOneMore ==
  ASSUME NEW r \in Regions, NEW left, NEW next, NEW d, NEW p,
         AreLeft(left, r), IsNext(left, next, d, p),
         NEW K, AreOfTours(K, r), p \in K[d],
         NEW text, NEW kind, NEW value, Tells(text, kind, K, value, left),
         NEW longer, IsLonger(longer, text, kind, value[d][p])
  PROVE  Tells(longer, kind, K, value, next)
<1>1. /\ AreLeft(next, r) /\ d \in Domains
      /\ p \in left[d] /\ p \in Tour(r, d) /\ p \in Places
      /\ next[d] = left[d] \ {p}
      /\ \A x \in Domains : x # d => next[x] = left[x]
  BY NextLeft
<1>2. /\ IsTour(Tour(r, d)) /\ IsLeftOf(left[d], Tour(r, d)) /\ left[d] # {} /\ p = First(left[d])
      /\ K[d] \in SUBSET Tour(r, d)
  BY <1>1, TourType DEF IsNext, AreLeft, AreOfTours
<1>3. /\ At(K[d], p) = Cardinality(K[d] \ left[d])
      /\ Cardinality(K[d] \ next[d]) = Cardinality(K[d] \ left[d]) + 1
      /\ K[d] \ next[d] = (K[d] \ left[d]) \cup {p}
  <2>1. PICK k, l, t : k = K[d] /\ l = left[d] /\ t = Tour(r, d)
    OBVIOUS
  <2>2. IsTour(t) /\ IsLeftOf(l, t) /\ l # {} /\ p = First(l) /\ k \in SUBSET t /\ p \in k
    BY <1>2, <2>1
  <2>3. /\ At(k, p) = Cardinality(k \ l)
        /\ Cardinality(k \ (l \ {p})) = Cardinality(k \ l) + 1
        /\ k \ (l \ {p}) = (k \ l) \cup {p}
    <3>1. \A class \in SUBSET t : GoesOnIn(class, l, p)
      BY <2>2, NextPlace
    <3>2. GoesOnIn(k, l, p)
      BY <2>2, <3>1
    <3> QED BY <2>2, <3>2 DEF GoesOnIn
  <2>4. next[d] = l \ {p}
    BY <1>1, <2>1
  <2> QED BY <2>1, <2>3, <2>4
<1>4. /\ IsText(text)
      /\ Len(text) = Cardinality(K["block"] \ left["block"]) + Cardinality(K["biome"] \ left["biome"])
      /\ \A x \in Domains : \A q \in K[x] \ left[x] :
           text[Base(K, x) + At(K[x], q) + 1] = [kind |-> kind, value |-> value[x][q]]
  BY DEF Tells
<1>5. PICK v : v = value[d][p] /\ IsLonger(longer, text, kind, v)
  OBVIOUS
<1>6. PICK one : one = Fields(kind, <<v>>) /\ longer = text \o one
  BY <1>5 DEF IsLonger
<1>7. /\ IsText(longer) /\ Len(longer) = Len(text) + 1
      /\ \A i \in 1..Len(text) : longer[i] = text[i]
      /\ longer[Len(text) + 1] = [kind |-> kind, value |-> v]
  <2>1. IsText(text)
    BY <1>4
  <2>2. IsText(longer) /\ OneMore(text, longer, kind, v)
    BY <1>6, <2>1, JoinOfOne
  <2> QED BY <2>2 DEF OneMore
<1>8. \A x \in Domains :
        /\ Cardinality(K[x]) \in Nat /\ Cardinality(K[x] \ left[x]) \in Nat
        /\ Base(K, x) \in Nat
        /\ \A q \in K[x] : At(K[x], q) \in Nat
        /\ \A q \in K[x] \ left[x] : At(K[x], q) < Cardinality(K[x] \ left[x])
  <2>1. \A x \in Domains :
        /\ Cardinality(K[x]) \in Nat /\ Cardinality(K[x] \ left[x]) \in Nat
        /\ \A q \in K[x] : At(K[x], q) \in 0..(Cardinality(K[x]) - 1)
        /\ \A q \in K[x] \ left[x] : At(K[x], q) < Cardinality(K[x] \ left[x])
    BY DoneOf
  <2>2. \A x \in Domains : Base(K, x) \in Nat
    <3>1. "block" \in Domains
      BY DEF Domains
    <3>2. Cardinality(K["block"]) \in Nat
      BY <2>1, <3>1
    <3> QED BY <3>2 DEF Base
  <2> TAKE x \in Domains
  <2>3. PICK c, k, e : c = Cardinality(K[x]) /\ k = K[x] /\ e = Cardinality(K[x] \ left[x])
    OBVIOUS
  <2>4. c \in Nat /\ \A q \in k : At(k, q) \in 0..(c - 1)
    BY <2>1, <2>3
  <2>5. \A q \in k : At(k, q) \in Nat
    BY <2>4
  <2>6. e \in Nat /\ \A q \in k \ left[x] : At(k, q) < e
    BY <2>1, <2>3
  <2> QED BY <2>2, <2>3, <2>4, <2>5, <2>6
<1>9. /\ left["block"] = {} => K["block"] \ left["block"] = K["block"]
      /\ left["block"] # {} => K["biome"] \ left["biome"] = {}
  <2>1. left["block"] # {} => left["biome"] = Tour(r, "biome")
    BY DEF AreLeft
  <2>2. K["biome"] \subseteq Tour(r, "biome")
    BY DEF AreOfTours, Domains
  <2> QED BY <2>1, <2>2
<1>0. /\ "block" \in Domains /\ "biome" \in Domains
      /\ \A x \in Domains : x = "block" \/ x = "biome"
  BY DEF Domains
<1>10. PICK size, done, after :
         /\ size = [x \in Domains |-> Cardinality(K[x])]
         /\ done = [x \in Domains |-> Cardinality(K[x] \ left[x])]
         /\ after = [x \in Domains |-> Cardinality(K[x] \ next[x])]
  OBVIOUS
<1>11. /\ size["block"] \in Nat /\ done["block"] \in Nat /\ done["biome"] \in Nat
       /\ Len(text) = done["block"] + done["biome"]
       /\ after["block"] + after["biome"]
            = Cardinality(K["block"] \ next["block"]) + Cardinality(K["biome"] \ next["biome"])
  BY <1>0, <1>4, <1>8, <1>10
<1>12. \A x \in Domains : \A q \in K[x] \ left[x] : At(K[x], q) \in Nat /\ At(K[x], q) < done[x]
  BY <1>8, <1>10
<1>13. At(K[d], p) = done[d] /\ after[d] = done[d] + 1
  BY <1>1, <1>3, <1>10
<1>14. \A x \in Domains : x # d => after[x] = done[x]
  BY <1>1, <1>10
<1>15. /\ left["block"] = {} => done["block"] = size["block"]
       /\ left["block"] # {} => done["biome"] = 0
  <2>1. Cardinality({}) = 0
    BY FS_EmptySet
  <2> QED BY <1>0, <1>9, <1>10, <2>1
<1>16. /\ d = "biome" => left["block"] = {}
       /\ d = "block" => left["block"] # {}
  BY <1>2 DEF IsNext
<1>17. Base(K, "block") = 0 /\ Base(K, "biome") = size["block"]
  BY <1>0, <1>10 DEF Base
<1>18. Len(text) = Base(K, d) + At(K[d], p)
  <2>1. CASE d = "block"
    BY <1>11, <1>13, <1>15, <1>16, <1>17, <2>1
  <2>2. CASE d = "biome"
    BY <1>11, <1>13, <1>15, <1>16, <1>17, <2>2
  <2> QED BY <1>0, <1>1, <2>1, <2>2
<1>19. Len(longer) = Cardinality(K["block"] \ next["block"]) + Cardinality(K["biome"] \ next["biome"])
  <2>1. CASE d = "block"
    <3>1. after["biome"] = done["biome"] /\ after["block"] = done["block"] + 1
      BY <1>0, <1>13, <1>14, <2>1
    <3>2. Len(longer) = Len(text) + 1
      BY <1>7
    <3>3. Len(longer) = after["block"] + after["biome"]
      BY ONLY <1>11, <3>1, <3>2
    <3> QED BY ONLY <1>11, <3>3
  <2>2. CASE d = "biome"
    <3>1. after["block"] = done["block"] /\ after["biome"] = done["biome"] + 1
      BY <1>0, <1>13, <1>14, <2>2
    <3>2. Len(longer) = Len(text) + 1
      BY <1>7
    <3>3. Len(longer) = after["block"] + after["biome"]
      BY ONLY <1>11, <3>1, <3>2
    <3> QED BY ONLY <1>11, <3>3
  <2> QED BY <1>0, <1>1, <2>1, <2>2
<1>20. ASSUME NEW x \in Domains, NEW q \in K[x] \ left[x]
       PROVE  longer[Base(K, x) + At(K[x], q) + 1] = [kind |-> kind, value |-> value[x][q]]
  <2>0. PICK at : at = At(K[x], q)
    OBVIOUS
  <2>1. at \in Nat /\ at < done[x]
    BY <1>12, <2>0
  <2>2. Base(K, x) + at + 1 \in 1..Len(text)
    <3>1. CASE x = "block"
      BY <1>11, <1>17, <2>1, <3>1
    <3>2. CASE x = "biome"
      <4>1. left["block"] = {}
        BY <1>9, <3>2
      <4> QED BY <1>11, <1>15, <1>17, <2>1, <3>2, <4>1
    <3> QED BY <1>0, <3>1, <3>2
  <2>3. text[Base(K, x) + at + 1] = [kind |-> kind, value |-> value[x][q]]
    BY <1>4, <2>0
  <2> QED BY <1>7, <2>0, <2>2, <2>3
<1>21. longer[Base(K, d) + At(K[d], p) + 1] = [kind |-> kind, value |-> value[d][p]]
  BY <1>5, <1>7, <1>18
<1>22. \A x \in Domains : \A q \in K[x] \ next[x] : q \in K[x] \ left[x] \/ (x = d /\ q = p)
  BY <1>1, <1>3
<1>23. \A x \in Domains : \A q \in K[x] \ next[x] :
         longer[Base(K, x) + At(K[x], q) + 1] = [kind |-> kind, value |-> value[x][q]]
  BY <1>20, <1>21, <1>22
<1> QED BY <1>7, <1>19, <1>23 DEF Tells

(* The next place is not of the class. *)
LEMMA TellsNoMore ==
  ASSUME NEW r \in Regions, NEW left, NEW next, NEW d, NEW p,
         AreLeft(left, r), IsNext(left, next, d, p),
         NEW K, AreOfTours(K, r), p \notin K[d],
         NEW text, NEW kind, NEW value, Tells(text, kind, K, value, left)
  PROVE  Tells(text, kind, K, value, next)
<1>1. /\ d \in Domains
      /\ next[d] = left[d] \ {p}
      /\ \A x \in Domains : x # d => next[x] = left[x]
  BY NextLeft
<1>2. \A x \in Domains : K[x] \ next[x] = K[x] \ left[x]
  <2> TAKE x \in Domains
  <2>1. CASE x = d
    BY <1>1, <2>1
  <2>2. CASE x # d
    BY <1>1, <2>2
  <2> QED BY <2>1, <2>2
<1>3. "block" \in Domains /\ "biome" \in Domains
  BY DEF Domains
<1> QED BY <1>2, <1>3 DEF Tells

(* Before the first place there is nothing. *)
LEMMA TellsNothing ==
  ASSUME NEW left, NEW K, NEW kind, NEW value,
         \A d \in Domains : K[d] \subseteq left[d]
  PROVE  Tells(<<>>, kind, K, value, left)
<1>1. \A d \in Domains : K[d] \ left[d] = {}
  OBVIOUS
<1>2. Cardinality({}) = 0
  BY FS_EmptySet
<1>3. IsText(<<>>) /\ Len(<<>>) = 0
  BY EmptySeq DEF IsText
<1>4. Cardinality(K["block"] \ left["block"]) = 0 /\ Cardinality(K["biome"] \ left["biome"]) = 0
  <2>1. "block" \in Domains /\ "biome" \in Domains
    BY DEF Domains
  <2> QED BY <1>1, <1>2, <2>1
<1>5. Len(<<>>) = Cardinality(K["block"] \ left["block"]) + Cardinality(K["biome"] \ left["biome"])
  BY <1>3, <1>4
<1> QED BY <1>1, <1>3, <1>5 DEF Tells

(* What is left of a class is all that matters. *)
LEMMA TellsTheSame ==
  ASSUME NEW left, NEW other, NEW K, NEW kind, NEW value, NEW text,
         \A d \in Domains : K[d] \ left[d] = K[d] \ other[d],
         Tells(text, kind, K, value, left)
  PROVE  Tells(text, kind, K, value, other)
<1>1. "block" \in Domains /\ "biome" \in Domains
  BY DEF Domains
<1> QED BY <1>1 DEF Tells

-----------------------------------------------------------------------------
(* Palettes                                                                *)

(* The values of the cells of a snapshot. *)
LEMMA DistinctType ==
  ASSUME NEW d \in Domains, NEW values \in [CellsOf(d) -> Nat]
  PROVE  /\ Distinct(values) \subseteq Nat /\ IsFiniteSet(Distinct(values))
         /\ Cardinality(Distinct(values)) \in Nat \ {0}
         /\ Cardinality(Distinct(values)) <= Cardinality(CellsOf(d))
         /\ \A c \in CellsOf(d) : values[c] \in Distinct(values)
         /\ \A x : Frequency(values, x) \in Nat
<1>1. IsFiniteSet(CellsOf(d)) /\ CellsOf(d) # {} /\ DOMAIN values = CellsOf(d)
  BY ParametersOK
<1>2. Distinct(values) \subseteq Nat /\ \A c \in CellsOf(d) : values[c] \in Distinct(values)
  BY <1>1 DEF Distinct
<1>3. values \in Surjection(CellsOf(d), Distinct(values))
  <2>1. values \in [CellsOf(d) -> Distinct(values)]
    BY <1>2
  <2>2. \A x \in Distinct(values) : \E c \in CellsOf(d) : values[c] = x
    BY <1>1 DEF Distinct
  <2> QED BY <2>1, <2>2 DEF Surjection
<1>4. IsFiniteSet(Distinct(values)) /\ Cardinality(Distinct(values)) <= Cardinality(CellsOf(d))
  BY <1>1, <1>3, FS_Surjection
<1>5. Distinct(values) # {}
  BY <1>1, <1>2
<1>6. Cardinality(Distinct(values)) \in Nat \ {0}
  BY <1>4, <1>5, FS_CardinalityType, FS_EmptySet
<1>7. \A x : Frequency(values, x) \in Nat
  <2> TAKE x
  <2>1. {c \in DOMAIN values : values[c] = x} \in SUBSET CellsOf(d)
    BY <1>1
  <2>2. IsFiniteSet({c \in DOMAIN values : values[c] = x})
    BY <1>1, <2>1, FS_Subset
  <2> QED BY <2>2, FS_CardinalityType DEF Frequency
<1> QED BY <1>2, <1>4, <1>6, <1>7

(* The values by their frequency. *)
LEMMA RankedValues ==
  ASSUME NEW d \in Domains, NEW values \in [CellsOf(d) -> Nat], NEW ranked, ranked = Ranked(values)
  PROVE  /\ IsText(ranked) /\ Len(ranked) = Cardinality(Distinct(values))
         /\ \A x \in Distinct(values) : /\ RankOf(values, x) + 1 \in 1..Len(ranked)
                                        /\ RankOf(values, x) \in Nat
                                        /\ ranked[RankOf(values, x) + 1] = x
         /\ \A k \in 1..Len(ranked) : ranked[k] \in Distinct(values)
<1> DEFINE S == Distinct(values)
           R == {pair \in Nat \X Nat : Precedes(values, pair[1], pair[2])}
           c == Cardinality(S)
<1>1. S \subseteq Nat /\ IsFiniteSet(S) /\ \A x : Frequency(values, x) \in Nat
  BY DistinctType
<1>2. \A p, q \in Nat : <<p, q>> \in R <=> Precedes(values, p, q)
  OBVIOUS
<1> HIDE DEF R, S
<1>3. Orders(R, S)
  <2>1. \A x \in S : <<x, x>> \notin R
    <3>1. \A x \in Nat : ~Precedes(values, x, x)
      BY <1>1 DEF Precedes
    <3> QED BY <1>1, <1>2, <3>1
  <2>2. \A x, y, z \in S : <<x, y>> \in R /\ <<y, z>> \in R => <<x, z>> \in R
    <3>1. \A x, y, z \in Nat : Precedes(values, x, y) /\ Precedes(values, y, z) => Precedes(values, x, z)
      BY <1>1 DEF Precedes
    <3> QED BY <1>1, <1>2, <3>1
  <2>3. \A x, y \in S : x # y => <<x, y>> \in R \/ <<y, x>> \in R
    <3>1. \A x, y \in Nat : x # y => Precedes(values, x, y) \/ Precedes(values, y, x)
      BY <1>1 DEF Precedes
    <3> QED BY <1>1, <1>2, <3>1
  <2> QED BY <2>1, <2>2, <2>3 DEF Orders
<1>4. \A x \in S : Rank(R, S, x) = RankOf(values, x)
  <2> TAKE x \in S
  <2>1. {y \in S : <<y, x>> \in R} = {y \in Distinct(values) : Precedes(values, y, x)}
    BY <1>1, <1>2 DEF S
  <2> QED BY <2>1 DEF Rank, RankOf
<1>5. /\ Cardinality(S) \in Nat
      /\ \A x \in S : Rank(R, S, x) \in 0..(Cardinality(S) - 1)
      /\ \A x, y \in S : Rank(R, S, x) = Rank(R, S, y) => x = y
      /\ \A k \in 0..(Cardinality(S) - 1) : \E x \in S : Rank(R, S, x) = k
  <2>1. IsFiniteSet(S)
    BY <1>1
  <2> QED BY ONLY <1>3, <2>1, RanksAreDistinct
<1>6. /\ c \in Nat
      /\ \A x \in S : RankOf(values, x) \in 0..(c - 1)
      /\ \A x, y \in S : RankOf(values, x) = RankOf(values, y) => x = y
      /\ \A k \in 0..(c - 1) : \E x \in S : RankOf(values, x) = k
  BY <1>4, <1>5
<1>7. ranked = [k \in 1..c |-> CHOOSE x \in S : RankOf(values, x) = k - 1]
  BY DEF Ranked, S
<1>8. c = Cardinality(Distinct(values))
  BY DEF S
<1> HIDE DEF c
<1>9. ASSUME NEW k \in 1..c
      PROVE  ranked[k] \in S /\ RankOf(values, ranked[k]) = k - 1
  <2>1. k - 1 \in 0..(c - 1)
    BY <1>6
  <2>2. \E x \in S : RankOf(values, x) = k - 1
    BY <1>6, <2>1
  <2>3. ranked[k] = CHOOSE x \in S : RankOf(values, x) = k - 1
    BY <1>7
  <2> QED BY <2>2, <2>3
<1>10. ASSUME NEW x \in S
       PROVE  RankOf(values, x) + 1 \in 1..c /\ RankOf(values, x) \in Nat /\ ranked[RankOf(values, x) + 1] = x
  <2>1. PICK k \in 1..c : k = RankOf(values, x) + 1 /\ k - 1 = RankOf(values, x)
    BY <1>6
  <2> QED BY <1>6, <1>9, <2>1
<1>11. ranked = [k \in 1..c |-> ranked[k]]
  BY <1>7
<1>12. IsText(ranked) /\ Len(ranked) = c
  BY <1>6, <1>11, FunctionIsText
<1>13. \A x : x \in S <=> x \in Distinct(values)
  BY DEF S
<1> QED BY <1>8, <1>9, <1>10, <1>12, <1>13

LocalOf(pal, snapshot) ==
  IF IsDirect(snapshot)
  THEN <<>>
  ELSE LET ranked == Ranked(snapshot.values)
       IN  [k \in DOMAIN ranked |-> IndexIn(pal, AtomOf(snapshot, ranked[k]))]

(* A palette that has the atoms of a snapshot *)
HasAtoms(pal, snapshot) ==
  IsText(pal) /\ \A atom \in MarkedAtoms(snapshot) : \E i \in 1..Len(pal) : pal[i] = atom

(* The index of an atom leads to it. *)
LEMMA IndexOfAtom ==
  ASSUME NEW pal, IsText(pal), NEW atom, \E i \in 1..Len(pal) : pal[i] = atom
  PROVE  /\ IndexIn(pal, atom) \in Nat /\ IndexIn(pal, atom) < Len(pal)
         /\ pal[IndexIn(pal, atom) + 1] = atom
<1> DEFINE i == CHOOSE i \in DOMAIN pal : pal[i] = atom
<1>1. Len(pal) \in Nat /\ DOMAIN pal = 1..Len(pal)
  BY TextType
<1>2. i \in DOMAIN pal /\ pal[i] = atom
  BY <1>1
<1>3. IndexIn(pal, atom) = i - 1
  BY DEF IndexIn
<1> HIDE DEF i
<1>4. i - 1 \in Nat /\ i - 1 < Len(pal) /\ (i - 1) + 1 = i
  BY <1>1, <1>2
<1> QED BY <1>2, <1>3, <1>4

(* The parts of a paletted snapshot *)
LEMMA PalettedType ==
  ASSUME NEW d \in Domains, NEW snapshot \in PalettedSnapshots(d)
  PROVE  /\ snapshot.kind = "paletted"
         /\ snapshot.values \in [CellsOf(d) -> Nat]
         /\ DOMAIN snapshot.values = CellsOf(d)
         /\ IsText(snapshot.palette) /\ Len(snapshot.palette) \in Nat
         /\ DOMAIN snapshot.palette = 1..Len(snapshot.palette)
         /\ Len(snapshot.palette) <= MAX_INDIRECT_PALETTE_SIZE
         /\ \/ snapshot.palette = <<>>
            \/ \A c \in CellsOf(d) : snapshot.values[c] < Len(snapshot.palette)
         /\ \A value \in Distinct(snapshot.values) : AtomOf(snapshot, value) \in MarkedAtoms(snapshot)
         /\ MarkedAtoms(snapshot) \subseteq Nat /\ IsFiniteSet(MarkedAtoms(snapshot))
<1>1. /\ snapshot.kind = "paletted"
      /\ snapshot.values \in [CellsOf(d) -> Nat]
      /\ snapshot.palette \in Seq(Nat)
      /\ Len(snapshot.palette) <= MAX_INDIRECT_PALETTE_SIZE
      /\ \/ snapshot.palette = <<>>
         \/ \A c \in CellsOf(d) : snapshot.values[c] < Len(snapshot.palette)
  BY DEF PalettedSnapshots
<1>2. PICK values, pal : values = snapshot.values /\ pal = snapshot.palette
  OBVIOUS
<1>3. /\ pal \in Seq(Nat) /\ values \in [CellsOf(d) -> Nat] /\ DOMAIN values = CellsOf(d)
      /\ \/ pal = <<>>
         \/ \A c \in CellsOf(d) : values[c] < Len(pal)
  BY <1>1, <1>2
<1>4. IsText(pal) /\ Len(pal) \in Nat /\ DOMAIN pal = 1..Len(pal)
  BY <1>3, TextType DEF IsText
<1>5. MarkedAtoms(snapshot) = IF pal = <<>> THEN {values[c] : c \in CellsOf(d)} ELSE {pal[i] : i \in 1..Len(pal)}
  BY <1>2, <1>3, <1>4 DEF MarkedAtoms
<1>6. Distinct(values) = {values[c] : c \in CellsOf(d)}
  BY <1>3 DEF Distinct
<1>7. ASSUME NEW value \in Distinct(values)
      PROVE  AtomOf(snapshot, value) \in MarkedAtoms(snapshot)
  <2>1. PICK c \in CellsOf(d) : value = values[c]
    BY <1>6
  <2>2. CASE pal = <<>>
    BY <1>2, <1>5, <1>6, <2>2 DEF AtomOf
  <2>3. CASE pal # <<>>
    <3>1. value \in Nat /\ value < Len(pal)
      BY <1>3, <2>1, <2>3
    <3>2. value + 1 \in 1..Len(pal)
      BY <1>4, <3>1
    <3>3. AtomOf(snapshot, value) = pal[value + 1]
      BY <1>2, <2>3 DEF AtomOf
    <3> QED BY <1>5, <2>3, <3>2, <3>3
  <2> QED BY <2>2, <2>3
<1>8. IsFiniteSet(MarkedAtoms(snapshot)) /\ MarkedAtoms(snapshot) \subseteq Nat
  <2>1. CASE pal = <<>>
    <3>1. MarkedAtoms(snapshot) = Distinct(values)
      BY <1>5, <1>6, <2>1
    <3> QED BY <1>3, <3>1, DistinctType
  <2>2. CASE pal # <<>>
    <3> DEFINE T == {pal[i] : i \in 1..Len(pal)}
    <3>1. MarkedAtoms(snapshot) = T
      BY <1>5, <2>2
    <3>2. T \subseteq Nat
      BY <1>3
    <3>3. pal \in [1..Len(pal) -> T]
      <4>1. pal \in [1..Len(pal) -> Nat]
        BY <1>3, LenProperties
      <4> QED BY <4>1
    <3>4. \A x \in T : \E i \in 1..Len(pal) : pal[i] = x
      OBVIOUS
    <3> HIDE DEF T
    <3>5. pal \in Surjection(1..Len(pal), T)
      BY <3>3, <3>4 DEF Surjection
    <3>6. IsFiniteSet(1..Len(pal))
      BY <1>4, FS_Interval
    <3>7. IsFiniteSet(T)
      BY <3>5, <3>6, FS_Surjection
    <3> QED BY <3>1, <3>2, <3>7
  <2> QED BY <2>1, <2>2
<1> QED BY <1>1, <1>2, <1>3, <1>4, <1>7, <1>8

(* What a local palette is. *)
LEMMA LocalType ==
  ASSUME NEW d \in Domains, NEW snapshot \in PalettedSnapshots(d),
         NEW pal, HasAtoms(pal, snapshot), NEW local, local = LocalOf(pal, snapshot)
  PROVE  /\ IsText(local) /\ Len(local) \in Nat /\ DOMAIN local = 1..Len(local)
         /\ Len(local) = IF IsDirect(snapshot) THEN 0 ELSE Cardinality(Distinct(snapshot.values))
         /\ \A k \in 1..Len(local) : local[k] \in Nat /\ local[k] < Len(pal)
         /\ ~IsDirect(snapshot) =>
              \A x \in Distinct(snapshot.values) :
                /\ RankOf(snapshot.values, x) + 1 \in 1..Len(local)
                /\ pal[local[RankOf(snapshot.values, x) + 1] + 1] = AtomOf(snapshot, x)
<1>1. PICK values : values = snapshot.values /\ values \in [CellsOf(d) -> Nat]
  BY PalettedType
<1>2. PICK ranked : ranked = Ranked(values)
  OBVIOUS
<1>3. /\ IsText(ranked) /\ Len(ranked) = Cardinality(Distinct(values))
      /\ \A x \in Distinct(values) : /\ RankOf(values, x) + 1 \in 1..Len(ranked)
                                     /\ ranked[RankOf(values, x) + 1] = x
      /\ \A k \in 1..Len(ranked) : ranked[k] \in Distinct(values)
  BY <1>1, <1>2, RankedValues
<1>4. Len(ranked) \in Nat /\ DOMAIN ranked = 1..Len(ranked)
  BY <1>3, TextType
<1>5. CASE IsDirect(snapshot)
  <2>1. local = <<>>
    BY <1>5 DEF LocalOf
  <2>2. IsText(local) /\ Len(local) = 0
    BY <2>1, EmptySeq DEF IsText
  <2>3. DOMAIN local = 1..Len(local) /\ Len(local) \in Nat
    BY <2>2, TextType
  <2> QED BY <1>5, <2>2, <2>3
<1>6. CASE ~IsDirect(snapshot)
  <2>1. local = [k \in 1..Len(ranked) |-> IndexIn(pal, AtomOf(snapshot, ranked[k]))]
    BY <1>1, <1>2, <1>4, <1>6 DEF LocalOf
  <2>2. local = [k \in 1..Len(ranked) |-> local[k]]
    BY <2>1
  <2>3. IsText(local) /\ Len(local) = Len(ranked) /\ DOMAIN local = 1..Len(ranked)
    BY <1>4, <2>2, FunctionIsText
  <2>4. ASSUME NEW k \in 1..Len(ranked)
        PROVE  /\ local[k] \in Nat /\ local[k] < Len(pal)
               /\ pal[local[k] + 1] = AtomOf(snapshot, ranked[k])
    <3>1. AtomOf(snapshot, ranked[k]) \in MarkedAtoms(snapshot)
      BY <1>1, <1>3, PalettedType
    <3>2. PICK atom : atom = AtomOf(snapshot, ranked[k])
      OBVIOUS
    <3>3. IsText(pal) /\ \E i \in 1..Len(pal) : pal[i] = atom
      BY <3>1, <3>2 DEF HasAtoms
    <3>4. /\ IndexIn(pal, atom) \in Nat /\ IndexIn(pal, atom) < Len(pal)
          /\ pal[IndexIn(pal, atom) + 1] = atom
      BY <3>3, IndexOfAtom
    <3>5. local[k] = IndexIn(pal, atom)
      BY <2>1, <3>2
    <3> QED BY <3>2, <3>4, <3>5
  <2>5. ASSUME NEW x \in Distinct(values)
        PROVE  /\ RankOf(values, x) + 1 \in 1..Len(local)
               /\ pal[local[RankOf(values, x) + 1] + 1] = AtomOf(snapshot, x)
    <3>1. PICK k \in 1..Len(ranked) : k = RankOf(values, x) + 1 /\ ranked[k] = x
      BY <1>3
    <3>2. pal[local[k] + 1] = AtomOf(snapshot, ranked[k])
      BY <2>4
    <3> QED BY <2>3, <3>1, <3>2
  <2> QED BY <1>1, <1>3, <1>4, <1>6, <2>3, <2>4, <2>5
<1> QED BY <1>5, <1>6

(* A direct snapshot has no palette. *)
LEMMA DirectHasNone ==
  ASSUME NEW d \in Domains, NEW snapshot \in PalettedSnapshots(d), IsDirect(snapshot)
  PROVE  snapshot.palette = <<>> /\ d = "block"
<1>1. PICK values, pal : values = snapshot.values /\ pal = snapshot.palette
  OBVIOUS
<1>2. /\ values \in [CellsOf(d) -> Nat] /\ DOMAIN values = CellsOf(d) /\ Len(pal) \in Nat
      /\ Len(pal) <= MAX_INDIRECT_PALETTE_SIZE
      /\ pal = <<>> \/ \A c \in CellsOf(d) : values[c] < Len(pal)
  BY <1>1, PalettedType
<1>3. /\ Cardinality(Distinct(values)) > MAX_INDIRECT_PALETTE_SIZE
      /\ Cardinality(Distinct(values)) \in Nat /\ Cardinality(Distinct(values)) <= Cardinality(CellsOf(d))
      /\ MAX_INDIRECT_PALETTE_SIZE \in Nat
  BY <1>1, <1>2, DistinctType, Parameters DEF IsDirect
<1>4. pal = <<>>
  <2>1. SUFFICES ASSUME \A c \in CellsOf(d) : values[c] < Len(pal) PROVE FALSE
    BY <1>2
  <2>2. Distinct(values) \in SUBSET (0..(Len(pal) - 1))
    BY <1>2, <2>1 DEF Distinct
  <2>3. IsFiniteSet(0..(Len(pal) - 1)) /\ Cardinality(0..(Len(pal) - 1)) = Len(pal)
    BY <1>2, FS_Interval
  <2>4. Cardinality(Distinct(values)) <= Len(pal)
    BY <2>2, <2>3, FS_Subset
  <2> QED BY <1>2, <1>3, <2>4
<1>5. d # "biome"
  <2>1. SUFFICES ASSUME d = "biome" PROVE FALSE
    OBVIOUS
  <2>2. CellsOf(d) = BiomeCells
    BY <2>1 DEF CellsOf
  <2>3. Cardinality(BiomeCells) <= MAX_INDIRECT_PALETTE_SIZE /\ Cardinality(BiomeCells) \in Nat
    <3>1. IsFiniteSet(BiomeCells)
      BY <2>2, ParametersOK
    <3> QED BY <3>1, FS_CardinalityType, ParametersOK
  <2> QED BY <1>3, <2>2, <2>3
<1> QED BY <1>1, <1>4, <1>5 DEF Domains

(* The palette resolved and the packed cells are those of the snapshot.    *)
LEMMA SnapshotRestored ==
  ASSUME NEW d \in Domains, NEW snapshot \in PalettedSnapshots(d),
         NEW pal, HasAtoms(pal, snapshot), NEW local, local = LocalOf(pal, snapshot),
         NEW back, back.kind = "paletted",
         back.palette = [i \in DOMAIN local |-> pal[local[i] + 1]],
         back.values = PackedCells(snapshot)
  PROVE  Unpacked(d, back) = Unpacked(d, snapshot)
<1>1. PICK values : /\ values = snapshot.values /\ values \in [CellsOf(d) -> Nat]
                    /\ DOMAIN values = CellsOf(d)
  BY PalettedType
<1>2. /\ IsText(local) /\ Len(local) \in Nat /\ DOMAIN local = 1..Len(local)
      /\ Len(local) = IF IsDirect(snapshot) THEN 0 ELSE Cardinality(Distinct(values))
      /\ ~IsDirect(snapshot) =>
           \A x \in Distinct(values) :
             /\ RankOf(values, x) + 1 \in 1..Len(local)
             /\ pal[local[RankOf(values, x) + 1] + 1] = AtomOf(snapshot, x)
  BY <1>1, LocalType
<1>3. PICK resolved : resolved = back.palette /\ resolved = [i \in 1..Len(local) |-> pal[local[i] + 1]]
  BY <1>2
<1>4. resolved = [i \in 1..Len(local) |-> resolved[i]]
  BY <1>3
<1>5. IsText(resolved) /\ Len(resolved) = Len(local)
  BY <1>2, <1>4, FunctionIsText
<1>6. /\ \A c \in CellsOf(d) : values[c] \in Distinct(values)
      /\ Cardinality(Distinct(values)) \in Nat \ {0}
  BY <1>1, DistinctType
<1>7. ASSUME NEW c \in CellsOf(d)
      PROVE  AtomOf(back, back.values[c]) = AtomOf(snapshot, values[c])
  <2>1. CASE IsDirect(snapshot)
    <3>1. snapshot.palette = <<>>
      BY <2>1, DirectHasNone
    <3>2. resolved = <<>>
      <4>1. PICK S : resolved \in Seq(S)
        BY <1>5 DEF IsText
      <4>2. Len(resolved) = 0
        BY <1>2, <1>5, <2>1
      <4> QED BY <4>1, <4>2, EmptySeq
    <3>3. back.values[c] = values[c]
      BY <1>1, <2>1 DEF PackedCells
    <3> QED BY <1>3, <3>1, <3>2, <3>3 DEF AtomOf
  <2>2. CASE ~IsDirect(snapshot)
    <3>1. resolved # <<>>
      <4>1. Len(resolved) # 0
        BY <1>2, <1>5, <1>6, <2>2
      <4> QED BY <4>1, EmptySeq
    <3>2. PICK x, k : x = values[c] /\ k = RankOf(values, x)
      OBVIOUS
    <3>3. back.values[c] = k
      BY <1>1, <2>2, <3>2 DEF PackedCells
    <3>4. x \in Distinct(values)
      BY <1>6, <3>2
    <3>5. k + 1 \in 1..Len(local) /\ pal[local[k + 1] + 1] = AtomOf(snapshot, x)
      BY <1>2, <2>2, <3>2, <3>4
    <3>6. resolved[k + 1] = AtomOf(snapshot, x)
      BY <1>3, <3>5
    <3> QED BY <1>3, <3>1, <3>2, <3>3, <3>6 DEF AtomOf
  <2> QED BY <2>1, <2>2
<1>8. snapshot.kind # "single" /\ back.kind # "single"
  BY PalettedType
<1>9. Unpacked(d, back) = [c \in CellsOf(d) |-> AtomOf(back, back.values[c])]
  BY <1>8 DEF Unpacked
<1>10. Unpacked(d, snapshot) = [c \in CellsOf(d) |-> AtomOf(snapshot, values[c])]
  BY <1>1, <1>8 DEF Unpacked
<1> QED BY <1>7, <1>9, <1>10

(* The contents of a snapshot *)
LEMMA UnpackedType ==
  ASSUME NEW d \in Domains, NEW snapshot \in Snapshots(d)
  PROVE  Unpacked(d, snapshot) \in [CellsOf(d) -> Nat]
<1>1. CASE snapshot \in SingleSnapshots
  BY <1>1 DEF Unpacked, SingleSnapshots
<1>2. CASE snapshot \in PalettedSnapshots(d)
  <2>1. snapshot.values \in [CellsOf(d) -> Nat] /\ snapshot.kind # "single"
    BY <1>2, PalettedType
  <2>2. ASSUME NEW c \in CellsOf(d) PROVE AtomOf(snapshot, snapshot.values[c]) \in Nat
    <3>1. snapshot.values[c] \in Distinct(snapshot.values)
      BY <2>1, DistinctType
    <3> QED BY <1>2, <3>1, PalettedType
  <2>3. Unpacked(d, snapshot) = [c \in CellsOf(d) |-> AtomOf(snapshot, snapshot.values[c])]
    BY <2>1 DEF Unpacked
  <2> QED BY <2>2, <2>3
<1> QED BY <1>1, <1>2 DEF Snapshots

(* A grid that is packed again is that of the snapshot. *)
LEMMA GridRestored ==
  ASSUME NEW d \in Domains, NEW grid \in [CellsOf(d) -> Nat], NEW timestamp,
         NEW back, back = Repacked(grid, timestamp)
  PROVE  Unpacked(d, back) = grid /\ back.timestamp = timestamp
<1>1. PICK ranked : ranked = Ranked(grid)
  OBVIOUS
<1>2. /\ IsText(ranked) /\ Len(ranked) = Cardinality(Distinct(grid))
      /\ \A x \in Distinct(grid) : /\ RankOf(grid, x) + 1 \in 1..Len(ranked)
                                   /\ RankOf(grid, x) \in Nat
                                   /\ ranked[RankOf(grid, x) + 1] = x
      /\ \A k \in 1..Len(ranked) : ranked[k] \in Distinct(grid)
  BY <1>1, RankedValues
<1>3. /\ \A c \in CellsOf(d) : grid[c] \in Distinct(grid)
      /\ Cardinality(Distinct(grid)) \in Nat \ {0} /\ IsFiniteSet(Distinct(grid))
      /\ DOMAIN grid = CellsOf(d)
  BY DistinctType
<1>4. CASE Cardinality(Distinct(grid)) = 1
  <2>1. back = [kind |-> "single", timestamp |-> timestamp, atom |-> ranked[1]]
    BY <1>1, <1>4 DEF Repacked
  <2>2. PICK x : Distinct(grid) = {x}
    BY <1>3, <1>4, FS_Singleton
  <2>3. ranked[1] = x
    BY <1>2, <1>4, <2>2
  <2>4. \A c \in CellsOf(d) : grid[c] = x
    BY <1>3, <2>2
  <2>5. back.kind = "single" /\ back.timestamp = timestamp /\ back.atom = x
    BY <2>1, <2>3
  <2>6. Unpacked(d, back) = [c \in CellsOf(d) |-> x]
    BY <2>5 DEF Unpacked
  <2> QED BY <2>4, <2>5, <2>6
<1>5. CASE Cardinality(Distinct(grid)) # 1 /\ Cardinality(Distinct(grid)) > MAX_INDIRECT_PALETTE_SIZE
  <2>1. back = [kind |-> "paletted", timestamp |-> timestamp, palette |-> <<>>, values |-> grid]
    BY <1>5 DEF Repacked
  <2>2. back.kind = "paletted" /\ back.timestamp = timestamp /\ back.palette = <<>> /\ back.values = grid
    BY <2>1
  <2>3. \A c \in CellsOf(d) : AtomOf(back, back.values[c]) = grid[c]
    BY <2>2 DEF AtomOf
  <2>4. Unpacked(d, back) = [c \in CellsOf(d) |-> AtomOf(back, back.values[c])]
    BY <2>2 DEF Unpacked
  <2> QED BY <2>2, <2>3, <2>4
<1>6. CASE Cardinality(Distinct(grid)) # 1 /\ ~(Cardinality(Distinct(grid)) > MAX_INDIRECT_PALETTE_SIZE)
  <2>1. PICK packed : packed = [c \in CellsOf(d) |-> RankOf(grid, grid[c])]
    OBVIOUS
  <2>2. back = [kind |-> "paletted", timestamp |-> timestamp, palette |-> ranked, values |-> packed]
    BY <1>1, <1>3, <1>6, <2>1 DEF Repacked
  <2>3. back.kind = "paletted" /\ back.timestamp = timestamp /\ back.palette = ranked /\ back.values = packed
    BY <2>2
  <2>4. ranked # <<>>
    <3>1. Len(ranked) # 0
      BY <1>2, <1>3
    <3> QED BY <3>1, EmptySeq
  <2>5. ASSUME NEW c \in CellsOf(d) PROVE AtomOf(back, back.values[c]) = grid[c]
    <3>1. PICK x, k : x = grid[c] /\ k = RankOf(grid, x)
      OBVIOUS
    <3>2. ranked[k + 1] = x /\ packed[c] = k
      BY <1>2, <1>3, <2>1, <3>1
    <3> QED BY <2>3, <2>4, <3>1, <3>2 DEF AtomOf
  <2>6. Unpacked(d, back) = [c \in CellsOf(d) |-> AtomOf(back, back.values[c])]
    BY <2>3 DEF Unpacked
  <2> QED BY <2>3, <2>5, <2>6
<1> QED BY <1>4, <1>5, <1>6

-----------------------------------------------------------------------------
(* What the writer writes of a region                                      *)

Tours(r) == [d \in Domains |-> Tour(r, d)]

OfKind(r, m, kind) ==
  [d \in Domains |-> {p \in Tour(r, d) : Snap(r, d, p).kind = kind /\ ~InModel(m, d, p)}]

Singles(r, m) == OfKind(r, m, "single")

Packs(r, m) == OfKind(r, m, "paletted")

Deltas(r) == [d \in Domains |-> {p \in Tour(r, d) : p.level > 0}]

PaletteOf(r, m, d) == Ascending(UNION {MarkedAtoms(Snap(r, d, p)) : p \in Packs(r, m)[d]})

LocalAt(r, m, d, p) == LocalOf(PaletteOf(r, m, d), Snap(r, d, p))

BucketAt(r, m, d, p) == Bucket(d, PaletteBpe(Len(LocalAt(r, m, d, p))))

InBucket(r, m, b) == [d \in Domains |-> {p \in Packs(r, m)[d] : BucketAt(r, m, d, p) = b}]

Stamps(r) == [d \in Domains |-> [p \in Tour(r, d) |-> Snap(r, d, p).timestamp]]

Atoms(r, m) == [d \in Domains |-> [p \in Singles(r, m)[d] |-> Snap(r, d, p).atom]]

LocalsOf(r, m) == [d \in Domains |-> [p \in Packs(r, m)[d] |-> LocalAt(r, m, d, p)]]

CellsPacked(r, m) == [d \in Domains |-> [p \in Packs(r, m)[d] |-> PackedCells(Snap(r, d, p))]]

Kinds(r) == [d \in Domains |-> [p \in Tour(r, d) |-> Snap(r, d, p).kind]]

(* They are all classes of the places visited. *)
LEMMA ClassTypes ==
  ASSUME NEW r \in Regions, NEW m \in BOOLEAN
  PROVE  /\ AreOfTours(Tours(r), r) /\ AreOfTours(Singles(r, m), r) /\ AreOfTours(Packs(r, m), r)
         /\ AreOfTours(Deltas(r), r)
         /\ \A b : AreOfTours(InBucket(r, m, b), r)
  BY DEF AreOfTours, Tours, Singles, Packs, OfKind, Deltas, InBucket

(* Every snapshot that is not in the model is in one of them. *)
LEMMA ClassesMeet ==
  ASSUME NEW r \in Regions, NEW m \in BOOLEAN, NEW d \in Domains, NEW p \in Tour(r, d)
  PROVE  /\ Snap(r, d, p).kind \in {"single", "paletted"}
         /\ p \in Tours(r)[d]
         /\ p \in Singles(r, m)[d] <=> Snap(r, d, p).kind = "single" /\ ~InModel(m, d, p)
         /\ p \in Packs(r, m)[d] <=> Snap(r, d, p).kind = "paletted" /\ ~InModel(m, d, p)
         /\ p \in Packs(r, m)[d] => Snap(r, d, p) \in PalettedSnapshots(d)
<1>1. Snap(r, d, p) \in Snapshots(d)
  BY TourType
<1>2. Snap(r, d, p).kind = "single" \/ (Snap(r, d, p).kind = "paletted" /\ Snap(r, d, p) \in PalettedSnapshots(d))
  <2>1. CASE Snap(r, d, p) \in SingleSnapshots
    BY <2>1 DEF SingleSnapshots
  <2>2. CASE Snap(r, d, p) \in PalettedSnapshots(d)
    BY <2>2, PalettedType
  <2> QED BY <1>1, <2>1, <2>2 DEF Snapshots
<1>3. /\ p \in Singles(r, m)[d] <=> Snap(r, d, p).kind = "single" /\ ~InModel(m, d, p)
      /\ p \in Packs(r, m)[d] <=> Snap(r, d, p).kind = "paletted" /\ ~InModel(m, d, p)
      /\ p \in Tours(r)[d]
  BY DEF Singles, Packs, OfKind, Tours
<1> QED BY <1>2, <1>3

(* A domain's palette has the atoms of all its paletted snapshots. *)
LEMMA PaletteHasAtoms ==
  ASSUME NEW r \in Regions, NEW m \in BOOLEAN, NEW d \in Domains, NEW p \in Packs(r, m)[d]
  PROVE  HasAtoms(PaletteOf(r, m, d), Snap(r, d, p)) /\ IsText(PaletteOf(r, m, d))
<1> DEFINE P == Packs(r, m)[d]
           marked == [q \in P |-> MarkedAtoms(Snap(r, d, q))]
           sets == {MarkedAtoms(Snap(r, d, q)) : q \in P}
           S == UNION sets
<1>1. P \subseteq Tour(r, d) /\ IsFiniteSet(P)
  <2>1. P \in SUBSET Tour(r, d)
    BY ClassTypes DEF AreOfTours
  <2>2. IsFiniteSet(Tour(r, d))
    BY TourType DEF IsTour
  <2> HIDE DEF P
  <2> QED BY <2>1, <2>2, FS_Subset
<1>2. \A q \in P : MarkedAtoms(Snap(r, d, q)) \subseteq Nat /\ IsFiniteSet(MarkedAtoms(Snap(r, d, q)))
  <2> TAKE q \in P
  <2>1. q \in Tour(r, d) /\ q \in Packs(r, m)[d]
    BY <1>1
  <2>2. Snap(r, d, q) \in PalettedSnapshots(d)
    BY <2>1, ClassesMeet
  <2> QED BY <2>2, PalettedType
<1>3. IsFiniteSet(sets)
  <2>1. marked \in [P -> sets] /\ \A x \in sets : \E q \in P : marked[q] = x
    OBVIOUS
  <2> HIDE DEF marked, sets, P
  <2>2. marked \in Surjection(P, sets)
    BY <2>1 DEF Surjection
  <2> QED BY <1>1, <2>2, FS_Surjection
<1>4. IsFiniteSet(S) /\ S \subseteq Nat
  <2>1. \A x \in sets : IsFiniteSet(x) /\ x \subseteq Nat
    BY <1>2
  <2> HIDE DEF sets
  <2> QED BY <1>3, <2>1, FS_UNION
<1>5. PICK pal : pal = PaletteOf(r, m, d) /\ pal = Ascending(S)
  BY DEF PaletteOf
<1>6. MarkedAtoms(Snap(r, d, p)) \subseteq S
  OBVIOUS
<1> HIDE DEF S
<1>7. /\ IsText(pal) /\ Len(pal) = Cardinality(S)
      /\ \A n \in S : Below(S, n) + 1 \in 1..Cardinality(S) /\ pal[Below(S, n) + 1] = n
  BY <1>4, <1>5, AscendingNumbers
<1>8. \A n \in S : \E i \in 1..Len(pal) : pal[i] = n
  BY <1>7
<1> QED BY <1>5, <1>6, <1>7, <1>8 DEF HasAtoms

(* A power of two and its exponent *)
LEMMA Exponents ==
  /\ TrailingZeros(1) = 0 /\ TrailingZeros(2) = 1 /\ TrailingZeros(4) = 2
  /\ TrailingZeros(8) = 3 /\ TrailingZeros(16) = 4
<1>1. Pow(0) = 1
  BY PowOfZero
<1>2. Pow(1) = 2
  <2>1. Pow(0 + 1) = Pow(0) + Pow(0)
    BY PowDoubles
  <2> QED BY <1>1, <2>1
<1>3. Pow(2) = 4
  <2>1. Pow(1 + 1) = Pow(1) + Pow(1)
    BY PowDoubles
  <2> QED BY <1>2, <2>1
<1>4. Pow(3) = 8
  <2>1. Pow(2 + 1) = Pow(2) + Pow(2)
    BY PowDoubles
  <2> QED BY <1>3, <2>1
<1>5. Pow(4) = 16
  <2>1. Pow(3 + 1) = Pow(3) + Pow(3)
    BY PowDoubles
  <2> QED BY <1>4, <2>1
<1>6. \A n \in 0..4 : n = 0 \/ n = 1 \/ n = 2 \/ n = 3 \/ n = 4
  OBVIOUS
<1>7. \A n \in 0..4 : /\ Pow(n) = 1 <=> n = 0
                      /\ Pow(n) = 2 <=> n = 1
                      /\ Pow(n) = 4 <=> n = 2
                      /\ Pow(n) = 8 <=> n = 3
                      /\ Pow(n) = 16 <=> n = 4
  BY <1>1, <1>2, <1>3, <1>4, <1>5, <1>6
<1>8. \A bpe : TrailingZeros(bpe) = CHOOSE n \in 0..4 : Pow(n) = bpe
  BY DEF TrailingZeros, Pow
<1> QED BY <1>7, <1>8

(* There is a bucket for every snapshot, and it has a part in the file.    *)
LEMMA BucketType ==
  ASSUME NEW r \in Regions, NEW m \in BOOLEAN, NEW d \in Domains, NEW p \in Packs(r, m)[d]
  PROVE  BucketAt(r, m, d, p) \in FileBuckets
<1>1. p \in Tour(r, d)
  BY ClassTypes DEF AreOfTours
<1>2. PICK snapshot \in PalettedSnapshots(d) : snapshot = Snap(r, d, p)
  BY <1>1, ClassesMeet
<1>3. PICK pal, local : /\ pal = PaletteOf(r, m, d) /\ local = LocalOf(pal, snapshot)
                        /\ HasAtoms(pal, snapshot)
  BY <1>2, PaletteHasAtoms
<1>4. /\ Len(local) \in Nat
      /\ Len(local) = IF IsDirect(snapshot) THEN 0 ELSE Cardinality(Distinct(snapshot.values))
  BY <1>3, LocalType
<1>5. Cardinality(Distinct(snapshot.values)) \in Nat \ {0}
  BY PalettedType, DistinctType
<1>6. PICK n \in Nat : n = Len(local) /\ BucketAt(r, m, d, p) = Bucket(d, PaletteBpe(n))
  BY <1>2, <1>3, <1>4 DEF BucketAt, LocalAt
<1>7. MAX_INDIRECT_PALETTE_SIZE \in Nat
  BY Parameters
<1>8. CASE IsDirect(snapshot)
  <2>1. d = "block"
    BY <1>8, DirectHasNone
  <2>2. PaletteBpe(n) = 16
    BY <1>4, <1>6, <1>8 DEF PaletteBpe
  <2>3. Bucket(d, PaletteBpe(n)) = 4
    BY <2>1, <2>2, Exponents DEF Bucket
  <2> QED BY <1>6, <2>3 DEF FileBuckets
<1>9. CASE ~IsDirect(snapshot)
  <2>1. n # 0 /\ n <= MAX_INDIRECT_PALETTE_SIZE
    BY <1>4, <1>5, <1>6, <1>7, <1>9 DEF IsDirect
  <2>2. PaletteBpe(n) \in {1, 2, 4, 8}
    BY <2>1 DEF PaletteBpe, BitsPerEntry
  <2>3. TrailingZeros(PaletteBpe(n)) \in 0..3
    BY <2>2, Exponents
  <2> QED BY <1>6, <2>3 DEF Bucket, FileBuckets
<1> QED BY <1>8, <1>9

-----------------------------------------------------------------------------
(* The writer                                                              *)

(* A class's values in the order of the sweep. *)
InOrder(K, value, d) == [k \in 1..Cardinality(K[d]) |-> value[d][Swept(K[d])[k]]]

Full(r, d) == {s \in Scans : Lengths(r, d)[s] # 0}

PresentIn(r) == {slot \in Slots : r[slot].present}

Presence(r) == [slot \in Slots |-> r[slot].present]

DescriptorsOf(r, d) ==
  [s \in Scans |-> IF Hist(r, d, s) = <<>> THEN "none" ELSE Hist(r, d, s)[1].kind]

CountsOf(r, d) == [k \in 1..Cardinality(Full(r, d)) |-> Lengths(r, d)[Ascending(Full(r, d))[k]]]

TagsOf(r, d) == InOrder(Deltas(r), Kinds(r), d)

Grids(r) ==
  [s \in {x \in Scans : Hist(r, "block", x) # <<>>} |-> Unpacked("block", Hist(r, "block", s)[1])]

ModelOf(r, m) == <<[modeled |-> m, grid |-> IF m THEN Grids(r) ELSE <<>>]>>

OfSegments(r, part) ==
  [k \in 1..Cardinality(PresentIn(r)) |-> r[Ascending(PresentIn(r))[k]][part]]

Metadata(r) ==
  Joined(<<Fields("presence", Presence(r)),
           Fields("descriptor", DescriptorsOf(r, "block")),
           Fields("descriptor", DescriptorsOf(r, "biome")),
           Fields("count", CountsOf(r, "block")), Fields("count", CountsOf(r, "biome")),
           Fields("tag", TagsOf(r, "block")), Fields("tag", TagsOf(r, "biome"))>>)

PaletteField(r, m, d) == Fields("palette", <<PaletteOf(r, m, d)>>)

(* The palettes that are written in a phase. *)
GlobalPalettes(r, m, ph) ==
  IF ph \in {"metadata", "mark block"} THEN <<>>
  ELSE IF ph \in {"block", "mark biome"} THEN <<>> \o PaletteField(r, m, "block")
  ELSE (<<>> \o PaletteField(r, m, "block")) \o PaletteField(r, m, "biome")

WritingPhases == {"metadata", "mark block", "block", "mark biome", "biome", "rest"}

(* The places that a phase leaves to come. *)
ToWrite(r, ph, places) ==
  [d \in Domains |->
     IF ph = d THEN places
     ELSE IF \/ ph \in {"metadata", "mark block"}
             \/ d = "biome" /\ ph \in {"block", "mark biome"}
     THEN Tour(r, d)
     ELSE {}]

AreStreams(st) ==
  /\ DOMAIN st = {"metadata", "model", "global_palette", "timestamps", "singles",
                  "local_palettes", "buckets"}
  /\ DOMAIN st.buckets = Buckets

StreamsTell(r, m, st, left) ==
  /\ Tells(st.timestamps, "timestamp", Tours(r), Stamps(r), left)
  /\ Tells(st.singles, "single", Singles(r, m), Atoms(r, m), left)
  /\ Tells(st.local_palettes, "local", Packs(r, m), LocalsOf(r, m), left)
  /\ \A b \in Buckets :
       Tells(st.buckets[b], "packed", InBucket(r, m, b), CellsPacked(r, m), left)

WriterOK(r, m, ph, places, pal, st) ==
  /\ AreStreams(st)
  /\ AreLeft(ToWrite(r, ph, places), r)
  /\ StreamsTell(r, m, st, ToWrite(r, ph, places))
  /\ st.global_palette = GlobalPalettes(r, m, ph)
  /\ ph \in Domains => pal = PaletteOf(r, m, ph)
  /\ ph # "metadata" => /\ Fits(r)
                        /\ st.metadata = Metadata(r)
                        /\ st.model = Fields("model", ModelOf(r, m))

(* What writing a snapshot adds to the streams. *)
Adds(r, m, st, new, d, p) ==
  /\ new.timestamps = st.timestamps \o Fields("timestamp", <<Snap(r, d, p).timestamp>>)
  /\ \/ /\ p \notin Singles(r, m)[d] /\ p \notin Packs(r, m)[d]
        /\ new.singles = st.singles /\ new.local_palettes = st.local_palettes
        /\ new.buckets = st.buckets
     \/ /\ p \in Singles(r, m)[d] /\ p \notin Packs(r, m)[d]
        /\ new.singles = st.singles \o Fields("single", <<Snap(r, d, p).atom>>)
        /\ new.local_palettes = st.local_palettes
        /\ new.buckets = st.buckets
     \/ /\ p \notin Singles(r, m)[d] /\ p \in Packs(r, m)[d]
        /\ new.singles = st.singles
        /\ new.local_palettes = st.local_palettes \o Fields("local", <<LocalAt(r, m, d, p)>>)
        /\ \A b \in Buckets :
             new.buckets[b] = IF b = BucketAt(r, m, d, p)
                              THEN st.buckets[b] \o Fields("packed", <<PackedCells(Snap(r, d, p))>>)
                              ELSE st.buckets[b]

(* The streams go on to tell. *)
LEMMA SnapshotIsTold ==
  ASSUME NEW r \in Regions, NEW m \in BOOLEAN, NEW st, NEW new, NEW left, NEW next, NEW d, NEW p,
         AreLeft(left, r), IsNext(left, next, d, p), AreStreams(st),
         StreamsTell(r, m, st, left), Adds(r, m, st, new, d, p)
  PROVE  StreamsTell(r, m, new, next)
<1>1. d \in Domains /\ p \in Tour(r, d)
  BY NextLeft
<1>2. /\ AreOfTours(Tours(r), r) /\ AreOfTours(Singles(r, m), r) /\ AreOfTours(Packs(r, m), r)
      /\ \A b : AreOfTours(InBucket(r, m, b), r)
  BY ClassTypes
<1>3. PICK A, B, C : A = Tours(r) /\ B = Singles(r, m) /\ C = Packs(r, m)
  OBVIOUS
<1>4. PICK u, v, w, z : u = Stamps(r) /\ v = Atoms(r, m) /\ w = LocalsOf(r, m) /\ z = CellsPacked(r, m)
  OBVIOUS
<1>5. /\ Tells(st.timestamps, "timestamp", A, u, left)
      /\ Tells(st.singles, "single", B, v, left)
      /\ Tells(st.local_palettes, "local", C, w, left)
      /\ \A b \in Buckets : Tells(st.buckets[b], "packed", InBucket(r, m, b), z, left)
  BY <1>3, <1>4 DEF StreamsTell
<1>6. Tells(new.timestamps, "timestamp", A, u, next)
  <2>1. p \in A[d] /\ u[d][p] = Snap(r, d, p).timestamp
    BY <1>1, <1>3, <1>4 DEF Tours, Stamps
  <2>2. IsLonger(new.timestamps, st.timestamps, "timestamp", u[d][p])
    BY <2>1 DEF Adds, IsLonger
  <2>3. PICK text, longer : text = st.timestamps /\ longer = new.timestamps
    OBVIOUS
  <2>4. Tells(longer, "timestamp", A, u, next)
    BY <1>2, <1>3, <1>5, <2>1, <2>2, <2>3, TellsOneMore
  <2> QED BY <2>3, <2>4
<1>7. Tells(new.singles, "single", B, v, next)
  <2>1. PICK text, longer : text = st.singles /\ longer = new.singles
    OBVIOUS
  <2>2. CASE p \in B[d]
    <3>1. v[d][p] = Snap(r, d, p).atom
      BY <1>1, <1>3, <1>4, <2>2 DEF Atoms
    <3>2. IsLonger(longer, text, "single", v[d][p])
      BY <1>3, <2>1, <2>2, <3>1 DEF Adds, IsLonger
    <3>3. Tells(longer, "single", B, v, next)
      BY <1>2, <1>3, <1>5, <2>1, <2>2, <3>2, TellsOneMore
    <3> QED BY <2>1, <3>3
  <2>3. CASE p \notin B[d]
    <3>1. longer = text
      BY <1>3, <2>1, <2>3 DEF Adds
    <3>2. Tells(text, "single", B, v, next)
      BY <1>2, <1>3, <1>5, <2>1, <2>3, TellsNoMore
    <3> QED BY <2>1, <3>1, <3>2
  <2> QED BY <2>2, <2>3
<1>8. Tells(new.local_palettes, "local", C, w, next)
  <2>1. PICK text, longer : text = st.local_palettes /\ longer = new.local_palettes
    OBVIOUS
  <2>2. CASE p \in C[d]
    <3>1. w[d][p] = LocalAt(r, m, d, p)
      BY <1>1, <1>3, <1>4, <2>2 DEF LocalsOf
    <3>2. IsLonger(longer, text, "local", w[d][p])
      BY <1>3, <2>1, <2>2, <3>1 DEF Adds, IsLonger
    <3>3. Tells(longer, "local", C, w, next)
      BY <1>2, <1>3, <1>5, <2>1, <2>2, <3>2, TellsOneMore
    <3> QED BY <2>1, <3>3
  <2>3. CASE p \notin C[d]
    <3>1. longer = text
      BY <1>3, <2>1, <2>3 DEF Adds
    <3>2. Tells(text, "local", C, w, next)
      BY <1>2, <1>3, <1>5, <2>1, <2>3, TellsNoMore
    <3> QED BY <2>1, <3>1, <3>2
  <2> QED BY <2>2, <2>3
<1>9. ASSUME NEW b \in Buckets
      PROVE  Tells(new.buckets[b], "packed", InBucket(r, m, b), z, next)
  <2>1. PICK text, longer, D : text = st.buckets[b] /\ longer = new.buckets[b] /\ D = InBucket(r, m, b)
    OBVIOUS
  <2>2. Tells(text, "packed", D, z, left) /\ AreOfTours(D, r)
    BY <1>2, <1>5, <2>1
  <2>3. p \in D[d] <=> p \in C[d] /\ BucketAt(r, m, d, p) = b
    BY <1>1, <1>3, <2>1 DEF InBucket
  <2>4. CASE p \in D[d]
    <3>1. z[d][p] = PackedCells(Snap(r, d, p))
      BY <1>1, <1>3, <1>4, <2>3, <2>4 DEF CellsPacked
    <3>2. longer = text \o Fields("packed", <<PackedCells(Snap(r, d, p))>>)
      BY <1>3, <2>1, <2>3, <2>4 DEF Adds
    <3>3. IsLonger(longer, text, "packed", z[d][p])
      BY <3>1, <3>2 DEF IsLonger
    <3>4. Tells(longer, "packed", D, z, next)
      BY <2>2, <2>4, <3>3, TellsOneMore
    <3> QED BY <2>1, <3>4
  <2>5. CASE p \notin D[d]
    <3>1. longer = text
      <4>1. CASE p \in C[d]
        BY <1>3, <2>1, <2>3, <2>5, <4>1 DEF Adds
      <4>2. CASE p \notin C[d]
        BY <1>3, <2>1, <4>2 DEF Adds
      <4> QED BY <4>1, <4>2
    <3>2. Tells(text, "packed", D, z, next)
      BY <2>2, <2>5, TellsNoMore
    <3> QED BY <2>1, <3>1, <3>2
  <2> QED BY <2>4, <2>5
<1> QED BY <1>3, <1>4, <1>6, <1>7, <1>8, <1>9 DEF StreamsTell

(* The writer's operators are those of the region it writes. *)
LEMMA Mirrors ==
  ASSUME NEW d \in Domains
  PROVE  /\ \A s : SnapshotsAt(d, s) = Hist(region, d, s)
         /\ Counts(d) = Lengths(region, d)
         /\ Visited(Counts(d)) = Tour(region, d)
         /\ \A p : /\ SnapshotAt(d, p) = Snap(region, d, p)
                   /\ Modeled(d, p) <=> InModel(modeling, d, p)
         /\ \A s : LocalPalette(s) = LocalOf(palette, s)
         /\ GlobalPalette(d) = PaletteOf(region, modeling, d)
<1>1. \A s : SnapshotsAt(d, s) = Hist(region, d, s)
  BY DEF SnapshotsAt, Hist
<1>2. Counts(d) = Lengths(region, d)
  BY <1>1 DEF Counts, Lengths
<1>3. Visited(Counts(d)) = Tour(region, d)
  BY <1>2 DEF Tour
<1>4. \A p : /\ SnapshotAt(d, p) = Snap(region, d, p)
             /\ Modeled(d, p) <=> InModel(modeling, d, p)
  BY <1>1 DEF SnapshotAt, Snap, Modeled, InModel
<1>5. \A s : LocalPalette(s) = LocalOf(palette, s)
  BY DEF LocalPalette, LocalOf
<1>6. GlobalPalette(d) = PaletteOf(region, modeling, d)
  <2>1. {q \in Visited(Counts(d)) : IsPaletted(d, q)} = Packs(region, modeling)[d]
    BY <1>3, <1>4 DEF IsPaletted, Packs, OfKind
  <2>2. {MarkedAtoms(SnapshotAt(d, p)) : p \in {q \in Visited(Counts(d)) : IsPaletted(d, q)}}
          = {MarkedAtoms(Snap(region, d, p)) : p \in Packs(region, modeling)[d]}
    BY <1>4, <2>1
  <2> QED BY <2>2 DEF GlobalPalette, PaletteOf
<1> QED BY <1>1, <1>2, <1>3, <1>4, <1>5, <1>6

(* The sets of scans and slots that are counted *)
LEMMA CountedSets ==
  ASSUME NEW r \in Regions, NEW d \in Domains
  PROVE  /\ Full(r, d) \subseteq Nat /\ IsFiniteSet(Full(r, d)) /\ Cardinality(Full(r, d)) \in Nat
         /\ PresentIn(r) \subseteq Nat /\ IsFiniteSet(PresentIn(r)) /\ Cardinality(PresentIn(r)) \in Nat
         /\ IsFiniteSet(Scans) /\ Cardinality(Scans) = SlotCount * SectionCount
<1>1. SlotCount * SectionCount \in Nat /\ SlotCount \in Nat
  BY Parameters, ScanType
<1>2. IsFiniteSet(Scans) /\ Cardinality(Scans) = SlotCount * SectionCount /\ Scans \subseteq Nat
  <2>1. PICK n \in Nat : n = SlotCount * SectionCount
    BY <1>1
  <2>2. IsFiniteSet(1..n) /\ Cardinality(1..n) = n
    BY FS_Interval
  <2> QED BY <2>1, <2>2 DEF Scans
<1>3. IsFiniteSet(Slots) /\ Slots \subseteq Nat
  BY <1>1, FS_Interval DEF Slots
<1>4. Full(r, d) \in SUBSET Scans /\ PresentIn(r) \in SUBSET Slots
  BY DEF Full, PresentIn
<1>5. IsFiniteSet(Full(r, d)) /\ IsFiniteSet(PresentIn(r))
  BY <1>2, <1>3, <1>4, FS_Subset
<1> QED BY <1>2, <1>3, <1>4, <1>5, FS_CardinalityType

(* The metadata of a region, if no section has more snapshots than fit.    *)
LEMMA MirrorsOfMetadata ==
  ASSUME region \in Regions, Fits(region), NEW d \in Domains
  PROVE  /\ Descriptors(d) = Fields("descriptor", DescriptorsOf(region, d))
         /\ CountFields(d) = Fields("count", CountsOf(region, d))
         /\ TagFields(d) = Fields("tag", TagsOf(region, d))
         /\ ModelPayload = Grids(region)
<1>1. /\ \A s : SnapshotsAt(d, s) = Hist(region, d, s)
      /\ Counts(d) = Lengths(region, d) /\ Visited(Counts(d)) = Tour(region, d)
      /\ \A p : SnapshotAt(d, p) = Snap(region, d, p)
  BY Mirrors
<1>2. Descriptors(d) = Fields("descriptor", DescriptorsOf(region, d))
  BY <1>1 DEF Descriptors, Descriptor, DescriptorsOf
<1>3. CountFields(d) = Fields("count", CountsOf(region, d))
  <2>1. PICK described : described = Ascending(Full(region, d))
    OBVIOUS
  <2>2. DOMAIN described = 1..Cardinality(Full(region, d))
    BY <2>1 DEF Ascending
  <2>3. {scan \in Scans : Counts(d)[scan] # 0} = Full(region, d)
    BY <1>1 DEF Full
  <2>4. CountsOf(region, d) = [k \in DOMAIN described |-> Counts(d)[described[k]]]
    BY <1>1, <2>1, <2>2 DEF CountsOf
  <2>5. ASSUME NEW s \in Scans
        PROVE  Counts(d)[s] % (MAX_COUNT + 1) = Counts(d)[s]
    <3>1. PICK n \in Nat : n = Counts(d)[s]
      BY <1>1, HistoryType
    <3>2. n <= MAX_COUNT /\ MAX_COUNT \in Nat
      BY <1>1, <3>1, Parameters DEF Fits
    <3>3. n % (MAX_COUNT + 1) = n
      BY <3>2
    <3> QED BY <3>1, <3>3
  <2>6. [s \in Scans |-> Counts(d)[s] % (MAX_COUNT + 1)] = Counts(d)
    BY <1>1, <2>5 DEF Lengths
  <2>7. CountFields(d) =
          LET counts == Counts(d)
              order == Ascending({scan \in Scans : counts[scan] # 0})
          IN  Fields("count", [k \in DOMAIN order |-> counts[order[k]]])
    BY ONLY <2>6 DEF CountFields
  <2> QED BY <2>1, <2>3, <2>4, <2>7
<1>4. TagFields(d) = Fields("tag", TagsOf(region, d))
  <2> DEFINE D == Deltas(region)[d]
  <2>1. D = {p \in Tour(region, d) : p.level > 0} /\ D \subseteq Tour(region, d)
    BY DEF Deltas
  <2>2. IsTour(D)
    <3>1. IsTour(Tour(region, d)) /\ D \in SUBSET Tour(region, d)
      BY <2>1, TourType
    <3> HIDE DEF D
    <3> QED BY <3>1, FS_Subset DEF IsTour
  <2>3. PICK swept : swept = Swept(D)
    OBVIOUS
  <2>4. {p \in Visited(Counts(d)) : p.level > 0} = D
    BY <1>1, <2>1
  <2> HIDE DEF D
  <2>5. DOMAIN swept = 1..Cardinality(D) /\ \A k \in 1..Cardinality(D) : swept[k] \in D
    <3>1. DOMAIN swept = 1..Cardinality(D)
      BY <2>3 DEF Swept
    <3> QED BY <2>2, <2>3, <3>1, SweptTour
  <2>6. \A k \in 1..Cardinality(D) : Kinds(region)[d][swept[k]] = SnapshotAt(d, swept[k]).kind
    BY <1>1, <2>1, <2>5 DEF Kinds
  <2>7. TagsOf(region, d) = [k \in 1..Cardinality(D) |-> Kinds(region)[d][swept[k]]]
    BY <2>3 DEF TagsOf, InOrder, D
  <2>8. TagsOf(region, d) = [k \in DOMAIN swept |-> SnapshotAt(d, swept[k]).kind]
    BY <2>5, <2>6, <2>7
  <2> QED BY <2>3, <2>4, <2>8 DEF TagFields
<1>5. ModelPayload = Grids(region)
  <2>1. \A s : SnapshotsAt("block", s) = Hist(region, "block", s)
    BY Mirrors DEF Domains
  <2> QED BY <2>1 DEF ModelPayload, Grids
<1> QED BY <1>2, <1>3, <1>4, <1>5

(* What a phase leaves to come. *)
LEMMA LeftInPhases ==
  ASSUME NEW r \in Regions, NEW places
  PROVE  /\ ToWrite(r, "mark block", places) = ToWrite(r, "metadata", places)
         /\ ToWrite(r, "block", Tour(r, "block")) = ToWrite(r, "mark block", places)
         /\ ToWrite(r, "mark biome", places) = ToWrite(r, "block", {})
         /\ ToWrite(r, "biome", Tour(r, "biome")) = ToWrite(r, "mark biome", places)
         /\ ToWrite(r, "rest", places) = ToWrite(r, "biome", {})
         /\ \A d \in Domains : ToWrite(r, "metadata", places)[d] = Tour(r, d)
         /\ \A d \in Domains : ToWrite(r, "rest", places)[d] = {}
         /\ \A d \in Domains : ToWrite(r, d, places)[d] = places
         /\ ToWrite(r, "biome", places)["block"] = {}
<1>1. \A d \in Domains : d = "block" \/ d = "biome"
  BY DEF Domains
<1>2. "block" \in Domains /\ "biome" \in Domains
  BY DEF Domains
<1>3. ToWrite(r, "mark block", places) = ToWrite(r, "metadata", places)
  BY <1>1 DEF ToWrite
<1>4. ToWrite(r, "block", Tour(r, "block")) = ToWrite(r, "mark block", places)
  BY <1>1 DEF ToWrite
<1>5. ToWrite(r, "mark biome", places) = ToWrite(r, "block", {})
  BY <1>1 DEF ToWrite
<1>6. ToWrite(r, "biome", Tour(r, "biome")) = ToWrite(r, "mark biome", places)
  BY <1>1 DEF ToWrite
<1>7. ToWrite(r, "rest", places) = ToWrite(r, "biome", {})
  BY <1>1 DEF ToWrite
<1>8. \A d \in Domains : ToWrite(r, "metadata", places)[d] = Tour(r, d)
  BY <1>1 DEF ToWrite
<1>9. \A d \in Domains : ToWrite(r, "rest", places)[d] = {}
  BY <1>1 DEF ToWrite
<1>10. \A d \in Domains : ToWrite(r, d, places)[d] = places
  BY <1>1 DEF ToWrite
<1>11. ToWrite(r, "biome", places)["block"] = {}
  BY <1>2 DEF ToWrite
<1> QED BY <1>3, <1>4, <1>5, <1>6, <1>7, <1>8, <1>9, <1>10, <1>11

(* Before the first step of the writer *)
LEMMA WriterStarts ==
  ASSUME Init
  PROVE  WriterOK(region, modeling, phase, todo, palette, streams)
<1>1. /\ region \in Regions /\ modeling \in BOOLEAN /\ phase = "metadata"
      /\ streams = [metadata |-> <<>>, model |-> <<>>, global_palette |-> <<>>,
                    timestamps |-> <<>>, singles |-> <<>>, local_palettes |-> <<>>,
                    buckets |-> [bucket \in Buckets |-> <<>>]]
  BY DEF Init
<1>2. AreStreams(streams)
  BY <1>1 DEF AreStreams
<1>3. PICK left : left = ToWrite(region, "metadata", todo)
  OBVIOUS
<1>4. /\ \A d \in Domains : left[d] = Tour(region, d)
      /\ left = [d \in Domains |-> left[d]]
  BY <1>1, <1>3, LeftInPhases DEF ToWrite
<1>5. \A d \in Domains : Tour(region, d) \subseteq Places
  BY <1>1, TourType DEF IsTour
<1>6. AreLeft(left, region)
  <2>1. left \in [Domains -> SUBSET Places]
    BY <1>4, <1>5
  <2>2. \A d \in Domains : IsLeftOf(left[d], Tour(region, d))
    BY <1>4 DEF IsLeftOf
  <2>3. left["biome"] = Tour(region, "biome")
    BY <1>4 DEF Domains
  <2> QED BY <2>1, <2>2, <2>3 DEF AreLeft
<1>7. StreamsTell(region, modeling, streams, left)
  <2>1. \A K : AreOfTours(K, region) => \A d \in Domains : K[d] \subseteq left[d]
    BY <1>4 DEF AreOfTours
  <2>2. \A K, kind, value : AreOfTours(K, region) => Tells(<<>>, kind, K, value, left)
    BY <2>1, TellsNothing
  <2>3. \A b \in Buckets : streams.buckets[b] = <<>>
    BY <1>1
  <2> QED BY <1>1, <2>2, <2>3, ClassTypes DEF StreamsTell
<1>8. streams.global_palette = GlobalPalettes(region, modeling, "metadata")
  BY <1>1 DEF GlobalPalettes
<1>9. phase \notin Domains
  BY <1>1 DEF Domains
<1> QED BY <1>1, <1>2, <1>3, <1>6, <1>7, <1>8, <1>9 DEF WriterOK

-----------------------------------------------------------------------------
(* The steps of the writer                                                 *)

Writing == /\ region \in Regions /\ modeling \in BOOLEAN /\ phase \in WritingPhases
           /\ WriterOK(region, modeling, phase, todo, palette, streams)

(* The steps between the snapshots *)
LEMMA PhaseKeepsStreams ==
  ASSUME NEW r \in Regions, NEW m \in BOOLEAN, NEW st, NEW new, NEW left,
         AreStreams(st), DOMAIN new = DOMAIN st, StreamsTell(r, m, st, left),
         new.timestamps = st.timestamps, new.singles = st.singles,
         new.local_palettes = st.local_palettes, new.buckets = st.buckets
  PROVE  AreStreams(new) /\ StreamsTell(r, m, new, left)
<1>1. AreStreams(new)
  BY DEF AreStreams
<1>2. StreamsTell(r, m, new, left)
  BY DEF StreamsTell
<1> QED BY <1>1, <1>2

(* The metadata says what the region is; no stream of snapshots has begun. *)
LEMMA MetadataKeepsWriting ==
  ASSUME Writing, WriteMetadata
  PROVE  Writing'
<1>0. /\ region \in Regions /\ modeling \in BOOLEAN
      /\ WriterOK(region, modeling, "metadata", todo, palette, streams)
      /\ phase = "metadata" /\ phase' = "mark block" /\ ~TooLong
      /\ region' = region /\ modeling' = modeling /\ todo' = todo /\ palette' = palette
  BY DEF Writing, WriteMetadata, Marking
<1>8. Fits(region)
  <2> SUFFICES ASSUME NEW d \in Domains, NEW s \in Scans
               PROVE  Lengths(region, d)[s] <= MAX_COUNT
    BY DEF Fits
  <2>1. Counts(d) = Lengths(region, d)
    BY Mirrors
  <2>2. ~(Counts(d)[s] > MAX_COUNT)
    BY <1>0 DEF TooLong
  <2>3. Lengths(region, d)[s] \in Nat
    BY <1>0, HistoryType
  <2> QED BY <2>1, <2>2, <2>3, Parameters
<1>1. PICK meta, model : /\ streams' = [streams EXCEPT !.metadata = meta, !.model = model]
                         /\ meta = Metadata(region) /\ model = Fields("model", ModelOf(region, modeling))
  <2>1. "block" \in Domains /\ "biome" \in Domains
    BY DEF Domains
  <2>2. \A d \in Domains : /\ Descriptors(d) = Fields("descriptor", DescriptorsOf(region, d))
                           /\ CountFields(d) = Fields("count", CountsOf(region, d))
                           /\ TagFields(d) = Fields("tag", TagsOf(region, d))
                           /\ ModelPayload = Grids(region)
    BY <1>0, <1>8, MirrorsOfMetadata
  <2>3. PICK meta : meta = Joined(<<Fields("presence", [slot \in Slots |-> region[slot].present]),
                                    Descriptors("block"), Descriptors("biome"),
                                    CountFields("block"), CountFields("biome"),
                                    TagFields("block"), TagFields("biome")>>)
    OBVIOUS
  <2>4. PICK model : model = Fields("model", <<[modeled |-> modeling,
                                                grid |-> IF modeling THEN ModelPayload ELSE <<>>]>>)
    OBVIOUS
  <2>5. streams' = [streams EXCEPT !.metadata = meta, !.model = model]
    BY <2>3, <2>4 DEF WriteMetadata
  <2>6. meta = Metadata(region)
    BY <2>1, <2>2, <2>3 DEF Metadata, Presence
  <2>7. model = Fields("model", ModelOf(region, modeling))
    BY <2>1, <2>2, <2>4 DEF ModelOf
  <2> QED BY <2>5, <2>6, <2>7
<1>2. PICK left : left = ToWrite(region, "metadata", todo) /\ left = ToWrite(region, "mark block", todo)
  BY <1>0, LeftInPhases
<1>3. /\ AreStreams(streams) /\ AreLeft(left, region)
      /\ StreamsTell(region, modeling, streams, left)
      /\ streams.global_palette = GlobalPalettes(region, modeling, "metadata")
  BY <1>0, <1>2 DEF WriterOK
<1>4. /\ DOMAIN streams' = DOMAIN streams
      /\ streams'.timestamps = streams.timestamps /\ streams'.singles = streams.singles
      /\ streams'.local_palettes = streams.local_palettes /\ streams'.buckets = streams.buckets
      /\ streams'.global_palette = streams.global_palette
      /\ streams'.metadata = meta /\ streams'.model = model
  BY <1>1, <1>3 DEF AreStreams
<1>5. PICK new : new = streams'
  OBVIOUS
<1>6. AreStreams(new) /\ StreamsTell(region, modeling, new, left)
  BY <1>0, <1>3, <1>4, <1>5, PhaseKeepsStreams
<1>7. new.global_palette = GlobalPalettes(region, modeling, "mark block")
  BY <1>3, <1>4, <1>5 DEF GlobalPalettes
<1>9. WriterOK(region, modeling, "mark block", todo, palette, new)
  <2>1. "mark block" \notin Domains
    BY DEF Domains
  <2> QED BY <1>1, <1>2, <1>3, <1>4, <1>5, <1>6, <1>7, <1>8, <2>1 DEF WriterOK
<1> QED BY <1>0, <1>5, <1>9 DEF Writing, WritingPhases

(* The palette of a domain has the atoms of all its paletted snapshots. *)
LEMMA StartKeepsWriting ==
  ASSUME Writing, StartDomain
  PROVE  Writing'
<1>1. PICK d \in Domains :
        /\ phase = Marking(d) /\ phase' = d
        /\ palette' = GlobalPalette(d)
        /\ streams' = [streams EXCEPT !.global_palette = @ \o Fields("palette", <<GlobalPalette(d)>>)]
        /\ todo' = Visited(Counts(d))
        /\ region' = region /\ modeling' = modeling
  BY DEF StartDomain
<1>2. /\ region \in Regions /\ modeling \in BOOLEAN
      /\ WriterOK(region, modeling, phase, todo, palette, streams)
  BY DEF Writing
<1>3. GlobalPalette(d) = PaletteOf(region, modeling, d) /\ Visited(Counts(d)) = Tour(region, d)
  BY Mirrors
<1>4. d = "block" \/ d = "biome"
  BY DEF Domains
<1>5. PICK left : /\ left = ToWrite(region, phase, todo)
                  /\ left = ToWrite(region, d, Tour(region, d))
  <2>1. CASE d = "block"
    <3>1. phase = "mark block"
      BY <1>1, <2>1 DEF Marking
    <3>2. ToWrite(region, "block", Tour(region, "block")) = ToWrite(region, "mark block", todo)
      BY <1>2, LeftInPhases
    <3> QED BY <2>1, <3>1, <3>2
  <2>2. CASE d = "biome"
    <3>1. phase = "mark biome"
      BY <1>1, <2>2 DEF Marking
    <3>2. ToWrite(region, "biome", Tour(region, "biome")) = ToWrite(region, "mark biome", todo)
      BY <1>2, LeftInPhases
    <3> QED BY <2>2, <3>1, <3>2
  <2> QED BY <1>4, <2>1, <2>2
<1>6. /\ AreStreams(streams) /\ AreLeft(left, region)
      /\ StreamsTell(region, modeling, streams, left)
      /\ streams.global_palette = GlobalPalettes(region, modeling, phase)
      /\ Fits(region) /\ streams.metadata = Metadata(region)
      /\ streams.model = Fields("model", ModelOf(region, modeling))
  BY <1>1, <1>2, <1>4, <1>5 DEF WriterOK, Marking
<1>7. PICK palettes : /\ palettes = streams.global_palette \o PaletteField(region, modeling, d)
                      /\ streams' = [streams EXCEPT !.global_palette = palettes]
  BY <1>1, <1>3 DEF PaletteField
<1>8. /\ DOMAIN streams' = DOMAIN streams
      /\ streams'.timestamps = streams.timestamps /\ streams'.singles = streams.singles
      /\ streams'.local_palettes = streams.local_palettes /\ streams'.buckets = streams.buckets
      /\ streams'.global_palette = palettes
      /\ streams'.metadata = streams.metadata /\ streams'.model = streams.model
  BY <1>6, <1>7 DEF AreStreams
<1>9. PICK new : new = streams'
  OBVIOUS
<1>10. AreStreams(new) /\ StreamsTell(region, modeling, new, left)
  BY <1>2, <1>6, <1>8, <1>9, PhaseKeepsStreams
<1>11. palettes = GlobalPalettes(region, modeling, d)
  <2>1. CASE d = "block"
    <3>1. streams.global_palette = <<>>
      BY <1>1, <1>6, <2>1 DEF GlobalPalettes, Marking
    <3> QED BY <1>7, <2>1, <3>1 DEF GlobalPalettes
  <2>2. CASE d = "biome"
    <3>1. streams.global_palette = <<>> \o PaletteField(region, modeling, "block")
      BY <1>1, <1>6, <2>2 DEF GlobalPalettes, Marking
    <3> QED BY <1>7, <2>2, <3>1 DEF GlobalPalettes
  <2> QED BY <1>4, <2>1, <2>2
<1>12. WriterOK(region, modeling, d, Tour(region, d), PaletteOf(region, modeling, d), new)
  BY <1>4, <1>5, <1>6, <1>8, <1>9, <1>10, <1>11 DEF WriterOK
<1> QED BY <1>1, <1>2, <1>3, <1>4, <1>9, <1>12 DEF Writing, WritingPhases

(* What is left of a domain at its end is what is left before the next. *)
LEMMA FinishKeepsWriting ==
  ASSUME Writing, FinishDomain
  PROVE  Writing'
<1>1. /\ phase \in Domains /\ todo = {}
      /\ phase' = IF phase = "block" THEN "mark biome" ELSE "rest"
      /\ region' = region /\ modeling' = modeling /\ todo' = todo /\ palette' = palette
      /\ streams' = streams
  BY DEF FinishDomain, Marking
<1>2. /\ region \in Regions /\ modeling \in BOOLEAN
      /\ WriterOK(region, modeling, phase, todo, palette, streams)
  BY DEF Writing
<1>3. phase = "block" \/ phase = "biome"
  BY <1>1 DEF Domains
<1>4. ToWrite(region, phase', todo) = ToWrite(region, phase, todo)
  <2>1. CASE phase = "block"
    <3>1. ToWrite(region, "mark biome", todo) = ToWrite(region, "block", {})
      BY <1>2, LeftInPhases
    <3> QED BY <1>1, <2>1, <3>1
  <2>2. CASE phase = "biome"
    <3>1. ToWrite(region, "rest", todo) = ToWrite(region, "biome", {})
      BY <1>2, LeftInPhases
    <3> QED BY <1>1, <2>2, <3>1
  <2> QED BY <1>3, <2>1, <2>2
<1>5. GlobalPalettes(region, modeling, phase') = GlobalPalettes(region, modeling, phase)
  <2>1. CASE phase = "block"
    BY <1>1, <2>1 DEF GlobalPalettes
  <2>2. CASE phase = "biome"
    BY <1>1, <2>2 DEF GlobalPalettes
  <2> QED BY <1>3, <2>1, <2>2
<1>6. phase' \notin Domains /\ phase' \in WritingPhases
  BY <1>1 DEF Domains, WritingPhases
<1>7. WriterOK(region, modeling, phase', todo, palette, streams)
  BY <1>2, <1>3, <1>4, <1>5, <1>6 DEF WriterOK
<1> QED BY <1>1, <1>2, <1>6, <1>7 DEF Writing

(* What is written of a snapshot *)
LEMMA SnapshotAdds ==
  ASSUME Writing, EmitSnapshot
  PROVE  /\ First(todo) \in Tour(region, phase)
         /\ Adds(region, modeling, streams, streams', phase, First(todo))
         /\ AreStreams(streams')
         /\ streams'.global_palette = streams.global_palette
         /\ streams'.metadata = streams.metadata /\ streams'.model = streams.model
<1>0. PICK p, snapshot, bucket :
        /\ p = First(todo) /\ snapshot = SnapshotAt(phase, p)
        /\ bucket = Bucket(phase, PaletteBpe(Len(LocalPalette(snapshot))))
  OBVIOUS
<1>1. phase \in Domains /\ todo # {} /\ region \in Regions /\ modeling \in BOOLEAN
  BY DEF EmitSnapshot, Writing
<1>2. /\ snapshot = Snap(region, phase, p)
      /\ Modeled(phase, p) <=> InModel(modeling, phase, p)
      /\ LocalPalette(snapshot) = LocalOf(palette, snapshot)
  BY <1>0, <1>1, Mirrors
<1>3. /\ palette = PaletteOf(region, modeling, phase) /\ AreStreams(streams)
      /\ AreLeft(ToWrite(region, phase, todo), region)
  BY <1>1 DEF Writing, WriterOK
<1>4. p \in Tour(region, phase)
  <2>0. ToWrite(region, phase, todo)[phase] = todo
    BY <1>1, LeftInPhases DEF ToWrite
  <2>1. IsLeftOf(todo, Tour(region, phase))
    BY <1>1, <1>3, <2>0 DEF AreLeft
  <2>2. IsTour(Tour(region, phase))
    BY <1>1, TourType
  <2>3. PICK t : t = Tour(region, phase)
    OBVIOUS
  <2>4. p \in t
    BY <1>0, <1>1, <2>1, <2>2, <2>3, NextPlace
  <2> QED BY <2>3, <2>4
<1>5. LocalPalette(snapshot) = LocalAt(region, modeling, phase, p) /\ bucket = BucketAt(region, modeling, phase, p)
  BY <1>0, <1>2, <1>3 DEF LocalAt, BucketAt
<1>6. PICK stamped : stamped = [streams EXCEPT !.timestamps = streams.timestamps \o Fields("timestamp", <<snapshot.timestamp>>)]
  OBVIOUS
<1>7. streams' = IF Modeled(phase, p) THEN stamped
                 ELSE IF snapshot.kind = "single"
                 THEN [stamped EXCEPT !.singles = @ \o Fields("single", <<snapshot.atom>>)]
                 ELSE [stamped EXCEPT
                         !.local_palettes = @ \o Fields("local", <<LocalPalette(snapshot)>>),
                         !.buckets[bucket] = @ \o Fields("packed", <<PackedCells(snapshot)>>)]
  BY <1>0, <1>6 DEF EmitSnapshot
<1>8. /\ DOMAIN stamped = DOMAIN streams
      /\ stamped.timestamps = streams.timestamps \o Fields("timestamp", <<snapshot.timestamp>>)
      /\ stamped.singles = streams.singles /\ stamped.local_palettes = streams.local_palettes
      /\ stamped.buckets = streams.buckets /\ stamped.global_palette = streams.global_palette
      /\ stamped.metadata = streams.metadata /\ stamped.model = streams.model
  BY <1>3, <1>6 DEF AreStreams
<1>9. /\ p \in Singles(region, modeling)[phase] <=> snapshot.kind = "single" /\ ~Modeled(phase, p)
      /\ p \in Packs(region, modeling)[phase] <=> snapshot.kind = "paletted" /\ ~Modeled(phase, p)
      /\ snapshot.kind \in {"single", "paletted"}
  BY <1>1, <1>2, <1>4, ClassesMeet
<1>10. CASE Modeled(phase, p)
  <2>1. streams' = stamped
    BY <1>7, <1>10
  <2>2. p \notin Singles(region, modeling)[phase] /\ p \notin Packs(region, modeling)[phase]
    BY <1>9, <1>10
  <2>3. Adds(region, modeling, streams, streams', phase, p)
    <3>1. streams'.timestamps = streams.timestamps \o Fields("timestamp", <<Snap(region, phase, p).timestamp>>)
      BY <1>2, <1>8, <2>1
    <3> QED BY <1>8, <2>1, <2>2, <3>1 DEF Adds
  <2>4. AreStreams(streams')
    BY <1>3, <1>8, <2>1 DEF AreStreams
  <2> QED BY <1>0, <1>4, <1>8, <2>1, <2>3, <2>4
<1>11. CASE ~Modeled(phase, p) /\ snapshot.kind = "single"
  <2>1. streams' = [stamped EXCEPT !.singles = streams.singles \o Fields("single", <<snapshot.atom>>)]
    BY <1>7, <1>8, <1>11
  <2>2. p \in Singles(region, modeling)[phase] /\ p \notin Packs(region, modeling)[phase]
    BY <1>9, <1>11
  <2>3. /\ DOMAIN streams' = DOMAIN streams
        /\ streams'.timestamps = stamped.timestamps
        /\ streams'.singles = streams.singles \o Fields("single", <<snapshot.atom>>)
        /\ streams'.local_palettes = streams.local_palettes
        /\ streams'.buckets = streams.buckets /\ streams'.global_palette = streams.global_palette
        /\ streams'.metadata = streams.metadata /\ streams'.model = streams.model
    BY <1>3, <1>8, <2>1 DEF AreStreams
  <2>4. Adds(region, modeling, streams, streams', phase, p)
    <3>1. /\ streams'.timestamps = streams.timestamps \o Fields("timestamp", <<Snap(region, phase, p).timestamp>>)
          /\ streams'.singles = streams.singles \o Fields("single", <<Snap(region, phase, p).atom>>)
      BY <1>2, <1>8, <2>3
    <3> QED BY <2>2, <2>3, <3>1 DEF Adds
  <2>5. AreStreams(streams')
    BY <1>3, <2>3 DEF AreStreams
  <2> QED BY <1>0, <1>4, <2>3, <2>4, <2>5
<1>12. CASE ~Modeled(phase, p) /\ snapshot.kind = "paletted"
  <2>1. p \notin Singles(region, modeling)[phase] /\ p \in Packs(region, modeling)[phase]
    BY <1>9, <1>12
  <2>2. PICK field, locals : /\ field = Fields("packed", <<PackedCells(snapshot)>>)
                             /\ locals = streams.local_palettes \o Fields("local", <<LocalPalette(snapshot)>>)
    OBVIOUS
  <2>3. snapshot.kind # "single"
    BY <1>12
  <2>4. streams' = [stamped EXCEPT !.local_palettes = locals, !.buckets[bucket] = @ \o field]
    BY <1>7, <1>8, <1>12, <2>2, <2>3
  <2>5. PICK buckets : buckets = [streams.buckets EXCEPT ![bucket] = @ \o field]
    OBVIOUS
  <2>6. streams' = [stamped EXCEPT !.local_palettes = locals, !.buckets = buckets]
    BY <1>3, <1>8, <2>4, <2>5 DEF AreStreams
  <2>7. /\ DOMAIN streams' = DOMAIN streams
        /\ streams'.timestamps = stamped.timestamps /\ streams'.singles = streams.singles
        /\ streams'.local_palettes = locals
        /\ streams'.buckets = buckets /\ streams'.global_palette = streams.global_palette
        /\ streams'.metadata = streams.metadata /\ streams'.model = streams.model
    BY <1>3, <1>8, <2>6 DEF AreStreams
  <2>8. /\ DOMAIN buckets = Buckets
        /\ \A b \in Buckets : buckets[b] = IF b = bucket THEN streams.buckets[b] \o field
                                                         ELSE streams.buckets[b]
    BY <1>3, <2>5 DEF AreStreams
  <2>9. Adds(region, modeling, streams, streams', phase, p)
    <3>1. /\ streams'.timestamps = streams.timestamps \o Fields("timestamp", <<Snap(region, phase, p).timestamp>>)
          /\ streams'.local_palettes = streams.local_palettes \o Fields("local", <<LocalAt(region, modeling, phase, p)>>)
      BY <1>2, <1>5, <1>8, <2>2, <2>7
    <3>2. \A b \in Buckets :
            streams'.buckets[b] = IF b = BucketAt(region, modeling, phase, p)
                                  THEN streams.buckets[b] \o Fields("packed", <<PackedCells(Snap(region, phase, p))>>)
                                  ELSE streams.buckets[b]
      BY <1>2, <1>5, <2>2, <2>7, <2>8
    <3> QED BY <2>1, <2>7, <3>1, <3>2 DEF Adds
  <2>10. AreStreams(streams')
    BY <1>3, <2>7, <2>8 DEF AreStreams
  <2> QED BY <1>0, <1>4, <2>7, <2>9, <2>10
<1> QED BY <1>9, <1>10, <1>11, <1>12

(* An emitted snapshot adds its fields, and is swept. *)
LEMMA EmitKeepsWriting ==
  ASSUME Writing, EmitSnapshot
  PROVE  Writing'
<1>1. /\ phase \in Domains /\ todo # {} /\ todo' = todo \ {First(todo)}
      /\ region' = region /\ modeling' = modeling /\ phase' = phase /\ palette' = palette
  BY DEF EmitSnapshot
<1>2. /\ region \in Regions /\ modeling \in BOOLEAN /\ phase \in WritingPhases
      /\ WriterOK(region, modeling, phase, todo, palette, streams)
  BY DEF Writing
<1>3. PICK p, left, next, new : /\ p = First(todo) /\ new = streams'
                                /\ left = ToWrite(region, phase, todo)
                                /\ next = ToWrite(region, phase, todo \ {p})
  OBVIOUS
<1>4. /\ Adds(region, modeling, streams, new, phase, p)
      /\ AreStreams(new)
      /\ new.global_palette = streams.global_palette
      /\ new.metadata = streams.metadata /\ new.model = streams.model
  BY <1>3, SnapshotAdds
<1>5. /\ AreStreams(streams) /\ AreLeft(left, region)
      /\ StreamsTell(region, modeling, streams, left)
  BY <1>2, <1>3 DEF WriterOK
<1>6. IsNext(left, next, phase, p)
  <2>1. left[phase] = todo
    BY <1>1, <1>2, <1>3, LeftInPhases
  <2>2. phase = "biome" => left["block"] = {}
    BY <1>2, <1>3, LeftInPhases
  <2>3. next = [left EXCEPT ![phase] = @ \ {p}]
    BY <1>1, <1>3 DEF ToWrite
  <2> QED BY <1>1, <1>3, <2>1, <2>2, <2>3 DEF IsNext
<1>7. AreLeft(next, region)
  BY <1>2, <1>5, <1>6, NextLeft
<1>8. StreamsTell(region, modeling, new, next)
  BY <1>2, <1>4, <1>5, <1>6, SnapshotIsTold
<1>9. WriterOK(region, modeling, phase, todo \ {p}, palette, new)
  BY <1>2, <1>3, <1>4, <1>7, <1>8 DEF WriterOK
<1> QED BY <1>1, <1>2, <1>3, <1>9 DEF Writing

(* The palette of a domain has every atom its snapshots need. *)
LEMMA NoPaletteMiss ==
  ASSUME Writing
  PROVE  ~PaletteMiss
<1> SUFFICES ASSUME PaletteMiss PROVE FALSE
  OBVIOUS
<1>1. PICK p, snapshot :
        /\ p = First(todo) /\ snapshot = SnapshotAt(phase, p)
        /\ phase \in Domains /\ todo # {}
        /\ snapshot.kind = "paletted" /\ ~Modeled(phase, p)
  BY DEF PaletteMiss, IsPaletted
<1>2. PICK value \in Distinct(snapshot.values) :
        AtomOf(snapshot, value) \notin {palette[i] : i \in DOMAIN palette}
  BY <1>1 DEF PaletteMiss
<1>3. /\ snapshot = Snap(region, phase, p)
      /\ Modeled(phase, p) <=> InModel(modeling, phase, p)
  BY <1>1, Mirrors
<1>4. /\ region \in Regions /\ modeling \in BOOLEAN
      /\ palette = PaletteOf(region, modeling, phase)
      /\ AreLeft(ToWrite(region, phase, todo), region)
  BY <1>1 DEF Writing, WriterOK
<1>5. PICK t : t = Tour(region, phase) /\ IsTour(t)
  BY <1>1, <1>4, TourType
<1>6. p \in t
  <2>1. ToWrite(region, phase, todo)[phase] = todo
    BY <1>1, <1>4, LeftInPhases DEF ToWrite
  <2>2. IsLeftOf(todo, t)
    BY <1>1, <1>4, <1>5, <2>1 DEF AreLeft
  <2> QED BY <1>1, <1>5, <2>2, NextPlace
<1>7. p \in Packs(region, modeling)[phase] /\ snapshot \in PalettedSnapshots(phase)
  BY <1>1, <1>3, <1>4, <1>5, <1>6, ClassesMeet
<1>8. HasAtoms(palette, snapshot)
  BY <1>1, <1>3, <1>4, <1>7, PaletteHasAtoms
<1>9. AtomOf(snapshot, value) \in MarkedAtoms(snapshot)
  BY <1>1, <1>2, <1>7, PalettedType
<1>10. IsText(palette) /\ \E i \in 1..Len(palette) : palette[i] = AtomOf(snapshot, value)
  BY <1>8, <1>9 DEF HasAtoms
<1>11. DOMAIN palette = 1..Len(palette)
  BY <1>10, TextType
<1> QED BY <1>2, <1>10, <1>11

-----------------------------------------------------------------------------
(* The file                                                                *)

Told(r, m) ==
  << Presence(r), DescriptorsOf(r, "block"), DescriptorsOf(r, "biome"),
     CountsOf(r, "block"), CountsOf(r, "biome"), TagsOf(r, "block"), TagsOf(r, "biome"),
     ModelOf(r, m), <<PaletteOf(r, m, "block")>>, <<PaletteOf(r, m, "biome")>>,
     OfSegments(r, "states"), InOrder(Tours(r), Stamps(r), "block"),
     InOrder(Tours(r), Stamps(r), "biome"), InOrder(Singles(r, m), Atoms(r, m), "block"),
     InOrder(Singles(r, m), Atoms(r, m), "biome") >>

(* How many snapshots of a class there are in both domains. *)
Size(K) == Cardinality(K["block"]) + Cardinality(K["biome"])

(* A stream of a class begins at a place of a file. *)
Holds(f, base, kind, K, value) ==
  /\ base + Size(K) <= Len(f)
  /\ \A d \in Domains : \A p \in K[d] :
       f[base + (Base(K, d) + At(K[d], p) + 1)] = [kind |-> kind, value |-> value[d][p]]

(* A text of one element *)
LEMMA OneIsText ==
  ASSUME NEW x, NEW text, text = <<x>>
  PROVE  IsText(text) /\ Len(text) = 1
<1>1. text \in Seq({x}) /\ Len(text) = 1
  OBVIOUS
<1> QED BY <1>1 DEF IsText

(* Sizes of classes *)
LEMMA SizeType ==
  ASSUME NEW r \in Regions, NEW K, AreOfTours(K, r)
  PROVE  /\ Size(K) \in Nat
         /\ \A d \in Domains :
              /\ Cardinality(K[d]) \in Nat /\ IsTour(K[d])
              /\ \A p \in K[d] : At(K[d], p) \in 0..(Cardinality(K[d]) - 1)
              /\ Base(K, d) \in Nat /\ Base(K, d) + Cardinality(K[d]) <= Size(K)
<1>1. \A d \in Domains : IsTour(K[d])
  <2> TAKE d \in Domains
  <2>1. IsTour(Tour(r, d)) /\ K[d] \in SUBSET Tour(r, d)
    BY TourType DEF AreOfTours
  <2> QED BY <2>1, FS_Subset DEF IsTour
<1>2. \A d \in Domains : /\ Cardinality(K[d]) \in Nat
                         /\ \A p \in K[d] : At(K[d], p) \in 0..(Cardinality(K[d]) - 1)
  BY <1>1, NumbersInTour
<1>3. PICK x, y \in Nat : x = Cardinality(K["block"]) /\ y = Cardinality(K["biome"])
  <2>1. "block" \in Domains /\ "biome" \in Domains
    BY DEF Domains
  <2> QED BY <1>2, <2>1
<1>4. Size(K) = x + y
  BY <1>3 DEF Size
<1>5. \A d \in Domains : Base(K, d) \in Nat /\ Base(K, d) + Cardinality(K[d]) <= Size(K)
  <2> TAKE d \in Domains
  <2>1. CASE d = "block"
    BY <1>3, <1>4, <2>1 DEF Base
  <2>2. CASE d = "biome"
    BY <1>3, <1>4, <2>2 DEF Base
  <2> QED BY <2>1, <2>2 DEF Domains
<1> QED BY <1>1, <1>2, <1>4, <1>5

(* A stream that is written holds its class. *)
LEMMA StreamHolds ==
  ASSUME NEW r \in Regions, NEW K, AreOfTours(K, r),
         NEW left, \A d \in Domains : left[d] = {},
         NEW text, NEW kind, NEW value, Tells(text, kind, K, value, left),
         NEW f, NEW base \in Nat, StandsIn(text, f, base)
  PROVE  Len(text) = Size(K) /\ Holds(f, base, kind, K, value)
<1>1. \A d \in Domains : K[d] \ left[d] = K[d]
  OBVIOUS
<1>2. "block" \in Domains /\ "biome" \in Domains
  BY DEF Domains
<1>3. Len(text) = Size(K)
  BY <1>1, <1>2 DEF Tells, Size
<1>4. base + Size(K) <= Len(f)
  BY <1>3 DEF StandsIn
<1>5. ASSUME NEW d \in Domains, NEW p \in K[d]
      PROVE  f[base + (Base(K, d) + At(K[d], p) + 1)] = [kind |-> kind, value |-> value[d][p]]
  <2>1. PICK i : i = Base(K, d) + At(K[d], p) + 1
    OBVIOUS
  <2>2. text[i] = [kind |-> kind, value |-> value[d][p]]
    BY <1>1, <2>1 DEF Tells
  <2>3. i \in 1..Len(text)
    <3>1. PICK a, b, c : a = Base(K, d) /\ b = At(K[d], p) /\ c = Cardinality(K[d])
      OBVIOUS
    <3>2. /\ Size(K) \in Nat /\ c \in Nat /\ b \in 0..(c - 1) /\ a \in Nat /\ a + c <= Size(K)
      BY <3>1, SizeType
    <3> QED BY <1>3, <2>1, <3>1, <3>2
  <2>4. f[base + i] = text[i]
    BY <2>3 DEF StandsIn
  <2> QED BY <2>1, <2>2, <2>4
<1> QED BY <1>3, <1>4, <1>5 DEF Holds

(* A class's values in order *)
LEMMA OrderType ==
  ASSUME NEW r \in Regions, NEW K, AreOfTours(K, r), NEW d \in Domains, NEW value,
         NEW text, text = InOrder(K, value, d)
  PROVE  /\ IsText(text) /\ Len(text) = Cardinality(K[d]) /\ Cardinality(K[d]) \in Nat
         /\ \A p \in K[d] : /\ At(K[d], p) + 1 \in 1..Len(text)
                            /\ text[At(K[d], p) + 1] = value[d][p]
         /\ \A i \in 1..Len(text) : \E p \in K[d] : i = At(K[d], p) + 1
<1>1. PICK S, n, swept : S = K[d] /\ n = Cardinality(S) /\ swept = Swept(S)
  OBVIOUS
<1>2. IsTour(S) /\ n \in Nat
  BY <1>1, SizeType
<1>3. /\ \A p \in S : At(S, p) + 1 \in 1..n /\ swept[At(S, p) + 1] = p
      /\ \A k \in 1..n : swept[k] \in S /\ At(S, swept[k]) + 1 = k
  BY <1>1, <1>2, SweptTour
<1>4. text = [k \in 1..n |-> value[d][swept[k]]]
  BY <1>1 DEF InOrder
<1>5. text = [k \in 1..n |-> text[k]]
  BY <1>4
<1>6. IsText(text) /\ Len(text) = n
  BY <1>2, <1>5, FunctionIsText
<1>7. \A p \in S : At(S, p) + 1 \in 1..n /\ text[At(S, p) + 1] = value[d][p]
  BY <1>3, <1>4
<1>8. \A i \in 1..n : \E p \in S : i = At(S, p) + 1
  BY <1>3
<1> QED BY <1>1, <1>2, <1>6, <1>7, <1>8

(* A stream that holds a class holds the values of either domain in order. *)
LEMMA HoldsInOrder ==
  ASSUME NEW r \in Regions, NEW K, AreOfTours(K, r), NEW d \in Domains,
         NEW f, NEW base \in Nat, Len(f) \in Nat, NEW kind, NEW value, Holds(f, base, kind, K, value),
         NEW fields, fields = Fields(kind, InOrder(K, value, d))
  PROVE  StandsIn(fields, f, base + Base(K, d))
<1>1. PICK text : text = InOrder(K, value, d)
  OBVIOUS
<1>2. /\ IsText(text) /\ Len(text) = Cardinality(K[d]) /\ Cardinality(K[d]) \in Nat
      /\ \A p \in K[d] : text[At(K[d], p) + 1] = value[d][p]
      /\ \A i \in 1..Len(text) : \E p \in K[d] : i = At(K[d], p) + 1
  BY <1>1, OrderType
<1>3. /\ IsText(fields) /\ Len(fields) = Len(text)
      /\ \A i \in 1..Len(text) : fields[i] = [kind |-> kind, value |-> text[i]]
  BY <1>1, <1>2, FieldsType
<1>4. PICK a, n, c : a = Base(K, d) /\ n = Cardinality(K[d]) /\ c = Size(K)
  OBVIOUS
<1>5. a \in Nat /\ n \in Nat /\ c \in Nat /\ a + n <= c /\ base + c <= Len(f)
  BY <1>4, SizeType DEF Holds
<1>6. ASSUME NEW i \in 1..n PROVE f[(base + a) + i] = fields[i]
  <2>1. PICK p \in K[d] : i = At(K[d], p) + 1
    BY <1>2, <1>4
  <2>2. PICK b \in Nat : b = At(K[d], p) /\ i = b + 1
    <3>1. i - 1 \in Nat
      BY <1>5
    <3>2. At(K[d], p) \in 0..(Cardinality(K[d]) - 1)
      BY SizeType
    <3> QED BY <1>4, <1>5, <2>1, <3>2
  <2>3. f[base + (a + b + 1)] = [kind |-> kind, value |-> value[d][p]]
    BY <1>4, <2>2 DEF Holds
  <2>4. base + (a + b + 1) = (base + a) + i
    BY <1>5, <2>2
  <2>5. fields[i] = [kind |-> kind, value |-> value[d][p]]
    BY <1>2, <1>3, <1>4, <2>1
  <2> QED BY <2>3, <2>4, <2>5
<1>7. (base + a) + n <= Len(f)
  BY <1>5
<1> QED BY <1>2, <1>3, <1>4, <1>6, <1>7 DEF StandsIn

(* The parts that describe a region *)
LEMMA ToldOfRegion ==
  ASSUME NEW r \in Regions
  PROVE  /\ IsText(Presence(r)) /\ Len(Presence(r)) = SlotCount
         /\ \A d \in Domains :
              /\ IsText(DescriptorsOf(r, d)) /\ Len(DescriptorsOf(r, d)) = SlotCount * SectionCount
              /\ IsText(CountsOf(r, d)) /\ Len(CountsOf(r, d)) = Cardinality(Full(r, d))
              /\ IsText(TagsOf(r, d)) /\ Len(TagsOf(r, d)) = Cardinality(Deltas(r)[d])
         /\ \A part : /\ IsText(OfSegments(r, part))
                      /\ Len(OfSegments(r, part)) = Cardinality(PresentIn(r))
<1>1. SlotCount * SectionCount \in Nat /\ SlotCount \in Nat
  BY Parameters, ScanType
<1>2. IsText(Presence(r)) /\ Len(Presence(r)) = SlotCount
  <2>1. PICK f : f = Presence(r)
    OBVIOUS
  <2>2. f = [i \in 1..SlotCount |-> f[i]]
    BY <2>1 DEF Presence, Slots
  <2> QED BY <1>1, <2>1, <2>2, FunctionIsText
<1>3. ASSUME NEW d \in Domains
      PROVE  /\ IsText(DescriptorsOf(r, d)) /\ Len(DescriptorsOf(r, d)) = SlotCount * SectionCount
             /\ IsText(CountsOf(r, d)) /\ Len(CountsOf(r, d)) = Cardinality(Full(r, d))
             /\ IsText(TagsOf(r, d)) /\ Len(TagsOf(r, d)) = Cardinality(Deltas(r)[d])
  <2>1. PICK f, g : f = DescriptorsOf(r, d) /\ g = CountsOf(r, d)
    OBVIOUS
  <2>2. PICK n : n = SlotCount * SectionCount /\ n \in Nat
    BY <1>1
  <2>3. f = [i \in 1..n |-> f[i]]
    BY <2>1, <2>2 DEF DescriptorsOf, Scans
  <2>4. IsText(f) /\ Len(f) = n
    BY <2>2, <2>3, FunctionIsText
  <2>5. PICK c : c = Cardinality(Full(r, d)) /\ c \in Nat
    BY CountedSets
  <2>6. g = [i \in 1..c |-> g[i]]
    BY <2>1, <2>5 DEF CountsOf
  <2>7. IsText(g) /\ Len(g) = c
    BY <2>5, <2>6, FunctionIsText
  <2>8. IsText(TagsOf(r, d)) /\ Len(TagsOf(r, d)) = Cardinality(Deltas(r)[d])
    <3>1. PICK K, v, text : K = Deltas(r) /\ v = Kinds(r) /\ text = InOrder(K, v, d)
      OBVIOUS
    <3>2. AreOfTours(K, r)
      BY <3>1, ClassTypes
    <3>3. IsText(text) /\ Len(text) = Cardinality(K[d])
      BY <3>1, <3>2, OrderType
    <3> QED BY <3>1, <3>3 DEF TagsOf
  <2> QED BY <2>1, <2>2, <2>4, <2>5, <2>7, <2>8
<1>4. ASSUME NEW part
      PROVE  IsText(OfSegments(r, part)) /\ Len(OfSegments(r, part)) = Cardinality(PresentIn(r))
  <2>1. PICK f, c : f = OfSegments(r, part) /\ c = Cardinality(PresentIn(r)) /\ c \in Nat
    BY CountedSets DEF Domains
  <2>2. f = [i \in 1..c |-> f[i]]
    BY <2>1 DEF OfSegments
  <2> QED BY <2>1, <2>2, FunctionIsText
<1> QED BY <1>2, <1>3, <1>4

(* The parts of a file are texts. *)
LEMMA ToldType ==
  ASSUME NEW r \in Regions, NEW m \in BOOLEAN
  PROVE  \A k \in 1..15 : /\ IsText(Told(r, m)[k]) /\ Len(Told(r, m)[k]) \in Nat
                          /\ DOMAIN Told(r, m)[k] = 1..Len(Told(r, m)[k])
<1>1. "block" \in Domains /\ "biome" \in Domains
  BY DEF Domains
<1>2. AreOfTours(Tours(r), r) /\ AreOfTours(Singles(r, m), r)
  BY ClassTypes
<1>3. /\ IsText(Presence(r))
      /\ \A d \in Domains : /\ IsText(DescriptorsOf(r, d)) /\ IsText(CountsOf(r, d))
                            /\ IsText(TagsOf(r, d))
      /\ IsText(OfSegments(r, "states"))
  BY ToldOfRegion
<1>4. \A d \in Domains : /\ IsText(InOrder(Tours(r), Stamps(r), d))
                         /\ IsText(InOrder(Singles(r, m), Atoms(r, m), d))
  BY <1>2, OrderType
<1>5. IsText(ModelOf(r, m)) /\ \A d \in Domains : IsText(<<PaletteOf(r, m, d)>>)
  BY OneIsText DEF ModelOf
<1>6. ASSUME NEW k \in 1..15
      PROVE  IsText(Told(r, m)[k])
  <2>1. CASE k \in 1..5
    BY <1>1, <1>3, <2>1 DEF Told
  <2>2. CASE k \in 6..10
    BY <1>1, <1>3, <1>5, <2>2 DEF Told
  <2>3. CASE k \in 11..15
    BY <1>1, <1>3, <1>4, <2>3 DEF Told
  <2> QED BY <2>1, <2>2, <2>3
<1>7. ASSUME NEW k \in 1..15
      PROVE  /\ IsText(Told(r, m)[k]) /\ Len(Told(r, m)[k]) \in Nat
             /\ DOMAIN Told(r, m)[k] = 1..Len(Told(r, m)[k])
  <2>1. PICK text : text = Told(r, m)[k]
    OBVIOUS
  <2>2. IsText(text)
    BY <1>6, <2>1
  <2> QED BY <2>1, <2>2, TextType
<1> QED BY <1>7

(* A few texts are a text of texts. *)
LEMMA SevenTexts ==
  ASSUME NEW a, NEW b, NEW c, NEW d, NEW e, NEW f, NEW g,
         NEW texts, texts = <<a, b, c, d, e, f, g>>
  PROVE  /\ IsText(texts) /\ Len(texts) = 7
         /\ texts[1] = a /\ texts[2] = b /\ texts[3] = c /\ texts[4] = d
         /\ texts[5] = e /\ texts[6] = f /\ texts[7] = g
<1>1. texts \in Seq({a, b, c, d, e, f, g}) /\ Len(texts) = 7
  OBVIOUS
<1> QED BY <1>1 DEF IsText

(* Nine texts joined, and where each of them stands. *)
LEMMA NineTexts ==
  ASSUME NEW a, NEW b, NEW c, NEW d, NEW e, NEW f, NEW g, NEW h, NEW i,
         NEW texts, texts = <<a, b, c, d, e, f, g, h, i>>
  PROVE  /\ IsText(texts) /\ Len(texts) = 9
         /\ texts[1] = a /\ texts[2] = b /\ texts[3] = c /\ texts[4] = d
         /\ texts[5] = e /\ texts[6] = f /\ texts[7] = g /\ texts[8] = h /\ texts[9] = i
<1>1. texts \in Seq({a, b, c, d, e, f, g, h, i}) /\ Len(texts) = 9
  OBVIOUS
<1> QED BY <1>1 DEF IsText

(* The parts of the file in their order, each where the last one ends, and *)
(* the streams of the buckets, each where the last one ends.               *)
Layout(r, m, f, end, start) ==
  /\ IsText(f)
  /\ end \in [0..15 -> Nat] /\ end[0] = 0
  /\ \A k \in 1..15 : /\ end[k] = end[k - 1] + Len(Told(r, m)[k])
                      /\ StandsIn(Fields(Parts[k][1], Told(r, m)[k]), f, end[k - 1])
  /\ start \in [0..10 -> Nat] /\ start[0] = end[15] + Size(Packs(r, m))
  /\ Holds(f, end[15], "local", Packs(r, m), LocalsOf(r, m))
  /\ \A b \in Buckets : start[b + 1] = start[b] + Size(InBucket(r, m, b))
  /\ \A b \in FileBuckets : Holds(f, start[b], "packed", InBucket(r, m, b), CellsPacked(r, m))
  /\ StandsIn(Fields("entities", OfSegments(r, "tile_entities")), f, start[10])
  /\ Len(f) = start[10] + Cardinality(PresentIn(r))

(* The metadata *)
LEMMA MetadataIsLaidOut ==
  ASSUME NEW r \in Regions, NEW m \in BOOLEAN, NEW meta, meta = Metadata(r)
  PROVE  /\ IsText(meta)
         /\ \E u : /\ u \in [0..7 -> Nat] /\ u[0] = 0 /\ u[7] = Len(meta)
                   /\ \A k \in 1..7 :
                        /\ u[k] = u[k - 1] + Len(Told(r, m)[k])
                        /\ StandsIn(Fields(Parts[k][1], Told(r, m)[k]), meta, u[k - 1])
<1>1. PICK a, b, c, d, e, f, g :
        /\ a = Fields("presence", Presence(r))
        /\ b = Fields("descriptor", DescriptorsOf(r, "block"))
        /\ c = Fields("descriptor", DescriptorsOf(r, "biome"))
        /\ d = Fields("count", CountsOf(r, "block"))
        /\ e = Fields("count", CountsOf(r, "biome"))
        /\ f = Fields("tag", TagsOf(r, "block"))
        /\ g = Fields("tag", TagsOf(r, "biome"))
  OBVIOUS
<1>2. PICK texts : texts = <<a, b, c, d, e, f, g>> /\ meta = Joined(texts)
  BY <1>1 DEF Metadata
<1>3. /\ IsText(texts) /\ Len(texts) = 7
      /\ texts[1] = a /\ texts[2] = b /\ texts[3] = c /\ texts[4] = d
      /\ texts[5] = e /\ texts[6] = f /\ texts[7] = g
  BY <1>2, SevenTexts
<1>4. ASSUME NEW k \in 1..7
      PROVE  texts[k] = Fields(Parts[k][1], Told(r, m)[k])
  <2>1. CASE k \in 1..3
    BY <1>1, <1>3, <2>1 DEF Parts, Told
  <2>2. CASE k \in 4..7
    BY <1>1, <1>3, <2>2 DEF Parts, Told
  <2> QED BY <2>1, <2>2
<1>5. ASSUME NEW k \in 1..7
      PROVE  IsText(texts[k]) /\ Len(texts[k]) = Len(Told(r, m)[k])
  <2>1. PICK kind, values, fields : /\ kind = Parts[k][1] /\ values = Told(r, m)[k]
                                    /\ fields = Fields(kind, values)
    OBVIOUS
  <2>2. IsText(values)
    BY <2>1, ToldType
  <2>3. IsText(fields) /\ Len(fields) = Len(values)
    BY <2>1, <2>2, FieldsType
  <2> QED BY <1>4, <2>1, <2>3
<1>6. IsText(meta) /\ \E starts : BeginAt(starts, texts, meta)
  <2>1. \A k \in 1..Len(texts) : IsText(texts[k])
    BY <1>3, <1>5
  <2> QED BY <1>2, <1>3, <2>1, JoinOfAll
<1>7. PICK u : BeginAt(u, texts, meta)
  BY <1>6
<1>8. /\ u \in [0..7 -> Nat] /\ u[0] = 0 /\ u[7] = Len(meta)
      /\ \A k \in 1..7 : /\ u[k] = u[k - 1] + Len(texts[k])
                         /\ StandsIn(texts[k], meta, u[k - 1])
  BY <1>3, <1>7 DEF BeginAt
<1>9. \A k \in 1..7 : /\ u[k] = u[k - 1] + Len(Told(r, m)[k])
                      /\ StandsIn(Fields(Parts[k][1], Told(r, m)[k]), meta, u[k - 1])
  BY <1>4, <1>5, <1>8
<1> QED BY <1>6, <1>8, <1>9

(* The palettes *)
ArePalettes(palettes, p, q) == palettes = (<<>> \o p) \o q

(* The two global palettes, one behind the other. *)
LEMMA PalettesAreLaidOut ==
  ASSUME NEW a, NEW b, NEW p, NEW q, p = Fields("palette", <<a>>), q = Fields("palette", <<b>>),
         NEW palettes, ArePalettes(palettes, p, q)
  PROVE  /\ IsText(palettes) /\ Len(palettes) = 2 /\ Len(p) = 1 /\ Len(q) = 1
         /\ StandsIn(p, palettes, 0) /\ StandsIn(q, palettes, 1)
<1>1. IsText(p) /\ Len(p) = 1 /\ IsText(q) /\ Len(q) = 1
  <2>1. PICK s, t : s = <<a>> /\ t = <<b>>
    OBVIOUS
  <2>2. IsText(s) /\ Len(s) = 1 /\ IsText(t) /\ Len(t) = 1
    BY <2>1, OneIsText
  <2>3. p = Fields("palette", s) /\ q = Fields("palette", t)
    BY <2>1
  <2> QED BY <2>2, <2>3, FieldsType
<1>2. PICK none : none = <<>> /\ IsText(none) /\ Len(none) = 0
  BY EmptySeq DEF IsText
<1>3. PICK first : first = none \o p /\ palettes = first \o q
  BY <1>2 DEF ArePalettes
<1>4. IsText(first) /\ Len(first) = Len(none) + Len(p) /\ StandsIn(p, first, Len(none))
  <2>1. IsText(none) /\ IsText(p)
    BY <1>1, <1>2
  <2>2. first = none \o p
    BY <1>3
  <2> QED BY ONLY <2>1, <2>2, JoinOfTwo
<1>5. /\ IsText(palettes) /\ Len(palettes) = Len(first) + Len(q)
      /\ StandsIn(first, palettes, 0) /\ StandsIn(q, palettes, Len(first))
  BY <1>1, <1>3, <1>4, JoinOfTwo
<1>6. Len(first) = 1 /\ Len(palettes) = 2
  BY <1>1, <1>2, <1>4, <1>5
<1>7. PICK z \in Nat : z = 0 /\ z + z = 0
  OBVIOUS
<1>8. StandsIn(p, first, z) /\ StandsIn(first, palettes, z)
  BY <1>2, <1>4, <1>5, <1>7
<1>9. Len(p) \in Nat /\ Len(first) \in Nat /\ Len(palettes) \in Nat
  BY <1>1, <1>6
<1>10. StandsIn(p, palettes, z + z)
  BY <1>8, <1>9, StandsInWhole
<1> QED BY <1>1, <1>5, <1>6, <1>7, <1>10

(* The buckets *)
AreLaidOut(r, m, buckets, all, w) ==
  /\ w \in [0..9 -> Nat] /\ w[0] = 0 /\ Len(all) = w[9]
  /\ \A b \in FileBuckets : /\ w[b + 1] = w[b] + Size(InBucket(r, m, b))
                            /\ StandsIn(buckets[b], all, w[b])

(* The buckets, one behind the other, as far as they are in the file. *)
LEMMA BucketsAreLaidOut ==
  ASSUME NEW r \in Regions, NEW m \in BOOLEAN, NEW left, \A d \in Domains : left[d] = {},
         NEW buckets,
         \A b \in Buckets : Tells(buckets[b], "packed", InBucket(r, m, b), CellsPacked(r, m), left),
         NEW all, all = Joined([b \in 1..Cardinality(FileBuckets) |-> buckets[b - 1]])
  PROVE  /\ IsText(all)
         /\ \E w : AreLaidOut(r, m, buckets, all, w)
<1>1. Cardinality(FileBuckets) = 9
  <2>1. PICK x, y \in Int : x = 0 /\ y = 8
    OBVIOUS
  <2>2. Cardinality(x..y) = IF x <= y THEN y - x + 1 ELSE 0
    BY FS_Interval
  <2> QED BY <2>1, <2>2 DEF FileBuckets
<1>2. PICK texts : texts = [b \in 1..9 |-> buckets[b - 1]] /\ all = Joined(texts)
  BY <1>1
<1>3. texts = [b \in 1..9 |-> texts[b]] /\ \A b \in 1..9 : texts[b] = buckets[b - 1]
  BY <1>2
<1>4. IsText(texts) /\ Len(texts) = 9
  BY <1>3, FunctionIsText
<1>5. ASSUME NEW b \in FileBuckets
      PROVE  IsText(buckets[b]) /\ Len(buckets[b]) = Size(InBucket(r, m, b))
  <2>1. PICK text, K, value : text = buckets[b] /\ K = InBucket(r, m, b) /\ value = CellsPacked(r, m)
    OBVIOUS
  <2>2. b \in Buckets
    BY DEF Buckets, FileBuckets
  <2>3. Tells(text, "packed", K, value, left)
    BY <2>1, <2>2
  <2>4. K["block"] \ left["block"] = K["block"] /\ K["biome"] \ left["biome"] = K["biome"]
    BY DEF Domains
  <2> QED BY <2>1, <2>3, <2>4 DEF Tells, Size
<1>6. \A k \in 1..9 : k - 1 \in FileBuckets
  BY DEF FileBuckets
<1>7. \A k \in 1..9 : IsText(texts[k]) /\ Len(texts[k]) = Size(InBucket(r, m, k - 1))
  BY <1>3, <1>5, <1>6
<1>8. IsText(all) /\ \E starts : BeginAt(starts, texts, all)
  BY <1>2, <1>4, <1>7, JoinOfAll
<1>9. PICK w : BeginAt(w, texts, all)
  BY <1>8
<1>10. /\ w \in [0..9 -> Nat] /\ w[0] = 0 /\ Len(all) = w[9]
       /\ \A k \in 1..9 : /\ w[k] = w[k - 1] + Len(texts[k])
                          /\ StandsIn(texts[k], all, w[k - 1])
  BY <1>4, <1>9 DEF BeginAt
<1>11. ASSUME NEW b \in FileBuckets
       PROVE  /\ w[b + 1] = w[b] + Size(InBucket(r, m, b))
              /\ StandsIn(buckets[b], all, w[b])
  <2>1. PICK k \in 1..9 : k = b + 1 /\ k - 1 = b
    <3>1. b + 1 \in 1..9 /\ (b + 1) - 1 = b
      BY DEF FileBuckets
    <3> QED BY <3>1
  <2>2. /\ w[k] = w[k - 1] + Len(texts[k]) /\ StandsIn(texts[k], all, w[k - 1])
        /\ texts[k] = buckets[k - 1] /\ Len(texts[k]) = Size(InBucket(r, m, k - 1))
    BY <1>3, <1>7, <1>10
  <2> QED BY <2>1, <2>2
<1> QED BY <1>8, <1>10, <1>11 DEF AreLaidOut

(* No snapshot is of the bucket that has no part in the file. *)
LEMMA LastBucketIsEmpty ==
  ASSUME NEW r \in Regions, NEW m \in BOOLEAN
  PROVE  Size(InBucket(r, m, 9)) = 0
<1>1. ASSUME NEW d \in Domains
      PROVE  InBucket(r, m, 9)[d] = {}
  <2>1. \A p \in Packs(r, m)[d] : BucketAt(r, m, d, p) # 9
    <3> TAKE p \in Packs(r, m)[d]
    <3>1. BucketAt(r, m, d, p) \in FileBuckets
      BY BucketType
    <3> QED BY <3>1 DEF FileBuckets
  <2> QED BY <2>1 DEF InBucket
<1>2. Cardinality({}) = 0
  BY FS_EmptySet
<1> QED BY <1>1, <1>2 DEF Size, Domains

(* What the writer puts into the file *)
Written(r, m, st, f) ==
  f = Joined(<<Metadata(r), Fields("model", ModelOf(r, m)), GlobalPalettes(r, m, "rest"),
               Fields("states", OfSegments(r, "states")), st.timestamps, st.singles,
               st.local_palettes,
               Joined([b \in 1..Cardinality(FileBuckets) |-> st.buckets[b - 1]]),
               Fields("entities", OfSegments(r, "tile_entities"))>>)

(* A stream and the values of both domains *)
AreBothIn(text, kind, K, value, f, base) ==
  /\ IsText(text) /\ Len(text) = Cardinality(K["block"]) + Cardinality(K["biome"])
  /\ Cardinality(K["block"]) \in Nat /\ Cardinality(K["biome"]) \in Nat
  /\ Len(InOrder(K, value, "block")) = Cardinality(K["block"])
  /\ Len(InOrder(K, value, "biome")) = Cardinality(K["biome"])
  /\ StandsIn(Fields(kind, InOrder(K, value, "block")), f, base)
  /\ StandsIn(Fields(kind, InOrder(K, value, "biome")), f, base + Cardinality(K["block"]))

(* A stream of a class in the file: its blocks, then its biomes. *)
LEMMA StreamIsLaidOut ==
  ASSUME NEW r \in Regions, NEW K, AreOfTours(K, r),
         NEW left, \A d \in Domains : left[d] = {},
         NEW text, NEW kind, NEW value, Tells(text, kind, K, value, left),
         NEW f, Len(f) \in Nat, NEW base \in Nat, StandsIn(text, f, base)
  PROVE  AreBothIn(text, kind, K, value, f, base)
<1>1. "block" \in Domains /\ "biome" \in Domains
  BY DEF Domains
<1>2. Len(text) = Size(K) /\ Holds(f, base, kind, K, value)
  BY StreamHolds
<1>3. \A d \in Domains : Len(InOrder(K, value, d)) = Cardinality(K[d]) /\ Cardinality(K[d]) \in Nat
  BY OrderType
<1>4. \A d \in Domains : StandsIn(Fields(kind, InOrder(K, value, d)), f, base + Base(K, d))
  <2> TAKE d \in Domains
  <2>1. PICK fields : fields = Fields(kind, InOrder(K, value, d))
    OBVIOUS
  <2>2. StandsIn(fields, f, base + Base(K, d))
    BY <1>2, <2>1, HoldsInOrder
  <2> QED BY <2>1, <2>2
<1>5. base + Base(K, "block") = base /\ Base(K, "biome") = Cardinality(K["block"])
  BY DEF Base
<1>6. IsText(text)
  BY DEF Tells
<1>7. StandsIn(Fields(kind, InOrder(K, value, "block")), f, base)
  <2>1. StandsIn(Fields(kind, InOrder(K, value, "block")), f, base + Base(K, "block"))
    BY <1>1, <1>4
  <2> QED BY <1>5, <2>1
<1>8. StandsIn(Fields(kind, InOrder(K, value, "biome")), f, base + Cardinality(K["block"]))
  <2>1. StandsIn(Fields(kind, InOrder(K, value, "biome")), f, base + Base(K, "biome"))
    BY <1>1, <1>4
  <2> QED BY <1>5, <2>1
<1> QED BY <1>1, <1>2, <1>3, <1>6, <1>7, <1>8 DEF Size, AreBothIn

(* The whole file: each part of it at an offset that follows from the last. *)
LEMMA FileIsLaidOut ==
  ASSUME NEW r \in Regions, NEW m \in BOOLEAN, NEW left, \A d \in Domains : left[d] = {},
         NEW st, StreamsTell(r, m, st, left), NEW f, Written(r, m, st, f)
  PROVE  \E end, start : Layout(r, m, f, end, start)
<1>0. AreOfTours(Tours(r), r) /\ AreOfTours(Singles(r, m), r) /\ AreOfTours(Packs(r, m), r)
      /\ \A b : AreOfTours(InBucket(r, m, b), r)
  BY ClassTypes
<1>1. PICK a, b, c, d, x, y, z, g, h :
        /\ a = Metadata(r) /\ b = Fields("model", ModelOf(r, m)) /\ c = GlobalPalettes(r, m, "rest")
        /\ d = Fields("states", OfSegments(r, "states"))
        /\ x = st.timestamps /\ y = st.singles /\ z = st.local_palettes
        /\ g = Joined([i \in 1..Cardinality(FileBuckets) |-> st.buckets[i - 1]])
        /\ h = Fields("entities", OfSegments(r, "tile_entities"))
  OBVIOUS
<1>2. PICK texts : texts = <<a, b, c, d, x, y, z, g, h>> /\ f = Joined(texts)
  BY <1>1 DEF Written
<1>3. /\ IsText(texts) /\ Len(texts) = 9
      /\ texts[1] = a /\ texts[2] = b /\ texts[3] = c /\ texts[4] = d
      /\ texts[5] = x /\ texts[6] = y /\ texts[7] = z /\ texts[8] = g /\ texts[9] = h
  BY <1>2, NineTexts
<1>4. PICK u : /\ u \in [0..7 -> Nat] /\ u[0] = 0 /\ u[7] = Len(a) /\ IsText(a)
               /\ \A k \in 1..7 : /\ u[k] = u[k - 1] + Len(Told(r, m)[k])
                                  /\ StandsIn(Fields(Parts[k][1], Told(r, m)[k]), a, u[k - 1])
  BY <1>1, MetadataIsLaidOut
<1>5. IsText(b) /\ Len(b) = 1 /\ Len(ModelOf(r, m)) = 1
  <2>1. IsText(ModelOf(r, m)) /\ Len(ModelOf(r, m)) = 1
    BY OneIsText DEF ModelOf
  <2> QED BY <1>1, <2>1, FieldsType
<1>6. PICK p, q : /\ p = Fields("palette", <<PaletteOf(r, m, "block")>>)
                  /\ q = Fields("palette", <<PaletteOf(r, m, "biome")>>)
                  /\ IsText(c) /\ Len(c) = 2 /\ Len(p) = 1 /\ Len(q) = 1
                  /\ StandsIn(p, c, 0) /\ StandsIn(q, c, 1)
  <2>1. PICK p, q, s, t : /\ s = PaletteOf(r, m, "block") /\ t = PaletteOf(r, m, "biome")
                          /\ p = Fields("palette", <<s>>) /\ q = Fields("palette", <<t>>)
    OBVIOUS
  <2>2. ArePalettes(c, p, q)
    BY <1>1, <2>1 DEF GlobalPalettes, PaletteField, ArePalettes
  <2>3. IsText(c) /\ Len(c) = 2 /\ Len(p) = 1 /\ Len(q) = 1 /\ StandsIn(p, c, 0) /\ StandsIn(q, c, 1)
    BY <2>1, <2>2, PalettesAreLaidOut
  <2> QED BY <2>1, <2>3
<1>7. PICK n : /\ n = Cardinality(PresentIn(r)) /\ n \in Nat
               /\ Len(OfSegments(r, "states")) = n
               /\ IsText(d) /\ Len(d) = n /\ IsText(h) /\ Len(h) = n
  <2>1. \A part : /\ IsText(OfSegments(r, part))
                  /\ Len(OfSegments(r, part)) = Cardinality(PresentIn(r))
    BY ToldOfRegion
  <2>2. Cardinality(PresentIn(r)) \in Nat
    BY CountedSets DEF Domains
  <2>3. IsText(d) /\ Len(d) = Cardinality(PresentIn(r))
    BY <1>1, <2>1, FieldsType
  <2>4. IsText(h) /\ Len(h) = Cardinality(PresentIn(r))
    BY <1>1, <2>1, FieldsType
  <2> QED BY <2>1, <2>2, <2>3, <2>4
<1>8. PICK A, B, C, t, v, w : /\ A = Tours(r) /\ B = Singles(r, m) /\ C = Packs(r, m)
                              /\ t = Stamps(r) /\ v = Atoms(r, m) /\ w = LocalsOf(r, m)
  OBVIOUS
<1>9. /\ Tells(x, "timestamp", A, t, left) /\ Tells(y, "single", B, v, left)
      /\ Tells(z, "local", C, w, left)
      /\ \A i \in Buckets : Tells(st.buckets[i], "packed", InBucket(r, m, i), CellsPacked(r, m), left)
  BY <1>1, <1>8 DEF StreamsTell
<1>10. PICK buckets : buckets = st.buckets /\ IsText(g) /\ \E j : AreLaidOut(r, m, buckets, g, j)
  <2>1. PICK buckets : buckets = st.buckets
    OBVIOUS
  <2>2. /\ \A i \in Buckets : Tells(buckets[i], "packed", InBucket(r, m, i), CellsPacked(r, m), left)
        /\ g = Joined([i \in 1..Cardinality(FileBuckets) |-> buckets[i - 1]])
    BY <1>1, <1>9, <2>1
  <2>3. IsText(g) /\ \E j : AreLaidOut(r, m, buckets, g, j)
    BY <2>2, BucketsAreLaidOut
  <2> QED BY <2>1, <2>3
<1>11. PICK j : /\ j \in [0..9 -> Nat] /\ j[0] = 0 /\ Len(g) = j[9]
                /\ \A i \in FileBuckets :
                     /\ j[i + 1] = j[i] + Size(InBucket(r, m, i))
                     /\ StandsIn(st.buckets[i], g, j[i])
  BY <1>10 DEF AreLaidOut
<1>12. \A k \in 1..9 : IsText(texts[k])
  <2>1. IsText(x) /\ IsText(y) /\ IsText(z)
    BY <1>9 DEF Tells
  <2> TAKE k \in 1..9
  <2>2. k = 1 \/ k = 2 \/ k = 3 \/ k = 4 \/ k = 5 \/ k = 6 \/ k = 7 \/ k = 8 \/ k = 9
    OBVIOUS
  <2> QED BY <1>3, <1>4, <1>5, <1>6, <1>7, <1>10, <2>1, <2>2
<1>13. IsText(f) /\ \E s : BeginAt(s, texts, f)
  BY <1>2, <1>3, <1>12, JoinOfAll
<1>14. PICK s : BeginAt(s, texts, f)
  BY <1>13
<1>15. /\ s \in [0..9 -> Nat] /\ s[0] = 0 /\ Len(f) = s[9]
       /\ \A k \in 1..9 : s[k] = s[k - 1] + Len(texts[k]) /\ StandsIn(texts[k], f, s[k - 1])
  BY <1>3, <1>14 DEF BeginAt
<1>16. PICK s1, s2, s3, s4, s5, s6, s7, s8, s9 \in Nat :
         /\ s1 = s[1] /\ s2 = s[2] /\ s3 = s[3] /\ s4 = s[4] /\ s5 = s[5]
         /\ s6 = s[6] /\ s7 = s[7] /\ s8 = s[8] /\ s9 = s[9]
  <2>1. \A k \in 0..9 : s[k] \in Nat
    BY <1>15
  <2>2. /\ 1 \in 0..9 /\ 2 \in 0..9 /\ 3 \in 0..9 /\ 4 \in 0..9 /\ 5 \in 0..9
        /\ 6 \in 0..9 /\ 7 \in 0..9 /\ 8 \in 0..9 /\ 9 \in 0..9
    OBVIOUS
  <2> QED BY <2>1, <2>2
<1>17. /\ StandsIn(a, f, 0) /\ StandsIn(b, f, s1) /\ StandsIn(c, f, s2) /\ StandsIn(d, f, s3)
       /\ StandsIn(x, f, s4) /\ StandsIn(y, f, s5) /\ StandsIn(z, f, s6) /\ StandsIn(g, f, s7)
       /\ StandsIn(h, f, s8)
  <2>1. /\ StandsIn(a, f, s[0]) /\ StandsIn(b, f, s[1]) /\ StandsIn(c, f, s[2]) /\ StandsIn(d, f, s[3])
        /\ StandsIn(x, f, s[4]) /\ StandsIn(y, f, s[5]) /\ StandsIn(z, f, s[6]) /\ StandsIn(g, f, s[7])
        /\ StandsIn(h, f, s[8])
    BY <1>3, <1>15
  <2>2. s[0] = 0
    BY <1>15
  <2> QED BY <1>16, <2>1, <2>2
<1>n. /\ Len(f) = s9
      /\ s1 = Len(a) /\ s2 = s1 + 1 /\ s3 = s2 + 2 /\ s4 = s3 + n
      /\ s5 = s4 + Len(x) /\ s6 = s5 + Len(y) /\ s7 = s6 + Len(z)
      /\ s8 = s7 + Len(g) /\ s9 = s8 + n
  <2>2. Len(a) \in Nat /\ 0 + Len(a) = Len(a)
    BY <1>4, TextType
  <2>3. /\ s[1] = s[0] + Len(a) /\ s[2] = s[1] + Len(b) /\ s[3] = s[2] + Len(c) /\ s[4] = s[3] + Len(d)
        /\ s[0] = 0 /\ Len(f) = s[9]
    BY <1>3, <1>15
  <2>4. /\ s[5] = s[4] + Len(x) /\ s[6] = s[5] + Len(y) /\ s[7] = s[6] + Len(z)
        /\ s[8] = s[7] + Len(g) /\ s[9] = s[8] + Len(h)
    BY <1>3, <1>15
  <2> QED BY <1>5, <1>6, <1>7, <1>16, <2>2, <2>3, <2>4
<1>18. Len(f) \in Nat
  BY <1>16, <1>n, <1>n
<1>19. PICK e1, f1 \in Nat :
         /\ e1 = Cardinality(A["block"]) /\ f1 = Cardinality(A["biome"]) /\ Len(x) = e1 + f1
         /\ Len(InOrder(A, t, "block")) = e1 /\ Len(InOrder(A, t, "biome")) = f1
         /\ StandsIn(Fields("timestamp", InOrder(A, t, "block")), f, s4)
         /\ StandsIn(Fields("timestamp", InOrder(A, t, "biome")), f, s4 + e1)
  <2>1. StandsIn(x, f, s4) /\ AreOfTours(A, r) /\ Tells(x, "timestamp", A, t, left)
    BY <1>0, <1>8, <1>9, <1>17
  <2>2. AreBothIn(x, "timestamp", A, t, f, s4)
    BY <1>18, <2>1, StreamIsLaidOut
  <2> QED BY <2>2 DEF AreBothIn
<1>20. PICK e2, f2 \in Nat :
         /\ e2 = Cardinality(B["block"]) /\ f2 = Cardinality(B["biome"]) /\ Len(y) = e2 + f2
         /\ Len(InOrder(B, v, "block")) = e2 /\ Len(InOrder(B, v, "biome")) = f2
         /\ StandsIn(Fields("single", InOrder(B, v, "block")), f, s5)
         /\ StandsIn(Fields("single", InOrder(B, v, "biome")), f, s5 + e2)
  <2>1. StandsIn(y, f, s5) /\ AreOfTours(B, r) /\ Tells(y, "single", B, v, left)
    BY <1>0, <1>8, <1>9, <1>17
  <2>2. AreBothIn(y, "single", B, v, f, s5)
    BY <1>18, <2>1, StreamIsLaidOut
  <2> QED BY <2>2 DEF AreBothIn
<1>21. Len(z) = Size(C) /\ Holds(f, s6, "local", C, w)
  <2>1. StandsIn(z, f, s6) /\ AreOfTours(C, r) /\ Tells(z, "local", C, w, left)
    BY <1>0, <1>8, <1>9, <1>17
  <2> QED BY <2>1, StreamHolds
<1>22. \A i \in FileBuckets : Holds(f, s7 + j[i], "packed", InBucket(r, m, i), CellsPacked(r, m))
  <2> TAKE i \in FileBuckets
  <2>1. PICK text, K, value, base :
          /\ text = st.buckets[i] /\ K = InBucket(r, m, i) /\ value = CellsPacked(r, m) /\ base = j[i]
    OBVIOUS
  <2>2. Tells(text, "packed", K, value, left) /\ AreOfTours(K, r)
    <3>1. i \in Buckets
      BY DEF Buckets, FileBuckets
    <3> QED BY <1>0, <1>9, <2>1, <3>1
  <2>3. IsText(text) /\ Len(text) \in Nat
    BY <2>2, TextType DEF Tells
  <2>4. i \in 0..9 /\ base \in Nat /\ StandsIn(text, g, base)
    <3>1. i \in 0..9
      BY DEF FileBuckets
    <3> QED BY <1>11, <2>1, <3>1
  <2>5. Len(g) \in Nat
    BY <1>10, TextType
  <2>6. PICK from \in Nat : from = s7
    BY <1>16, <1>n, <1>n
  <2>7. StandsIn(text, f, from + base)
    BY <1>17, <1>18, <2>3, <2>4, <2>5, <2>6, StandsInWhole
  <2>8. PICK at \in Nat : at = from + base
    BY <2>4, <2>6
  <2>9. Holds(f, at, "packed", K, value)
    BY <2>2, <2>7, <2>8, StreamHolds
  <2> QED BY <2>1, <2>6, <2>8, <2>9
<1>23. PICK end : end = [k \in 0..15 |->
         IF k <= 7 THEN u[k] ELSE IF k = 8 THEN s2 ELSE IF k = 9 THEN s2 + 1
         ELSE IF k = 10 THEN s3 ELSE IF k = 11 THEN s4 ELSE IF k = 12 THEN s4 + e1
         ELSE IF k = 13 THEN s5 ELSE IF k = 14 THEN s5 + e2 ELSE s6]
  OBVIOUS
<1>24. /\ end[0] = 0 /\ end[7] = s1 /\ end[8] = s2 /\ end[9] = s2 + 1 /\ end[10] = s3
       /\ end[11] = s4 /\ end[12] = s4 + e1 /\ end[13] = s5 /\ end[14] = s5 + e2 /\ end[15] = s6
  <2>1. u[0] = 0 /\ u[7] = s1
    BY <1>4, <1>n
  <2> QED BY <1>23, <2>1
<1>e. \A k \in 0..7 : end[k] = u[k]
  BY <1>23
<1>25. end \in [0..15 -> Nat]
  <2>1. \A k \in 0..7 : u[k] \in Nat
    BY <1>4
  <2>2. \A k \in 0..15 : end[k] \in Nat
    <3> TAKE k \in 0..15
    <3>1. CASE k <= 7
      <4>1. k \in 0..7
        BY <3>1
      <4> QED BY <1>e, <2>1, <4>1
    <3>2. CASE ~(k <= 7)
      <4>1. k = 8 \/ k = 9 \/ k = 10 \/ k = 11 \/ k = 12 \/ k = 13 \/ k = 14 \/ k = 15
        BY <3>2
      <4>2. end[8] \in Nat /\ end[9] \in Nat /\ end[10] \in Nat /\ end[11] \in Nat
        BY <1>24
      <4>3. end[12] \in Nat /\ end[13] \in Nat /\ end[14] \in Nat /\ end[15] \in Nat
        BY <1>24
      <4> QED BY <4>1, <4>2, <4>3
    <3> QED BY <3>1, <3>2
  <2> QED BY <1>23, <2>2
<1> DEFINE Good(k) == /\ end[k] = end[k - 1] + Len(Told(r, m)[k])
                      /\ StandsIn(Fields(Parts[k][1], Told(r, m)[k]), f, end[k - 1])
<1>26. ASSUME NEW k \in 1..7 PROVE Good(k)
  <2>1. PICK fields, base : fields = Fields(Parts[k][1], Told(r, m)[k]) /\ base = u[k - 1]
    OBVIOUS
  <2>2. /\ base \in Nat /\ StandsIn(fields, a, base) /\ u[k] = base + Len(Told(r, m)[k])
        /\ end[k] = u[k] /\ end[k - 1] = base
    <3>1. k - 1 \in 0..7 /\ k \in 0..7
      OBVIOUS
    <3> QED BY <1>4, <1>e, <2>1, <3>1
  <2>3. Len(fields) \in Nat
    <3>1. PICK kind, values : kind = Parts[k][1] /\ values = Told(r, m)[k] /\ fields = Fields(kind, values)
      BY <2>1
    <3>2. k \in 1..15
      OBVIOUS
    <3>3. IsText(values) /\ Len(values) \in Nat
      BY <3>1, <3>2, ToldType
    <3> QED BY <3>1, <3>3, FieldsType
  <2>4. Len(a) \in Nat
    BY <1>4, TextType
  <2>5. PICK o \in Nat : o = 0 /\ o + base = base /\ StandsIn(a, f, o)
    BY <1>17, <2>2
  <2>6. StandsIn(fields, f, o + base)
    BY <1>18, <2>2, <2>3, <2>4, <2>5, StandsInWhole
  <2> QED BY <2>1, <2>2, <2>5, <2>6
<1>27. Good(8)
  <2>1. Told(r, m)[8] = ModelOf(r, m) /\ Parts[8][1] = "model"
    BY DEF Told, Parts
  <2>2. end[8] = end[7] + Len(Told(r, m)[8])
    BY <1>5, <1>24, <1>n, <2>1
  <2>3. StandsIn(Fields(Parts[8][1], Told(r, m)[8]), f, end[7])
    BY <1>1, <1>17, <1>24, <2>1
  <2> QED BY <2>2, <2>3
<1>28. Good(9) /\ Good(10)
  <2>1. /\ Told(r, m)[9] = <<PaletteOf(r, m, "block")>> /\ Parts[9][1] = "palette"
        /\ Told(r, m)[10] = <<PaletteOf(r, m, "biome")>> /\ Parts[10][1] = "palette"
    BY DEF Told, Parts
  <2>2. Len(Told(r, m)[9]) = 1 /\ Len(Told(r, m)[10]) = 1
    BY <2>1, OneIsText
  <2>3. PICK from \in Nat : from = s2 /\ StandsIn(c, f, from)
    BY <1>n, <1>17
  <2>4. Len(c) \in Nat /\ Len(p) \in Nat /\ Len(q) \in Nat
    BY <1>6
  <2>5. PICK o, l \in Nat : o = 0 /\ l = 1 /\ StandsIn(p, c, o) /\ StandsIn(q, c, l)
    BY <1>6
  <2>6. StandsIn(p, f, from + o)
    BY <1>18, <2>3, <2>4, <2>5, StandsInWhole
  <2>7. StandsIn(q, f, from + l)
    BY <1>18, <2>3, <2>4, <2>5, StandsInWhole
  <2>8. from + o = end[8] /\ from + l = end[9]
    BY <1>24, <2>3, <2>5
  <2>9. end[9] = end[8] + 1 /\ end[10] = end[9] + 1
    BY <1>n, <1>24
  <2> QED BY <1>6, <2>1, <2>2, <2>6, <2>7, <2>8, <2>9
<1>29. Good(11)
  <2>1. Told(r, m)[11] = OfSegments(r, "states") /\ Parts[11][1] = "states"
    BY DEF Told, Parts
  <2>2. end[11] = end[10] + Len(Told(r, m)[11])
    BY <1>7, <1>24, <1>n, <2>1
  <2>3. StandsIn(Fields(Parts[11][1], Told(r, m)[11]), f, end[10])
    BY <1>1, <1>17, <1>24, <2>1
  <2> QED BY <2>2, <2>3
<1>30. Good(12) /\ Good(13)
  <2>1. /\ Told(r, m)[12] = InOrder(A, t, "block") /\ Parts[12][1] = "timestamp"
        /\ Told(r, m)[13] = InOrder(A, t, "biome") /\ Parts[13][1] = "timestamp"
    BY <1>8 DEF Told, Parts
  <2>2. Len(x) = e1 + f1 /\ s5 = s4 + Len(x)
    BY <1>n, <1>19
  <2>3. s5 = s4 + e1 + f1
    BY <2>2
  <2>4. end[11] = s4 /\ end[12] = s4 + e1 /\ end[13] = s5
    BY <1>24
  <2>5. Len(Told(r, m)[12]) = e1 /\ Len(Told(r, m)[13]) = f1
    BY <1>19, <2>1
  <2>6. end[12] = end[11] + e1
    BY <2>4
  <2>7. end[13] = end[12] + f1
    BY <2>3, <2>4
  <2>8. StandsIn(Fields(Parts[12][1], Told(r, m)[12]), f, end[11])
    BY <1>19, <2>1, <2>4
  <2>9. StandsIn(Fields(Parts[13][1], Told(r, m)[13]), f, end[12])
    BY <1>19, <2>1, <2>4
  <2>10. Good(12)
    BY <2>5, <2>6, <2>8
  <2>11. Good(13)
    BY <2>5, <2>7, <2>9
  <2> QED BY <2>10, <2>11
<1>31. Good(14) /\ Good(15)
  <2>1. /\ Told(r, m)[14] = InOrder(B, v, "block") /\ Parts[14][1] = "single"
        /\ Told(r, m)[15] = InOrder(B, v, "biome") /\ Parts[15][1] = "single"
    BY <1>8 DEF Told, Parts
  <2>2. Len(y) = e2 + f2 /\ s6 = s5 + Len(y)
    BY <1>n, <1>20
  <2>3. s6 = s5 + e2 + f2
    BY <2>2
  <2>4. end[13] = s5 /\ end[14] = s5 + e2 /\ end[15] = s6
    BY <1>24
  <2>5. Len(Told(r, m)[14]) = e2 /\ Len(Told(r, m)[15]) = f2
    BY <1>20, <2>1
  <2>6. end[14] = end[13] + e2
    BY <2>4
  <2>7. end[15] = end[14] + f2
    BY <2>3, <2>4
  <2>8. StandsIn(Fields(Parts[14][1], Told(r, m)[14]), f, end[13])
    BY <1>20, <2>1, <2>4
  <2>9. StandsIn(Fields(Parts[15][1], Told(r, m)[15]), f, end[14])
    BY <1>20, <2>1, <2>4
  <2>10. Good(14)
    BY <2>5, <2>6, <2>8
  <2>11. Good(15)
    BY <2>5, <2>7, <2>9
  <2> QED BY <2>10, <2>11
<1>32. \A k \in 1..15 : Good(k)
  <2>1. \A k \in 1..15 : k \in 1..7 \/ k = 8 \/ k = 9 \/ k = 10 \/ k = 11 \/ k = 12
                                    \/ k = 13 \/ k = 14 \/ k = 15
    OBVIOUS
  <2> HIDE DEF Good
  <2> QED BY <1>26, <1>27, <1>28, <1>29, <1>30, <1>31, <2>1
<1>33. PICK start : start = [i \in 0..10 |-> IF i = 10 THEN s8 ELSE s7 + j[i]]
  OBVIOUS
<1>34. /\ start \in [0..10 -> Nat] /\ start[10] = s8
       /\ \A i \in 0..9 : start[i] = s7 + j[i]
  <2>1. \A i \in 0..9 : start[i] = s7 + j[i] /\ start[i] \in Nat
    <3> TAKE i \in 0..9
    <3>1. PICK o \in Nat : o = j[i]
      BY <1>11
    <3>2. start[i] = s7 + o
      BY <1>33, <3>1
    <3> QED BY <3>1, <3>2
  <2>2. start[10] = s8
    BY <1>33
  <2>3. \A i \in 0..10 : i = 10 \/ i \in 0..9
    OBVIOUS
  <2>4. \A i \in 0..10 : start[i] \in Nat
    BY <2>1, <2>2, <2>3
  <2>5. start \in [0..10 -> Nat]
    BY <1>33, <2>4
  <2> QED BY <2>1, <2>2, <2>5
<1>35. /\ start[0] = end[15] + Size(C)
       /\ \A i \in FileBuckets : start[i] = s7 + j[i]
       /\ \A i \in Buckets : start[i + 1] = start[i] + Size(InBucket(r, m, i))
  <2>1. start[0] = end[15] + Size(C)
    <3>1. j[0] = 0 /\ 0 \in 0..9
      BY <1>11
    <3>2. start[0] = s7 + 0
      BY <1>34, <3>1
    <3>3. s7 = s6 + Size(C) /\ end[15] = s6
      BY <1>21, <1>24, <1>n
    <3> QED BY <3>2, <3>3
  <2>2. \A i \in FileBuckets : i \in 0..9 /\ i + 1 \in 0..9
    BY DEF FileBuckets
  <2>3. \A i \in FileBuckets : start[i] = s7 + j[i]
    BY <1>34, <2>2
  <2>4. ASSUME NEW i \in Buckets
        PROVE  start[i + 1] = start[i] + Size(InBucket(r, m, i))
    <3>1. CASE i = 9
      <4>1. PICK o \in Nat : o = j[9]
        <5>1. 9 \in 0..9
          OBVIOUS
        <5> QED BY <1>11, <5>1
      <4>2. start[9] = s7 + o
        BY <1>34, <4>1
      <4>3. start[10] = s7 + o
        BY <1>11, <1>34, <1>n, <4>1
      <4>4. start[i + 1] = s7 + o /\ start[i] = s7 + o /\ Size(InBucket(r, m, i)) = 0
        BY <3>1, <4>2, <4>3, LastBucketIsEmpty
      <4> QED BY <4>4
    <3>2. CASE i # 9
      <4>1. i \in FileBuckets
        BY <3>2 DEF Buckets, FileBuckets
      <4>2. PICK k \in Nat : k = Size(InBucket(r, m, i))
        BY <1>0, SizeType
      <4>3. PICK o \in Nat : o = j[i] /\ j[i + 1] = o + k
        BY <1>11, <2>2, <4>1, <4>2
      <4>4. start[i + 1] = s7 + (o + k) /\ start[i] = s7 + o
        BY <1>34, <2>2, <4>1, <4>3
      <4> QED BY <4>2, <4>4
    <3> QED BY <3>1, <3>2
  <2> QED BY <2>1, <2>3, <2>4
<1>36. Layout(r, m, f, end, start)
  <2>1. /\ Holds(f, end[15], "local", Packs(r, m), LocalsOf(r, m))
        /\ start[0] = end[15] + Size(Packs(r, m))
    BY <1>8, <1>21, <1>24, <1>35
  <2>2. \A i \in FileBuckets : Holds(f, start[i], "packed", InBucket(r, m, i), CellsPacked(r, m))
    BY <1>22, <1>35
  <2>3. /\ StandsIn(Fields("entities", OfSegments(r, "tile_entities")), f, start[10])
        /\ Len(f) = start[10] + Cardinality(PresentIn(r))
    BY <1>1, <1>7, <1>17, <1>34, <1>n
  <2> QED BY <1>13, <1>24, <1>25, <1>32, <1>34, <1>35, <2>1, <2>2, <2>3 DEF Layout
<1> QED BY <1>36

-----------------------------------------------------------------------------
(* What the reader has                                                     *)

(* The last step of the writer *)
LEMMA RestWritesFile ==
  ASSUME Writing, WriteRest
  PROVE  Fits(region) /\ \E end, start : Layout(region, modeling, file', end, start)
<1>1. /\ region \in Regions /\ modeling \in BOOLEAN /\ phase = "rest"
      /\ WriterOK(region, modeling, "rest", todo, palette, streams)
  BY DEF Writing, WriteRest
<1>2. PICK left : left = ToWrite(region, "rest", todo)
  OBVIOUS
<1>3. /\ Fits(region) /\ StreamsTell(region, modeling, streams, left)
      /\ streams.global_palette = GlobalPalettes(region, modeling, "rest")
      /\ streams.metadata = Metadata(region)
      /\ streams.model = Fields("model", ModelOf(region, modeling))
  BY <1>1, <1>2 DEF WriterOK
<1>4. \A d \in Domains : left[d] = {}
  BY <1>1, <1>2, LeftInPhases
<1>5. \A kind, part : SegmentFields(kind, part) = Fields(kind, OfSegments(region, part))
  <2> TAKE kind, part
  <2>1. PICK present : present = Ascending(PresentIn(region))
    OBVIOUS
  <2>2. DOMAIN present = 1..Cardinality(PresentIn(region))
    BY <2>1 DEF Ascending
  <2>3. [k \in DOMAIN present |-> region[present[k]][part]] = OfSegments(region, part)
    BY <2>1, <2>2 DEF OfSegments
  <2> QED BY <2>1, <2>3 DEF SegmentFields, PresentIn
<1>6. file' = Joined(<<streams.metadata, streams.model, streams.global_palette,
                       SegmentFields("states", "states"), streams.timestamps,
                       streams.singles, streams.local_palettes,
                       Joined([b \in 1..Cardinality(FileBuckets) |-> streams.buckets[b - 1]]),
                       SegmentFields("entities", "tile_entities")>>)
  BY DEF WriteRest
<1>7. Written(region, modeling, streams, file')
  BY <1>3, <1>5, <1>6 DEF Written
<1> QED BY <1>1, <1>3, <1>4, <1>7, FileIsLaidOut

(* The parts are different. *)
LEMMA PartsDiffer == \A i, j \in 1..15 : Parts[i] = Parts[j] => i = j
<1>1. /\ Parts[1] = <<"presence", "region">> /\ Parts[2] = <<"descriptor", "block">>
      /\ Parts[3] = <<"descriptor", "biome">> /\ Parts[4] = <<"count", "block">>
      /\ Parts[5] = <<"count", "biome">> /\ Parts[6] = <<"tag", "block">>
      /\ Parts[7] = <<"tag", "biome">> /\ Parts[8] = <<"model", "block">>
      /\ Parts[9] = <<"palette", "block">> /\ Parts[10] = <<"palette", "biome">>
      /\ Parts[11] = <<"states", "region">> /\ Parts[12] = <<"timestamp", "block">>
      /\ Parts[13] = <<"timestamp", "biome">> /\ Parts[14] = <<"single", "block">>
      /\ Parts[15] = <<"single", "biome">>
  BY DEF Parts
<1> QED BY <1>1

(* A part is found where it was read. *)
LEMMA GotParts ==
  /\ Len(Parts) = 15
  /\ Got("presence", "region") = got[1] /\ Got("model", "block") = got[8]
  /\ Got("states", "region") = got[11]
  /\ Got("descriptor", "block") = got[2] /\ Got("descriptor", "biome") = got[3]
  /\ Got("count", "block") = got[4] /\ Got("count", "biome") = got[5]
  /\ Got("tag", "block") = got[6] /\ Got("tag", "biome") = got[7]
  /\ Got("palette", "block") = got[9] /\ Got("palette", "biome") = got[10]
  /\ Got("timestamp", "block") = got[12] /\ Got("timestamp", "biome") = got[13]
  /\ Got("single", "block") = got[14] /\ Got("single", "biome") = got[15]
<1>1. Len(Parts) = 15 /\ DOMAIN Parts = 1..15
  BY DEF Parts
<1>2. \A k \in 1..15 : (CHOOSE j \in DOMAIN Parts : Parts[j] = Parts[k]) = k
  BY <1>1, PartsDiffer
<1>3. \A kind, domain : \A k \in 1..15 : Parts[k] = <<kind, domain>> => Got(kind, domain) = got[k]
  <2> TAKE kind, domain
  <2> TAKE k \in 1..15
  <2> HAVE Parts[k] = <<kind, domain>>
  <2>1. (CHOOSE j \in DOMAIN Parts : Parts[j] = <<kind, domain>>) = k
    BY <1>2
  <2> QED BY <2>1 DEF Got
<1>4. /\ Parts[1] = <<"presence", "region">> /\ Parts[2] = <<"descriptor", "block">>
      /\ Parts[3] = <<"descriptor", "biome">> /\ Parts[4] = <<"count", "block">>
      /\ Parts[5] = <<"count", "biome">> /\ Parts[6] = <<"tag", "block">>
      /\ Parts[7] = <<"tag", "biome">> /\ Parts[8] = <<"model", "block">>
      /\ Parts[9] = <<"palette", "block">> /\ Parts[10] = <<"palette", "biome">>
      /\ Parts[11] = <<"states", "region">> /\ Parts[12] = <<"timestamp", "block">>
      /\ Parts[13] = <<"timestamp", "biome">> /\ Parts[14] = <<"single", "block">>
      /\ Parts[15] = <<"single", "biome">>
  BY DEF Parts
<1>5. Got("presence", "region") = got[1] /\ Got("model", "block") = got[8]
      /\ Got("states", "region") = got[11]
  BY <1>3, <1>4
<1>6. Got("descriptor", "block") = got[2] /\ Got("descriptor", "biome") = got[3]
  BY <1>3, <1>4
<1>7. Got("count", "block") = got[4] /\ Got("count", "biome") = got[5]
  BY <1>3, <1>4
<1>8. Got("tag", "block") = got[6] /\ Got("tag", "biome") = got[7]
  BY <1>3, <1>4
<1>9. Got("palette", "block") = got[9] /\ Got("palette", "biome") = got[10]
  BY <1>3, <1>4
<1>10. Got("timestamp", "block") = got[12] /\ Got("timestamp", "biome") = got[13]
  BY <1>3, <1>4
<1>11. Got("single", "block") = got[14] /\ Got("single", "biome") = got[15]
  BY <1>3, <1>4
<1> QED BY <1>1, <1>5, <1>6, <1>7, <1>8, <1>9, <1>10, <1>11

(* Sections with a snapshot, in all and up to one of them *)
LEMMA DescribedSections ==
  ASSUME region \in Regions, NEW d \in Domains,
         Got("descriptor", d) = DescriptorsOf(region, d)
  PROVE  /\ Described(d) = Cardinality(Full(region, d))
         /\ \A s \in Scans :
              /\ Got("descriptor", d)[s] = "none" <=> s \notin Full(region, d)
              /\ s \in Full(region, d) =>
                   /\ DescribedUpTo(d, s) = Below(Full(region, d), s) + 1
                   /\ Got("descriptor", d)[s] = Hist(region, d, s)[1].kind
                   /\ Hist(region, d, s)[1].kind \in {"single", "paletted"}
<1>1. PICK full, g : full = Full(region, d) /\ g = Got("descriptor", d)
  OBVIOUS
<1>2. full \subseteq Nat /\ full \subseteq Scans /\ IsFiniteSet(full)
  BY <1>1, CountedSets DEF Full
<1>3. \A s \in Scans : /\ g[s] = "none" <=> s \notin full
                       /\ s \in full => /\ g[s] = Hist(region, d, s)[1].kind
                                        /\ g[s] \in {"single", "paletted"}
  <2> TAKE s \in Scans
  <2>1. PICK h : h = Hist(region, d, s) /\ h \in Seq(Snapshots(d)) /\ Lengths(region, d)[s] = Len(h)
                 /\ \A k \in 1..Len(h) : h[k] \in Snapshots(d)
    BY HistoryType
  <2>2. s \in full <=> h # <<>>
    <3>1. Len(h) = 0 <=> h = <<>>
      BY <2>1
    <3> QED BY <1>1, <2>1, <3>1 DEF Full
  <2>3. h # <<>> => h[1].kind \in {"single", "paletted"}
    <3> HAVE h # <<>>
    <3>1. 1 \in 1..Len(h)
      BY <2>1
    <3>2. h[1] \in Snapshots(d)
      BY <2>1, <3>1
    <3> QED BY <3>2 DEF Snapshots, SingleSnapshots, PalettedSnapshots
  <2>4. g[s] = IF h = <<>> THEN "none" ELSE h[1].kind
    BY <1>1, <2>1 DEF DescriptorsOf
  <2> QED BY <2>1, <2>2, <2>3, <2>4
<1>4. \A s \in Scans : DescribedUpTo(d, s) = Cardinality({x \in 1..s : x \in full})
  <2> TAKE s \in Scans
  <2>1. 1..s \subseteq Scans
    BY ScanType DEF Scans
  <2>2. {x \in 1..s : g[x] # "none"} = {x \in 1..s : x \in full}
    BY <1>3, <2>1
  <2> QED BY <1>1, <2>2 DEF DescribedUpTo
<1>5. \A s \in full : DescribedUpTo(d, s) = Below(full, s) + 1
  <2> TAKE s \in full
  <2>1. {x \in 1..s : x \in full} = {x \in full : x < s} \cup {s}
    <3>1. s \in Nat /\ s \in full /\ \A x \in full : x \in Nat /\ 1 <= x
      BY <1>2 DEF Scans
    <3>2. \A x : x \in 1..s /\ x \in full <=> x \in full /\ (x < s \/ x = s)
      <4> TAKE x
      <4>1. CASE x \in full
        <5>1. x \in Nat /\ s \in Nat /\ 1 <= x
          BY <3>1, <4>1
        <5>2. x \in 1..s <=> x < s \/ x = s
          BY ONLY <5>1
        <5> QED BY <4>1, <5>2
      <4> QED BY <4>1
    <3> QED BY <3>1, <3>2
  <2>2. IsFiniteSet({x \in full : x < s}) /\ s \notin {x \in full : x < s}
    BY <1>2, FS_Subset
  <2>3. Cardinality({x \in full : x < s} \cup {s}) = Below(full, s) + 1
    BY <2>2, FS_AddElement DEF Below
  <2> QED BY <1>2, <1>4, <2>1, <2>3
<1>6. Described(d) = Cardinality(full)
  <2>1. {x \in 1..(SlotCount * SectionCount) : g[x] # "none"} = full
    BY <1>2, <1>3 DEF Scans
  <2> QED BY <1>1, <2>1 DEF Described, DescribedUpTo
<1> QED BY <1>1, <1>2, <1>3, <1>5, <1>6

(* The counts of all sections *)
LEMMA CountsAreGot ==
  ASSUME region \in Regions, NEW d \in Domains,
         Got("descriptor", d) = DescriptorsOf(region, d), Got("count", d) = CountsOf(region, d)
  PROVE  /\ GotCounts(d) = Lengths(region, d)
         /\ Visited(GotCounts(d)) = Tour(region, d)
         /\ \A scans : CountSum(d, scans) = Cardinality({p \in Tour(region, d) : p.scan \in scans})
         /\ CountSum(d, Scans) = Cardinality(Tour(region, d))
<1>1. PICK full, order : full = Full(region, d) /\ order = Ascending(full)
  OBVIOUS
<1>2. full \subseteq Nat /\ IsFiniteSet(full)
  BY <1>1, CountedSets
<1>3. \A n \in full : Below(full, n) + 1 \in 1..Cardinality(full) /\ order[Below(full, n) + 1] = n
  BY <1>1, <1>2, AscendingNumbers
<1>4. \A s \in Scans : GotCounts(d)[s] = Lengths(region, d)[s]
  <2> TAKE s \in Scans
  <2>1. GotCounts(d)[s] = IF Got("descriptor", d)[s] = "none" THEN 0
                          ELSE Got("count", d)[DescribedUpTo(d, s)]
    BY DEF GotCounts
  <2>2. CASE s \notin full
    <3>1. Lengths(region, d)[s] = 0
      BY <1>1, <2>2 DEF Full
    <3> QED BY <1>1, <2>1, <2>2, <3>1, DescribedSections
  <2>3. CASE s \in full
    <3>1. PICK k : k = Below(full, s) + 1 /\ k \in 1..Cardinality(full) /\ order[k] = s
      BY <1>3, <2>3
    <3>2. Got("descriptor", d)[s] # "none" /\ DescribedUpTo(d, s) = k
      BY <1>1, <2>3, <3>1, DescribedSections
    <3>3. CountsOf(region, d)[k] = Lengths(region, d)[s]
      BY <1>1, <3>1 DEF CountsOf
    <3> QED BY <2>1, <3>2, <3>3
  <2> QED BY <2>2, <2>3
<1>5. GotCounts(d) = Lengths(region, d)
  <2>1. PICK a, b : a = GotCounts(d) /\ b = Lengths(region, d)
    OBVIOUS
  <2>2. a = [s \in Scans |-> a[s]] /\ b = [s \in Scans |-> b[s]]
    BY <2>1 DEF GotCounts, Lengths
  <2>3. \A s \in Scans : a[s] = b[s]
    BY <1>4, <2>1
  <2> QED BY <2>1, <2>2, <2>3
<1>6. Visited(GotCounts(d)) = Tour(region, d)
  BY <1>5 DEF Tour
<1>7. \A scans : CountSum(d, scans) = Cardinality({p \in Tour(region, d) : p.scan \in scans})
  BY <1>6 DEF CountSum
<1>8. {p \in Tour(region, d) : p.scan \in Scans} = Tour(region, d)
  BY TourType
<1> QED BY <1>5, <1>6, <1>7, <1>8

(* The newest snapshots of some sections *)
LEMMA NewestOf ==
  ASSUME NEW r \in Regions, NEW d \in Domains, NEW T, T \subseteq Full(r, d),
         NEW newest, newest = {p \in Tour(r, d) : p.level = 0 /\ p.scan \in T}
  PROVE  IsFiniteSet(newest) /\ IsFiniteSet(T) /\ Cardinality(newest) = Cardinality(T)
<1>1. PICK tour : tour = Tour(r, d) /\ IsTour(tour)
  BY TourType
<1>2. IsFiniteSet(newest) /\ newest \subseteq Places
  <2>1. newest \in SUBSET tour /\ IsFiniteSet(tour) /\ tour \subseteq Places
    BY <1>1 DEF IsTour
  <2> QED BY <2>1, FS_Subset
<1>3. PICK g : g = [p \in newest |-> p.scan]
  OBVIOUS
<1>4. g \in [newest -> T]
  BY <1>3
<1>5. \A p, q \in newest : g[p] = g[q] => p = q
  BY <1>2, <1>3 DEF Places
<1>6. \A s \in T : \E p \in newest : g[p] = s
  <2> TAKE s \in T
  <2>1. s \in Scans /\ Lengths(r, d)[s] # 0
    BY DEF Full
  <2>2. Lengths(r, d)[s] \in Nat
    BY <2>1, HistoryType
  <2>3. PICK p : p = [level |-> 0, scan |-> s]
    OBVIOUS
  <2>4. p \in Tour(r, d)
    <3>1. 0 < MAX_COUNT /\ 0 < Lengths(r, d)[s] /\ 0 \in Nat
      BY <2>1, <2>2, Parameters
    <3> QED BY <2>1, <2>3, <3>1, TourType
  <2>5. p.level = 0 /\ p.scan = s
    BY <2>3
  <2> QED BY <1>3, <2>4, <2>5
<1> QED BY ONLY <1>2, <1>4, <1>5, <1>6, AsMany

(* Which are not newest *)
LEMMA DeltasOf ==
  ASSUME NEW r \in Regions, NEW d \in Domains
  PROVE  Cardinality(Tour(r, d)) - Cardinality(Full(r, d)) = Cardinality(Deltas(r)[d])
<1>0. PICK tour, full : tour = Tour(r, d) /\ IsTour(tour) /\ full = Full(r, d)
  BY TourType
<1>1. PICK deltas, newest :
        /\ tour = Tour(r, d) /\ IsTour(tour) /\ full = Full(r, d)
        /\ deltas = Deltas(r)[d] /\ newest = {p \in tour : p.level = 0 /\ p.scan \in full}
  BY <1>0
<1>2. \A p \in tour : p.level \in Nat /\ p.scan \in full
  <2> TAKE p \in tour
  <2>1. p.level \in Nat /\ p.scan \in Scans /\ p.level < Lengths(r, d)[p.scan]
    BY <1>1, TourType
  <2>2. Lengths(r, d)[p.scan] \in Nat
    BY <2>1, HistoryType
  <2>3. Lengths(r, d)[p.scan] # 0
    BY <2>1, <2>2
  <2> QED BY <1>1, <2>1, <2>3 DEF Full
<1>3. deltas = tour \ newest
  <2>1. deltas = {p \in tour : p.level > 0}
    BY <1>1 DEF Deltas
  <2>2. \A p \in tour : p.level > 0 <=> p.level # 0
    BY <1>2
  <2> QED BY <1>1, <1>2, <2>1, <2>2
<1>4. Cardinality(newest) = Cardinality(full)
  BY <1>1, NewestOf
<1>5. IsFiniteSet(tour) /\ newest \in SUBSET tour
  BY <1>1 DEF IsTour
<1>6. Cardinality(tour \ newest) = Cardinality(tour) - Cardinality(tour \cap newest)
  BY <1>5, FS_Difference, FS_Subset
<1>7. tour \cap newest = newest
  BY <1>5
<1> QED BY <1>1, <1>3, <1>4, <1>6, <1>7

(* How often a value occurs in the order of a class *)
LEMMA OccurrencesInOrder ==
  ASSUME NEW r \in Regions, NEW K, AreOfTours(K, r), NEW d \in Domains, NEW value,
         NEW text, text = InOrder(K, value, d), NEW x
  PROVE  Occurrences(text, x) = Cardinality({p \in K[d] : value[d][p] = x})
<1>1. PICK k : k = K[d] /\ IsTour(k)
  BY SizeType
<1>2. /\ IsText(text)
      /\ \A p \in k : At(k, p) + 1 \in 1..Len(text) /\ text[At(k, p) + 1] = value[d][p]
      /\ \A i \in 1..Len(text) : \E p \in k : i = At(k, p) + 1
  BY <1>1, OrderType
<1>3. PICK S, T : S = {p \in k : value[d][p] = x} /\ T = {i \in DOMAIN text : text[i] = x}
  OBVIOUS
<1>4. DOMAIN text = 1..Len(text)
  BY <1>2, TextType
<1>5. IsFiniteSet(S)
  <2>1. S \in SUBSET k /\ IsFiniteSet(k)
    BY <1>1, <1>3 DEF IsTour
  <2> QED BY <2>1, FS_Subset
<1>6. PICK g : g = [p \in S |-> At(k, p) + 1]
  OBVIOUS
<1>7. g \in [S -> T]
  BY <1>2, <1>3, <1>4, <1>6
<1>8. \A p, q \in S : g[p] = g[q] => p = q
  <2> TAKE p, q \in S
  <2> HAVE g[p] = g[q]
  <2>1. p \in k /\ q \in k
    BY <1>3
  <2>2. At(k, p) \in 0..(Cardinality(k) - 1) /\ At(k, q) \in 0..(Cardinality(k) - 1)
    BY <1>1, <2>1, NumbersInTour
  <2>3. At(k, p) + 1 = At(k, q) + 1
    BY <1>6
  <2>4. At(k, p) = At(k, q)
    BY <2>2, <2>3
  <2> QED BY <1>1, <2>1, <2>4, NumbersInTour
<1>9. \A t \in T : \E p \in S : g[p] = t
  <2> TAKE t \in T
  <2>1. PICK p \in k : t = At(k, p) + 1
    BY <1>2, <1>3, <1>4
  <2>2. value[d][p] = x
    BY <1>2, <1>3, <2>1
  <2> QED BY <1>3, <1>6, <2>1, <2>2
<1>10. Cardinality(T) = Cardinality(S)
  BY <1>5, <1>7, <1>8, <1>9, AsMany
<1> QED BY <1>1, <1>3, <1>10 DEF Occurrences

(* The snapshots of a kind *)
LEMMA KindsAreCounted ==
  ASSUME region \in Regions, modeling \in BOOLEAN, NEW d \in Domains,
         Got("descriptor", d) = DescriptorsOf(region, d), Got("tag", d) = TagsOf(region, d),
         d = "block" => (HasModel <=> modeling), NEW kind \in {"single", "paletted"}
  PROVE  KindCount(d, kind) = Cardinality(OfKind(region, modeling, kind)[d])
<1>1. PICK tour, full : tour = Tour(region, d) /\ IsTour(tour) /\ full = Full(region, d)
  BY TourType
<1>2. PICK T, A, B, C :
        /\ T = {s \in full : Hist(region, d, s)[1].kind = kind}
        /\ A = {p \in Deltas(region)[d] : Kinds(region)[d][p] = kind}
        /\ B = {p \in tour : p.level = 0 /\ p.scan \in T}
        /\ C = OfKind(region, modeling, kind)[d]
  OBVIOUS
<1>3. Occurrences(Got("tag", d), kind) = Cardinality(A)
  BY <1>2, OccurrencesInOrder, ClassTypes DEF TagsOf
<1>4. Occurrences(Got("descriptor", d), kind) = Cardinality(T)
  <2>1. DOMAIN Got("descriptor", d) = Scans
    BY DEF DescriptorsOf
  <2>2. {s \in Scans : Got("descriptor", d)[s] = kind} = T
    <3>1. full \subseteq Scans
      BY <1>1 DEF Full
    <3>2. \A s \in Scans : Got("descriptor", d)[s] = kind <=> s \in T
      BY <1>1, <1>2, DescribedSections
    <3> QED BY <1>2, <3>1, <3>2
  <2> QED BY <2>1, <2>2 DEF Occurrences
<1>5. Cardinality(B) = Cardinality(T) /\ IsFiniteSet(B)
  <2>1. T \subseteq Full(region, d) /\ B = {p \in Tour(region, d) : p.level = 0 /\ p.scan \in T}
    BY <1>1, <1>2
  <2> QED BY <2>1, NewestOf
<1>6. \A p \in tour : /\ p.level \in Nat /\ p.scan \in full
                      /\ p.level = 0 => (p \in B <=> Snap(region, d, p).kind = kind)
                      /\ p.level > 0 => (p \in A <=> Snap(region, d, p).kind = kind)
  <2> TAKE p \in tour
  <2>1. p.level \in Nat /\ p.scan \in Scans /\ p.level < Lengths(region, d)[p.scan]
    BY <1>1, TourType
  <2>2. Lengths(region, d)[p.scan] \in Nat
    BY <2>1, HistoryType
  <2>3. Lengths(region, d)[p.scan] # 0
    BY <2>1, <2>2
  <2>4. p.scan \in full
    BY <1>1, <2>1, <2>3 DEF Full
  <2>5. p.level = 0 => (p \in B <=> Snap(region, d, p).kind = kind)
    <3> HAVE p.level = 0
    <3>1. Snap(region, d, p) = Hist(region, d, p.scan)[1]
      BY DEF Snap
    <3> QED BY <1>2, <2>4, <3>1
  <2>6. p.level > 0 => (p \in A <=> Snap(region, d, p).kind = kind)
    BY <1>1, <1>2 DEF Deltas, Kinds
  <2> QED BY <2>1, <2>4, <2>5, <2>6
<1>7. \A p \in A : p \in tour /\ p.level > 0
  BY <1>1, <1>2 DEF Deltas
<1>8. IsFiniteSet(A)
  <2>1. A \in SUBSET tour /\ IsFiniteSet(tour)
    BY <1>1, <1>7 DEF IsTour
  <2> QED BY <2>1, FS_Subset
<1>9. C = {p \in tour : Snap(region, d, p).kind = kind /\ ~(modeling /\ d = "block" /\ p.level = 0)}
  BY <1>1, <1>2 DEF OfKind, InModel
<1>10. CASE d = "block" /\ modeling
  <2>1. C = A
    BY <1>6, <1>7, <1>9, <1>10
  <2>2. Cardinality(A) \in Nat
    BY <1>8, FS_CardinalityType
  <2>3. KindCount(d, kind) = Cardinality(A) + 0
    BY <1>3, <1>10 DEF KindCount
  <2> QED BY <1>2, <2>1, <2>2, <2>3
<1>11. CASE ~(d = "block" /\ modeling)
  <2>1. C = A \cup B
    <3>1. \A p \in tour : p \in C <=> p \in A \/ p \in B
      <4> TAKE p \in tour
      <4>1. p \in C <=> Snap(region, d, p).kind = kind
        BY <1>9, <1>11
      <4>2. p.level = 0 \/ p.level > 0
        BY <1>6
      <4>3. p \in B => p.level = 0
        BY <1>2
      <4>4. p \in A => p.level > 0
        BY <1>7
      <4>5. ~(p.level = 0 /\ p.level > 0)
        BY <1>6
      <4> QED BY <1>6, <4>1, <4>2, <4>3, <4>4, <4>5
    <3>2. A \subseteq tour /\ B \subseteq tour /\ C \subseteq tour
      BY <1>2, <1>7, <1>9
    <3> QED BY <3>1, <3>2
  <2>2. A \cap B = {}
    BY <1>2, <1>7
  <2>3. Cardinality(A \cup B) = Cardinality(A) + Cardinality(B) - Cardinality(A \cap B)
    BY <1>5, <1>8, FS_Union
  <2>4. Cardinality(A) \in Nat /\ Cardinality(B) \in Nat /\ Cardinality({}) = 0
    BY <1>5, <1>8, FS_CardinalityType, FS_EmptySet
  <2>5. Cardinality(C) = Cardinality(A) + Cardinality(B)
    <3>1. Cardinality(A \cap B) = 0 /\ Cardinality(C) = Cardinality(A \cup B)
      BY <2>1, <2>2, <2>4
    <3> QED BY <2>3, <2>4, <3>1
  <2>6. KindCount(d, kind) = Cardinality(A) + Cardinality(T)
    BY <1>3, <1>4, <1>11 DEF KindCount
  <2> QED BY <1>2, <1>5, <2>5, <2>6
<1> QED BY <1>10, <1>11

-----------------------------------------------------------------------------
(* Reading the parts                                                       *)

(* The first parts are those of the region. *)
GotUpTo(n) == \A k \in 1..n : got[k] = Told(region, modeling)[k]

(* What the parts are that have been read. *)
LEMMA GotAre ==
  ASSUME NEW n \in 0..15, GotUpTo(n)
  PROVE  /\ n >= 1 => Got("presence", "region") = Presence(region)
         /\ n >= 8 => /\ Got("model", "block") = ModelOf(region, modeling)
                      /\ HasModel = modeling
         /\ n >= 11 => Got("states", "region") = OfSegments(region, "states")
         /\ \A d \in Domains :
              /\ n >= 3 => Got("descriptor", d) = DescriptorsOf(region, d)
              /\ n >= 5 => Got("count", d) = CountsOf(region, d)
              /\ n >= 7 => Got("tag", d) = TagsOf(region, d)
              /\ n >= 10 => Got("palette", d) = <<PaletteOf(region, modeling, d)>>
              /\ n >= 13 => Got("timestamp", d) = InOrder(Tours(region), Stamps(region), d)
              /\ n >= 15 => Got("single", d) = InOrder(Singles(region, modeling), Atoms(region, modeling), d)
<1>1. \A d \in Domains : d = "block" \/ d = "biome"
  BY DEF Domains
<1>2. PICK told : told = Told(region, modeling)
  OBVIOUS
<1>3. \A k \in 1..15 : k <= n => got[k] = told[k]
  BY <1>2 DEF GotUpTo
<1>4. /\ told[1] = Presence(region) /\ told[2] = DescriptorsOf(region, "block")
      /\ told[3] = DescriptorsOf(region, "biome") /\ told[4] = CountsOf(region, "block")
      /\ told[5] = CountsOf(region, "biome") /\ told[6] = TagsOf(region, "block")
      /\ told[7] = TagsOf(region, "biome") /\ told[8] = ModelOf(region, modeling)
  BY <1>2 DEF Told
<1>5. /\ told[9] = <<PaletteOf(region, modeling, "block")>>
      /\ told[10] = <<PaletteOf(region, modeling, "biome")>>
      /\ told[11] = OfSegments(region, "states")
      /\ told[12] = InOrder(Tours(region), Stamps(region), "block")
      /\ told[13] = InOrder(Tours(region), Stamps(region), "biome")
      /\ told[14] = InOrder(Singles(region, modeling), Atoms(region, modeling), "block")
      /\ told[15] = InOrder(Singles(region, modeling), Atoms(region, modeling), "biome")
  BY <1>2 DEF Told
<1>6. n >= 1 => Got("presence", "region") = Presence(region)
  BY <1>3, <1>4, GotParts
<1>7. n >= 8 => Got("model", "block") = ModelOf(region, modeling) /\ HasModel = modeling
  <2> HAVE n >= 8
  <2>1. Got("model", "block") = ModelOf(region, modeling)
    BY <1>3, <1>4, GotParts
  <2> QED BY <2>1 DEF HasModel, ModelOf
<1>8. n >= 11 => Got("states", "region") = OfSegments(region, "states")
  BY <1>3, <1>5, GotParts
<1>9. \A d \in Domains : n >= 3 => Got("descriptor", d) = DescriptorsOf(region, d)
  BY <1>1, <1>3, <1>4, GotParts
<1>10. \A d \in Domains : n >= 5 => Got("count", d) = CountsOf(region, d)
  BY <1>1, <1>3, <1>4, GotParts
<1>11. \A d \in Domains : n >= 7 => Got("tag", d) = TagsOf(region, d)
  BY <1>1, <1>3, <1>4, GotParts
<1>12. \A d \in Domains : n >= 10 => Got("palette", d) = <<PaletteOf(region, modeling, d)>>
  BY <1>1, <1>3, <1>5, GotParts
<1>13. \A d \in Domains :
         n >= 13 => Got("timestamp", d) = InOrder(Tours(region), Stamps(region), d)
  BY <1>1, <1>3, <1>5, GotParts
<1>14. \A d \in Domains :
         n >= 15 => Got("single", d) = InOrder(Singles(region, modeling), Atoms(region, modeling), d)
  BY <1>1, <1>3, <1>5, GotParts
<1> QED BY <1>6, <1>7, <1>8, <1>9, <1>10, <1>11, <1>12, <1>13, <1>14

(* The segments that are read are those that are present. *)
LEMMA PresentAreGot ==
  ASSUME region \in Regions, Got("presence", "region") = Presence(region)
  PROVE  /\ \A slot \in Slots : Present(slot) = region[slot].present
         /\ PresentSlots = Ascending(PresentIn(region))
         /\ Len(PresentSlots) = Cardinality(PresentIn(region))
<1>1. \A slot \in Slots : Present(slot) = region[slot].present
  BY DEF Present, Presence
<1>2. {slot \in Slots : Present(slot)} = PresentIn(region)
  BY <1>1 DEF PresentIn
<1>3. PICK p : p = PresentIn(region) /\ p \subseteq Nat /\ IsFiniteSet(p)
  BY CountedSets DEF Domains
<1>4. Len(Ascending(p)) = Cardinality(p)
  BY <1>3, AscendingNumbers
<1> QED BY <1>1, <1>2, <1>3, <1>4 DEF PresentSlots

(* The reader knows how long the next part is. *)
LEMMA NextLengthIs ==
  ASSUME region \in Regions, modeling \in BOOLEAN, NEW n \in 0..14, Len(got) = n, GotUpTo(n)
  PROVE  NextLength = Len(Told(region, modeling)[n + 1])
<1>1. PICK told : told = Told(region, modeling)
  OBVIOUS
<1>2. NextLength = PartLength(Parts[n + 1][1], Parts[n + 1][2])
  BY DEF NextLength, NextPart
<1>3. n \in 0..15
  OBVIOUS
<1>4. "block" \in Domains /\ "biome" \in Domains
  BY DEF Domains
<1>5. n >= 3 => \A d \in Domains : Described(d) = Cardinality(Full(region, d))
  BY <1>3, GotAre, DescribedSections
<1>6. n >= 5 => \A d \in Domains : CountSum(d, Scans) = Cardinality(Tour(region, d))
  BY <1>3, GotAre, CountsAreGot
<1>7. n >= 5 => \A d \in Domains :
                  CountSum(d, Scans) - Described(d) = Cardinality(Deltas(region)[d])
  BY <1>5, <1>6, DeltasOf
<1>8. n >= 8 => \A d \in Domains :
                  KindCount(d, "single") = Cardinality(Singles(region, modeling)[d])
  BY <1>3, GotAre, KindsAreCounted DEF Singles
<1>9. n >= 1 => Len(PresentSlots) = Cardinality(PresentIn(region))
  BY <1>3, GotAre, PresentAreGot
<1>10. /\ AreOfTours(Tours(region), region) /\ AreOfTours(Singles(region, modeling), region)
  BY ClassTypes
<1>11. \A d \in Domains :
         /\ Len(InOrder(Tours(region), Stamps(region), d)) = Cardinality(Tours(region)[d])
         /\ Tours(region)[d] = Tour(region, d)
         /\ Len(InOrder(Singles(region, modeling), Atoms(region, modeling), d))
              = Cardinality(Singles(region, modeling)[d])
  BY <1>10, OrderType DEF Tours
<1>12. CASE n \in {0, 1, 2}
  <2>1. /\ told[1] = Presence(region) /\ told[2] = DescriptorsOf(region, "block")
        /\ told[3] = DescriptorsOf(region, "biome")
    BY <1>1 DEF Told
  <2>2. /\ Len(told[1]) = SlotCount /\ Len(told[2]) = Cardinality(Scans)
        /\ Len(told[3]) = Cardinality(Scans)
    BY <1>4, <2>1, ToldOfRegion, CountedSets
  <2>3. /\ Parts[1] = <<"presence", "region">> /\ Parts[2] = <<"descriptor", "block">>
        /\ Parts[3] = <<"descriptor", "biome">>
    BY DEF Parts
  <2>4. n = 0 => NextLength = Len(told[n + 1])
    BY <1>2, <2>2, <2>3 DEF PartLength
  <2>5. n = 1 => NextLength = Len(told[n + 1])
    BY <1>2, <2>2, <2>3 DEF PartLength
  <2>6. n = 2 => NextLength = Len(told[n + 1])
    BY <1>2, <2>2, <2>3 DEF PartLength
  <2> QED BY <1>1, <1>12, <2>4, <2>5, <2>6
<1>13. CASE n \in {3, 4, 5, 6}
  <2>1. /\ told[4] = CountsOf(region, "block") /\ told[5] = CountsOf(region, "biome")
        /\ told[6] = TagsOf(region, "block") /\ told[7] = TagsOf(region, "biome")
    BY <1>1 DEF Told
  <2>2. /\ Len(told[4]) = Cardinality(Full(region, "block"))
        /\ Len(told[5]) = Cardinality(Full(region, "biome"))
        /\ Len(told[6]) = Cardinality(Deltas(region)["block"])
        /\ Len(told[7]) = Cardinality(Deltas(region)["biome"])
    BY <1>4, <2>1, ToldOfRegion
  <2>3. /\ Parts[4] = <<"count", "block">> /\ Parts[5] = <<"count", "biome">>
        /\ Parts[6] = <<"tag", "block">> /\ Parts[7] = <<"tag", "biome">>
    BY DEF Parts
  <2>4. n = 3 => NextLength = Len(told[n + 1])
    BY <1>2, <1>4, <1>5, <2>2, <2>3 DEF PartLength
  <2>5. n = 4 => NextLength = Len(told[n + 1])
    BY <1>2, <1>4, <1>5, <2>2, <2>3 DEF PartLength
  <2>6. n = 5 => NextLength = Len(told[n + 1])
    BY <1>2, <1>4, <1>7, <2>2, <2>3 DEF PartLength
  <2>7. n = 6 => NextLength = Len(told[n + 1])
    BY <1>2, <1>4, <1>7, <2>2, <2>3 DEF PartLength
  <2> QED BY <1>1, <1>13, <2>4, <2>5, <2>6, <2>7
<1>14. CASE n \in {7, 8, 9, 10}
  <2>1. /\ told[8] = ModelOf(region, modeling)
        /\ told[9] = <<PaletteOf(region, modeling, "block")>>
        /\ told[10] = <<PaletteOf(region, modeling, "biome")>>
        /\ told[11] = OfSegments(region, "states")
    BY <1>1 DEF Told
  <2>2. /\ Len(told[8]) = 1 /\ Len(told[9]) = 1 /\ Len(told[10]) = 1
        /\ Len(told[11]) = Cardinality(PresentIn(region))
    BY <2>1, ToldOfRegion DEF ModelOf
  <2>3. /\ Parts[8] = <<"model", "block">> /\ Parts[9] = <<"palette", "block">>
        /\ Parts[10] = <<"palette", "biome">> /\ Parts[11] = <<"states", "region">>
    BY DEF Parts
  <2>8. /\ PartLength("model", "block") = 1 /\ PartLength("palette", "block") = 1
        /\ PartLength("palette", "biome") = 1
    BY DEF PartLength
  <2>4. n = 7 => NextLength = Len(told[n + 1])
    <3> HAVE n = 7
    <3>1. NextLength = PartLength("model", "block")
      BY <1>2, <2>3
    <3>2. n + 1 = 8
      OBVIOUS
    <3>3. Len(told[8]) = 1
      BY <2>2
    <3>4. Len(told[n + 1]) = 1
      BY <3>2, <3>3
    <3> QED BY <2>8, <3>1, <3>4
  <2>5. n = 8 => NextLength = Len(told[n + 1])
    <3> HAVE n = 8
    <3>1. NextLength = PartLength("palette", "block")
      BY <1>2, <2>3
    <3>2. n + 1 = 9
      OBVIOUS
    <3>3. Len(told[9]) = 1
      BY <2>2
    <3>4. Len(told[n + 1]) = 1
      BY <3>2, <3>3
    <3> QED BY <2>8, <3>1, <3>4
  <2>6. n = 9 => NextLength = Len(told[n + 1])
    <3> HAVE n = 9
    <3>1. NextLength = PartLength("palette", "biome")
      BY <1>2, <2>3
    <3>2. n + 1 = 10
      OBVIOUS
    <3>3. Len(told[10]) = 1
      BY <2>2
    <3>4. Len(told[n + 1]) = 1
      BY <3>2, <3>3
    <3> QED BY <2>8, <3>1, <3>4
  <2>7. n = 10 => NextLength = Len(told[n + 1])
    BY <1>2, <1>9, <2>2, <2>3 DEF PartLength
  <2> QED BY <1>1, <1>14, <2>4, <2>5, <2>6, <2>7
<1>15. CASE n \in {11, 12, 13, 14}
  <2>1. /\ told[12] = InOrder(Tours(region), Stamps(region), "block")
        /\ told[13] = InOrder(Tours(region), Stamps(region), "biome")
        /\ told[14] = InOrder(Singles(region, modeling), Atoms(region, modeling), "block")
        /\ told[15] = InOrder(Singles(region, modeling), Atoms(region, modeling), "biome")
    BY <1>1 DEF Told
  <2>2. /\ Len(told[12]) = Cardinality(Tour(region, "block"))
        /\ Len(told[13]) = Cardinality(Tour(region, "biome"))
        /\ Len(told[14]) = Cardinality(Singles(region, modeling)["block"])
        /\ Len(told[15]) = Cardinality(Singles(region, modeling)["biome"])
    BY <1>4, <1>11, <2>1
  <2>3. /\ Parts[12] = <<"timestamp", "block">> /\ Parts[13] = <<"timestamp", "biome">>
        /\ Parts[14] = <<"single", "block">> /\ Parts[15] = <<"single", "biome">>
    BY DEF Parts
  <2>4. n = 11 => NextLength = Len(told[n + 1])
    BY <1>2, <1>4, <1>6, <2>2, <2>3 DEF PartLength
  <2>5. n = 12 => NextLength = Len(told[n + 1])
    BY <1>2, <1>4, <1>6, <2>2, <2>3 DEF PartLength
  <2>6. n = 13 => NextLength = Len(told[n + 1])
    BY <1>2, <1>4, <1>8, <2>2, <2>3 DEF PartLength
  <2>7. n = 14 => NextLength = Len(told[n + 1])
    BY <1>2, <1>4, <1>8, <2>2, <2>3 DEF PartLength
  <2> QED BY <1>1, <1>15, <2>4, <2>5, <2>6, <2>7
<1> QED BY <1>12, <1>13, <1>14, <1>15

(* Fields that stand in the file are those that follow. *)
LEMMA FieldsFollow ==
  ASSUME IsText(file), NEW kind, NEW values, IsText(values), NEW base \in Nat,
         NEW fields, fields = Fields(kind, values), StandsIn(fields, file, base)
  PROVE  Follow(kind, base, Len(values)) /\ ValuesAt(base, Len(values)) = values
<1>1. PICK n : n = Len(values) /\ n \in Nat
  BY TextType
<1>2. /\ Len(fields) = n
      /\ \A i \in 1..n : fields[i].kind = kind /\ fields[i].value = values[i]
  <2>1. \A i \in 1..Len(values) : fields[i] = [kind |-> kind, value |-> values[i]]
    BY FieldsType
  <2>2. Len(fields) = Len(values)
    BY FieldsType
  <2>3. \A i \in 1..Len(values) : fields[i].kind = kind /\ fields[i].value = values[i]
    <3> TAKE i \in 1..Len(values)
    <3>1. PICK field, x : field = fields[i] /\ x = values[i] /\ field = [kind |-> kind, value |-> x]
      BY <2>1
    <3>2. field.kind = kind /\ field.value = x
      BY ONLY <3>1
    <3> QED BY <3>1, <3>2
  <2> QED BY <1>1, <2>2, <2>3
<1>3. PICK m : m = Len(file) /\ m \in Nat /\ DOMAIN file = 1..m
  BY TextType
<1>4. base + n <= m /\ \A i \in 1..n : /\ file[base + i].kind = kind
                                         /\ file[base + i].value = values[i]
  BY <1>2, <1>3 DEF StandsIn
<1>5. Follow(kind, base, n)
  <2>1. SUFFICES ASSUME NEW i \in (base + 1)..(base + n)
                 PROVE  i \in DOMAIN file /\ file[i].kind = kind
    BY DEF Follow
  <2>2. PICK j : j = i - base /\ j \in 1..n /\ i = base + j
    BY <1>1
  <2>3. i \in 1..m
    BY <1>1, <1>3, <1>4, <2>2
  <2>4. file[i].kind = kind
    BY <1>4, <2>2
  <2> QED BY <1>3, <2>3, <2>4
<1>6. ValuesAt(base, n) = values
  <2>1. \A i \in 1..n : file[base + i].value = values[i]
    BY <1>4
  <2>2. ValuesAt(base, n) = [i \in 1..n |-> values[i]]
    BY <2>1 DEF ValuesAt
  <2>3. values = [i \in 1..n |-> values[i]]
    BY <1>1 DEF IsText
  <2> QED BY <2>2, <2>3
<1> QED BY <1>1, <1>5, <1>6

(* A text and what is appended *)
IsAppended(longer, text, x) == longer = Append(text, x)

HasOneMore(longer, text, x) ==
  /\ IsText(longer) /\ Len(longer) = Len(text) + 1 /\ Len(text) \in Nat
  /\ \A i \in 1..Len(text) : longer[i] = text[i]
  /\ longer[Len(text) + 1] = x

(* A text with one more entry. *)
LEMMA AppendIsText ==
  ASSUME NEW text, IsText(text), NEW x, NEW longer, IsAppended(longer, text, x)
  PROVE  HasOneMore(longer, text, x)
<1>0. longer = Append(text, x)
  BY DEF IsAppended
<1>1. PICK S : text \in Seq(S)
  BY DEF IsText
<1>2. PICK T : T = S \cup {x}
  OBVIOUS
<1>3. text \in Seq(T) /\ x \in T
  <2>1. \A i \in 1..Len(text) : text[i] \in T
    BY <1>1, <1>2
  <2> QED BY <1>2, <2>1, ElementsOfText DEF IsText
<1>4. longer \in Seq(T) /\ Len(longer) = Len(text) + 1
  BY <1>0, <1>3
<1>5. \A i \in 1..Len(text) : longer[i] = text[i]
  BY <1>0, <1>3
<1>6. longer[Len(text) + 1] = x
  BY <1>0, <1>3
<1> QED BY <1>3, <1>4, <1>5, <1>6 DEF IsText, HasOneMore

(* The reader has some first parts and is where they end. *)
HasGot(n, end) == IsText(got) /\ Len(got) = n /\ GotUpTo(n) /\ pos = end[n]

(* While the parts are read *)
Opening(end) ==
  \E n \in 0..15 : HasGot(n, end) /\ phase = IF n = 15 THEN "prescan" ELSE "parts"

(* The next part follows, and is read. *)
LEMMA NextPartFollows ==
  ASSUME region \in Regions, modeling \in BOOLEAN, NEW end, NEW start,
         Layout(region, modeling, file, end, start), NEW n \in 0..14, HasGot(n, end)
  PROVE  /\ PartFollows
         /\ ValuesAt(pos, NextLength) = Told(region, modeling)[n + 1]
         /\ pos + NextLength = end[n + 1]
<1>1. PICK k : k = n + 1 /\ k \in 1..15 /\ k - 1 = n
  OBVIOUS
<1>2. PICK told, fields, kind : /\ told = Told(region, modeling)[k] /\ kind = Parts[k][1]
                                /\ fields = Fields(kind, told)
  OBVIOUS
<1>3. end[k] = end[n] + Len(told) /\ StandsIn(fields, file, end[n]) /\ IsText(file)
  BY <1>1, <1>2 DEF Layout
<1>4. pos = end[n] /\ Len(got) = n /\ GotUpTo(n)
  BY DEF HasGot
<1>5. NextLength = Len(told)
  BY <1>1, <1>2, <1>4, NextLengthIs
<1>6. IsText(told)
  BY <1>1, <1>2, ToldType
<1>7. pos \in Nat
  <2>1. end \in [0..15 -> Nat] /\ n \in 0..15
    BY <1>1 DEF Layout
  <2> QED BY <1>4, <2>1
<1>8. Follow(kind, pos, Len(told)) /\ ValuesAt(pos, Len(told)) = told
  BY <1>2, <1>3, <1>4, <1>6, <1>7, FieldsFollow
<1>9. NextPart[1] = kind
  BY <1>1, <1>2, <1>4 DEF NextPart
<1>10. PartFollows
  BY <1>5, <1>8, <1>9 DEF PartFollows
<1> QED BY <1>1, <1>2, <1>3, <1>4, <1>5, <1>8, <1>10

(* Reading a part leads to the next, with what was written there. *)
LEMMA ReadKeepsOpening ==
  ASSUME region \in Regions, modeling \in BOOLEAN, NEW end, NEW start,
         Layout(region, modeling, file, end, start), Opening(end), ReadPart
  PROVE  Opening(end)'
<1>1. PICK n \in 0..15 : HasGot(n, end) /\ phase = IF n = 15 THEN "prescan" ELSE "parts"
  BY DEF Opening
<1>2. /\ phase = "parts" /\ Len(got) < Len(Parts)
      /\ got' = Append(got, ValuesAt(pos, NextLength)) /\ pos' = pos + NextLength
      /\ phase' = IF Len(got) + 1 = Len(Parts) THEN "prescan" ELSE "parts"
      /\ region' = region /\ modeling' = modeling
  BY DEF ReadPart
<1>3. Len(got) = n /\ IsText(got) /\ GotUpTo(n) /\ Len(Parts) = 15
  BY <1>1, GotParts DEF HasGot
<1>4. n \in 0..14
  BY <1>2, <1>3
<1>5. PICK told, longer : /\ told = Told(region, modeling)[n + 1] /\ longer = got'
                          /\ longer = Append(got, told)
  BY <1>1, <1>2, <1>4, NextPartFollows
<1>6. pos' = end[n + 1]
  BY <1>1, <1>2, <1>4, NextPartFollows
<1>7. /\ IsText(longer) /\ Len(longer) = n + 1
      /\ \A i \in 1..n : longer[i] = got[i]
      /\ longer[n + 1] = told
  <2>1. IsAppended(longer, got, told)
    BY <1>5 DEF IsAppended
  <2>2. HasOneMore(longer, got, told)
    BY <1>3, <2>1, AppendIsText
  <2> QED BY <1>3, <2>2 DEF HasOneMore
<1>8. \A i \in 1..(n + 1) : longer[i] = Told(region, modeling)[i]
  <2> TAKE i \in 1..(n + 1)
  <2>1. CASE i \in 1..n
    BY <1>3, <1>7, <2>1 DEF GotUpTo
  <2>2. CASE i = n + 1
    BY <1>5, <1>7, <2>2
  <2> QED BY <1>4, <2>1, <2>2
<1>9. GotUpTo(n + 1)'
  BY <1>2, <1>5, <1>8 DEF GotUpTo
<1>10. HasGot(n + 1, end)'
  BY <1>5, <1>6, <1>7, <1>9 DEF HasGot
<1>11. phase' = IF n + 1 = 15 THEN "prescan" ELSE "parts"
  BY <1>2, <1>3
<1>12. n + 1 \in 0..15
  BY <1>4
<1> QED BY <1>10, <1>11, <1>12 DEF Opening

-----------------------------------------------------------------------------
(* Vectors and cursors                                                     *)

(* How many snapshots a segment has, and where they go in its vector. *)
Volume(r, d, slot) == Cardinality({p \in Tour(r, d) : p.scan \in ScansOf(slot)})

StartOf(r, d, s) ==
  Cardinality({p \in Tour(r, d) : p.scan \in {x \in ScansOf(SlotOf(s)) : x < s}})

PlaceOf(r, d, p) == StartOf(r, d, p.scan) + p.level + 1

(* The snapshots of a section are as many as its count says. *)
LEMMA SectionIsCounted ==
  ASSUME NEW r \in Regions, Fits(r), NEW d \in Domains, NEW s \in Scans
  PROVE  Cardinality({p \in Tour(r, d) : p.scan = s}) = Lengths(r, d)[s]
<1>1. PICK n : n = Lengths(r, d)[s] /\ n \in Nat /\ n <= MAX_COUNT
  BY HistoryType DEF Fits
<1>2. PICK S, T : S = 0..(n - 1) /\ T = {p \in Tour(r, d) : p.scan = s}
  OBVIOUS
<1>3. IsFiniteSet(S) /\ Cardinality(S) = n
  <2>1. PICK a \in Int, b \in Int : a = 0 /\ b = n - 1
    BY <1>1
  <2>2. IsFiniteSet(a..b) /\ Cardinality(a..b) = IF a > b THEN 0 ELSE b - a + 1
    BY FS_Interval
  <2> QED BY <1>1, <1>2, <2>1, <2>2
<1>4. PICK g : g = [k \in S |-> [level |-> k, scan |-> s]]
  OBVIOUS
<1>5. \A k \in S : g[k] = [level |-> k, scan |-> s] /\ g[k] \in T
  <2> TAKE k \in S
  <2>1. k \in Nat /\ k < n /\ k < MAX_COUNT
    BY <1>1, <1>2, Parameters
  <2>2. [level |-> k, scan |-> s] \in Tour(r, d)
    BY <1>1, <2>1, TourType
  <2> QED BY <1>2, <1>4, <2>2
<1>6. g \in [S -> T]
  BY <1>4, <1>5
<1>7. \A j, k \in S : g[j] = g[k] => j = k
  <2>1. \A k \in S : g[k].level = k
    <3> TAKE k \in S
    <3>1. PICK q : q = g[k] /\ q = [level |-> k, scan |-> s]
      BY <1>5
    <3>2. q.level = k
      BY ONLY <3>1
    <3> QED BY <3>1, <3>2
  <2> QED BY <2>1
<1>8. \A t \in T : \E k \in S : g[k] = t
  <2> TAKE t \in T
  <2>1. /\ t \in Places /\ t.level \in Nat /\ t.level < n /\ t.scan = s
    BY <1>1, <1>2, TourType
  <2>2. t = [level |-> t.level, scan |-> s]
    BY <2>1 DEF Places
  <2>3. t.level \in S
    BY <1>1, <1>2, <2>1
  <2> QED BY <1>5, <2>2, <2>3
<1>9. Cardinality(T) = Cardinality(S)
  BY ONLY <1>3, <1>6, <1>7, <1>8, AsMany
<1> QED BY <1>1, <1>2, <1>3, <1>9

(* A section ends before others begin, and within the vector. *)
LEMMA SectionsFit ==
  ASSUME NEW r \in Regions, Fits(r), NEW d \in Domains, NEW s \in Scans,
         NEW scans, s \in scans, \A x \in ScansOf(SlotOf(s)) : x < s => x \in scans
  PROVE  /\ StartOf(r, d, s) \in Nat
         /\ StartOf(r, d, s) + Lengths(r, d)[s] <= Cardinality({p \in Tour(r, d) : p.scan \in scans})
<1>1. PICK tour : tour = Tour(r, d) /\ IsTour(tour)
  BY TourType
<1>2. PICK A, B, C : /\ A = {p \in tour : p.scan \in {x \in ScansOf(SlotOf(s)) : x < s}}
                     /\ B = {p \in tour : p.scan = s}
                     /\ C = {p \in tour : p.scan \in scans}
  OBVIOUS
<1>3. IsFiniteSet(A) /\ IsFiniteSet(B) /\ IsFiniteSet(C)
  <2>1. A \in SUBSET tour /\ B \in SUBSET tour /\ C \in SUBSET tour /\ IsFiniteSet(tour)
    BY <1>1, <1>2 DEF IsTour
  <2> QED BY <2>1, FS_Subset
<1>4. A \cap B = {}
  <2>1. s \in Nat
    BY ScanType
  <2> QED BY <1>2, <2>1
<1>5. A \cup B \in SUBSET C
  BY <1>2
<1>6. /\ Cardinality(A) \in Nat /\ Cardinality(B) \in Nat /\ Cardinality(C) \in Nat
      /\ Cardinality({}) = 0
  BY <1>3, FS_CardinalityType, FS_EmptySet
<1>7. Cardinality(A \cup B) = Cardinality(A) + Cardinality(B) - Cardinality(A \cap B)
  BY <1>3, FS_Union
<1>8. Cardinality(A \cup B) <= Cardinality(C)
  BY <1>3, <1>5, FS_Subset
<1>9. Cardinality(A \cap B) = 0
  BY <1>4, <1>6
<1>10. Cardinality(A) + Cardinality(B) <= Cardinality(C)
  BY <1>6, <1>7, <1>8, <1>9
<1>11. Cardinality(A) = StartOf(r, d, s) /\ Cardinality(B) = Lengths(r, d)[s]
  BY <1>1, <1>2, SectionIsCounted DEF StartOf
<1> QED BY <1>1, <1>2, <1>6, <1>10, <1>11

(* Every snapshot has a place of its own. *)
LEMMA PlacesInVector ==
  ASSUME NEW r \in Regions, Fits(r), NEW d \in Domains
  PROVE  /\ \A slot : Volume(r, d, slot) \in Nat
         /\ \A p \in Tour(r, d) : /\ PlaceOf(r, d, p) \in 1..Volume(r, d, SlotOf(p.scan))
                                  /\ SlotOf(p.scan) \in Slots
         /\ \A p, q \in Tour(r, d) :
              SlotOf(p.scan) = SlotOf(q.scan) /\ PlaceOf(r, d, p) = PlaceOf(r, d, q) => p = q
<1>1. \A slot : Volume(r, d, slot) \in Nat
  <2> TAKE slot
  <2>1. PICK tour : tour = Tour(r, d) /\ IsTour(tour)
    BY TourType
  <2>2. {p \in tour : p.scan \in ScansOf(slot)} \in SUBSET tour /\ IsFiniteSet(tour)
    BY <2>1 DEF IsTour
  <2>3. IsFiniteSet({p \in tour : p.scan \in ScansOf(slot)})
    BY <2>2, FS_Subset
  <2> QED BY <2>1, <2>3, FS_CardinalityType DEF Volume
<1>2. \A p \in Tour(r, d) : /\ p \in Places /\ p.level \in Nat /\ p.scan \in Scans /\ p.scan \in Nat
                            /\ Lengths(r, d)[p.scan] \in Nat
                            /\ p.level < Lengths(r, d)[p.scan] /\ SlotOf(p.scan) \in Slots
                            /\ p.scan \in ScansOf(SlotOf(p.scan))
  BY TourType, HistoryType, ScanType DEF ScansOf
<1>3. \A p \in Tour(r, d) : PlaceOf(r, d, p) \in 1..Volume(r, d, SlotOf(p.scan))
  <2> TAKE p \in Tour(r, d)
  <2>1. PICK s, a, n, v, k :
          /\ s = p.scan /\ a = StartOf(r, d, s) /\ n = Lengths(r, d)[s]
          /\ v = Volume(r, d, SlotOf(s)) /\ k = p.level
    OBVIOUS
  <2>2. a \in Nat /\ a + n <= v
    <3>1. s \in Scans /\ s \in ScansOf(SlotOf(s))
      BY <1>2, <2>1
    <3> QED BY <2>1, <3>1, SectionsFit DEF Volume
  <2>3. k \in Nat /\ n \in Nat /\ k < n /\ v \in Nat
    BY <1>1, <1>2, <2>1
  <2>4. a + k + 1 \in 1..v
    BY ONLY <2>2, <2>3
  <2> QED BY <2>1, <2>4 DEF PlaceOf
<1>4. ASSUME NEW p \in Tour(r, d), NEW q \in Tour(r, d), p.scan < q.scan,
             SlotOf(p.scan) = SlotOf(q.scan)
      PROVE  PlaceOf(r, d, p) < PlaceOf(r, d, q)
  <2>1. PICK s, t, a, b, n, k, j :
          /\ s = p.scan /\ t = q.scan /\ a = StartOf(r, d, s) /\ b = StartOf(r, d, t)
          /\ n = Lengths(r, d)[s] /\ k = p.level /\ j = q.level
    OBVIOUS
  <2>2. s \in Scans /\ t \in Scans /\ s \in Nat /\ t \in Nat /\ s < t /\ SlotOf(s) = SlotOf(t)
    BY <1>2, <1>4, <2>1
  <2>3. PICK scans : scans = {x \in ScansOf(SlotOf(t)) : x < t}
    OBVIOUS
  <2>4. s \in scans /\ \A x \in ScansOf(SlotOf(s)) : x < s => x \in scans
    <3>1. \A x \in ScansOf(SlotOf(s)) : x \in Nat
      BY ScanType DEF ScansOf
    <3> QED BY <2>2, <2>3, <3>1 DEF ScansOf
  <2>5. a \in Nat /\ a + n <= b
    BY <2>1, <2>2, <2>3, <2>4, SectionsFit DEF StartOf
  <2>6. b \in Nat
    <3>1. \A x \in ScansOf(SlotOf(t)) : x < t => x \in Scans
      BY DEF ScansOf
    <3> QED BY <2>1, <2>2, <3>1, SectionsFit
  <2>7. k \in Nat /\ n \in Nat /\ k < n /\ j \in Nat
    BY <1>2, <2>1
  <2>8. a + k + 1 < b + j + 1
    BY ONLY <2>5, <2>6, <2>7
  <2> QED BY <2>1, <2>8 DEF PlaceOf
<1>5. ASSUME NEW p \in Tour(r, d), NEW q \in Tour(r, d),
             SlotOf(p.scan) = SlotOf(q.scan), PlaceOf(r, d, p) = PlaceOf(r, d, q)
      PROVE  p = q
  <2>1. PlaceOf(r, d, p) \in Int /\ PlaceOf(r, d, q) \in Int
    BY <1>3
  <2>2. ~(p.scan < q.scan)
    BY <1>4, <1>5, <2>1
  <2>3. ~(q.scan < p.scan)
    BY <1>4, <1>5, <2>1
  <2>4. p.scan = q.scan
    BY <1>2, <2>2, <2>3
  <2>5. p.level = q.level
    <3>1. PICK a, k, j : a = StartOf(r, d, p.scan) /\ k = p.level /\ j = q.level
      OBVIOUS
    <3>2. a \in Nat
      <4>1. \A x \in ScansOf(SlotOf(p.scan)) : x < p.scan => x \in Scans
        BY DEF ScansOf
      <4> QED BY <1>2, <3>1, <4>1, SectionsFit
    <3>3. a + k + 1 = a + j + 1
      BY <1>5, <2>4, <3>1 DEF PlaceOf
    <3>4. k \in Nat /\ j \in Nat
      BY <1>2, <3>1
    <3>5. k = j
      BY ONLY <3>2, <3>3, <3>4
    <3> QED BY <3>1, <3>5
  <2> QED BY <1>2, <2>4, <2>5 DEF Places
<1> QED BY <1>1, <1>2, <1>3, <1>5

(* How many fields of a class are done. *)
Done(K, left) == Cardinality(K["block"] \ left["block"]) + Cardinality(K["biome"] \ left["biome"])

(* How a class goes on with the next place *)
GoesOnWith(K, left, next, d, p) ==
  /\ Done(K, left) \in Nat
  /\ p \in K[d] => Done(K, left) = Base(K, d) + At(K[d], p) /\ Done(K, next) = Done(K, left) + 1
  /\ p \notin K[d] => Done(K, next) = Done(K, left)

(* What is done of a class with the next place of the tour. *)
LEMMA DoneGoesOn ==
  ASSUME NEW r \in Regions, NEW left, NEW next, NEW d, NEW p,
         AreLeft(left, r), IsNext(left, next, d, p), NEW K, AreOfTours(K, r)
  PROVE  GoesOnWith(K, left, next, d, p)
<1>1. /\ d \in Domains /\ p \in Tour(r, d) /\ next[d] = left[d] \ {p}
      /\ \A x \in Domains : x # d => next[x] = left[x]
  BY NextLeft
<1>2. "block" \in Domains /\ "biome" \in Domains /\ (d = "block" \/ d = "biome")
  BY <1>1 DEF Domains
<1>3. GoesOnIn(K[d], left[d], p)
  <2>1. /\ IsTour(Tour(r, d)) /\ IsLeftOf(left[d], Tour(r, d)) /\ left[d] # {} /\ p = First(left[d])
        /\ K[d] \in SUBSET Tour(r, d)
    BY <1>1, TourType DEF AreLeft, IsNext, AreOfTours
  <2> QED BY <2>1, NextPlace
<1>4. PICK a, b, c, e : /\ a = Cardinality(K["block"] \ left["block"])
                        /\ b = Cardinality(K["biome"] \ left["biome"])
                        /\ c = Cardinality(K["block"] \ next["block"])
                        /\ e = Cardinality(K["biome"] \ next["biome"])
  OBVIOUS
<1>5. a \in Nat /\ b \in Nat /\ Done(K, left) = a + b /\ Done(K, next) = c + e
  BY <1>2, <1>4, DoneOf DEF Done
<1>6. CASE d = "block"
  <2>1. e = b
    BY <1>1, <1>2, <1>4, <1>6
  <2>2. b = 0 \/ p \notin K[d]
    <3>1. left["biome"] = Tour(r, "biome")
      BY <1>6 DEF IsNext, AreLeft
    <3>2. K["biome"] \ left["biome"] = {}
      BY <1>2, <3>1 DEF AreOfTours
    <3> QED BY <1>4, <3>2, FS_EmptySet
  <2>3. p \in K[d] => At(K[d], p) = a /\ c = a + 1
    BY <1>1, <1>3, <1>4, <1>6 DEF GoesOnIn
  <2>4. p \notin K[d] => c = a
    BY <1>1, <1>3, <1>4, <1>6 DEF GoesOnIn
  <2>5. Base(K, d) = 0
    BY <1>6 DEF Base
  <2>6. p \in K[d] => Done(K, left) = Base(K, d) + At(K[d], p) /\ Done(K, next) = Done(K, left) + 1
    <3> HAVE p \in K[d]
    <3>1. PICK at : at = At(K[d], p) /\ at = a
      BY <2>3
    <3>2. a + b = 0 + at /\ c + e = (a + b) + 1
      BY <1>5, <2>1, <2>2, <2>3, <3>1
    <3> QED BY <1>5, <2>5, <3>1, <3>2
  <2> QED BY <1>5, <2>1, <2>4, <2>6 DEF GoesOnWith
<1>7. CASE d = "biome"
  <2>1. c = a
    BY <1>1, <1>2, <1>4, <1>7
  <2>2. left["block"] = {}
    BY <1>7 DEF IsNext
  <2>3. Base(K, d) = a
    <3>1. K["block"] \ left["block"] = K["block"]
      BY <2>2
    <3> QED BY <1>4, <1>7, <3>1 DEF Base
  <2>4. p \in K[d] => At(K[d], p) = b /\ e = b + 1
    BY <1>1, <1>3, <1>4, <1>7 DEF GoesOnIn
  <2>5. p \notin K[d] => e = b
    BY <1>1, <1>3, <1>4, <1>7 DEF GoesOnIn
  <2>6. p \in K[d] => Done(K, left) = Base(K, d) + At(K[d], p) /\ Done(K, next) = Done(K, left) + 1
    <3> HAVE p \in K[d]
    <3>1. PICK at : at = At(K[d], p) /\ at = b
      BY <2>4
    <3>2. c + e = (a + b) + 1
      BY <1>5, <2>1, <2>4, <3>1
    <3> QED BY <1>5, <2>3, <3>1, <3>2
  <2> QED BY <1>5, <2>1, <2>5, <2>6 DEF GoesOnWith
<1> QED BY <1>2, <1>6, <1>7

(* A class at its beginning and at its end *)
LEMMA DoneAtEnds ==
  ASSUME NEW r \in Regions, NEW K, AreOfTours(K, r), NEW left
  PROVE  /\ (\A d \in Domains : left[d] = Tour(r, d)) => Done(K, left) = 0
         /\ (\A d \in Domains : left[d] = {}) => Done(K, left) = Size(K)
<1>1. "block" \in Domains /\ "biome" \in Domains
  BY DEF Domains
<1>2. (\A d \in Domains : left[d] = Tour(r, d)) => Done(K, left) = 0
  <2> HAVE \A d \in Domains : left[d] = Tour(r, d)
  <2>1. K["block"] \ left["block"] = {} /\ K["biome"] \ left["biome"] = {}
    BY <1>1 DEF AreOfTours
  <2>2. Cardinality({}) = 0
    BY FS_EmptySet
  <2>3. Done(K, left) = 0 + 0
    BY <2>1, <2>2 DEF Done
  <2> QED BY <2>3
<1>3. (\A d \in Domains : left[d] = {}) => Done(K, left) = Size(K)
  <2> HAVE \A d \in Domains : left[d] = {}
  <2>1. K["block"] \ left["block"] = K["block"] /\ K["biome"] \ left["biome"] = K["biome"]
    BY <1>1
  <2> QED BY <2>1 DEF Done, Size
<1> QED BY <1>2, <1>3

(* What was read of a snapshot is what was written. *)
Restored(d, x, y) == Unpacked(d, x) = Unpacked(d, y) /\ x.timestamp = y.timestamp

(* A domain's vectors, while places are left *)
StoredIn(r, d, vec, left) ==
  /\ DOMAIN vec = Slots
  /\ \A slot \in Slots : vec[slot] = [i \in 1..Volume(r, d, slot) |-> vec[slot][i]]
  /\ \A p \in Tour(r, d) :
       IF p \in left THEN vec[SlotOf(p.scan)][PlaceOf(r, d, p)] = Placeholder
                     ELSE Restored(d, vec[SlotOf(p.scan)][PlaceOf(r, d, p)], Snap(r, d, p))

IsStored(new, vec, slot, i, x) == new = [vec EXCEPT ![slot][i] = x]

(* The next snapshot stored, all others stay where they are. *)
LEMMA StoringNext ==
  ASSUME NEW r \in Regions, Fits(r), NEW d \in Domains, NEW vec, NEW left,
         StoredIn(r, d, vec, left), NEW p \in Tour(r, d), NEW x, Restored(d, x, Snap(r, d, p)),
         NEW new, IsStored(new, vec, SlotOf(p.scan), PlaceOf(r, d, p), x)
  PROVE  StoredIn(r, d, new, left \ {p})
<1>1. PICK slot, i : slot = SlotOf(p.scan) /\ i = PlaceOf(r, d, p)
  OBVIOUS
<1>2. slot \in Slots /\ i \in 1..Volume(r, d, slot)
  BY <1>1, PlacesInVector
<1>3. new = [vec EXCEPT ![slot][i] = x] /\ DOMAIN vec = Slots
  BY <1>1 DEF IsStored, StoredIn
<1>4. \A t \in Slots : vec[t] = [j \in 1..Volume(r, d, t) |-> vec[t][j]]
  BY DEF StoredIn
<1>5. DOMAIN new = Slots /\ \A t \in Slots : t # slot => new[t] = vec[t]
  BY <1>3
<1>6. new[slot] = [vec[slot] EXCEPT ![i] = x]
  BY <1>2, <1>3
<1>7. PICK n : n = Volume(r, d, slot) /\ vec[slot] = [j \in 1..n |-> vec[slot][j]] /\ i \in 1..n
  BY <1>2, <1>4
<1>8. DOMAIN vec[slot] = 1..n
  BY <1>7
<1>9. /\ new[slot] = [j \in 1..n |-> new[slot][j]]
      /\ new[slot][i] = x /\ \A j \in 1..n : j # i => new[slot][j] = vec[slot][j]
  BY <1>6, <1>7, <1>8
<1>10. \A t \in Slots : new[t] = [j \in 1..Volume(r, d, t) |-> new[t][j]]
  BY <1>4, <1>5, <1>7, <1>9
<1>11. ASSUME NEW q \in Tour(r, d)
       PROVE  IF q \in left \ {p} THEN new[SlotOf(q.scan)][PlaceOf(r, d, q)] = Placeholder
              ELSE Restored(d, new[SlotOf(q.scan)][PlaceOf(r, d, q)], Snap(r, d, q))
  <2>1. PICK t, j : t = SlotOf(q.scan) /\ j = PlaceOf(r, d, q)
    OBVIOUS
  <2>2. t \in Slots /\ j \in 1..Volume(r, d, t)
    BY <2>1, PlacesInVector
  <2>3. CASE q = p
    <3>1. new[t][j] = x
      BY <1>1, <1>9, <2>1, <2>3
    <3> QED BY <2>1, <2>3, <3>1
  <2>4. CASE q # p
    <3>1. t # slot \/ j # i
      BY <1>1, <2>1, <2>4, PlacesInVector
    <3>2. new[t][j] = vec[t][j]
      BY <1>5, <1>7, <1>9, <2>2, <3>1
    <3>3. IF q \in left THEN vec[t][j] = Placeholder ELSE Restored(d, vec[t][j], Snap(r, d, q))
      BY <2>1 DEF StoredIn
    <3> QED BY <2>1, <2>4, <3>2, <3>3
  <2> QED BY <2>3, <2>4
<1> QED BY <1>5, <1>10, <1>11 DEF StoredIn

-----------------------------------------------------------------------------
(* What the reader works out                                               *)

(* When all parts have been read *)
LEMMA KnownToReader ==
  ASSUME region \in Regions, modeling \in BOOLEAN, GotUpTo(15), NEW d \in Domains
  PROVE  /\ GotCounts(d) = Lengths(region, d)
         /\ Visited(GotCounts(d)) = Tour(region, d)
         /\ \A slot : CountSum(d, ScansOf(slot)) = Volume(region, d, slot)
         /\ \A s : Start(d, s) = StartOf(region, d, s)
         /\ \A p : Place(d, p) = PlaceOf(region, d, p)
         /\ LocalCount(d) = Cardinality(Packs(region, modeling)[d])
         /\ HasModel = modeling
<1>1. 15 \in 0..15
  OBVIOUS
<1>2. /\ Got("descriptor", d) = DescriptorsOf(region, d) /\ Got("count", d) = CountsOf(region, d)
      /\ Got("tag", d) = TagsOf(region, d) /\ HasModel = modeling
  BY <1>1, GotAre
<1>3. /\ GotCounts(d) = Lengths(region, d) /\ Visited(GotCounts(d)) = Tour(region, d)
      /\ \A scans : CountSum(d, scans) = Cardinality({p \in Tour(region, d) : p.scan \in scans})
  BY <1>2, CountsAreGot
<1>4. \A slot : CountSum(d, ScansOf(slot)) = Volume(region, d, slot)
  BY <1>3 DEF Volume
<1>5. \A s : Start(d, s) = StartOf(region, d, s)
  <2> TAKE s
  <2>1. PICK scans : scans = {x \in ScansOf(SlotOf(s)) : x < s}
    OBVIOUS
  <2>2. CountSum(d, scans) = Cardinality({p \in Tour(region, d) : p.scan \in scans})
    BY <1>3
  <2> QED BY <2>1, <2>2 DEF Start, StartOf
<1>6. \A p : Place(d, p) = PlaceOf(region, d, p)
  BY <1>5 DEF Place, PlaceOf
<1>7. LocalCount(d) = Cardinality(Packs(region, modeling)[d])
  BY <1>2, KindsAreCounted DEF LocalCount, Packs
<1> QED BY <1>2, <1>3, <1>4, <1>5, <1>6, <1>7

(* All parts have been read, and the local palettes come next. *)
AllGot(end, start) ==
  /\ region \in Regions /\ modeling \in BOOLEAN /\ Fits(region)
  /\ Layout(region, modeling, file, end, start)
  /\ GotUpTo(15) /\ pos = end[15]

(* The number of a local palette *)
NumberOf(d, p) == Base(Packs(region, modeling), d) + At(Packs(region, modeling)[d], p) + 1

(* The local palettes stand behind what the main cursor has read. *)
LEMMA LocalsInFile ==
  ASSUME NEW end, NEW start, AllGot(end, start)
  PROVE  /\ Locals = Size(Packs(region, modeling)) /\ Locals \in Nat
         /\ \A d \in Domains : \A p \in Packs(region, modeling)[d] :
              /\ NumberOf(d, p) \in 1..Locals
              /\ DomainOfLocal(NumberOf(d, p)) = d
              /\ pos + NumberOf(d, p) \in DOMAIN file
              /\ file[pos + NumberOf(d, p)] = [kind |-> "local", value |-> LocalAt(region, modeling, d, p)]
         /\ \A d \in Domains : \A p, q \in Packs(region, modeling)[d] :
              NumberOf(d, p) = NumberOf(d, q) => p = q
         /\ \A k \in 1..Locals : \E d \in Domains : \E p \in Packs(region, modeling)[d] :
              k = NumberOf(d, p)
<1>1. PICK K, a, b : /\ K = Packs(region, modeling)
                     /\ a = Cardinality(K["block"]) /\ b = Cardinality(K["biome"])
  OBVIOUS
<1>2. region \in Regions /\ modeling \in BOOLEAN /\ AreOfTours(K, region)
  BY <1>1, ClassTypes DEF AllGot
<1>3. "block" \in Domains /\ "biome" \in Domains /\ \A d \in Domains : d = "block" \/ d = "biome"
  BY DEF Domains
<1>4. LocalCount("block") = a /\ LocalCount("biome") = b
  BY <1>1, <1>3, KnownToReader DEF AllGot
<1>5. a \in Nat /\ b \in Nat /\ Locals = a + b /\ Size(K) = a + b
  BY <1>1, <1>2, <1>3, <1>4, SizeType DEF Locals, Size
<1>6. Base(K, "block") = 0 /\ Base(K, "biome") = a
  BY <1>1 DEF Base
<1>7. PICK n, e : n = Len(file) /\ n \in Nat /\ DOMAIN file = 1..n /\ e = pos /\ e \in Nat
  <2>1. IsText(file) /\ end \in [0..15 -> Nat] /\ pos = end[15]
    BY DEF AllGot, Layout
  <2>2. pos \in Nat
    BY <2>1
  <2>3. Len(file) \in Nat /\ DOMAIN file = 1..Len(file)
    BY <2>1, TextType
  <2> QED BY <2>2, <2>3
<1>8. e + (a + b) <= n
  BY <1>1, <1>5, <1>7 DEF AllGot, Layout, Holds
<1>9. ASSUME NEW d \in Domains, NEW p \in K[d]
      PROVE  /\ NumberOf(d, p) \in 1..Locals
             /\ DomainOfLocal(NumberOf(d, p)) = d
             /\ pos + NumberOf(d, p) \in DOMAIN file
             /\ file[pos + NumberOf(d, p)] = [kind |-> "local", value |-> LocalAt(region, modeling, d, p)]
  <2>1. PICK k, at : k = NumberOf(d, p) /\ at = At(K[d], p) /\ k = Base(K, d) + at + 1
    BY <1>1 DEF NumberOf
  <2>2. at \in 0..(Cardinality(K[d]) - 1)
    BY <1>2, <2>1, SizeType
  <2>3. /\ k \in 1..(a + b)
        /\ k <= a <=> d = "block"
    <3>1. CASE d = "block"
      <4>1. at \in 0..(a - 1) /\ k = 0 + at + 1
        BY <1>1, <1>6, <2>1, <2>2, <3>1
      <4> QED BY <1>5, <3>1, <4>1
    <3>2. CASE d = "biome"
      <4>1. at \in 0..(b - 1) /\ k = a + at + 1
        BY <1>1, <1>6, <2>1, <2>2, <3>2
      <4> QED BY <1>5, <3>2, <4>1
    <3> QED BY <1>3, <3>1, <3>2
  <2>4. DomainOfLocal(k) = d
    BY <1>3, <1>4, <2>3 DEF DomainOfLocal
  <2>5. e + k \in 1..n
    BY <1>5, <1>7, <1>8, <2>3
  <2>6. file[e + k] = [kind |-> "local", value |-> LocalsOf(region, modeling)[d][p]]
    BY <1>1, <1>7, <2>1 DEF AllGot, Layout, Holds
  <2>7. LocalsOf(region, modeling)[d][p] = LocalAt(region, modeling, d, p)
    BY <1>1 DEF LocalsOf
  <2> QED BY <1>5, <1>7, <2>1, <2>3, <2>4, <2>5, <2>6, <2>7
<1>10. ASSUME NEW d \in Domains, NEW p \in K[d], NEW q \in K[d], NumberOf(d, p) = NumberOf(d, q)
       PROVE  p = q
  <2>1. PICK k : k = K[d] /\ IsTour(k)
    BY <1>2, SizeType
  <2>2. PICK x, y, c : x = At(k, p) /\ y = At(k, q) /\ c = Base(K, d)
    OBVIOUS
  <2>3. x \in Nat /\ y \in Nat /\ c \in Nat
    BY <1>2, <2>1, <2>2, SizeType
  <2>4. c + x + 1 = c + y + 1
    BY <1>1, <1>10, <2>1, <2>2 DEF NumberOf
  <2>5. x = y
    BY <2>3, <2>4
  <2>6. p \in k /\ q \in k /\ At(k, p) = At(k, q)
    BY <2>1, <2>2, <2>5
  <2> QED BY <2>1, <2>6, NumbersInTour
<1>11. ASSUME NEW k \in 1..Locals
       PROVE  \E d \in Domains : \E p \in K[d] : k = NumberOf(d, p)
  <2>1. IsTour(K["block"]) /\ IsTour(K["biome"])
    BY <1>2, <1>3, SizeType
  <2>2. CASE k <= a
    <3>1. k - 1 \in 0..(a - 1)
      BY <1>5, <1>11, <2>2
    <3>2. PICK p \in K["block"] : At(K["block"], p) = k - 1
      BY <1>1, <2>1, <3>1, NumbersInTour
    <3>3. NumberOf("block", p) = 0 + (k - 1) + 1
      BY <1>1, <1>6, <3>2 DEF NumberOf
    <3>4. 0 + (k - 1) + 1 = k
      BY <1>5, <1>11
    <3> QED BY <1>3, <3>3, <3>4
  <2>3. CASE ~(k <= a)
    <3>1. k - a - 1 \in 0..(b - 1)
      BY <1>5, <1>11, <2>3
    <3>2. PICK p \in K["biome"] : At(K["biome"], p) = k - a - 1
      BY <1>1, <2>1, <3>1, NumbersInTour
    <3>3. NumberOf("biome", p) = a + (k - a - 1) + 1
      BY <1>1, <1>6, <3>2 DEF NumberOf
    <3>4. a + (k - a - 1) + 1 = k
      BY <1>5, <1>11
    <3> QED BY <1>3, <3>3, <3>4
  <2> QED BY <2>2, <2>3
<1> QED BY <1>1, <1>5, <1>9, <1>10, <1>11

(* The bucket of a local palette in the file *)
BucketOf(k) == Bucket(DomainOfLocal(k), PaletteBpe(Len(file[pos + k].value)))

(* The bucket of a local palette is that of the snapshot it belongs to. *)
LEMMA BucketOfLocal ==
  ASSUME NEW end, NEW start, AllGot(end, start)
  PROVE  /\ \A d \in Domains : \A p \in Packs(region, modeling)[d] :
              BucketOf(NumberOf(d, p)) = BucketAt(region, modeling, d, p)
         /\ \A k \in 1..Locals : BucketOf(k) \in FileBuckets
<1>1. \A d \in Domains : \A p \in Packs(region, modeling)[d] :
        BucketOf(NumberOf(d, p)) = BucketAt(region, modeling, d, p)
  <2> TAKE d \in Domains
  <2> TAKE p \in Packs(region, modeling)[d]
  <2>1. PICK k, local : k = NumberOf(d, p) /\ local = LocalAt(region, modeling, d, p)
    OBVIOUS
  <2>2. DomainOfLocal(k) = d /\ file[pos + k] = [kind |-> "local", value |-> local]
    BY <2>1, LocalsInFile
  <2>3. file[pos + k].value = local
    BY ONLY <2>2
  <2> QED BY <2>1, <2>2, <2>3 DEF BucketOf, BucketAt
<1>2. \A k \in 1..Locals : BucketOf(k) \in FileBuckets
  <2> TAKE k \in 1..Locals
  <2>1. PICK d \in Domains : \E p \in Packs(region, modeling)[d] : k = NumberOf(d, p)
    BY LocalsInFile
  <2>2. PICK p \in Packs(region, modeling)[d] : k = NumberOf(d, p)
    BY <2>1
  <2>3. BucketAt(region, modeling, d, p) \in FileBuckets
    BY BucketType DEF AllGot
  <2> QED BY <1>1, <2>2, <2>3
<1> QED BY <1>1, <1>2

(* The local palettes of a bucket are as many as its snapshots. *)
LEMMA LocalsOfBucket ==
  ASSUME NEW end, NEW start, AllGot(end, start), NEW b
  PROVE  /\ IsFiniteSet({k \in 1..Locals : BucketOf(k) = b})
         /\ Cardinality({k \in 1..Locals : BucketOf(k) = b}) = Size(InBucket(region, modeling, b))
<1>1. PICK K, I : K = Packs(region, modeling) /\ I = InBucket(region, modeling, b)
  OBVIOUS
<1>2. region \in Regions /\ modeling \in BOOLEAN /\ AreOfTours(K, region) /\ AreOfTours(I, region)
  BY <1>1, ClassTypes DEF AllGot
<1>3. "block" \in Domains /\ "biome" \in Domains /\ \A d \in Domains : d = "block" \/ d = "biome"
  BY DEF Domains
<1>4. \A d \in Domains : I[d] = {p \in K[d] : BucketAt(region, modeling, d, p) = b}
  BY <1>1 DEF InBucket
<1>5. ASSUME NEW d \in Domains
      PROVE  /\ IsFiniteSet({k \in 1..Locals : BucketOf(k) = b /\ DomainOfLocal(k) = d})
             /\ Cardinality({k \in 1..Locals : BucketOf(k) = b /\ DomainOfLocal(k) = d})
                  = Cardinality(I[d])
  <2>1. PICK S, T : S = I[d] /\ T = {k \in 1..Locals : BucketOf(k) = b /\ DomainOfLocal(k) = d}
    OBVIOUS
  <2>2. IsFiniteSet(S)
    BY <1>2, <2>1, SizeType DEF IsTour
  <2>3. PICK g : g = [p \in S |-> NumberOf(d, p)]
    OBVIOUS
  <2>4. \A p \in S : p \in K[d] /\ BucketAt(region, modeling, d, p) = b
    BY <1>4, <2>1
  <2>5. g \in [S -> T]
    <3>1. \A p \in S : NumberOf(d, p) \in T
      <4> TAKE p \in S
      <4>1. p \in Packs(region, modeling)[d]
        BY <1>1, <2>4
      <4>2. NumberOf(d, p) \in 1..Locals /\ DomainOfLocal(NumberOf(d, p)) = d
        BY <4>1, LocalsInFile
      <4>3. BucketOf(NumberOf(d, p)) = b
        BY <2>4, <4>1, BucketOfLocal
      <4> QED BY <2>1, <4>2, <4>3
    <3> QED BY <2>3, <3>1
  <2>6. \A p, q \in S : g[p] = g[q] => p = q
    <3> TAKE p, q \in S
    <3> HAVE g[p] = g[q]
    <3>1. p \in Packs(region, modeling)[d] /\ q \in Packs(region, modeling)[d]
      BY <1>1, <2>4
    <3>2. NumberOf(d, p) = NumberOf(d, q)
      BY <2>3
    <3> QED BY <3>1, <3>2, LocalsInFile
  <2>7. \A t \in T : \E p \in S : g[p] = t
    <3> TAKE t \in T
    <3>1. t \in 1..Locals /\ BucketOf(t) = b /\ DomainOfLocal(t) = d
      BY <2>1
    <3>2. PICK x \in Domains : \E p \in Packs(region, modeling)[x] : t = NumberOf(x, p)
      BY <3>1, LocalsInFile
    <3>3. PICK p \in Packs(region, modeling)[x] : t = NumberOf(x, p)
      BY <3>2
    <3>4. x = d
      BY <3>1, <3>3, LocalsInFile
    <3>5. BucketAt(region, modeling, d, p) = b
      BY <3>1, <3>3, <3>4, BucketOfLocal
    <3>6. p \in S
      BY <1>1, <1>4, <2>1, <3>4, <3>5
    <3> QED BY <2>3, <3>3, <3>4, <3>6
  <2>8. IsFiniteSet(T) /\ Cardinality(T) = Cardinality(S)
    BY ONLY <2>2, <2>5, <2>6, <2>7, AsMany
  <2> QED BY <2>1, <2>8
<1>6. PICK X, Y, Z : /\ X = {k \in 1..Locals : BucketOf(k) = b /\ DomainOfLocal(k) = "block"}
                     /\ Y = {k \in 1..Locals : BucketOf(k) = b /\ DomainOfLocal(k) = "biome"}
                     /\ Z = {k \in 1..Locals : BucketOf(k) = b}
  OBVIOUS
<1>7. /\ IsFiniteSet(X) /\ Cardinality(X) = Cardinality(I["block"])
      /\ IsFiniteSet(Y) /\ Cardinality(Y) = Cardinality(I["biome"])
  BY <1>3, <1>5, <1>6
<1>8. Z = X \cup Y
  <2>1. \A k : DomainOfLocal(k) = "block" \/ DomainOfLocal(k) = "biome"
    BY DEF DomainOfLocal
  <2> QED BY <1>6, <2>1
<1>9. X \cap Y = {}
  BY <1>6
<1>10. /\ IsFiniteSet(X \cup Y)
       /\ Cardinality(X \cup Y) = Cardinality(X) + Cardinality(Y) - Cardinality(X \cap Y)
  BY <1>7, FS_Union
<1>11. Cardinality(X \cap Y) = 0 /\ Cardinality(X) \in Nat /\ Cardinality(Y) \in Nat
  <2>1. Cardinality({}) = 0
    BY FS_EmptySet
  <2> QED BY <1>7, <1>9, <2>1, FS_CardinalityType
<1>12. Cardinality(X \cup Y) = Cardinality(X) + Cardinality(Y)
  BY <1>10, <1>11
<1> QED BY <1>1, <1>6, <1>7, <1>8, <1>10, <1>12 DEF Size

(* The reader finds where the buckets begin. *)
LEMMA BucketsAreFound ==
  ASSUME NEW end, NEW start, AllGot(end, start)
  PROVE  \A b \in 0..10 : BucketStart(b) = start[b]
<1>1. PICK n, e : n = Locals /\ e = pos /\ n \in Nat /\ e \in Nat /\ start[0] = e + n
  <2>1. Locals = Size(Packs(region, modeling)) /\ Locals \in Nat
    BY LocalsInFile
  <2>2. end \in [0..15 -> Nat] /\ pos = end[15] /\ start[0] = end[15] + Size(Packs(region, modeling))
    BY DEF AllGot, Layout
  <2>3. pos \in Nat
    BY <2>2
  <2> QED BY <2>1, <2>2, <2>3
<1>2. start \in [0..10 -> Nat]
  BY DEF AllGot, Layout
<1>3. \A k \in 1..n : BucketOf(k) \in FileBuckets
  BY <1>1, BucketOfLocal
<1>4. \A b : BucketStart(b) = e + n + Cardinality({k \in 1..n : BucketOf(k) < b})
  BY <1>1 DEF BucketStart, BucketOf
<1>5. PICK S : S = {b \in 0..10 : BucketStart(b) = start[b]}
  OBVIOUS
<1>6. 0 \in S
  <2>1. {k \in 1..n : BucketOf(k) < 0} = {}
    BY <1>3 DEF FileBuckets
  <2>2. Cardinality({}) = 0
    BY FS_EmptySet
  <2>3. BucketStart(0) = e + n + 0
    BY <1>4, <2>1, <2>2
  <2> QED BY <1>1, <1>5, <2>3
<1>7. ASSUME NEW b \in 0..(10 - 1), b \in S
      PROVE  b + 1 \in S
  <2>1. PICK X, Y, Z : /\ X = {k \in 1..n : BucketOf(k) < b} /\ Y = {k \in 1..n : BucketOf(k) = b}
                       /\ Z = {k \in 1..n : BucketOf(k) < b + 1}
    OBVIOUS
  <2>2. IsFiniteSet(Y) /\ Cardinality(Y) = Size(InBucket(region, modeling, b))
    BY <1>1, <2>1, LocalsOfBucket
  <2>3. IsFiniteSet(X)
    <3>1. PICK x \in Int, y \in Int : x = 1 /\ y = n
      BY <1>1
    <3>2. IsFiniteSet(x..y)
      BY FS_Interval
    <3>3. X \in SUBSET (x..y)
      BY <2>1, <3>1
    <3> QED BY <3>2, <3>3, FS_Subset
  <2>4. Z = X \cup Y
    <3>1. \A k \in 1..n : BucketOf(k) < b + 1 <=> BucketOf(k) < b \/ BucketOf(k) = b
      <4> TAKE k \in 1..n
      <4>1. PICK x : x = BucketOf(k) /\ x \in 0..8
        BY <1>3 DEF FileBuckets
      <4>2. x < b + 1 <=> x < b \/ x = b
        BY <4>1
      <4> QED BY <4>1, <4>2
    <3> QED BY <2>1, <3>1
  <2>5. X \cap Y = {}
    <3>1. \A k \in 1..n : ~(BucketOf(k) < b /\ BucketOf(k) = b)
      BY <1>3 DEF FileBuckets
    <3> QED BY <2>1, <3>1
  <2>6. Cardinality(X \cup Y) = Cardinality(X) + Cardinality(Y) - Cardinality(X \cap Y)
    BY <2>2, <2>3, FS_Union
  <2>7. PICK x, y, z, w : /\ x = Cardinality(X) /\ y = Cardinality(Y) /\ z = Cardinality(Z)
                          /\ w = Cardinality(X \cap Y)
    OBVIOUS
  <2>8. x \in Nat /\ y \in Nat /\ w = 0
    BY <2>2, <2>3, <2>5, <2>7, FS_CardinalityType, FS_EmptySet
  <2>9. z = x + y
    <3>1. z = x + y - w
      BY <2>4, <2>6, <2>7
    <3> QED BY <2>8, <3>1
  <2>10. start[b + 1] = start[b] + y
    <3>1. b \in Buckets
      BY DEF Buckets
    <3> QED BY <2>2, <2>7, <3>1 DEF AllGot, Layout
  <2>11. start[b] = e + n + x
    BY <1>4, <1>5, <1>7, <2>1, <2>7
  <2>12. BucketStart(b + 1) = e + n + z
    BY <1>4, <2>1, <2>7
  <2>13. BucketStart(b + 1) = start[b + 1]
    <3>1. PICK s, t : s = start[b] /\ t = start[b + 1] /\ t = s + y /\ s = e + n + x
      BY <2>10, <2>11
    <3>2. t = e + n + z
      BY <1>1, <2>8, <2>9, <3>1
    <3> QED BY <2>12, <3>1, <3>2
  <2> QED BY <1>5, <2>13
<1>8. 0..10 \subseteq S
  <2>1. PICK first \in Nat, last \in Nat : first = 0 /\ last = 10
    OBVIOUS
  <2>2. first <= last => first \in S
    BY <1>6, <2>1
  <2>3. \A k \in first..(last - 1) : k \in S => k + 1 \in S
    BY <1>7, <2>1
  <2>4. first..last \subseteq S
    BY ONLY <2>2, <2>3, AllUpTo, first \in Nat, last \in Nat
  <2> QED BY <2>1, <2>4
<1> QED BY <1>5, <1>8

-----------------------------------------------------------------------------
(* The sweep                                                               *)

(* The cursors, while places are left *)
CursorsAt(r, m, end, start, left, cur) ==
  /\ DOMAIN cur = {"local", "bucket", "tail"} /\ DOMAIN cur.bucket = Buckets
  /\ cur.local = end[15] + Done(Packs(r, m), left)
  /\ \A b \in Buckets : cur.bucket[b] = start[b] + Done(InBucket(r, m, b), left)

StorageAt(r, left, sto) ==
  DOMAIN sto = Domains /\ \A d \in Domains : StoredIn(r, d, sto[d], left[d])

UsedAt(r, m, d, places, u) ==
  /\ u.timestamp = Cardinality(Tour(r, d) \ places)
  /\ u.single = Cardinality(Singles(r, m)[d] \ places)
  /\ u.tag = Cardinality(Deltas(r)[d] \ places)

ReaderAt(r, m, end, start, left, cur, sto) ==
  /\ AreLeft(left, r)
  /\ CursorsAt(r, m, end, start, left, cur)
  /\ StorageAt(r, left, sto)

(* While a domain is swept *)
SweepAt(d, end, start) ==
  /\ phase = Sweeping(d) /\ AllGot(end, start) /\ IsText(got) /\ Len(got) = 15
  /\ ReaderAt(region, modeling, end, start, ToWrite(region, d, todo), cursors, storage)
  /\ cursors.tail = start[10]
  /\ UsedAt(region, modeling, d, todo, used)

(* The local palettes follow the parts. *)
LEMMA LocalsFollow ==
  ASSUME NEW end, NEW start, AllGot(end, start)
  PROVE  Follow("local", pos, Locals)
<1>1. pos \in Nat
  <2>1. end \in [0..15 -> Nat] /\ pos = end[15]
    BY DEF AllGot, Layout
  <2> QED BY <2>1
<1>2. SUFFICES ASSUME NEW i \in (pos + 1)..(pos + Locals)
               PROVE  i \in DOMAIN file /\ file[i].kind = "local"
  BY DEF Follow
<1>3. Locals \in Nat
  BY LocalsInFile
<1>4. PICK k : k = i - pos /\ i = pos + k /\ k \in 1..Locals
  BY <1>1, <1>2, <1>3
<1>5. PICK d \in Domains : \E p \in Packs(region, modeling)[d] : k = NumberOf(d, p)
  BY <1>4, LocalsInFile
<1>6. PICK p \in Packs(region, modeling)[d] : k = NumberOf(d, p)
  BY <1>5
<1>7. PICK local : pos + k \in DOMAIN file /\ file[pos + k] = [kind |-> "local", value |-> local]
  BY <1>6, LocalsInFile
<1>8. file[pos + k].kind = "local"
  BY <1>7
<1> QED BY <1>4, <1>7, <1>8

(* Before the sweep everything is left. *)
LEMMA AllAreLeft ==
  ASSUME NEW r \in Regions, NEW places, NEW left, left = ToWrite(r, "metadata", places)
  PROVE  AreLeft(left, r) /\ \A d \in Domains : left[d] = Tour(r, d)
<1>1. /\ \A d \in Domains : left[d] = Tour(r, d)
      /\ left = [d \in Domains |-> left[d]]
  BY LeftInPhases DEF ToWrite
<1>2. \A d \in Domains : Tour(r, d) \subseteq Places
  BY TourType DEF IsTour
<1>3. left \in [Domains -> SUBSET Places]
  BY <1>1, <1>2
<1>4. \A d \in Domains : IsLeftOf(left[d], Tour(r, d))
  BY <1>1 DEF IsLeftOf
<1>5. left["biome"] = Tour(r, "biome")
  BY <1>1 DEF Domains
<1> QED BY <1>1, <1>3, <1>4, <1>5 DEF AreLeft

(* Nothing of a domain is used before it is swept. *)
LEMMA NothingIsUsed ==
  ASSUME NEW r \in Regions, NEW m \in BOOLEAN, NEW d \in Domains
  PROVE  UsedAt(r, m, d, Tour(r, d), NothingUsed)
<1>1. Tour(r, d) \ Tour(r, d) = {}
  OBVIOUS
<1>2. Singles(r, m)[d] \ Tour(r, d) = {} /\ Deltas(r)[d] \ Tour(r, d) = {}
  BY ClassTypes DEF AreOfTours
<1>3. Cardinality({}) = 0
  BY FS_EmptySet
<1>4. NothingUsed.timestamp = 0 /\ NothingUsed.single = 0 /\ NothingUsed.tag = 0
  BY DEF NothingUsed
<1> QED BY <1>1, <1>2, <1>3, <1>4 DEF UsedAt

(* The first sweep begins. *)
LEMMA PrescanStartsSweep ==
  ASSUME NEW end, NEW start, AllGot(end, start), IsText(got), Len(got) = 15, Prescan
  PROVE  SweepAt("block", end, start)'
<1>1. /\ cursors' = [local |-> pos,
                     bucket |-> [bucket \in Buckets |-> BucketStart(bucket)],
                     tail |-> BucketStart(Cardinality(Buckets))]
      /\ storage' = [domain \in Domains |-> NewStorage(domain)]
      /\ todo' = Visited(GotCounts("block"))
      /\ used' = NothingUsed
      /\ phase' = Sweeping("block")
      /\ region' = region /\ modeling' = modeling /\ file' = file /\ pos' = pos /\ got' = got
  BY DEF Prescan
<1>2. /\ region \in Regions /\ modeling \in BOOLEAN /\ pos = end[15] /\ Fits(region)
      /\ end \in [0..15 -> Nat] /\ start \in [0..10 -> Nat]
  BY DEF AllGot, Layout
<1>3. "block" \in Domains
  BY DEF Domains
<1>4. todo' = Tour(region, "block")
  BY <1>1, <1>2, <1>3, KnownToReader DEF AllGot
<1>5. PICK left : left = ToWrite(region, "metadata", {})
  OBVIOUS
<1>6. left = ToWrite(region, "block", todo')
  <2>1. PICK places : places = {}
    OBVIOUS
  <2>2. /\ ToWrite(region, "mark block", places) = ToWrite(region, "metadata", places)
        /\ ToWrite(region, "block", Tour(region, "block")) = ToWrite(region, "mark block", places)
    BY <1>2, LeftInPhases
  <2> QED BY <1>4, <1>5, <2>1, <2>2
<1>7. AreLeft(left, region) /\ \A d \in Domains : left[d] = Tour(region, d)
  BY <1>2, <1>5, AllAreLeft
<1>8. PICK cur : cur = cursors'
  OBVIOUS
<1>9. /\ DOMAIN cur = {"local", "bucket", "tail"} /\ DOMAIN cur.bucket = Buckets
      /\ cur.local = pos /\ cur.tail = BucketStart(Cardinality(Buckets))
      /\ \A b \in Buckets : cur.bucket[b] = BucketStart(b)
  BY <1>1, <1>8
<1>10. cur.tail = start[10]
  <2>1. Cardinality(Buckets) = 10
    <3>1. PICK a \in Int, b \in Int : a = 0 /\ b = 9
      OBVIOUS
    <3>2. Cardinality(a..b) = IF a > b THEN 0 ELSE b - a + 1
      BY FS_Interval
    <3> QED BY <3>1, <3>2 DEF Buckets
  <2> QED BY <1>9, <2>1, BucketsAreFound
<1>11. CursorsAt(region, modeling, end, start, left, cur)
  <2>1. cur.local = end[15] + Done(Packs(region, modeling), left)
    <3>1. Done(Packs(region, modeling), left) = 0
      BY <1>2, <1>7, DoneAtEnds, ClassTypes
    <3> QED BY <1>2, <1>9, <3>1
  <2>2. ASSUME NEW b \in Buckets
        PROVE  cur.bucket[b] = start[b] + Done(InBucket(region, modeling, b), left)
    <3>1. Done(InBucket(region, modeling, b), left) = 0
      BY <1>2, <1>7, DoneAtEnds, ClassTypes
    <3>2. b \in 0..10
      BY DEF Buckets
    <3>3. BucketStart(b) = start[b] /\ start[b] \in Nat
      BY <1>2, <3>2, BucketsAreFound
    <3> QED BY <1>9, <3>1, <3>3
  <2> QED BY <1>9, <2>1, <2>2 DEF CursorsAt
<1>12. PICK sto : sto = storage'
  OBVIOUS
<1>13. StorageAt(region, left, sto)
  <2>1. DOMAIN sto = Domains /\ \A d \in Domains : sto[d] = NewStorage(d)
    BY <1>1, <1>12
  <2>2. ASSUME NEW d \in Domains
        PROVE  StoredIn(region, d, NewStorage(d), left[d])
    <3>1. PICK vec : vec = NewStorage(d)
      OBVIOUS
    <3>2. vec = [slot \in Slots |-> [i \in 1..Volume(region, d, slot) |-> Placeholder]]
      <4>1. \A slot : CountSum(d, ScansOf(slot)) = Volume(region, d, slot)
        BY <1>2, KnownToReader DEF AllGot
      <4> QED BY <3>1, <4>1 DEF NewStorage
    <3>3. DOMAIN vec = Slots /\ \A slot \in Slots : vec[slot] = [i \in 1..Volume(region, d, slot) |-> vec[slot][i]]
      BY <3>2
    <3>4. ASSUME NEW p \in Tour(region, d)
          PROVE  vec[SlotOf(p.scan)][PlaceOf(region, d, p)] = Placeholder
      <4>1. SlotOf(p.scan) \in Slots /\ PlaceOf(region, d, p) \in 1..Volume(region, d, SlotOf(p.scan))
        BY <1>2, PlacesInVector
      <4> QED BY <3>2, <4>1
    <3> QED BY <1>7, <3>1, <3>3, <3>4 DEF StoredIn
  <2> QED BY <2>1, <2>2 DEF StorageAt
<1>14. UsedAt(region, modeling, "block", todo', used')
  BY <1>1, <1>2, <1>3, <1>4, NothingIsUsed
<1>15. AllGot(end, start)'
  BY <1>1 DEF AllGot, GotUpTo
<1>16. ReaderAt(region, modeling, end, start, left, cur, sto)
  BY <1>7, <1>11, <1>13 DEF ReaderAt
<1> QED BY <1>1, <1>6, <1>8, <1>10, <1>12, <1>14, <1>15, <1>16 DEF SweepAt

(* The place the sweep is at *)
LEMMA SweepGoesOn ==
  ASSUME NEW d \in Domains, NEW end, NEW start, SweepAt(d, end, start), todo # {}
  PROVE  /\ region \in Regions /\ modeling \in BOOLEAN
         /\ First(todo) \in Tour(region, d)
         /\ AreLeft(ToWrite(region, d, todo), region)
         /\ IsNext(ToWrite(region, d, todo), ToWrite(region, d, todo \ {First(todo)}), d, First(todo))
         /\ AreLeft(ToWrite(region, d, todo \ {First(todo)}), region)
         /\ \A K \in SUBSET Tour(region, d) : GoesOnIn(K, todo, First(todo))
<1>1. /\ region \in Regions /\ modeling \in BOOLEAN
      /\ AreLeft(ToWrite(region, d, todo), region)
  BY DEF SweepAt, AllGot, ReaderAt
<1>2. PICK p, left, next : /\ p = First(todo) /\ left = ToWrite(region, d, todo)
                           /\ next = ToWrite(region, d, todo \ {p})
  OBVIOUS
<1>3. left[d] = todo
  BY <1>1, <1>2, LeftInPhases
<1>4. IsNext(left, next, d, p)
  <2>1. d = "biome" => left["block"] = {}
    BY <1>1, <1>2, LeftInPhases
  <2>2. next = [left EXCEPT ![d] = @ \ {p}]
    BY <1>2, <1>3 DEF ToWrite
  <2> QED BY <1>2, <1>3, <2>1, <2>2 DEF IsNext
<1>5. AreLeft(next, region) /\ p \in Tour(region, d)
  BY <1>1, <1>2, <1>4, NextLeft
<1>6. \A K \in SUBSET Tour(region, d) : GoesOnIn(K, todo, p)
  <2>1. IsTour(Tour(region, d)) /\ IsLeftOf(todo, Tour(region, d))
    BY <1>1, <1>2, <1>3, TourType DEF AreLeft
  <2> QED BY <1>2, <2>1, NextPlace
<1> QED BY <1>1, <1>2, <1>4, <1>5, <1>6

(* What the sweep has used, and what it uses next. *)
LEMMA UseGoesOn ==
  ASSUME NEW d \in Domains, NEW end, NEW start, SweepAt(d, end, start), todo # {},
         NEW p, p = First(todo)
  PROVE  /\ used.timestamp = At(Tour(region, d), p)
         /\ p \in Singles(region, modeling)[d] => used.single = At(Singles(region, modeling)[d], p)
         /\ p \in Deltas(region)[d] => used.tag = At(Deltas(region)[d], p)
         /\ p \in Deltas(region)[d] <=> p.level > 0
         /\ \A singles, u :
              /\ singles = IF p \in Singles(region, modeling)[d] THEN 1 ELSE 0
              /\ u = [timestamp |-> used.timestamp + 1, single |-> used.single + singles,
                      tag |-> used.tag + (IF p.level > 0 THEN 1 ELSE 0)]
              => UsedAt(region, modeling, d, todo \ {p}, u)
<1>1. PICK T, S, D : T = Tour(region, d) /\ S = Singles(region, modeling)[d] /\ D = Deltas(region)[d]
  OBVIOUS
<1>2. T \in SUBSET T /\ S \in SUBSET T /\ D \in SUBSET T /\ p \in T
  BY <1>1, SweepGoesOn, ClassTypes DEF AreOfTours
<1>3. GoesOnIn(T, todo, p) /\ GoesOnIn(S, todo, p) /\ GoesOnIn(D, todo, p)
  BY <1>1, <1>2, SweepGoesOn
<1>4. /\ used.timestamp = Cardinality(T \ todo) /\ used.single = Cardinality(S \ todo)
      /\ used.tag = Cardinality(D \ todo)
  BY <1>1 DEF SweepAt, UsedAt
<1>5. p \in D <=> p.level > 0
  BY <1>1, <1>2 DEF Deltas
<1>6. /\ used.timestamp = At(T, p) /\ Cardinality(T \ (todo \ {p})) = used.timestamp + 1
  BY <1>2, <1>3, <1>4 DEF GoesOnIn
<1>7. p \in S => used.single = At(S, p) /\ Cardinality(S \ (todo \ {p})) = used.single + 1
  BY <1>3, <1>4 DEF GoesOnIn
<1>8. p \notin S => Cardinality(S \ (todo \ {p})) = used.single + 0
  BY <1>3, <1>4 DEF GoesOnIn
<1>9. p \in D => used.tag = At(D, p) /\ Cardinality(D \ (todo \ {p})) = used.tag + 1
  BY <1>3, <1>4 DEF GoesOnIn
<1>10. p \notin D => Cardinality(D \ (todo \ {p})) = used.tag + 0
  <2>1. p \notin D => D \ (todo \ {p}) = D \ todo
    BY <1>3 DEF GoesOnIn
  <2>2. Cardinality(D \ todo) \in Nat
    BY <1>3 DEF GoesOnIn
  <2> QED BY <1>4, <2>1, <2>2
<1>11. ASSUME NEW singles, NEW u, singles = IF p \in S THEN 1 ELSE 0,
              u = [timestamp |-> used.timestamp + 1, single |-> used.single + singles,
                   tag |-> used.tag + (IF p.level > 0 THEN 1 ELSE 0)]
       PROVE  UsedAt(region, modeling, d, todo \ {p}, u)
  <2>1. /\ u.timestamp = used.timestamp + 1 /\ u.single = used.single + singles
        /\ u.tag = used.tag + (IF p.level > 0 THEN 1 ELSE 0)
    BY <1>11
  <2>2. u.timestamp = Cardinality(T \ (todo \ {p}))
    BY <1>6, <2>1
  <2>3. u.single = Cardinality(S \ (todo \ {p}))
    BY <1>7, <1>8, <1>11, <2>1
  <2>4. u.tag = Cardinality(D \ (todo \ {p}))
    BY <1>5, <1>9, <1>10, <2>1
  <2> QED BY <1>1, <2>2, <2>3, <2>4 DEF UsedAt
<1> QED BY <1>1, <1>5, <1>6, <1>7, <1>9, <1>11

(* What the parts tell of the snapshot the sweep is at *)
LEMMA NextIsTold ==
  ASSUME NEW d \in Domains, NEW end, NEW start, SweepAt(d, end, start), todo # {},
         NEW p, p = First(todo)
  PROVE  /\ NextIsModeled(d) <=> InModel(modeling, d, p)
         /\ NextTimestamp(d) = Snap(region, d, p).timestamp
         /\ NextKind(d) = Snap(region, d, p).kind
         /\ p \in Singles(region, modeling)[d] =>
              /\ SingleFollows(d)
              /\ Got("single", d)[used.single + 1] = Snap(region, d, p).atom
<1>1. region \in Regions /\ modeling \in BOOLEAN /\ p \in Tour(region, d) /\ GotUpTo(15)
  BY SweepGoesOn DEF SweepAt, AllGot
<1>2. 15 \in 0..15
  OBVIOUS
<1>3. /\ Got("descriptor", d) = DescriptorsOf(region, d) /\ Got("tag", d) = TagsOf(region, d)
      /\ Got("timestamp", d) = InOrder(Tours(region), Stamps(region), d)
      /\ Got("single", d) = InOrder(Singles(region, modeling), Atoms(region, modeling), d)
      /\ HasModel = modeling
  BY <1>1, <1>2, GotAre
<1>4. NextIsModeled(d) <=> InModel(modeling, d, p)
  BY <1>3 DEF NextIsModeled, InModel
<1>5. NextTimestamp(d) = Snap(region, d, p).timestamp
  <2>1. PICK K : K = Tours(region) /\ AreOfTours(K, region) /\ K[d] = Tour(region, d)
    <3>1. AreOfTours(Tours(region), region)
      BY <1>1, ClassTypes
    <3>2. Tours(region)[d] = Tour(region, d)
      BY DEF Tours
    <3> QED BY <3>1, <3>2
  <2>2. Got("timestamp", d)[At(K[d], p) + 1] = Stamps(region)[d][p]
    BY <1>1, <1>3, <2>1, OrderType
  <2>3. used.timestamp = At(K[d], p)
    BY <2>1, UseGoesOn
  <2> QED BY <1>1, <2>2, <2>3 DEF NextTimestamp, Stamps
<1>6. NextKind(d) = Snap(region, d, p).kind
  <2>1. p.level \in Nat /\ p.scan \in Scans /\ p.level + 1 \in 1..Len(Hist(region, d, p.scan))
    BY <1>1, TourType
  <2>2. CASE p.level = 0
    <3>1. Hist(region, d, p.scan) # <<>>
      BY <2>1
    <3>2. DescriptorsOf(region, d)[p.scan] = Hist(region, d, p.scan)[1].kind
      BY <2>1, <3>1 DEF DescriptorsOf
    <3>3. Snap(region, d, p) = Hist(region, d, p.scan)[1]
      BY <2>2 DEF Snap
    <3> QED BY <1>3, <2>2, <3>2, <3>3 DEF NextKind
  <2>3. CASE p.level # 0
    <3>1. PICK K : K = Deltas(region) /\ AreOfTours(K, region)
      BY <1>1, ClassTypes
    <3>2. p \in K[d]
      BY <1>1, <2>1, <2>3, <3>1 DEF Deltas
    <3>3. Got("tag", d)[At(K[d], p) + 1] = Kinds(region)[d][p]
      BY <1>1, <1>3, <3>1, <3>2, OrderType DEF TagsOf
    <3>4. used.tag = At(K[d], p)
      BY <3>1, <3>2, UseGoesOn
    <3> QED BY <1>1, <2>3, <3>3, <3>4 DEF NextKind, Kinds
  <2> QED BY <2>2, <2>3
<1>7. ASSUME p \in Singles(region, modeling)[d]
      PROVE  SingleFollows(d) /\ Got("single", d)[used.single + 1] = Snap(region, d, p).atom
  <2>1. PICK K, text : /\ K = Singles(region, modeling) /\ AreOfTours(K, region)
                       /\ text = InOrder(K, Atoms(region, modeling), d)
    BY <1>1, ClassTypes
  <2>2. /\ At(K[d], p) + 1 \in 1..Len(text) /\ Len(text) = Cardinality(K[d]) /\ Cardinality(K[d]) \in Nat
        /\ text[At(K[d], p) + 1] = Atoms(region, modeling)[d][p]
    BY <1>1, <1>7, <2>1, OrderType
  <2>3. used.single = At(K[d], p)
    BY <1>7, <2>1, UseGoesOn
  <2>4. At(K[d], p) \in Nat
    BY <1>1, <1>7, <2>1, SizeType
  <2>5. SingleFollows(d)
    BY <1>3, <2>1, <2>2, <2>3, <2>4 DEF SingleFollows
  <2>6. Atoms(region, modeling)[d][p] = Snap(region, d, p).atom
    BY <1>7 DEF Atoms
  <2> QED BY <1>3, <2>1, <2>2, <2>3, <2>5, <2>6
<1> QED BY <1>4, <1>5, <1>6, <1>7

(* A cursor is at the field of a place of a class. *)
IsAtField(from, base, K, d, p) == from = base + (Base(K, d) + At(K[d], p))

FieldIs(from, kind, x) ==
  /\ from + 1 \in DOMAIN file
  /\ file[from + 1] = [kind |-> kind, value |-> x]
  /\ Follow(kind, from, 1)

(* A cursor at the place of a class is at the field of that place. *)
LEMMA FieldOfClass ==
  ASSUME NEW r \in Regions, NEW K, AreOfTours(K, r), IsText(file), NEW base \in Nat,
         NEW kind, NEW value, Holds(file, base, kind, K, value),
         NEW d \in Domains, NEW p \in K[d], NEW from, IsAtField(from, base, K, d, p)
  PROVE  FieldIs(from, kind, value[d][p])
<1>1. PICK at, b, c, size, n : /\ at = At(K[d], p) /\ b = Base(K, d) /\ c = Cardinality(K[d])
                               /\ size = Size(K) /\ n = Len(file)
  OBVIOUS
<1>2. n \in Nat /\ DOMAIN file = 1..n
  BY <1>1, TextType
<1>3. at \in 0..(c - 1) /\ b \in Nat /\ c \in Nat /\ size \in Nat /\ b + c <= size
  BY <1>1, SizeType
<1>4. base + size <= n /\ file[base + (b + at + 1)] = [kind |-> kind, value |-> value[d][p]]
  BY <1>1 DEF Holds
<1>5. from \in Nat /\ from + 1 = base + (b + at + 1) /\ from + 1 <= n
  <2>1. from = base + (b + at)
    BY <1>1 DEF IsAtField
  <2>2. base + size <= n
    BY <1>4
  <2> QED BY ONLY <1>2, <1>3, <2>1, <2>2, base \in Nat
<1>6. from + 1 \in DOMAIN file
  BY <1>2, <1>5
<1>7. file[from + 1] = [kind |-> kind, value |-> value[d][p]]
  BY <1>4, <1>5
<1>8. Follow(kind, from, 1)
  <2>1. SUFFICES ASSUME NEW i \in (from + 1)..(from + 1)
                 PROVE  i \in DOMAIN file /\ file[i].kind = kind
    BY DEF Follow
  <2>2. i = from + 1
    BY <1>5, <2>1
  <2>3. PICK field, x : field = file[from + 1] /\ field = [kind |-> kind, value |-> x]
    BY <1>7
  <2>4. field.kind = kind
    BY ONLY <2>3
  <2> QED BY <1>6, <2>2, <2>3, <2>4
<1> QED BY <1>6, <1>7, <1>8 DEF FieldIs

(* The palette and the cells of the next snapshot are found. *)
LEMMA PalettedIsFound ==
  ASSUME NEW d \in Domains, NEW end, NEW start, SweepAt(d, end, start), todo # {},
         NEW p, p = First(todo), p \in Packs(region, modeling)[d]
  PROVE  /\ PalettedFollows(d)
         /\ NextLocal = LocalAt(region, modeling, d, p)
         /\ NextBucket(d) = BucketAt(region, modeling, d, p)
         /\ NextBucket(d) \in FileBuckets
         /\ file[cursors.bucket[NextBucket(d)] + 1].value = PackedCells(Snap(region, d, p))
<1>1. /\ region \in Regions /\ modeling \in BOOLEAN /\ p \in Tour(region, d)
      /\ GotUpTo(15) /\ Layout(region, modeling, file, end, start)
  BY SweepGoesOn DEF SweepAt, AllGot
<1>2. PICK left, next : /\ left = ToWrite(region, d, todo) /\ next = ToWrite(region, d, todo \ {p})
                        /\ AreLeft(left, region) /\ IsNext(left, next, d, p)
                        /\ CursorsAt(region, modeling, end, start, left, cursors)
  BY SweepGoesOn DEF SweepAt, ReaderAt
<1>3. IsText(file) /\ end \in [0..15 -> Nat] /\ start \in [0..10 -> Nat]
  BY <1>1 DEF Layout
<1>4. PICK K : K = Packs(region, modeling) /\ AreOfTours(K, region)
  BY <1>1, ClassTypes
<1>5. GoesOnWith(K, left, next, d, p)
  BY <1>1, <1>2, <1>4, DoneGoesOn
<1>6. cursors.local = end[15] + (Base(K, d) + At(K[d], p))
  BY <1>2, <1>4, <1>5 DEF CursorsAt, GoesOnWith
<1>7. Holds(file, end[15], "local", K, LocalsOf(region, modeling)) /\ end[15] \in Nat
  BY <1>1, <1>3, <1>4 DEF Layout
<1>8. PICK local : local = LocalAt(region, modeling, d, p) /\ local = LocalsOf(region, modeling)[d][p]
  BY DEF LocalsOf
<1>9. /\ file[cursors.local + 1] = [kind |-> "local", value |-> local]
      /\ Follow("local", cursors.local, 1)
  <2>1. PICK base, value, from :
          /\ base = end[15] /\ value = LocalsOf(region, modeling) /\ from = cursors.local
          /\ base \in Nat /\ Holds(file, base, "local", K, value)
          /\ IsAtField(from, base, K, d, p)
    BY <1>6, <1>7 DEF IsAtField
  <2>2. p \in K[d]
    BY <1>4
  <2>3. FieldIs(from, "local", value[d][p])
    BY <1>1, <1>3, <1>4, <2>1, <2>2, FieldOfClass
  <2> QED BY <1>8, <2>1, <2>3 DEF FieldIs
<1>10. NextLocal = local
  <2>1. file[cursors.local + 1].value = local
    BY ONLY <1>9
  <2> QED BY <2>1 DEF NextLocal
<1>11. PICK b : b = BucketAt(region, modeling, d, p) /\ b = NextBucket(d)
  BY <1>8, <1>10 DEF BucketAt, NextBucket
<1>12. b \in FileBuckets /\ b \in Buckets /\ b \in 0..10
  <2>1. b \in FileBuckets
    BY <1>1, <1>11, BucketType
  <2> QED BY <2>1 DEF FileBuckets, Buckets
<1>13. PICK I : I = InBucket(region, modeling, b) /\ AreOfTours(I, region) /\ p \in I[d]
  <2>1. AreOfTours(InBucket(region, modeling, b), region)
    BY <1>1, ClassTypes
  <2>2. p \in InBucket(region, modeling, b)[d]
    BY <1>11 DEF InBucket
  <2> QED BY <2>1, <2>2
<1>14. GoesOnWith(I, left, next, d, p)
  BY <1>1, <1>2, <1>13, DoneGoesOn
<1>15. cursors.bucket[b] = start[b] + (Base(I, d) + At(I[d], p))
  BY <1>2, <1>12, <1>13, <1>14 DEF CursorsAt, GoesOnWith
<1>16. Holds(file, start[b], "packed", I, CellsPacked(region, modeling)) /\ start[b] \in Nat
  BY <1>1, <1>3, <1>12, <1>13 DEF Layout
<1>17. PICK cells : cells = PackedCells(Snap(region, d, p)) /\ cells = CellsPacked(region, modeling)[d][p]
  BY DEF CellsPacked
<1>18. /\ file[cursors.bucket[b] + 1] = [kind |-> "packed", value |-> cells]
       /\ Follow("packed", cursors.bucket[b], 1)
  <2>1. PICK base, value, from :
          /\ base = start[b] /\ value = CellsPacked(region, modeling) /\ from = cursors.bucket[b]
          /\ base \in Nat /\ Holds(file, base, "packed", I, value)
          /\ IsAtField(from, base, I, d, p)
    BY <1>15, <1>16 DEF IsAtField
  <2>2. FieldIs(from, "packed", value[d][p])
    BY <1>1, <1>3, <1>13, <2>1, FieldOfClass
  <2> QED BY <1>17, <2>1, <2>2 DEF FieldIs
<1>19. file[cursors.bucket[b] + 1].value = cells
  BY ONLY <1>18
<1>20. \A i \in DOMAIN NextLocal : NextLocal[i] < Len(Got("palette", d)[1])
  <2>1. PICK pal, snapshot : pal = PaletteOf(region, modeling, d) /\ snapshot = Snap(region, d, p)
    OBVIOUS
  <2>2. Got("palette", d)[1] = pal
    <3>1. 15 \in 0..15
      OBVIOUS
    <3>2. Got("palette", d) = <<pal>>
      BY <1>1, <2>1, <3>1, GotAre
    <3> QED BY <3>2
  <2>3. HasAtoms(pal, snapshot) /\ snapshot \in PalettedSnapshots(d)
    BY <1>1, <2>1, PaletteHasAtoms, ClassesMeet
  <2>4. local = LocalOf(pal, snapshot)
    BY <1>8, <2>1 DEF LocalAt
  <2>5. DOMAIN local = 1..Len(local) /\ \A k \in 1..Len(local) : local[k] \in Nat /\ local[k] < Len(pal)
    BY <2>3, <2>4, LocalType
  <2> QED BY <1>10, <2>2, <2>5
<1>21. PalettedFollows(d)
  BY <1>9, <1>11, <1>18, <1>20 DEF PalettedFollows
<1> QED BY <1>8, <1>10, <1>11, <1>12, <1>17, <1>19, <1>21

-----------------------------------------------------------------------------
(* The steps of the sweep                                                  *)

(* The cursors after the next snapshot *)
CursorsGoOn(r, m, d, p, cur, new) ==
  \/ p \in Packs(r, m)[d]
       /\ new = [cur EXCEPT !.local = @ + 1, !.bucket[BucketAt(r, m, d, p)] = @ + 1]
  \/ p \notin Packs(r, m)[d] /\ new = cur

(* The cursors of a sweep after the next place of it. *)
LEMMA CursorsKeepUp ==
  ASSUME NEW r \in Regions, NEW m \in BOOLEAN, NEW end \in [0..15 -> Nat], NEW start \in [0..10 -> Nat],
         NEW left, NEW next, NEW d, NEW p, AreLeft(left, r), IsNext(left, next, d, p),
         NEW cur, CursorsAt(r, m, end, start, left, cur),
         NEW new, CursorsGoOn(r, m, d, p, cur, new)
  PROVE  CursorsAt(r, m, end, start, next, new) /\ new.tail = cur.tail
<1>1. /\ DOMAIN cur = {"local", "bucket", "tail"} /\ DOMAIN cur.bucket = Buckets
      /\ cur.local = end[15] + Done(Packs(r, m), left)
      /\ \A b \in Buckets : cur.bucket[b] = start[b] + Done(InBucket(r, m, b), left)
  BY DEF CursorsAt
<1>2. d \in Domains /\ p \in Tour(r, d)
  BY NextLeft
<1>3. /\ GoesOnWith(Packs(r, m), left, next, d, p)
      /\ \A b : GoesOnWith(InBucket(r, m, b), left, next, d, p)
  BY DoneGoesOn, ClassTypes
<1>4. end[15] \in Nat /\ \A b \in Buckets : start[b] \in Nat
  BY DEF Buckets
<1>5. CASE p \in Packs(r, m)[d]
  <2>1. PICK bucket : bucket = BucketAt(r, m, d, p) /\ bucket \in Buckets
    BY <1>2, <1>5, BucketType DEF FileBuckets, Buckets
  <2>2. new = [cur EXCEPT !.local = @ + 1, !.bucket[bucket] = @ + 1]
    BY <1>5, <2>1 DEF CursorsGoOn
  <2>3. /\ DOMAIN new = {"local", "bucket", "tail"} /\ DOMAIN new.bucket = Buckets
        /\ new.local = cur.local + 1 /\ new.tail = cur.tail
        /\ \A b \in Buckets : new.bucket[b] = IF b = bucket THEN cur.bucket[b] + 1 ELSE cur.bucket[b]
    BY <1>1, <2>1, <2>2
  <2>4. new.local = end[15] + Done(Packs(r, m), next)
    <3>1. PICK x, y, e : x = Done(Packs(r, m), left) /\ y = Done(Packs(r, m), next) /\ e = end[15]
      OBVIOUS
    <3>2. x \in Nat /\ y = x + 1 /\ e \in Nat /\ cur.local = e + x
      BY <1>1, <1>3, <1>4, <1>5, <3>1 DEF GoesOnWith
    <3>3. new.local = (e + x) + 1
      BY <2>3, <3>2
    <3> QED BY <3>1, <3>2, <3>3
  <2>5. ASSUME NEW b \in Buckets
        PROVE  new.bucket[b] = start[b] + Done(InBucket(r, m, b), next)
    <3>1. PICK x, y, e : x = Done(InBucket(r, m, b), left) /\ y = Done(InBucket(r, m, b), next) /\ e = start[b]
      OBVIOUS
    <3>2. p \in InBucket(r, m, b)[d] <=> b = bucket
      BY <1>2, <1>5, <2>1 DEF InBucket
    <3>3. x \in Nat /\ e \in Nat /\ cur.bucket[b] = e + x
      BY <1>1, <1>3, <1>4, <3>1 DEF GoesOnWith
    <3>4. y = IF b = bucket THEN x + 1 ELSE x
      BY <1>3, <3>1, <3>2 DEF GoesOnWith
    <3>5. new.bucket[b] = IF b = bucket THEN (e + x) + 1 ELSE e + x
      BY <2>3, <3>3
    <3> QED BY <3>1, <3>3, <3>4, <3>5
  <2> QED BY <2>3, <2>4, <2>5 DEF CursorsAt
<1>6. CASE p \notin Packs(r, m)[d]
  <2>1. new = cur
    BY <1>6 DEF CursorsGoOn
  <2>2. Done(Packs(r, m), next) = Done(Packs(r, m), left)
    BY <1>3, <1>6 DEF GoesOnWith
  <2>3. \A b : p \notin InBucket(r, m, b)[d]
    BY <1>2, <1>6 DEF InBucket
  <2>4. \A b \in Buckets : Done(InBucket(r, m, b), next) = Done(InBucket(r, m, b), left)
    BY <1>3, <2>3 DEF GoesOnWith
  <2> QED BY <1>1, <2>1, <2>2, <2>4 DEF CursorsAt
<1> QED BY <1>5, <1>6

(* A snapshot is stored as it was written. *)
LEMMA StoreKeepsSweep ==
  ASSUME NEW d \in Domains, NEW end, NEW start, SweepAt(d, end, start), todo # {},
         NEW p, p = First(todo), NEW x, Restored(d, x, Snap(region, d, p)),
         NEW singles, singles = IF p \in Singles(region, modeling)[d] THEN 1 ELSE 0,
         Store(d, x, singles), CursorsGoOn(region, modeling, d, p, cursors, cursors')
  PROVE  SweepAt(d, end, start)'
<1>1. /\ storage' = [storage EXCEPT ![d][SlotOf(p.scan)][Place(d, p)] = x]
      /\ used' = [timestamp |-> used.timestamp + 1,
                  single |-> used.single + singles,
                  tag |-> used.tag + (IF p.level > 0 THEN 1 ELSE 0)]
      /\ todo' = todo \ {p}
      /\ region' = region /\ modeling' = modeling /\ phase' = phase /\ file' = file
      /\ pos' = pos /\ got' = got
  BY DEF Store
<1>2. PICK left, next : /\ left = ToWrite(region, d, todo) /\ next = ToWrite(region, d, todo \ {p})
                        /\ AreLeft(left, region) /\ IsNext(left, next, d, p) /\ AreLeft(next, region)
  BY SweepGoesOn
<1>3. region \in Regions /\ modeling \in BOOLEAN /\ p \in Tour(region, d) /\ Fits(region)
  BY SweepGoesOn DEF SweepAt, AllGot
<1>4. /\ CursorsAt(region, modeling, end, start, left, cursors) /\ cursors.tail = start[10]
      /\ StorageAt(region, left, storage) /\ phase = Sweeping(d) /\ IsText(got) /\ Len(got) = 15
      /\ end \in [0..15 -> Nat] /\ start \in [0..10 -> Nat]
  BY <1>2 DEF SweepAt, ReaderAt, AllGot, Layout
<1>5. PICK cur : cur = cursors' /\ CursorsAt(region, modeling, end, start, next, cur) /\ cur.tail = start[10]
  <2>1. PICK cur : cur = cursors' /\ CursorsGoOn(region, modeling, d, p, cursors, cur)
    OBVIOUS
  <2>2. CursorsAt(region, modeling, end, start, next, cur) /\ cur.tail = cursors.tail
    BY <1>2, <1>3, <1>4, <2>1, CursorsKeepUp
  <2> QED BY <1>4, <2>1, <2>2
<1>6. PICK sto : sto = storage' /\ StorageAt(region, next, sto)
  <2>1. PICK slot, i, sto : slot = SlotOf(p.scan) /\ i = PlaceOf(region, d, p) /\ sto = storage'
    OBVIOUS
  <2>2. Place(d, p) = i
    BY <1>3, <2>1, KnownToReader DEF SweepAt, AllGot
  <2>3. sto = [storage EXCEPT ![d][slot][i] = x] /\ DOMAIN storage = Domains
    BY <1>1, <1>4, <2>1, <2>2 DEF StorageAt
  <2>4. /\ DOMAIN sto = Domains /\ sto[d] = [storage[d] EXCEPT ![slot][i] = x]
        /\ \A o \in Domains : o # d => sto[o] = storage[o]
    BY <2>3
  <2>5. next[d] = left[d] \ {p} /\ \A o \in Domains : o # d => next[o] = left[o]
    <3>1. region \in Regions /\ AreLeft(left, region) /\ IsNext(left, next, d, p)
      BY <1>2, <1>3
    <3> QED BY ONLY <3>1, NextLeft
  <2>6. PICK vec, new, places :
          /\ vec = storage[d] /\ new = sto[d] /\ places = left[d]
          /\ StoredIn(region, d, vec, places)
          /\ IsStored(new, vec, SlotOf(p.scan), PlaceOf(region, d, p), x)
    BY <1>4, <2>1, <2>4 DEF StorageAt, IsStored
  <2>7. StoredIn(region, d, new, places \ {p})
    BY <1>3, <2>6, StoringNext
  <2>8. \A o \in Domains : StoredIn(region, o, sto[o], next[o])
    BY <1>4, <2>4, <2>5, <2>6, <2>7 DEF StorageAt
  <2> QED BY <2>1, <2>4, <2>8 DEF StorageAt
<1>7. UsedAt(region, modeling, d, todo \ {p}, used')
  <2>1. PICK u : u = used'
    OBVIOUS
  <2>2. UsedAt(region, modeling, d, todo \ {p}, u)
    BY <1>1, <2>1, UseGoesOn
  <2> QED BY <2>1, <2>2
<1>8. AllGot(end, start)'
  <2>1. AllGot(end, start)
    BY DEF SweepAt
  <2> QED BY <1>1, <2>1 DEF AllGot, GotUpTo
<1>9. ReaderAt(region, modeling, end, start, next, cur, sto)
  BY <1>2, <1>5, <1>6 DEF ReaderAt
<1> QED BY <1>1, <1>2, <1>4, <1>5, <1>6, <1>7, <1>8, <1>9 DEF SweepAt

(* The sweeps of the domains are different phases. *)
LEMMA SweepingType ==
  /\ \A d, o \in Domains : Sweeping(d) = Sweeping(o) => d = o
  /\ \A d \in Domains : Sweeping(d) \in {"sweep block", "sweep biome"}
  BY DEF Domains, Sweeping

(* A snapshot that the model has *)
LEMMA ModeledKeepsSweep ==
  ASSUME NEW d \in Domains, NEW end, NEW start, SweepAt(d, end, start), SweepModeled
  PROVE  SweepAt(d, end, start)'
<1>1. phase = Sweeping("block") /\ todo # {} /\ NextIsModeled("block") /\ cursors' = cursors
  BY DEF SweepModeled, AtSnapshot
<1>2. d = "block" /\ "block" \in Domains
  <2>1. phase = Sweeping(d)
    BY DEF SweepAt
  <2> QED BY <1>1, <2>1, SweepingType DEF Domains
<1>3. PICK p : p = First(todo)
  OBVIOUS
<1>4. /\ region \in Regions /\ modeling \in BOOLEAN /\ p \in Tour(region, d) /\ GotUpTo(15)
  BY <1>1, <1>3, SweepGoesOn DEF SweepAt, AllGot
<1>5. /\ InModel(modeling, d, p) /\ NextTimestamp(d) = Snap(region, d, p).timestamp
  BY <1>1, <1>2, <1>3, NextIsTold
<1>6. modeling /\ p.level = 0
  BY <1>5 DEF InModel
<1>7. p \notin Singles(region, modeling)[d] /\ p \notin Packs(region, modeling)[d]
  BY <1>4, <1>5, ClassesMeet
<1>8. PICK grid : grid = Got("model", "block")[1].grid[p.scan]
  OBVIOUS
<1>9. grid = Unpacked(d, Snap(region, d, p))
  <2>1. 15 \in 0..15
    OBVIOUS
  <2>2. Got("model", "block") = ModelOf(region, modeling)
    BY <1>4, <2>1, GotAre
  <2>3. Got("model", "block")[1].grid = Grids(region)
    BY <1>6, <2>2 DEF ModelOf
  <2>4. p.scan \in Scans /\ Hist(region, d, p.scan) # <<>>
    BY <1>4, TourType
  <2>5. Snap(region, d, p) = Hist(region, d, p.scan)[1]
    BY <1>6 DEF Snap
  <2> QED BY <1>2, <1>8, <2>3, <2>4, <2>5 DEF Grids
<1>10. PICK x, t : x = Repacked(grid, t) /\ t = Snap(region, d, p).timestamp
  OBVIOUS
<1>11. Restored(d, x, Snap(region, d, p))
  <2>1. Snap(region, d, p) \in Snapshots(d)
    BY <1>4, TourType
  <2>2. grid \in [CellsOf(d) -> Nat]
    BY <1>9, <2>1, UnpackedType
  <2>3. Unpacked(d, x) = grid /\ x.timestamp = t
    BY <1>10, <2>2, GridRestored
  <2> QED BY <1>9, <1>10, <2>3 DEF Restored
<1>12. Store(d, x, 0)
  BY <1>2, <1>3, <1>5, <1>8, <1>10 DEF SweepModeled
<1>13. CursorsGoOn(region, modeling, d, p, cursors, cursors')
  BY <1>1, <1>7 DEF CursorsGoOn
<1>14. 0 = IF p \in Singles(region, modeling)[d] THEN 1 ELSE 0
  BY <1>7
<1> QED BY <1>1, <1>3, <1>11, <1>12, <1>13, <1>14, StoreKeepsSweep

(* A uniform snapshot *)
LEMMA SingleKeepsSweep ==
  ASSUME NEW d \in Domains, NEW end, NEW start, SweepAt(d, end, start), SweepSingle
  PROVE  SweepAt(d, end, start)'
<1>1. PICK domain \in Domains :
        /\ phase = Sweeping(domain) /\ todo # {} /\ ~NextIsModeled(domain)
        /\ NextKind(domain) = "single"
        /\ Store(domain, [kind |-> "single", timestamp |-> NextTimestamp(domain),
                          atom |-> Got("single", domain)[used.single + 1]], 1)
        /\ cursors' = cursors
  BY DEF SweepSingle, AtSnapshot
<1>2. domain = d
  BY <1>1, SweepingType DEF SweepAt
<1>3. PICK p, y : p = First(todo) /\ y = Snap(region, d, p)
  OBVIOUS
<1>4. /\ region \in Regions /\ modeling \in BOOLEAN /\ p \in Tour(region, d)
  BY <1>1, <1>3, SweepGoesOn
<1>5. ~InModel(modeling, d, p) /\ NextTimestamp(d) = y.timestamp /\ y.kind = "single"
  BY <1>1, <1>2, <1>3, NextIsTold
<1>6. p \in Singles(region, modeling)[d] /\ p \notin Packs(region, modeling)[d]
  BY <1>3, <1>4, <1>5, ClassesMeet
<1>7. Got("single", d)[used.single + 1] = y.atom
  BY <1>1, <1>3, <1>6, NextIsTold
<1>8. PICK x, t, a : x = [kind |-> "single", timestamp |-> t, atom |-> a] /\ t = y.timestamp /\ a = y.atom
  OBVIOUS
<1>9. Restored(d, x, y)
  <2>1. x.kind = "single" /\ x.timestamp = t /\ x.atom = a
    BY ONLY <1>8
  <2> QED BY <1>5, <1>8, <2>1 DEF Restored, Unpacked
<1>10. Store(d, x, 1)
  BY <1>1, <1>2, <1>5, <1>7, <1>8
<1>11. CursorsGoOn(region, modeling, d, p, cursors, cursors')
  BY <1>1, <1>6 DEF CursorsGoOn
<1>12. 1 = IF p \in Singles(region, modeling)[d] THEN 1 ELSE 0
  BY <1>6
<1> QED BY <1>1, <1>3, <1>9, <1>10, <1>11, <1>12, StoreKeepsSweep

(* A snapshot with a palette *)
LEMMA PalettedKeepsSweep ==
  ASSUME NEW d \in Domains, NEW end, NEW start, SweepAt(d, end, start), SweepPaletted
  PROVE  SweepAt(d, end, start)'
<1>1. PICK domain \in Domains :
        /\ phase = Sweeping(domain) /\ todo # {} /\ ~NextIsModeled(domain)
        /\ NextKind(domain) = "paletted"
        /\ Store(domain, [kind |-> "paletted", timestamp |-> NextTimestamp(domain),
                          palette |-> Resolved(domain, NextLocal),
                          values |-> file[cursors.bucket[NextBucket(domain)] + 1].value], 0)
        /\ cursors' = [cursors EXCEPT !.local = @ + 1, !.bucket[NextBucket(domain)] = @ + 1]
  BY DEF SweepPaletted, AtSnapshot
<1>2. domain = d
  BY <1>1, SweepingType DEF SweepAt
<1>3. PICK p, y : p = First(todo) /\ y = Snap(region, d, p)
  OBVIOUS
<1>4. /\ region \in Regions /\ modeling \in BOOLEAN /\ p \in Tour(region, d) /\ GotUpTo(15)
  BY <1>1, <1>3, SweepGoesOn DEF SweepAt, AllGot
<1>5. ~InModel(modeling, d, p) /\ NextTimestamp(d) = y.timestamp /\ y.kind = "paletted"
  BY <1>1, <1>2, <1>3, NextIsTold
<1>6. /\ p \notin Singles(region, modeling)[d] /\ p \in Packs(region, modeling)[d]
      /\ y \in PalettedSnapshots(d)
  BY <1>3, <1>4, <1>5, ClassesMeet
<1>7. /\ NextLocal = LocalAt(region, modeling, d, p)
      /\ NextBucket(d) = BucketAt(region, modeling, d, p)
      /\ file[cursors.bucket[NextBucket(d)] + 1].value = PackedCells(y)
  BY <1>1, <1>3, <1>6, PalettedIsFound
<1>8. PICK pal, local : pal = PaletteOf(region, modeling, d) /\ local = NextLocal
  OBVIOUS
<1>9. Resolved(d, local) = [i \in DOMAIN local |-> pal[local[i] + 1]]
  <2>1. 15 \in 0..15
    OBVIOUS
  <2>2. Got("palette", d) = <<pal>>
    BY <1>4, <1>8, <2>1, GotAre
  <2>3. Got("palette", d)[1] = pal
    BY <2>2
  <2> QED BY <2>3 DEF Resolved
<1>10. HasAtoms(pal, y) /\ local = LocalOf(pal, y)
  BY <1>3, <1>4, <1>6, <1>7, <1>8, PaletteHasAtoms DEF LocalAt
<1>11. PICK x, t, q, v :
         /\ x = [kind |-> "paletted", timestamp |-> t, palette |-> q, values |-> v]
         /\ t = y.timestamp /\ q = Resolved(d, local) /\ v = PackedCells(y)
  OBVIOUS
<1>12. Restored(d, x, y)
  <2>1. x.kind = "paletted" /\ x.timestamp = t /\ x.palette = q /\ x.values = v
    BY ONLY <1>11
  <2>2. Unpacked(d, x) = Unpacked(d, y)
    BY <1>6, <1>9, <1>10, <1>11, <2>1, SnapshotRestored
  <2> QED BY <1>11, <2>1, <2>2 DEF Restored
<1>13. Store(d, x, 0)
  BY <1>1, <1>2, <1>5, <1>7, <1>8, <1>11
<1>14. CursorsGoOn(region, modeling, d, p, cursors, cursors')
  BY <1>1, <1>2, <1>6, <1>7 DEF CursorsGoOn
<1>15. 0 = IF p \in Singles(region, modeling)[d] THEN 1 ELSE 0
  BY <1>6
<1> QED BY <1>1, <1>3, <1>12, <1>13, <1>14, <1>15, StoreKeepsSweep

(* After the sweep of the blocks that of the biomes begins. *)
LEMMA BiomesFollowBlocks ==
  ASSUME NEW end, NEW start, SweepAt("block", end, start), FinishSweep
  PROVE  SweepAt("biome", end, start)'
<1>1. "block" \in Domains /\ "biome" \in Domains
  BY DEF Domains
<1>2. /\ todo = {} /\ phase' = Sweeping("biome") /\ todo' = Visited(GotCounts("biome"))
      /\ used' = NothingUsed
      /\ region' = region /\ modeling' = modeling /\ file' = file /\ pos' = pos /\ got' = got
      /\ cursors' = cursors /\ storage' = storage
  <2>1. PICK domain \in Domains :
          /\ phase = Sweeping(domain) /\ todo = {}
          /\ IF domain = "block"
             THEN /\ phase' = Sweeping("biome")
                  /\ todo' = Visited(GotCounts("biome"))
                  /\ used' = NothingUsed
             ELSE phase' = "tail" /\ UNCHANGED <<todo, used>>
          /\ UNCHANGED <<region, modeling, palette, streams, file, pos, got, cursors, storage>>
    BY DEF FinishSweep
  <2>2. phase = Sweeping("block")
    BY DEF SweepAt
  <2>3. domain = "block"
    BY <1>1, <2>1, <2>2, SweepingType
  <2> QED BY <2>1, <2>3
<1>3. AllGot(end, start) /\ region \in Regions /\ modeling \in BOOLEAN /\ GotUpTo(15)
  BY DEF SweepAt, AllGot
<1>4. todo' = Tour(region, "biome")
  BY <1>1, <1>2, <1>3, KnownToReader
<1>5. ToWrite(region, "biome", todo') = ToWrite(region, "block", todo)
  <2>1. PICK places : places = {}
    OBVIOUS
  <2>2. /\ ToWrite(region, "mark biome", places) = ToWrite(region, "block", {})
        /\ ToWrite(region, "biome", Tour(region, "biome")) = ToWrite(region, "mark biome", places)
    BY <1>3, LeftInPhases
  <2> QED BY <1>2, <1>4, <2>2
<1>6. UsedAt(region, modeling, "biome", todo', used')
  BY <1>1, <1>2, <1>3, <1>4, NothingIsUsed
<1>7. AllGot(end, start)'
  BY <1>2, <1>3 DEF AllGot, GotUpTo
<1>8. ReaderAt(region, modeling, end, start, ToWrite(region, "biome", todo'), cursors, storage)
  BY <1>5 DEF SweepAt
<1>9. IsText(got) /\ Len(got) = 15 /\ cursors.tail = start[10]
  BY DEF SweepAt
<1> QED BY <1>2, <1>6, <1>7, <1>8, <1>9 DEF SweepAt

(* When nothing is left to sweep *)
NothingLeft == [d \in Domains |-> {}]

TailAt(end, start) ==
  /\ phase = "tail" /\ AllGot(end, start) /\ IsText(got) /\ Len(got) = 15
  /\ ReaderAt(region, modeling, end, start, NothingLeft, cursors, storage)
  /\ cursors.tail = start[10]

DoneAt(end, start) ==
  /\ phase = "done" /\ AllGot(end, start) /\ IsText(got) /\ Len(got) = 16
  /\ got[16] = OfSegments(region, "tile_entities")
  /\ ReaderAt(region, modeling, end, start, NothingLeft, cursors, storage)
  /\ cursors.tail = start[10] + Cardinality(PresentIn(region))

(* After the last sweep, all that is left are the tile entities. *)
LEMMA TailFollowsBiomes ==
  ASSUME NEW end, NEW start, SweepAt("biome", end, start), FinishSweep
  PROVE  TailAt(end, start)'
<1>1. "block" \in Domains /\ "biome" \in Domains
  BY DEF Domains
<1>2. /\ todo = {} /\ phase' = "tail"
      /\ region' = region /\ modeling' = modeling /\ file' = file /\ pos' = pos /\ got' = got
      /\ cursors' = cursors /\ storage' = storage
  <2>1. PICK domain \in Domains :
          /\ phase = Sweeping(domain) /\ todo = {}
          /\ IF domain = "block"
             THEN /\ phase' = Sweeping("biome")
                  /\ todo' = Visited(GotCounts("biome"))
                  /\ used' = NothingUsed
             ELSE phase' = "tail" /\ UNCHANGED <<todo, used>>
          /\ UNCHANGED <<region, modeling, palette, streams, file, pos, got, cursors, storage>>
    BY DEF FinishSweep
  <2>2. phase = Sweeping("biome")
    BY DEF SweepAt
  <2>3. domain = "biome"
    BY <1>1, <2>1, <2>2, SweepingType
  <2> QED BY <2>1, <2>3
<1>3. AllGot(end, start) /\ region \in Regions
  BY DEF SweepAt, AllGot
<1>4. ToWrite(region, "biome", todo) = NothingLeft
  BY <1>2 DEF ToWrite, NothingLeft, Domains
<1>5. AllGot(end, start)'
  BY <1>2, <1>3 DEF AllGot, GotUpTo
<1>6. /\ ReaderAt(region, modeling, end, start, NothingLeft, cursors, storage)
      /\ IsText(got) /\ Len(got) = 15 /\ cursors.tail = start[10]
  BY <1>4 DEF SweepAt
<1> QED BY <1>2, <1>5, <1>6 DEF TailAt

(* The tile entities follow. *)
LEMMA TailIsFound ==
  ASSUME NEW end, NEW start, AllGot(end, start), cursors.tail = start[10]
  PROVE  /\ TailFollows
         /\ Len(PresentSlots) = Cardinality(PresentIn(region))
         /\ ValuesAt(cursors.tail, Len(PresentSlots)) = OfSegments(region, "tile_entities")
<1>1. /\ region \in Regions /\ GotUpTo(15) /\ IsText(file) /\ start \in [0..10 -> Nat]
      /\ StandsIn(Fields("entities", OfSegments(region, "tile_entities")), file, start[10])
  BY DEF AllGot, Layout
<1>2. 15 \in 0..15 /\ 15 >= 1
  OBVIOUS
<1>3. Got("presence", "region") = Presence(region)
  BY <1>1, <1>2, GotAre
<1>4. Len(PresentSlots) = Cardinality(PresentIn(region))
  BY <1>1, <1>3, PresentAreGot
<1>5. PICK values, fields, base :
        /\ values = OfSegments(region, "tile_entities") /\ fields = Fields("entities", values)
        /\ base = start[10] /\ base \in Nat /\ base = cursors.tail
        /\ StandsIn(fields, file, base)
  BY <1>1
<1>6. IsText(values) /\ Len(values) = Len(PresentSlots)
  BY <1>1, <1>4, <1>5, ToldOfRegion
<1>7. Follow("entities", base, Len(values)) /\ ValuesAt(base, Len(values)) = values
  BY <1>1, <1>5, <1>6, FieldsFollow
<1> QED BY <1>4, <1>5, <1>6, <1>7 DEF TailFollows

(* The tile entities are the last fields of the file. *)
LEMMA TailIsRead ==
  ASSUME NEW end, NEW start, TailAt(end, start), ReadTail
  PROVE  DoneAt(end, start)'
<1>1. /\ AllGot(end, start) /\ IsText(got) /\ Len(got) = 15 /\ cursors.tail = start[10]
      /\ ReaderAt(region, modeling, end, start, NothingLeft, cursors, storage)
  BY DEF TailAt
<1>2. PICK n, values : n = Cardinality(PresentIn(region)) /\ values = OfSegments(region, "tile_entities")
  OBVIOUS
<1>3. Len(PresentSlots) = n /\ ValuesAt(cursors.tail, Len(PresentSlots)) = values
  BY <1>1, <1>2, TailIsFound
<1>4. /\ cursors' = [cursors EXCEPT !.tail = @ + n] /\ got' = Append(got, values) /\ phase' = "done"
      /\ region' = region /\ modeling' = modeling /\ file' = file /\ pos' = pos /\ storage' = storage
  BY <1>3 DEF ReadTail
<1>5. PICK longer : longer = got' /\ HasOneMore(longer, got, values)
  <2>1. PICK longer : longer = got' /\ IsAppended(longer, got, values)
    BY <1>4 DEF IsAppended
  <2>2. HasOneMore(longer, got, values)
    BY <1>1, <2>1, AppendIsText
  <2> QED BY <2>1, <2>2
<1>6. /\ IsText(longer) /\ Len(longer) = 16 /\ longer[16] = values
      /\ \A i \in 1..15 : longer[i] = got[i]
  BY <1>1, <1>5 DEF HasOneMore
<1>7. AllGot(end, start)'
  <2>1. \A i \in 1..15 : longer[i] = Told(region, modeling)[i]
    BY <1>1, <1>6 DEF AllGot, GotUpTo
  <2>2. GotUpTo(15)'
    BY <1>4, <1>5, <2>1 DEF GotUpTo
  <2> QED BY <1>1, <1>4, <2>2 DEF AllGot
<1>8. PICK cur : cur = cursors' /\ CursorsAt(region, modeling, end, start, NothingLeft, cur)
                 /\ cur.tail = start[10] + n
  <2>1. PICK cur : cur = cursors' /\ cur = [cursors EXCEPT !.tail = @ + n]
    BY <1>4
  <2>2. CursorsAt(region, modeling, end, start, NothingLeft, cursors)
    BY <1>1 DEF ReaderAt
  <2>3. DOMAIN cursors = {"local", "bucket", "tail"}
    BY <2>2 DEF CursorsAt
  <2>4. /\ DOMAIN cur = {"local", "bucket", "tail"} /\ cur.local = cursors.local
        /\ cur.bucket = cursors.bucket /\ cur.tail = cursors.tail + n
    BY <2>1, <2>3
  <2>5. CursorsAt(region, modeling, end, start, NothingLeft, cur)
    BY <2>2, <2>4 DEF CursorsAt
  <2> QED BY <1>1, <2>1, <2>4, <2>5
<1>9. ReaderAt(region, modeling, end, start, NothingLeft, cur, storage)
  BY <1>1, <1>8 DEF ReaderAt
<1> QED BY <1>2, <1>4, <1>5, <1>6, <1>7, <1>8, <1>9 DEF DoneAt

-----------------------------------------------------------------------------
(* The invariant                                                           *)

NoStorage == [domain \in Domains |-> [slot \in Slots |-> <<>>]]

WriterAt == Writing /\ got = <<>> /\ pos = 0 /\ storage = NoStorage

OpeningAt(end, start) ==
  /\ region \in Regions /\ modeling \in BOOLEAN /\ Fits(region)
  /\ Layout(region, modeling, file, end, start) /\ Opening(end)
  /\ storage = NoStorage

ReadingAt(end, start) ==
  \/ OpeningAt(end, start)
  \/ \E d \in Domains : SweepAt(d, end, start)
  \/ TailAt(end, start)
  \/ DoneAt(end, start)

IInv ==
  \/ phase = "refused"
  \/ WriterAt
  \/ \E end, start : ReadingAt(end, start)

(* The phases of the actions *)
LEMMA PhasesOfActions ==
  /\ WriteMetadata \/ RefuseRegion => phase = "metadata"
  /\ StartDomain => phase \in {"mark block", "mark biome"}
  /\ EmitSnapshot \/ FinishDomain => phase \in {"block", "biome"}
  /\ WriteRest => phase = "rest"
  /\ ReadPart => phase = "parts"
  /\ Prescan => phase = "prescan"
  /\ SweepModeled \/ SweepSingle \/ SweepPaletted =>
       phase \in {"sweep block", "sweep biome"} /\ todo # {}
  /\ FinishSweep => phase \in {"sweep block", "sweep biome"} /\ todo = {}
  /\ ReadTail => phase = "tail"
<1>1. WriteMetadata \/ RefuseRegion => phase = "metadata"
  BY DEF WriteMetadata, RefuseRegion
<1>2. StartDomain => phase \in {"mark block", "mark biome"}
  BY DEF StartDomain, Marking
<1>3. EmitSnapshot \/ FinishDomain => phase \in {"block", "biome"}
  BY DEF EmitSnapshot, FinishDomain, Domains
<1>4. WriteRest => phase = "rest"
  BY DEF WriteRest
<1>5. ReadPart => phase = "parts"
  BY DEF ReadPart
<1>6. Prescan => phase = "prescan"
  BY DEF Prescan
<1>7. SweepModeled \/ SweepSingle \/ SweepPaletted =>
        phase \in {"sweep block", "sweep biome"} /\ todo # {}
  BY DEF SweepModeled, SweepSingle, SweepPaletted, AtSnapshot, Sweeping
<1>8. FinishSweep => phase \in {"sweep block", "sweep biome"} /\ todo = {}
  BY DEF FinishSweep, Sweeping
<1>9. ReadTail => phase = "tail"
  BY DEF ReadTail
<1> QED BY <1>1, <1>2, <1>3, <1>4, <1>5, <1>6, <1>7, <1>8, <1>9

(* The phases of the states *)
LEMMA PhasesOfStates ==
  /\ WriterAt => phase \in WritingPhases
  /\ \A end, start :
       /\ OpeningAt(end, start) => phase \in {"parts", "prescan"}
       /\ \A d \in Domains : SweepAt(d, end, start) => phase = Sweeping(d)
       /\ TailAt(end, start) => phase = "tail"
       /\ DoneAt(end, start) => phase = "done"
<1>1. WriterAt => phase \in WritingPhases
  BY DEF WriterAt, Writing
<1>2. ASSUME NEW end, NEW start
      PROVE  /\ OpeningAt(end, start) => phase \in {"parts", "prescan"}
             /\ \A d \in Domains : SweepAt(d, end, start) => phase = Sweeping(d)
             /\ TailAt(end, start) => phase = "tail"
             /\ DoneAt(end, start) => phase = "done"
  <2>1. OpeningAt(end, start) => phase \in {"parts", "prescan"}
    BY DEF OpeningAt, Opening
  <2>2. \A d \in Domains : SweepAt(d, end, start) => phase = Sweeping(d)
    BY DEF SweepAt
  <2>3. TailAt(end, start) => phase = "tail"
    BY DEF TailAt
  <2>4. DoneAt(end, start) => phase = "done"
    BY DEF DoneAt
  <2> QED BY <2>1, <2>2, <2>3, <2>4
<1> QED BY <1>1, <1>2

(* The writer begins with nothing written. *)
LEMMA InitEstablishes == Init => IInv
<1> SUFFICES ASSUME Init PROVE WriterAt
  BY DEF IInv
<1>1. /\ region \in Regions /\ modeling \in BOOLEAN /\ phase \in WritingPhases
      /\ got = <<>> /\ pos = 0 /\ storage = NoStorage
  BY DEF Init, WritingPhases, NoStorage
<1>2. WriterOK(region, modeling, phase, todo, palette, streams)
  BY WriterStarts
<1> QED BY <1>1, <1>2 DEF WriterAt, Writing

(* The reader begins where the writer ends. *)
LEMMA WriterGoesOn ==
  ASSUME WriterAt, Next
  PROVE  IInv'
<1>1. Writing /\ got = <<>> /\ pos = 0 /\ storage = NoStorage
  BY DEF WriterAt
<1>2. phase \in {"metadata", "mark block", "block", "mark biome", "biome", "rest"}
  BY PhasesOfStates DEF WritingPhases
<1>3. CASE WriteMetadata \/ StartDomain \/ EmitSnapshot \/ FinishDomain
  <2>1. Writing'
    BY <1>1, <1>3, MetadataKeepsWriting, StartKeepsWriting, EmitKeepsWriting, FinishKeepsWriting
  <2>2. got' = got /\ pos' = pos /\ storage' = storage
    BY <1>3 DEF WriteMetadata, StartDomain, EmitSnapshot, FinishDomain
  <2>3. WriterAt'
    BY <1>1, <2>1, <2>2 DEF WriterAt, NoStorage
  <2> QED BY <2>3 DEF IInv
<1>4. CASE RefuseRegion
  BY <1>4 DEF RefuseRegion, IInv
<1>5. CASE WriteRest
  <2>1. /\ region' = region /\ modeling' = modeling /\ got' = got /\ pos' = pos
        /\ storage' = storage /\ phase' = "parts"
    BY <1>5 DEF WriteRest
  <2>2. region \in Regions /\ modeling \in BOOLEAN
    BY <1>1 DEF Writing
  <2>3. Fits(region) /\ \E end, start : Layout(region, modeling, file', end, start)
    BY <1>1, <1>5, RestWritesFile
  <2>4. PICK end, start : Layout(region, modeling, file', end, start)
    BY <2>3
  <2>5. HasGot(0, end)'
    <3>1. IsText(<<>>) /\ Len(<<>>) = 0
      <4>1. <<>> \in Seq({})
        OBVIOUS
      <4> QED BY <4>1 DEF IsText
    <3>2. end[0] = 0
      BY <2>4 DEF Layout
    <3>3. GotUpTo(0)'
      BY DEF GotUpTo
    <3> QED BY <1>1, <2>1, <3>1, <3>2, <3>3 DEF HasGot
  <2>6. Opening(end)'
    BY <2>1, <2>5 DEF Opening
  <2>7. OpeningAt(end, start)'
    BY <1>1, <2>1, <2>2, <2>3, <2>4, <2>6 DEF OpeningAt, NoStorage
  <2> QED BY <2>7 DEF IInv, ReadingAt
<1>6. CASE ~(WriteMetadata \/ StartDomain \/ EmitSnapshot \/ FinishDomain \/ RefuseRegion \/ WriteRest)
  BY <1>2, <1>6, PhasesOfActions DEF Next
<1> QED BY <1>3, <1>4, <1>5, <1>6

(* All parts have been read before the local palettes are looked at. *)
LEMMA OpeningEnds ==
  ASSUME NEW end, NEW start, OpeningAt(end, start), phase = "prescan"
  PROVE  AllGot(end, start) /\ IsText(got) /\ Len(got) = 15
<1>1. /\ region \in Regions /\ modeling \in BOOLEAN /\ Fits(region)
      /\ Layout(region, modeling, file, end, start) /\ Opening(end)
  BY DEF OpeningAt
<1>2. HasGot(15, end)
  <2>1. PICK n \in 0..15 : HasGot(n, end) /\ phase = IF n = 15 THEN "prescan" ELSE "parts"
    BY <1>1 DEF Opening
  <2> QED BY <2>1
<1> QED BY <1>1, <1>2 DEF HasGot, AllGot

(* The parts lead to each other, and the look ahead to the first sweep. *)
LEMMA OpeningGoesOn ==
  ASSUME NEW end, NEW start, OpeningAt(end, start), Next
  PROVE  IInv'
<1>1. /\ region \in Regions /\ modeling \in BOOLEAN /\ Fits(region)
      /\ Layout(region, modeling, file, end, start) /\ Opening(end) /\ storage = NoStorage
  BY DEF OpeningAt
<1>2. phase \in {"parts", "prescan"}
  BY PhasesOfStates
<1>3. CASE ReadPart
  <2>1. Opening(end)'
    BY <1>1, <1>3, ReadKeepsOpening
  <2>2. region' = region /\ modeling' = modeling /\ file' = file /\ storage' = storage
    BY <1>3 DEF ReadPart
  <2>3. OpeningAt(end, start)'
    BY <1>1, <2>1, <2>2 DEF OpeningAt, NoStorage
  <2> QED BY <2>3 DEF IInv, ReadingAt
<1>4. CASE Prescan
  <2>1. phase = "prescan"
    BY <1>4, PhasesOfActions
  <2>2. AllGot(end, start) /\ IsText(got) /\ Len(got) = 15
    BY <2>1, OpeningEnds
  <2>3. SweepAt("block", end, start)'
    BY <1>4, <2>2, PrescanStartsSweep
  <2> QED BY <2>3 DEF IInv, ReadingAt, Domains
<1>5. CASE ~(ReadPart \/ Prescan)
  BY <1>2, <1>5, PhasesOfActions DEF Next
<1> QED BY <1>3, <1>4, <1>5

(* A sweep leads on through its domain, and then to what follows it. *)
LEMMA SweepKeepsOn ==
  ASSUME NEW d \in Domains, NEW end, NEW start, SweepAt(d, end, start), Next
  PROVE  IInv'
<1>1. phase \in {"sweep block", "sweep biome"}
  BY PhasesOfStates, SweepingType
<1>2. CASE SweepModeled \/ SweepSingle \/ SweepPaletted
  <2>1. SweepAt(d, end, start)'
    BY <1>2, ModeledKeepsSweep, SingleKeepsSweep, PalettedKeepsSweep
  <2> QED BY <2>1 DEF IInv, ReadingAt
<1>3. CASE FinishSweep
  <2>1. d = "block" => SweepAt("biome", end, start)'
    BY <1>3, BiomesFollowBlocks
  <2>2. d = "biome" => TailAt(end, start)'
    BY <1>3, TailFollowsBiomes
  <2> QED BY <2>1, <2>2 DEF IInv, ReadingAt, Domains
<1>4. CASE ~(SweepModeled \/ SweepSingle \/ SweepPaletted \/ FinishSweep)
  BY <1>1, <1>4, PhasesOfActions DEF Next
<1> QED BY <1>2, <1>3, <1>4

(* A step that changes nothing. *)
LEMMA StutterKeeps ==
  ASSUME IInv, UNCHANGED vars
  PROVE  IInv'
<1>1. /\ region' = region /\ modeling' = modeling /\ phase' = phase /\ todo' = todo
      /\ palette' = palette /\ streams' = streams /\ file' = file /\ pos' = pos /\ got' = got
      /\ cursors' = cursors /\ used' = used /\ storage' = storage
  BY DEF vars
<1>2. CASE phase = "refused"
  BY <1>1, <1>2 DEF IInv
<1>3. CASE WriterAt
  BY <1>1, <1>3 DEF IInv, WriterAt, Writing, NoStorage
<1>4. ASSUME NEW end, NEW start, ReadingAt(end, start)
      PROVE  IInv'
  <2>1. AllGot(end, start) => AllGot(end, start)'
    BY <1>1 DEF AllGot, GotUpTo
  <2>2. CASE OpeningAt(end, start)
    <3>1. \A n \in 0..15 : HasGot(n, end) => HasGot(n, end)'
      BY <1>1 DEF HasGot, GotUpTo
    <3>2. Opening(end)'
      BY <1>1, <2>2, <3>1 DEF OpeningAt, Opening
    <3>3. OpeningAt(end, start)'
      BY <1>1, <2>2, <3>2 DEF OpeningAt, NoStorage
    <3> QED BY <3>3 DEF IInv, ReadingAt
  <2>3. ASSUME NEW d \in Domains, SweepAt(d, end, start)
        PROVE  IInv'
    <3>1. SweepAt(d, end, start)'
      BY <1>1, <2>1, <2>3 DEF SweepAt
    <3> QED BY <3>1 DEF IInv, ReadingAt
  <2>4. CASE TailAt(end, start)
    <3>1. TailAt(end, start)'
      BY <1>1, <2>1, <2>4 DEF TailAt
    <3> QED BY <3>1 DEF IInv, ReadingAt
  <2>5. CASE DoneAt(end, start)
    <3>1. DoneAt(end, start)'
      BY <1>1, <2>1, <2>5 DEF DoneAt
    <3> QED BY <3>1 DEF IInv, ReadingAt
  <2> QED BY <1>4, <2>2, <2>3, <2>4, <2>5 DEF ReadingAt
<1> QED BY <1>2, <1>3, <1>4 DEF IInv

(* Where the state goes on from *)
LEMMA NextKeeps == IInv /\ [Next]_vars => IInv'
<1> SUFFICES ASSUME IInv, [Next]_vars PROVE IInv'
  OBVIOUS
<1>1. CASE Next
  <2>1. CASE phase = "refused"
    BY <1>1, <2>1, PhasesOfActions DEF Next
  <2>2. CASE WriterAt
    BY <1>1, <2>2, WriterGoesOn
  <2>3. ASSUME NEW end, NEW start, ReadingAt(end, start)
        PROVE  IInv'
    <3>1. CASE OpeningAt(end, start)
      BY <1>1, <3>1, OpeningGoesOn
    <3>2. CASE \E d \in Domains : SweepAt(d, end, start)
      BY <1>1, <3>2, SweepKeepsOn
    <3>3. CASE TailAt(end, start)
      <4>1. phase = "tail"
        BY <3>3, PhasesOfStates
      <4>2. ReadTail
        BY <1>1, <4>1, PhasesOfActions DEF Next
      <4>3. DoneAt(end, start)'
        BY <3>3, <4>2, TailIsRead
      <4> QED BY <4>3 DEF IInv, ReadingAt
    <3>4. CASE DoneAt(end, start)
      <4>1. phase = "done"
        BY <3>4, PhasesOfStates
      <4> QED BY <1>1, <4>1, PhasesOfActions DEF Next
    <3> QED BY <2>3, <3>1, <3>2, <3>3, <3>4 DEF ReadingAt
  <2> QED BY <2>1, <2>2, <2>3 DEF IInv
<1>2. CASE UNCHANGED vars
  BY <1>2, StutterKeeps
<1> QED BY <1>1, <1>2

(* The invariant holds at all times. *)
LEMMA Invariance == Spec => []IInv
<1>1. Init => IInv
  BY InitEstablishes
<1>2. IInv /\ [Next]_vars => IInv'
  BY NextKeeps
<1> QED BY <1>1, <1>2, PTL DEF Spec

-----------------------------------------------------------------------------
(* What the invariant says of the properties                               *)

(* Outside of a sweep the reader is at no snapshot. *)
LEMMA OnlySweepsMeet ==
  ASSUME NEW d \in Domains, AtSnapshot(d)
  PROVE  phase \in {"sweep block", "sweep biome"} /\ phase = Sweeping(d) /\ todo # {}
BY SweepingType DEF AtSnapshot

(* A sweep has, for its next snapshot, what that needs. *)
LEMMA SweepMeetsNext ==
  ASSUME NEW d \in Domains, NEW end, NEW start, SweepAt(d, end, start), todo # {},
         ~NextIsModeled(d)
  PROVE  IF NextKind(d) = "single" THEN SingleFollows(d) ELSE PalettedFollows(d)
<1>1. PICK p : p = First(todo)
  OBVIOUS
<1>2. /\ region \in Regions /\ modeling \in BOOLEAN /\ p \in Tour(region, d)
  BY <1>1, SweepGoesOn
<1>3. /\ ~InModel(modeling, d, p) /\ NextKind(d) = Snap(region, d, p).kind
      /\ p \in Singles(region, modeling)[d] => SingleFollows(d)
  BY <1>1, NextIsTold
<1>4. /\ Snap(region, d, p).kind \in {"single", "paletted"}
      /\ p \in Singles(region, modeling)[d] <=> Snap(region, d, p).kind = "single" /\ ~InModel(modeling, d, p)
      /\ p \in Packs(region, modeling)[d] <=> Snap(region, d, p).kind = "paletted" /\ ~InModel(modeling, d, p)
  BY <1>2, ClassesMeet
<1>5. CASE NextKind(d) = "single"
  BY <1>3, <1>4, <1>5
<1>6. CASE NextKind(d) # "single"
  <2>1. p \in Packs(region, modeling)[d]
    BY <1>3, <1>4, <1>6
  <2> QED BY <1>1, <1>6, <2>1, PalettedIsFound
<1> QED BY <1>5, <1>6

(* In no phase is there a palette miss or a misread. *)
LEMMA InvariantReads == IInv => NeverFails
<1> SUFFICES ASSUME IInv PROVE NeverFails
  OBVIOUS
<1>1. CASE phase = "refused"
  BY <1>1, OnlySweepsMeet DEF NeverFails, PaletteMiss, Misreads, Domains
<1>2. CASE WriterAt
  <2>1. ~PaletteMiss
    BY <1>2, NoPaletteMiss DEF WriterAt
  <2>2. phase \in {"metadata", "mark block", "block", "mark biome", "biome", "rest"}
    BY <1>2, PhasesOfStates DEF WritingPhases
  <2>3. ~Misreads
    BY <2>2, OnlySweepsMeet DEF Misreads
  <2> QED BY <2>1, <2>3 DEF NeverFails
<1>3. ASSUME NEW end, NEW start, ReadingAt(end, start)
      PROVE  NeverFails
  <2>1. CASE OpeningAt(end, start)
    <3>1. phase \in {"parts", "prescan"}
      BY <2>1, PhasesOfStates
    <3>2. ~PaletteMiss
      BY <3>1 DEF PaletteMiss, Domains
    <3>3. phase = "parts" => PartFollows
      <4>1. SUFFICES ASSUME phase = "parts" PROVE PartFollows
        OBVIOUS
      <4>2. PICK n \in 0..15 : HasGot(n, end) /\ phase = IF n = 15 THEN "prescan" ELSE "parts"
        BY <2>1 DEF OpeningAt, Opening
      <4>3. n \in 0..14
        BY <4>1, <4>2
      <4> QED BY <2>1, <4>2, <4>3, NextPartFollows DEF OpeningAt
    <3>4. phase = "prescan" => Follow("local", pos, Locals)
      BY <2>1, OpeningEnds, LocalsFollow
    <3>5. ~Misreads
      BY <3>1, <3>3, <3>4, OnlySweepsMeet DEF Misreads
    <3> QED BY <3>2, <3>5 DEF NeverFails
  <2>2. ASSUME NEW d \in Domains, SweepAt(d, end, start)
        PROVE  NeverFails
    <3>1. phase = Sweeping(d) /\ phase \in {"sweep block", "sweep biome"}
      BY <2>2, PhasesOfStates, SweepingType
    <3>2. ~PaletteMiss
      BY <3>1 DEF PaletteMiss, Domains
    <3>3. ASSUME NEW o \in Domains, AtSnapshot(o), ~NextIsModeled(o)
          PROVE  IF NextKind(o) = "single" THEN SingleFollows(o) ELSE PalettedFollows(o)
      <4>1. o = d /\ todo # {}
        BY <3>1, <3>3, OnlySweepsMeet, SweepingType
      <4> QED BY <2>2, <3>3, <4>1, SweepMeetsNext
    <3>4. ~Misreads
      BY <3>1, <3>3 DEF Misreads
    <3> QED BY <3>2, <3>4 DEF NeverFails
  <2>3. CASE TailAt(end, start)
    <3>1. phase = "tail"
      BY <2>3, PhasesOfStates
    <3>2. TailFollows
      BY <2>3, TailIsFound DEF TailAt
    <3>3. ~PaletteMiss
      BY <3>1 DEF PaletteMiss, Domains
    <3> QED BY <3>1, <3>2, <3>3, OnlySweepsMeet DEF NeverFails, Misreads
  <2>4. CASE DoneAt(end, start)
    <3>1. phase = "done"
      BY <2>4, PhasesOfStates
    <3> QED BY <3>1, OnlySweepsMeet DEF NeverFails, PaletteMiss, Misreads, Domains
  <2> QED BY <1>3, <2>1, <2>2, <2>3, <2>4 DEF ReadingAt
<1> QED BY <1>1, <1>2, <1>3 DEF IInv

(***************************************************************************)
(* No writer misses an atom in the global palette, and no reader of a file *)
(* written comes to another field than the one it expects or beyond an end *)
(* of a stream: for all regions, in all shapes of the file.                *)
(***************************************************************************)
THEOREM ReaderMeetsWhatWasWritten == Spec => []NeverFails
<1>1. IInv => NeverFails
  BY InvariantReads
<1> QED BY <1>1, Invariance, PTL

-----------------------------------------------------------------------------
(* What was read ahead of a sweep is used up by it. *)
LEMMA SweepUsesAll ==
  ASSUME NEW d \in Domains, NEW end, NEW start, SweepAt(d, end, start), todo = {}
  PROVE  /\ used.timestamp = Len(Got("timestamp", d))
         /\ used.single = Len(Got("single", d))
         /\ used.tag = Len(Got("tag", d))
<1>1. /\ region \in Regions /\ modeling \in BOOLEAN /\ GotUpTo(15)
      /\ UsedAt(region, modeling, d, todo, used)
  BY DEF SweepAt, AllGot
<1>2. /\ used.timestamp = Cardinality(Tour(region, d))
      /\ used.single = Cardinality(Singles(region, modeling)[d])
      /\ used.tag = Cardinality(Deltas(region)[d])
  <2>1. \A K : K \ todo = K
    OBVIOUS
  <2> QED BY <1>1, <2>1 DEF UsedAt
<1>3. /\ Got("timestamp", d) = InOrder(Tours(region), Stamps(region), d)
      /\ Got("single", d) = InOrder(Singles(region, modeling), Atoms(region, modeling), d)
      /\ Got("tag", d) = TagsOf(region, d)
  BY <1>1, GotAre
<1>4. AreOfTours(Tours(region), region) /\ AreOfTours(Singles(region, modeling), region)
  BY <1>1, ClassTypes
<1>5. Tours(region)[d] = Tour(region, d)
  BY DEF Tours
<1>6. Len(Got("timestamp", d)) = Cardinality(Tour(region, d))
  BY <1>1, <1>3, <1>4, <1>5, OrderType
<1>7. Len(Got("single", d)) = Cardinality(Singles(region, modeling)[d])
  BY <1>1, <1>3, <1>4, OrderType
<1>8. Len(Got("tag", d)) = Cardinality(Deltas(region)[d])
  BY <1>1, <1>3, ToldOfRegion
<1> QED BY <1>2, <1>6, <1>7, <1>8

(* Each cursor ends where the next stream begins. *)
LEMMA CursorsMeetEnds ==
  ASSUME NEW end, NEW start, DoneAt(end, start)
  PROVE  /\ cursors.local = BucketStart(0)
         /\ \A bucket \in FileBuckets : cursors.bucket[bucket] = BucketEnd(bucket)
         /\ cursors.tail = Len(file)
<1>1. /\ region \in Regions /\ modeling \in BOOLEAN /\ AllGot(end, start)
      /\ Layout(region, modeling, file, end, start)
      /\ CursorsAt(region, modeling, end, start, NothingLeft, cursors)
      /\ cursors.tail = start[10] + Cardinality(PresentIn(region))
  BY DEF DoneAt, AllGot, ReaderAt
<1>2. \A b \in 0..10 : BucketStart(b) = start[b]
  BY <1>1, BucketsAreFound
<1>3. \A d \in Domains : NothingLeft[d] = {}
  BY DEF NothingLeft
<1>4. /\ AreOfTours(Packs(region, modeling), region)
      /\ \A b : AreOfTours(InBucket(region, modeling, b), region)
  BY <1>1, ClassTypes
<1>5. cursors.local = BucketStart(0)
  <2>1. Done(Packs(region, modeling), NothingLeft) = Size(Packs(region, modeling))
    BY <1>1, <1>3, <1>4, DoneAtEnds
  <2>2. cursors.local = end[15] + Done(Packs(region, modeling), NothingLeft)
    BY <1>1 DEF CursorsAt
  <2>3. start[0] = end[15] + Size(Packs(region, modeling))
    BY <1>1 DEF Layout
  <2>4. BucketStart(0) = start[0]
    BY <1>2
  <2> QED BY <2>1, <2>2, <2>3, <2>4
<1>6. ASSUME NEW b \in FileBuckets
      PROVE  cursors.bucket[b] = BucketEnd(b)
  <2>1. b \in Buckets /\ b + 1 \in 0..10
    BY DEF FileBuckets, Buckets
  <2>2. Done(InBucket(region, modeling, b), NothingLeft) = Size(InBucket(region, modeling, b))
    BY <1>1, <1>3, <1>4, DoneAtEnds
  <2>3. cursors.bucket[b] = start[b] + Done(InBucket(region, modeling, b), NothingLeft)
    BY <1>1, <2>1 DEF CursorsAt
  <2>4. start[b + 1] = start[b] + Size(InBucket(region, modeling, b))
    BY <1>1, <2>1 DEF Layout
  <2>5. BucketStart(b + 1) = start[b + 1]
    BY <1>2, <2>1
  <2> QED BY <2>2, <2>3, <2>4, <2>5 DEF BucketEnd
<1>7. cursors.tail = Len(file)
  BY <1>1 DEF Layout
<1> QED BY <1>5, <1>6, <1>7

(* At the end of each sweep, and of the file. *)
LEMMA InvariantLeavesNothing == IInv => EveryFieldIsRead
<1> SUFFICES ASSUME IInv PROVE EveryFieldIsRead
  OBVIOUS
<1>1. CASE phase = "refused" \/ WriterAt
  <2>1. phase \in {"refused", "metadata", "mark block", "block", "mark biome", "biome", "rest"}
    BY <1>1, PhasesOfStates DEF WritingPhases
  <2>2. phase # "done" /\ \A d \in Domains : phase # Sweeping(d)
    BY <2>1, SweepingType
  <2> QED BY <2>2 DEF EveryFieldIsRead
<1>2. ASSUME NEW end, NEW start, ReadingAt(end, start)
      PROVE  EveryFieldIsRead
  <2>1. CASE OpeningAt(end, start) \/ TailAt(end, start)
    <3>1. phase \in {"parts", "prescan", "tail"}
      BY <2>1, PhasesOfStates
    <3>2. phase # "done" /\ \A d \in Domains : phase # Sweeping(d)
      BY <3>1, SweepingType
    <3> QED BY <3>2 DEF EveryFieldIsRead
  <2>2. ASSUME NEW d \in Domains, SweepAt(d, end, start)
        PROVE  EveryFieldIsRead
    <3>1. phase = Sweeping(d) /\ phase \in {"sweep block", "sweep biome"}
      BY <2>2, PhasesOfStates, SweepingType
    <3>2. ASSUME NEW o \in Domains, phase = Sweeping(o), todo = {}
          PROVE  /\ used.timestamp = Len(Got("timestamp", o))
                 /\ used.single = Len(Got("single", o))
                 /\ used.tag = Len(Got("tag", o))
      <4>1. o = d
        BY <3>1, <3>2, SweepingType
      <4> QED BY <2>2, <3>2, <4>1, SweepUsesAll
    <3> QED BY <3>1, <3>2 DEF EveryFieldIsRead
  <2>3. CASE DoneAt(end, start)
    <3>1. phase = "done"
      BY <2>3, PhasesOfStates
    <3>2. \A d \in Domains : phase # Sweeping(d)
      BY <3>1, SweepingType
    <3> QED BY <2>3, <3>2, CursorsMeetEnds DEF EveryFieldIsRead
  <2> QED BY <1>2, <2>1, <2>2, <2>3 DEF ReadingAt
<1> QED BY <1>1, <1>2 DEF IInv

(***************************************************************************)
(* Where the streams begin is found by adding up sizes and counts; that    *)
(* leaves nothing unread: every sweep uses up what was read ahead of it,   *)
(* every cursor stops where the next stream begins, the last at the end.   *)
(***************************************************************************)
THEOREM NothingIsLeftUnread == Spec => []EveryFieldIsRead
<1>1. IInv => EveryFieldIsRead
  BY InvariantLeavesNothing
<1> QED BY <1>1, Invariance, PTL

-----------------------------------------------------------------------------
(* A segment's vector, read back section by section *)
LEMMA SectionIsRestored ==
  ASSUME NEW end, NEW start, DoneAt(end, start), NEW d \in Domains, NEW s \in Scans
  PROVE  /\ IsText(ReadSection(d, s))
         /\ Len(ReadSection(d, s)) = Len(Hist(region, d, s))
         /\ \A k \in 1..Len(Hist(region, d, s)) :
              Restored(d, ReadSection(d, s)[k], Hist(region, d, s)[k])
<1>1. /\ region \in Regions /\ modeling \in BOOLEAN /\ Fits(region) /\ GotUpTo(15)
      /\ StorageAt(region, NothingLeft, storage)
  BY DEF DoneAt, AllGot, ReaderAt
<1>2. PICK vec : vec = storage[d] /\ StoredIn(region, d, vec, {})
  BY <1>1 DEF StorageAt, NothingLeft
<1>3. PICK slot, a, n, v :
        /\ slot = SlotOf(s) /\ a = StartOf(region, d, s) /\ n = Lengths(region, d)[s]
        /\ v = Volume(region, d, slot)
  OBVIOUS
<1>4. slot \in Slots /\ n \in Nat /\ n = Len(Hist(region, d, s)) /\ n <= MAX_COUNT /\ v \in Nat
  BY <1>1, <1>3, ScanType, HistoryType, PlacesInVector DEF Fits
<1>5. a \in Nat /\ a + n <= v
  <2>1. PICK scans : scans = ScansOf(slot)
    OBVIOUS
  <2>2. s \in scans /\ \A x \in ScansOf(SlotOf(s)) : x < s => x \in scans
    BY <1>3, <2>1 DEF ScansOf
  <2>3. /\ StartOf(region, d, s) \in Nat
        /\ StartOf(region, d, s) + Lengths(region, d)[s]
             <= Cardinality({p \in Tour(region, d) : p.scan \in scans})
    BY <1>1, <2>2, SectionsFit
  <2> QED BY <1>3, <2>1, <2>3 DEF Volume
<1>6. PICK w : w = vec[slot] /\ w = [i \in 1..v |-> w[i]]
  BY <1>2, <1>3, <1>4 DEF StoredIn
<1>7. PICK m, o, read :
        /\ m = a + 1 /\ o = a + n /\ read = SubSeq(w, m, o)
        /\ m \in Int /\ o \in Int
  <2>1. a + 1 \in Int /\ a + n \in Int
    BY ONLY <1>4, <1>5
  <2> QED BY <2>1
<1>8. ReadSection(d, s) = read
  BY <1>1, <1>2, <1>3, <1>6, <1>7, KnownToReader DEF ReadSection
<1>9. PICK S : S = {w[i] : i \in m..o}
  OBVIOUS
<1>10. /\ read \in Seq(S)
       /\ Len(read) = IF m <= o THEN o - m + 1 ELSE 0
       /\ \A i \in 1..(o - m + 1) : read[i] = w[m + i - 1]
  BY <1>7, <1>9, SubSeqProperties
<1>11. Len(read) = n /\ o - m + 1 = n
  BY ONLY <1>4, <1>5, <1>7, <1>10
<1>12. ASSUME NEW k \in 1..n
       PROVE  Restored(d, read[k], Hist(region, d, s)[k])
  <2>1. PICK l : l = k - 1 /\ l \in Nat /\ l < n /\ l < MAX_COUNT /\ l + 1 = k
    BY <1>4, Parameters
  <2>2. PICK p : p = [level |-> l, scan |-> s]
    OBVIOUS
  <2>3. p \in Tour(region, d) /\ p.level = l /\ p.scan = s
    BY <1>1, <1>3, <2>1, <2>2, TourType
  <2>4. Restored(d, vec[SlotOf(p.scan)][PlaceOf(region, d, p)], Snap(region, d, p))
    BY <1>2, <2>3 DEF StoredIn
  <2>5. Snap(region, d, p) = Hist(region, d, s)[k]
    BY <2>1, <2>3 DEF Snap
  <2>6. PlaceOf(region, d, p) = a + k
    <3>1. PlaceOf(region, d, p) = a + l + 1
      BY <1>3, <2>3 DEF PlaceOf
    <3> QED BY <1>5, <2>1, <3>1
  <2>7. read[k] = w[a + k]
    <3>1. read[k] = w[m + k - 1]
      BY <1>10, <1>11
    <3>2. m + k - 1 = a + k
      BY <1>5, <1>7
    <3> QED BY <3>1, <3>2
  <2> QED BY <1>3, <1>6, <2>3, <2>4, <2>5, <2>6, <2>7
<1> QED BY <1>4, <1>8, <1>10, <1>11, <1>12 DEF IsText

(* A section read has the contents of the section written. *)
LEMMA ContentsAreRestored ==
  ASSUME NEW end, NEW start, DoneAt(end, start), NEW d \in Domains, NEW s \in Scans
  PROVE  Contents(d, ReadSection(d, s)) = Contents(d, SnapshotsAt(d, s))
<1>1. region \in Regions
  BY DEF DoneAt, AllGot
<1>2. PICK read, hist : read = ReadSection(d, s) /\ hist = Hist(region, d, s)
  OBVIOUS
<1>3. hist = SnapshotsAt(d, s)
  BY <1>2, Mirrors
<1>4. IsText(read) /\ Len(read) = Len(hist)
  BY <1>2, SectionIsRestored
<1>5. \A k \in 1..Len(hist) : Restored(d, read[k], hist[k])
  BY <1>2, SectionIsRestored
<1>6. DOMAIN read = 1..Len(read) /\ DOMAIN hist = 1..Len(hist)
  BY <1>1, <1>2, <1>4, TextType, HistoryType, LenProperties
<1>7. \A k \in DOMAIN read :
        /\ read[k].timestamp = hist[k].timestamp
        /\ Unpacked(d, read[k]) = Unpacked(d, hist[k])
  BY <1>4, <1>5, <1>6 DEF Restored
<1>8. DOMAIN read = DOMAIN hist
  BY <1>4, <1>6
<1>9. Contents(d, read) = Contents(d, hist)
  BY <1>7, <1>8 DEF Contents
<1> QED BY <1>2, <1>3, <1>9

(* What was read in the end is the region. *)
LEMMA InvariantComesBack == IInv => RoundTrip
<1> SUFFICES ASSUME IInv, phase = "done" PROVE RoundTrip
  BY DEF RoundTrip
<1>1. ~WriterAt
  BY PhasesOfStates DEF WritingPhases
<1>2. PICK end, start : DoneAt(end, start)
  <2>1. PICK end, start : ReadingAt(end, start)
    BY <1>1 DEF IInv
  <2>2. ~OpeningAt(end, start) /\ ~TailAt(end, start)
    BY PhasesOfStates
  <2>3. \A d \in Domains : ~SweepAt(d, end, start)
    BY PhasesOfStates, SweepingType
  <2> QED BY <2>1, <2>2, <2>3 DEF ReadingAt
<1>3. /\ region \in Regions /\ modeling \in BOOLEAN /\ GotUpTo(15)
      /\ Len(got) = 16 /\ got[16] = OfSegments(region, "tile_entities")
  BY <1>2 DEF DoneAt, AllGot
<1>4. 15 \in 0..15 /\ 15 >= 1 /\ 15 >= 11
  OBVIOUS
<1>5. Got("presence", "region") = Presence(region) /\ Got("states", "region") = OfSegments(region, "states")
  BY <1>3, <1>4, GotAre
<1>6. /\ \A slot \in Slots : Present(slot) = region[slot].present
      /\ PresentSlots = Ascending(PresentIn(region))
  BY <1>3, <1>5, PresentAreGot
<1>7. DOMAIN PresentSlots = 1..Cardinality(PresentIn(region))
  BY <1>6 DEF Ascending
<1>8. ASSUME NEW k \in DOMAIN PresentSlots
      PROVE  /\ Got("states", "region")[k] = region[PresentSlots[k]].states
             /\ got[Len(got)][k] = region[PresentSlots[k]].tile_entities
  <2>1. PICK states, entities : /\ states = OfSegments(region, "states")
                                /\ entities = OfSegments(region, "tile_entities")
    OBVIOUS
  <2>2. k \in 1..Cardinality(PresentIn(region))
    BY <1>7
  <2>3. states[k] = region[PresentSlots[k]].states
    BY <1>6, <2>1, <2>2 DEF OfSegments
  <2>4. entities[k] = region[PresentSlots[k]].tile_entities
    BY <1>6, <2>1, <2>2 DEF OfSegments
  <2>5. Got("states", "region") = states /\ got[Len(got)] = entities
    BY <1>3, <1>5, <2>1
  <2> QED BY <2>3, <2>4, <2>5
<1>9. \A d \in Domains, s \in Scans : Contents(d, ReadSection(d, s)) = Contents(d, SnapshotsAt(d, s))
  BY <1>2, ContentsAreRestored
<1> QED BY <1>6, <1>8, <1>9 DEF RoundTrip

(***************************************************************************)
(* A region written and read again has the same segments, with their       *)
(* states and tile entities, and in every section the same snapshots, by   *)
(* times and contents: with the model and without, however the snapshots   *)
(* were packed, and however many there are.                                *)
(***************************************************************************)
THEOREM RegionComesBack == Spec => []RoundTrip
<1>1. IInv => RoundTrip
  BY InvariantComesBack
<1> QED BY <1>1, Invariance, PTL

-----------------------------------------------------------------------------
(* What a sweep stores goes to a place that holds a placeholder. *)
LEMMA StoreFillsPlaceholder ==
  ASSUME NEW d \in Domains, NEW end, NEW start, SweepAt(d, end, start), todo # {},
         NEW x, NEW singles, Store(d, x, singles), NEW o \in Domains, NEW slot \in Slots, NEW i
  PROVE  storage'[o][slot][i] = storage[o][slot][i] \/ storage[o][slot][i] = Placeholder
<1>1. PICK p : p = First(todo)
  OBVIOUS
<1>2. /\ region \in Regions /\ modeling \in BOOLEAN /\ Fits(region) /\ GotUpTo(15)
      /\ StorageAt(region, ToWrite(region, d, todo), storage)
  BY DEF SweepAt, AllGot, ReaderAt
<1>3. p \in Tour(region, d) /\ p \in todo
  <2>1. PICK left, next : /\ left = ToWrite(region, d, todo) /\ next = ToWrite(region, d, todo \ {p})
                          /\ AreLeft(left, region) /\ IsNext(left, next, d, p)
    BY <1>1, SweepGoesOn
  <2>2. region \in Regions /\ AreLeft(left, region) /\ IsNext(left, next, d, p)
    BY <1>2, <2>1
  <2>3. p \in left[d] /\ p \in Tour(region, d)
    BY ONLY <2>2, NextLeft
  <2>4. left[d] = todo
    BY <2>1 DEF ToWrite, Domains
  <2> QED BY <2>3, <2>4
<1>4. StoredIn(region, d, storage[d], ToWrite(region, d, todo)[d]) /\ DOMAIN storage = Domains
  BY <1>2 DEF StorageAt
<1>5. p \in ToWrite(region, d, todo)[d]
  BY <1>3 DEF ToWrite, Domains
<1>6. storage[d][SlotOf(p.scan)][PlaceOf(region, d, p)] = Placeholder
  BY <1>3, <1>4, <1>5 DEF StoredIn
<1>7. PICK at, place : at = SlotOf(p.scan) /\ place = PlaceOf(region, d, p)
  OBVIOUS
<1>8. storage' = [storage EXCEPT ![d][at][place] = x]
  <2>1. Place(d, p) = PlaceOf(region, d, p)
    BY <1>2, KnownToReader
  <2> QED BY <1>1, <1>7, <2>1 DEF Store
<1>9. CASE o = d /\ slot = at /\ i = place
  BY <1>6, <1>7, <1>9
<1>10. CASE ~(o = d /\ slot = at /\ i = place)
  <2>1. storage'[o][slot][i] = storage[o][slot][i]
    <3>1. DOMAIN storage[d] = Slots
      BY <1>4 DEF StoredIn
    <3>2. storage'[o] = IF o = d THEN [storage[d] EXCEPT ![at][place] = x] ELSE storage[o]
      BY <1>4, <1>8
    <3>3. CASE o = d
      <4>1. storage'[o][slot] = IF slot = at THEN [storage[d][at] EXCEPT ![place] = x] ELSE storage[d][slot]
        BY <3>1, <3>2, <3>3
      <4>2. CASE slot = at
        <5>1. i # place
          BY <1>10, <3>3, <4>2
        <5>2. PICK w : w = storage[d][at] /\ w = [k \in 1..Volume(region, d, at) |-> w[k]]
          BY <1>4, <4>2 DEF StoredIn
        <5>3. storage'[o][slot] = [w EXCEPT ![place] = x]
          BY <4>1, <4>2, <5>2
        <5>4. [w EXCEPT ![place] = x][i] = w[i]
          BY ONLY <5>1, <5>2
        <5> QED BY <3>3, <4>2, <5>2, <5>3, <5>4
      <4> QED BY <3>3, <4>1, <4>2
    <3> QED BY <3>2, <3>3
  <2> QED BY <2>1
<1> QED BY <1>9, <1>10

(* Only the look ahead makes places, and only sweeps fill them. *)
LEMMA StepsWriteOnce ==
  ASSUME IInv, [Next]_vars, NEW o \in Domains, NEW slot \in Slots, NEW i \in DOMAIN storage[o][slot]
  PROVE  storage'[o][slot][i] = storage[o][slot][i] \/ storage[o][slot][i] = Placeholder
<1>1. CASE storage' = storage
  BY <1>1
<1>2. CASE Prescan
  <2>1. phase = "prescan"
    BY <1>2, PhasesOfActions
  <2>2. PICK end, start : OpeningAt(end, start)
    <3>1. ~WriterAt
      BY <2>1, PhasesOfStates DEF WritingPhases
    <3>2. PICK end, start : ReadingAt(end, start)
      BY <2>1, <3>1 DEF IInv
    <3>3. ~TailAt(end, start) /\ ~DoneAt(end, start)
      BY <2>1, PhasesOfStates
    <3>4. \A d \in Domains : ~SweepAt(d, end, start)
      BY <2>1, PhasesOfStates, SweepingType
    <3> QED BY <3>2, <3>3, <3>4 DEF ReadingAt
  <2>3. storage[o][slot] = <<>>
    BY <2>2 DEF OpeningAt, NoStorage
  <2> QED BY <2>3
<1>3. CASE SweepModeled \/ SweepSingle \/ SweepPaletted
  <2>1. PICK d \in Domains : \E x, singles : AtSnapshot(d) /\ Store(d, x, singles)
    BY <1>3 DEF SweepModeled, SweepSingle, SweepPaletted, Domains
  <2>2. phase \in {"sweep block", "sweep biome"} /\ phase = Sweeping(d) /\ todo # {}
    BY <2>1, OnlySweepsMeet
  <2>3. PICK end, start : SweepAt(d, end, start)
    <3>1. ~WriterAt
      BY <2>2, PhasesOfStates DEF WritingPhases
    <3>2. PICK end, start : ReadingAt(end, start)
      BY <2>2, <3>1 DEF IInv
    <3>3. ~OpeningAt(end, start) /\ ~TailAt(end, start) /\ ~DoneAt(end, start)
      BY <2>2, PhasesOfStates
    <3>4. PICK e \in Domains : SweepAt(e, end, start)
      BY <3>2, <3>3 DEF ReadingAt
    <3>5. e = d
      BY <2>2, <3>4, PhasesOfStates, SweepingType
    <3> QED BY <3>4, <3>5
  <2>4. PICK x, singles : Store(d, x, singles)
    BY <2>1
  <2> QED BY <2>2, <2>3, <2>4, StoreFillsPlaceholder
<1>4. CASE ~(Prescan \/ SweepModeled \/ SweepSingle \/ SweepPaletted) /\ Next
  <2>1. storage' = storage
    BY <1>4 DEF Next, WriteMetadata, RefuseRegion, StartDomain, EmitSnapshot, FinishDomain,
                WriteRest, ReadPart, FinishSweep, ReadTail
  <2> QED BY <1>1, <2>1
<1>5. CASE UNCHANGED vars
  BY <1>1, <1>5 DEF vars
<1> QED BY <1>2, <1>3, <1>4, <1>5

(***************************************************************************)
(* Of the vectors that the sections of a segment share, no place that      *)
(* holds a snapshot is written again: where sections begin in them, and    *)
(* the order of the sweep, keep the snapshots apart.                       *)
(***************************************************************************)
THEOREM EachPlaceIsFilledOnce == Spec => WrittenOnce
<1>1. IInv /\ [Next]_vars =>
        [\A domain \in Domains, slot \in Slots :
           \A i \in DOMAIN storage[domain][slot] :
             \/ storage'[domain][slot][i] = storage[domain][slot][i]
             \/ storage[domain][slot][i] = Placeholder]_vars
  BY StepsWriteOnce
<1> QED BY <1>1, Invariance, PTL DEF Spec, WrittenOnce
=============================================================================
