---------------------------- MODULE CoderProofs ----------------------------
(***************************************************************************)
(* The grid coder and the range coder it writes its decisions with.        *)
(*                                                                         *)
(* The range coder, for bytes and words of any size, any probabilities and *)
(* any number of bits: its interval is never empty, and the decoder        *)
(* returns the bits that were encoded and reads exactly their bytes.       *)
(*                                                                         *)
(* The argument for the second: the encoder goes through a sequence of     *)
(* intervals, each of which a bit has narrowed or a byte has left.  The    *)
(* file ends with the word low of the last one; going backwards, the word  *)
(* that the file has for an interval is inside it if the next one's is.    *)
(* So the decoder, comparing the word with the midpoint of the interval,   *)
(* takes the side that the encoder took, and stays in the same sequence.   *)
(*                                                                         *)
(* The grid coder, for any number and contents of segments, any size of a  *)
(* section and any wording of the contexts: it reads neighbours only where *)
(* there are some, asks of survivors only while there are some, remembers  *)
(* nothing stale, and decodes what it encoded.                             *)
(*                                                                         *)
(* The argument for the last is of the same kind.  The encoder's walk is a *)
(* trail of its states, one for each decision.  The decoder walks the same *)
(* trail: the cells it has not decoded yet are not neighbours of the cell  *)
(* it is at, because every neighbour comes before in the order of the      *)
(* walk.  So it asks what the encoder asked at this place, with the same   *)
(* neighbours, run and misses, and is answered what the encoder wrote.     *)
(***************************************************************************)
EXTENDS GridWalk, RangeCoder, NaturalSets, FiniteSetTheorems, TLAPS

-----------------------------------------------------------------------------
(* The range coder                                                         *)

(* A word has values.                                                      *)
LEMMA WordType == WORD \in Nat \ {0} /\ WORD - 1 \in Nat
  BY WordsOK DEF WORD

LEMMA FractionIsSmaller ==
  ASSUME NEW n \in Nat \ {0}, NEW d \in Nat \ {0}, NEW c \in 1..(d - 1)
  PROVE  (n * c) \div d \in 0..(n - 1)
  BY SMTT(30)

(* clamp leaves a probability that is neither 0 nor 1.                     *)
LEMMA ClampedBounds ==
  ASSUME NEW prob \in Probs
  PROVE  Clamped(prob) \in 1..(RANGE - 1)
  BY ProbsOK DEF Clamped

(* Both parts of an interval of two words or more have a word.             *)
LEMMA MidpointIsInside ==
  ASSUME NEW prob \in Probs, low \in Nat, high \in Nat, low < high
  PROVE  Midpoint(prob) \in low..(high - 1)
<1>1. high - low \in Nat \ {0}
  OBVIOUS
<1>2. RANGE \in Nat \ {0} /\ Clamped(prob) \in 1..(RANGE - 1)
  BY ProbsOK, ClampedBounds
<1>3. ((high - low) * Clamped(prob)) \div RANGE \in 0..((high - low) - 1)
  BY <1>1, <1>2, FractionIsSmaller
<1>4. QED
  BY <1>3 DEF Midpoint

(* Words that begin with the same byte keep their order without it, and    *)
(* leave room for another byte at the end.                                 *)
LEMMA ShiftedWord ==
  ASSUME NEW word \in 0..(WORD - 1), NEW byte \in 0..(BYTE - 1)
  PROVE  Shifted(word, byte) = (word % TOP) * BYTE + byte
<1> DEFINE first == word \div TOP
           rest == word % TOP
<1>1. BYTE \in Nat \ {0} /\ TOP \in Nat \ {0} /\ WORD \in Nat \ {0} /\ WORD = TOP * BYTE
  BY WordsOK, WordType DEF WORD
<1>2. first \in Nat /\ rest \in 0..(TOP - 1) /\ word = TOP * first + rest
  <2>1. word \in Nat
    BY <1>1
  <2>2. QED
    BY <1>1, <2>1, Division, Zenon
<1>3. word * BYTE = WORD * first + rest * BYTE
  <2> HIDE DEF first, rest
  <2> QED
    BY <1>1, <1>2
<1>4. rest * BYTE \in 0..(WORD - 1)
  <2> HIDE DEF first, rest
  <2> QED
    BY <1>1, <1>2, SMTT(30)
<1>5. (word * BYTE) % WORD = rest * BYTE
  <2> HIDE DEF first, rest
  <2>1. word * BYTE \in Nat /\ WORD \in Nat \ {0} /\ first \in Nat
    BY <1>1, <1>2
  <2>2. ASSUME NEW n \in Nat, NEW r \in 0..(WORD - 1), n = WORD * first + r
        PROVE  n % WORD = r
    BY <2>1, <2>2, DivisionIsUnique
  <2> QED
    BY <1>3, <1>4, <2>1, <2>2, Zenon
<1>6. QED
  BY <1>5 DEF Shifted

(* The interval and its bounds; a bit narrows it, a byte shifts it.        *)
Interval == low \in 0..high /\ high \in 0..(WORD - 1)

LEMMA NarrowKeeps ==
  ASSUME Interval, ~SharesTopByte, NEW prob \in Probs, NEW bit \in {0, 1}, Narrow(prob, bit)
  PROVE  Interval'
<1>1. low \in Nat /\ high \in Nat /\ low < high
  BY WordType DEF Interval, SharesTopByte
<1>2. Midpoint(prob) \in low..(high - 1)
  BY <1>1, MidpointIsInside
<1>3. CASE bit = 1
  BY <1>1, <1>2, <1>3, WordType DEF Interval, Narrow
<1>4. CASE bit = 0
  BY <1>1, <1>2, <1>4, WordType DEF Interval, Narrow
<1>5. QED
  BY <1>3, <1>4

LEMMA RenormalizeKeeps ==
  ASSUME Interval, SharesTopByte, Renormalize
  PROVE  Interval'
<1>1. /\ BYTE \in Nat \ {0} /\ TOP \in Nat \ {0} /\ WORD \in Nat \ {0} /\ WORD = TOP * BYTE
      /\ 0 \in 0..(BYTE - 1) /\ BYTE - 1 \in 0..(BYTE - 1)
  BY WordsOK, WordType DEF WORD
<1>2. low \in 0..(WORD - 1) /\ high \in 0..(WORD - 1) /\ low <= high
  BY <1>1 DEF Interval
<1>3. low' = (low % TOP) * BYTE + 0 /\ high' = (high % TOP) * BYTE + (BYTE - 1)
  BY <1>1, <1>2, ShiftedWord DEF Renormalize
<1>4. /\ low % TOP \in 0..(TOP - 1) /\ low = TOP * (low \div TOP) + (low % TOP)
      /\ high % TOP \in 0..(TOP - 1) /\ high = TOP * (high \div TOP) + (high % TOP)
      /\ low \div TOP \in Nat /\ low \div TOP = high \div TOP
  <2>1. low \in Nat /\ high \in Nat
    BY <1>1, <1>2
  <2>2. QED
    BY <1>1, <2>1, Division, Zenon DEF SharesTopByte
<1>5. low % TOP <= high % TOP
  BY <1>1, <1>2, <1>4
<1>6. ASSUME NEW a \in 0..(TOP - 1), NEW b \in 0..(TOP - 1), a <= b
      PROVE  /\ a * BYTE + 0 \in 0..(b * BYTE + (BYTE - 1))
             /\ b * BYTE + (BYTE - 1) \in 0..(WORD - 1)
  BY <1>1, <1>6, SMTT(30)
<1>7. QED
  BY <1>3, <1>4, <1>5, <1>6 DEF Interval

(***************************************************************************)
(* What has been asked are probabilities and bits; the decoder asks with   *)
(* them again.                                                             *)
(***************************************************************************)
Asked == asked \in Seq([prob: Probs, bit: {0, 1}])

RangeInv == Interval /\ Asked /\ decided \in Seq({0, 1})

(* Both coders begin with the whole interval.                              *)
LEMMA RangeInitEstablishes == RangeInit => RangeInv
  BY WordType DEF RangeInit, RangeInv, Interval, Asked

(* Every step preserves the invariant.                                     *)
LEMMA RangeNextKeeps == RangeInv /\ [RangeNext]_range_vars => RangeInv'
<1> SUFFICES ASSUME RangeInv, [RangeNext]_range_vars PROVE RangeInv'
  OBVIOUS
<1> USE DEF RangeInv, Asked
<1>1. ASSUME NEW prob \in Probs, NEW truth \in {0, 1}, Encode(prob, truth) PROVE RangeInv'
  <2>1. Interval'
    BY <1>1, NarrowKeeps DEF Encode
  <2>2. QED
    BY <1>1, <2>1 DEF Encode
<1>2. CASE EmitByte
  BY <1>2, RenormalizeKeeps DEF EmitByte
<1>3. CASE Finish
  BY <1>3 DEF Finish, Interval
<1>4. CASE Open
  BY <1>4, WordType DEF Open, Interval
<1>5. CASE Decode
  <2>1. PICK prob \in Probs, bit \in {0, 1} :
          Narrow(prob, bit) /\ decided' = Append(decided, bit)
    <3>1. Len(decided) + 1 \in 1..Len(asked)
      BY <1>5 DEF Decode
    <3>2. asked[Len(decided) + 1].prob \in Probs
      <4> DEFINE Entry == [prob: Probs, bit: {0, 1}]
      <4>1. asked \in Seq(Entry)
        OBVIOUS
      <4>2. asked[Len(decided) + 1] \in Entry
        <5> HIDE DEF Entry
        <5> QED
          BY <3>1, <4>1
      <4>3. QED
        BY <4>2
    <3>3. Decided(asked[Len(decided) + 1].prob) \in {0, 1}
      BY DEF Decided
    <3>4. QED
      BY <1>5, <3>2, <3>3 DEF Decode
  <2>2. Interval'
    BY <1>5, <2>1, NarrowKeeps DEF Decode
  <2>3. QED
    BY <1>5, <2>1, <2>2 DEF Decode
<1>6. CASE NextByte
  BY <1>6, RenormalizeKeeps DEF NextByte
<1>7. CASE Close
  BY <1>7 DEF Close, Interval
<1>8. CASE UNCHANGED range_vars
  BY <1>8 DEF range_vars, Interval
<1>9. QED
  BY <1>1, <1>2, <1>3, <1>4, <1>5, <1>6, <1>7, <1>8 DEF RangeNext

LEMMA IntervalSuffices == RangeInv => IntervalIsNeverEmpty
<1> SUFFICES ASSUME RangeInv PROVE IntervalIsNeverEmpty
  OBVIOUS
<1>1. low \in 0..high /\ high \in 0..(WORD - 1) /\ low \in Nat /\ high \in Nat
  BY WordType DEF RangeInv, Interval
<1>2. ASSUME ~SharesTopByte, NEW prob \in Probs PROVE Midpoint(prob) \in low..(high - 1)
  <2>1. low < high
    BY <1>1, <1>2 DEF SharesTopByte
  <2>2. QED
    BY <1>1, <2>1, MidpointIsInside
<1>3. QED
  BY <1>1, <1>2 DEF IntervalIsNeverEmpty

(***************************************************************************)
(* The intervals of Encoder and Decoder never become empty and never leave *)
(* a word, whatever is coded: neither high - low nor mid + 1 overflows.    *)
(***************************************************************************)
THEOREM IntervalNeverEmpty == RangeSpec => []IntervalIsNeverEmpty
<1>1. RangeSpec => []RangeInv
  BY RangeInitEstablishes, RangeNextKeeps, PTL DEF RangeSpec
<1>2. QED
  BY <1>1, IntervalSuffices, PTL

-----------------------------------------------------------------------------
(* The words of a file                                                     *)

(* The values of the places: each is BYTE times the one before.            *)
IsPlaces(f) ==
  /\ f \in [0..BYTES -> Nat \ {0}]
  /\ f[0] = 1
  /\ \A i \in 1..BYTES : f[i] = f[i - 1] * BYTE

LEMMA PlaceType == IsPlaces(Place)
<1> DEFINE step == [i \in 1..BYTES |-> [v \in Nat \ {0} |-> v * BYTE]]
           Places(u) == u = [i \in 0..BYTES |-> IF i = 0 THEN 1 ELSE u[i - 1] * BYTE]
<1>1. BYTE \in Nat \ {0} /\ BYTES \in Nat
  BY WordsOK, BytesOK
<1>2. \A v \in Nat \ {0} : v * BYTE \in Nat \ {0}
  BY <1>1
<1>3. step \in StepsUpTo(BYTES, Nat \ {0}) /\ 1 \in Nat \ {0}
  BY <1>2 DEF StepsUpTo
<1>4. \A i \in 1..BYTES : \A v \in Nat \ {0} : step[i][v] = v * BYTE
  OBVIOUS
<1> HIDE DEF step
<1>5. PICK f : IsRecursion(f, BYTES, Nat \ {0}, 1, step)
  BY <1>1, <1>3, RecursionExists
<1>6. f \in [0..BYTES -> Nat \ {0}] /\ f[0] = 1 /\ \A i \in 1..BYTES : f[i] = step[i][f[i - 1]]
  BY <1>5 DEF IsRecursion
<1>7. \A i \in 1..BYTES : i \in 0..BYTES /\ i - 1 \in 0..BYTES /\ i # 0
  BY <1>1
<1>8. \A i \in 1..BYTES : f[i] = f[i - 1] * BYTE
  BY <1>4, <1>6, <1>7
<1>9. \A i \in 0..BYTES : f[i] = IF i = 0 THEN 1 ELSE f[i - 1] * BYTE
  <2>1. \A i \in 0..BYTES : i = 0 \/ (i # 0 /\ i \in 1..BYTES)
    BY <1>1
  <2> QED BY <1>6, <1>8, <2>1
<1>10. Places(f)
  BY <1>6, <1>9
<1>11. Place = CHOOSE u : Places(u)
  BY DEF Place
<1>12. Places(Place)
  BY <1>10, <1>11
<1> DEFINE Good == {i \in 0..BYTES : Place[i] = f[i]}
<1>13. 0 \in Good
  BY <1>1, <1>6, <1>12
<1>14. ASSUME NEW i \in 0..(BYTES - 1), i \in Good
       PROVE  i + 1 \in Good
  <2>1. i + 1 \in 1..BYTES /\ i + 1 \in 0..BYTES /\ i + 1 # 0 /\ (i + 1) - 1 = i
    BY <1>1
  <2>2. Place[i + 1] = Place[i] * BYTE
    BY <1>12, <2>1
  <2>3. f[i + 1] = f[i] * BYTE
    BY <1>8, <2>1
  <2> QED BY <1>14, <2>1, <2>2, <2>3
<1> HIDE DEF Good
<1>15. 0..BYTES \subseteq Good
  BY <1>1, <1>13, <1>14, AllUpTo
<1>16. \A i \in 0..BYTES : Place[i] = f[i]
  BY <1>15 DEF Good
<1>17. Place = f
  <2>1. Place = [i \in 0..BYTES |-> Place[i]]
    BY <1>12
  <2> QED BY <1>6, <1>16, <2>1
<1> QED BY <1>6, <1>8, <1>17 DEF IsPlaces

(* A word's places: TOP is that of its first byte.                         *)
LEMMA PlaceFacts ==
  /\ \A i \in 0..BYTES : Place[i] \in Nat \ {0}
  /\ Place[0] = 1
  /\ \A i \in 0..(BYTES - 1) : Place[i + 1] = Place[i] * BYTE
  /\ Place[BYTES - 1] = TOP
  /\ Place[BYTES] = WORD
<1>1. BYTES \in Nat \ {0}
  BY BytesOK
<1>2. \A i \in 0..(BYTES - 1) : i + 1 \in 1..BYTES /\ (i + 1) - 1 = i
  BY <1>1
<1>3. \A i \in 0..(BYTES - 1) : Place[i + 1] = Place[i] * BYTE
  BY <1>2, PlaceType DEF IsPlaces
<1>4. BYTES - 1 \in 0..(BYTES - 1) /\ (BYTES - 1) + 1 = BYTES
  BY <1>1
<1>5. Place[BYTES] = TOP * BYTE
  BY <1>3, <1>4, BytesOK
<1> QED BY <1>3, <1>5, PlaceType, BytesOK DEF IsPlaces, WORD

(* The word that begins after the first n bytes of a file.                 *)
WordAfter(text, n) ==
  LET word[i \in 0..BYTES] == IF i = 0 THEN 0 ELSE word[i - 1] * BYTE + text[n + i]
  IN  word[BYTES]

(* Its bytes, read one by one.                                             *)
IsWord(word, text, n) ==
  /\ word \in [0..BYTES -> Nat]
  /\ word[0] = 0
  /\ \A i \in 1..BYTES : word[i] = word[i - 1] * BYTE + text[n + i]

(* A file, and that it goes on for a word after its first n bytes.         *)
File == Seq(0..(BYTE - 1))

HasWord(text, n) == n \in Nat /\ n + BYTES <= Len(text)

LEMMA FileBytes ==
  ASSUME NEW text \in File, NEW n, HasWord(text, n), NEW i \in 1..BYTES
  PROVE  n + i \in 1..Len(text) /\ text[n + i] \in 0..(BYTE - 1) /\ text[n + i] \in Nat
<1>1. n + i \in 1..Len(text)
  BY BytesOK DEF File, HasWord
<1> DEFINE B == 0..(BYTE - 1)
<1>2. \A b \in B : b \in Nat
  BY WordsOK
<1>3. text \in Seq(B)
  BY DEF File
<1> HIDE DEF B
<1>4. text[n + i] \in B
  BY <1>1, <1>3
<1> QED BY <1>1, <1>2, <1>4 DEF B

LEMMA WordExists ==
  ASSUME NEW text \in File, NEW n, HasWord(text, n)
  PROVE  \E word : /\ IsWord(word, text, n)
                   /\ word = [i \in 0..BYTES |->
                                IF i = 0 THEN 0 ELSE word[i - 1] * BYTE + text[n + i]]
<1> DEFINE step == [i \in 1..BYTES |-> [v \in Nat |-> v * BYTE + text[n + i]]]
<1>1. BYTE \in Nat /\ BYTES \in Nat /\ 0 \in Nat
  BY WordsOK, BytesOK
<1>2. \A i \in 1..BYTES : text[n + i] \in Nat
  BY FileBytes
<1>3. \A i \in 1..BYTES : \A v \in Nat : v * BYTE + text[n + i] \in Nat
  BY <1>1, <1>2
<1>4. step \in StepsUpTo(BYTES, Nat)
  BY <1>3 DEF StepsUpTo
<1>5. \A i \in 1..BYTES : \A v \in Nat : step[i][v] = v * BYTE + text[n + i]
  OBVIOUS
<1> HIDE DEF step
<1>6. PICK w : IsRecursion(w, BYTES, Nat, 0, step)
  BY <1>1, <1>4, RecursionExists
<1>7. w \in [0..BYTES -> Nat] /\ w[0] = 0 /\ \A i \in 1..BYTES : w[i] = step[i][w[i - 1]]
  BY <1>6 DEF IsRecursion
<1>8. \A i \in 1..BYTES : i - 1 \in 0..BYTES
  BY <1>1
<1>9. \A i \in 1..BYTES : w[i] = w[i - 1] * BYTE + text[n + i]
  BY <1>5, <1>7, <1>8
<1>10. \A i \in 0..BYTES : w[i] = IF i = 0 THEN 0 ELSE w[i - 1] * BYTE + text[n + i]
  <2>1. \A i \in 0..BYTES : i = 0 \/ (i # 0 /\ i \in 1..BYTES)
    BY <1>1
  <2> QED BY <1>7, <1>9, <2>1
<1>11. w = [i \in 0..BYTES |-> IF i = 0 THEN 0 ELSE w[i - 1] * BYTE + text[n + i]]
  BY <1>7, <1>10
<1> QED BY <1>7, <1>9, <1>11 DEF IsWord

(* However a word is read, it is the same.                                 *)
LEMMA WordIsUnique ==
  ASSUME NEW text \in File, NEW n, HasWord(text, n), NEW word, IsWord(word, text, n)
  PROVE  WordAfter(text, n) = word[BYTES]
<1> DEFINE Reads(u) == u = [i \in 0..BYTES |-> IF i = 0 THEN 0 ELSE u[i - 1] * BYTE + text[n + i]]
           read == CHOOSE u : Reads(u)
<1>1. BYTES \in Nat
  BY BytesOK
<1>2. WordAfter(text, n) = read[BYTES]
  BY DEF WordAfter
<1>3. \E u : Reads(u)
  BY WordExists
<1>4. Reads(read)
  BY <1>3
<1> HIDE DEF read
<1> DEFINE Good == {i \in 0..BYTES : read[i] = word[i]}
<1>5. 0 \in Good
  BY <1>1, <1>4 DEF IsWord
<1>6. ASSUME NEW i \in 0..(BYTES - 1), i \in Good
      PROVE  i + 1 \in Good
  <2>1. i + 1 \in 1..BYTES /\ i + 1 \in 0..BYTES /\ i + 1 # 0 /\ (i + 1) - 1 = i
    BY <1>1
  <2>2. read[i + 1] = read[i] * BYTE + text[n + (i + 1)]
    BY <1>4, <2>1
  <2>3. word[i + 1] = word[i] * BYTE + text[n + (i + 1)]
    BY <2>1 DEF IsWord
  <2> QED BY <1>6, <2>1, <2>2, <2>3
<1> HIDE DEF Good
<1>7. 0..BYTES \subseteq Good
  BY <1>1, <1>5, <1>6, AllUpTo
<1>8. BYTES \in Good
  BY <1>1, <1>7
<1> QED BY <1>2, <1>8 DEF Good

(* Two words that begin one after the other share all but the first byte   *)
(* of the one and the last byte of the other.                              *)
LEMMA WordsOverlap ==
  ASSUME NEW text \in File, NEW n \in Nat, HasWord(text, n + 1)
  PROVE  \E rest \in 0..(TOP - 1) :
           /\ WordAfter(text, n) = text[n + 1] * TOP + rest
           /\ WordAfter(text, n + 1) = rest * BYTE + text[n + 1 + BYTES]
<1>1. /\ BYTE \in Nat \ {0} /\ BYTES \in Nat \ {0} /\ TOP \in Nat \ {0}
      /\ HasWord(text, n) /\ HasWord(text, n + 1) /\ n + 1 \in Nat
  BY WordsOK, BytesOK DEF HasWord, File
<1>2. PICK w : IsWord(w, text, n)
  BY <1>1, WordExists
<1>3. PICK u : IsWord(u, text, n + 1)
  BY <1>1, WordExists
<1>4. WordAfter(text, n) = w[BYTES] /\ WordAfter(text, n + 1) = u[BYTES]
  BY <1>1, <1>2, <1>3, WordIsUnique
<1>5. /\ \A i \in 1..BYTES : text[n + i] \in 0..(BYTE - 1)
      /\ \A i \in 1..BYTES : text[(n + 1) + i] \in 0..(BYTE - 1)
  BY <1>1, FileBytes
<1>6. /\ w[0] = 0 /\ \A i \in 1..BYTES : w[i] = w[i - 1] * BYTE + text[n + i]
      /\ u[0] = 0 /\ \A i \in 1..BYTES : u[i] = u[i - 1] * BYTE + text[(n + 1) + i]
  BY <1>2, <1>3 DEF IsWord
<1> DEFINE first == text[n + 1]
           Good == {i \in 0..(BYTES - 1) :
                      /\ u[i] \in 0..(Place[i] - 1)
                      /\ w[i + 1] = first * Place[i] + u[i]}
<1>7. first \in 0..(BYTE - 1)
  BY <1>1, <1>5
<1>8. 0 \in Good
  <2>1. 1 \in 1..BYTES /\ 0 \in 0..(BYTES - 1) /\ 1 - 1 = 0 /\ 0 + 1 = 1
    BY <1>1
  <2>2. w[1] = w[0] * BYTE + first
    BY <1>6, <2>1
  <2>3. w[0 + 1] = first
    BY <1>1, <1>6, <1>7, <2>2
  <2> QED BY <1>6, <1>7, <2>1, <2>3, PlaceFacts
<1>9. ASSUME NEW i \in 0..(BYTES - 2), i \in Good
      PROVE  i + 1 \in Good
  <2>1. /\ i + 1 \in 1..BYTES /\ (i + 1) - 1 = i
        /\ (i + 1) + 1 \in 1..BYTES /\ ((i + 1) + 1) - 1 = i + 1
        /\ i \in 0..(BYTES - 1) /\ i + 1 \in 0..(BYTES - 1) /\ i \in 0..BYTES
        /\ n + ((i + 1) + 1) = (n + 1) + (i + 1)
    BY <1>1
  <2> DEFINE next == text[(n + 1) + (i + 1)]
  <2>2. u[i + 1] = u[i] * BYTE + next
    BY <1>6, <2>1
  <2>3. w[(i + 1) + 1] = w[i + 1] * BYTE + text[n + ((i + 1) + 1)]
    BY <1>6, <2>1
  <2>4. text[n + ((i + 1) + 1)] = next /\ next \in 0..(BYTE - 1)
    BY <1>5, <2>1
  <2>5. Place[i + 1] = Place[i] * BYTE /\ Place[i] \in Nat \ {0}
    BY <2>1, PlaceFacts
  <2>6. u[i] \in 0..(Place[i] - 1) /\ w[i + 1] = first * Place[i] + u[i]
    BY <1>9
  <2> HIDE DEF next, first, Good
  <2>7. ASSUME NEW p \in Nat \ {0}, NEW v \in 0..(p - 1), NEW b \in 0..(BYTE - 1)
        PROVE  v * BYTE + b \in 0..(p * BYTE - 1)
    BY <1>1, <2>7, SMTT(30)
  <2>8. u[i + 1] \in 0..(Place[i + 1] - 1)
    BY <2>2, <2>4, <2>5, <2>6, <2>7
  <2>9. w[(i + 1) + 1] = (first * Place[i] + u[i]) * BYTE + next
    BY <2>3, <2>4, <2>6
  <2>10. first \in Nat /\ Place[i] \in Nat /\ u[i] \in Nat /\ next \in Nat
    BY <1>1, <1>7, <2>4, <2>5, <2>6
  <2>11. (first * Place[i] + u[i]) * BYTE + next
           = first * (Place[i] * BYTE) + (u[i] * BYTE + next)
    <3> DEFINE p == Place[i]
               v == u[i]
    <3>1. first \in Nat /\ p \in Nat /\ v \in Nat /\ next \in Nat /\ BYTE \in Nat
      BY <1>1, <2>10
    <3> HIDE DEF p, v
    <3>2. (first * p + v) * BYTE + next = first * (p * BYTE) + (v * BYTE + next)
      BY <3>1, SMTT(30)
    <3> QED BY <3>2 DEF p, v
  <2>12. w[(i + 1) + 1] = first * Place[i + 1] + u[i + 1]
    BY <2>2, <2>5, <2>9, <2>11
  <2> QED BY <2>1, <2>8, <2>12 DEF Good
<1> HIDE DEF Good
<1>10. 0..(BYTES - 1) \subseteq Good
  <2>1. (BYTES - 1) \in Nat /\ (BYTES - 1) - 1 = BYTES - 2
    BY <1>1
  <2> QED BY <1>8, <1>9, <2>1, AllUpTo
<1>11. BYTES - 1 \in Good
  BY <1>1, <1>10
<1>12. /\ u[BYTES - 1] \in 0..(TOP - 1)
       /\ w[BYTES] = text[n + 1] * TOP + u[BYTES - 1]
  <2>1. (BYTES - 1) + 1 = BYTES
    BY <1>1
  <2> QED BY <1>11, <2>1, PlaceFacts DEF Good
<1>13. u[BYTES] = u[BYTES - 1] * BYTE + text[n + 1 + BYTES]
  BY <1>1, <1>6
<1> QED BY <1>4, <1>12, <1>13

(* The first bytes of a number are its quotient by the places that follow. *)
LEMMA LongerQuotient ==
  ASSUME NEW n \in Nat, NEW p \in Nat \ {0}, BYTE \in Nat \ {0}
  PROVE  n \div p = (n \div (p * BYTE)) * BYTE + ((n \div p) % BYTE)
<1> DEFINE q == n \div p
           r == n % p
           s == q \div BYTE
           t == q % BYTE
<1>1. q \in Nat /\ r \in 0..(p - 1) /\ n = p * q + r
  BY Division
<1> HIDE DEF q, r
<1>2. s \in Nat /\ t \in 0..(BYTE - 1) /\ q = BYTE * s + t
  BY <1>1, Division
<1> HIDE DEF s, t
<1>3. p * BYTE \in Nat \ {0}
  BY SMTT(30)
<1>4. p * t + r \in 0..(p * BYTE - 1)
  <2>1. p * t <= p * (BYTE - 1)
    BY <1>2, SMTT(30)
  <2>2. p * (BYTE - 1) = p * BYTE - p /\ p * t \in Nat
    BY <1>2, SMTT(30)
  <2>3. p * BYTE \in Nat
    BY <1>3
  <2> QED BY <1>1, <2>1, <2>2, <2>3
<1>5. n = (p * BYTE) * s + (p * t + r)
  BY <1>1, <1>2, SMTT(30)
<1>6. n \div (p * BYTE) = s
  <2> DEFINE pb == p * BYTE
             rest == p * t + r
  <2>1. pb \in Nat \ {0} /\ rest \in 0..(pb - 1) /\ n = pb * s + rest
    BY <1>3, <1>4, <1>5
  <2> HIDE DEF pb, rest
  <2>2. n \div pb = s
    BY <1>2, <2>1, DivisionIsUnique
  <2> QED BY <2>2 DEF pb
<1>7. n \div p = q /\ q % BYTE = t
  BY DEF q, t
<1> QED BY <1>1, <1>2, <1>6, <1>7

(* finish() writes the word low.                                           *)
LEMMA FinalBytesAreLow ==
  ASSUME NEW text \in File, low \in 0..(WORD - 1), text \o FinalBytes \in File
  PROVE  WordAfter(text \o FinalBytes, Len(text)) = low
<1> DEFINE whole == text \o FinalBytes
           n == Len(text)
<1>1. /\ BYTE \in Nat \ {0} /\ BYTES \in Nat \ {0} /\ low \in Nat /\ n \in Nat
      /\ Len(whole) = n + BYTES /\ whole \in File
      /\ \A i \in 1..BYTES : whole[n + i] = FinalBytes[i]
  BY WordsOK, BytesOK, WordType DEF File, FinalBytes
<1>2. \A i \in 1..BYTES : whole[n + i] = (low \div Place[BYTES - i]) % BYTE
  BY <1>1 DEF FinalBytes
<1>3. HasWord(whole, n)
  BY <1>1 DEF HasWord
<1> HIDE DEF whole, n
<1>4. PICK w : IsWord(w, whole, n)
  BY <1>1, <1>3, WordExists
<1>5. w[0] = 0 /\ \A i \in 1..BYTES : w[i] = w[i - 1] * BYTE + whole[n + i]
  BY <1>4 DEF IsWord
<1> DEFINE Good == {i \in 0..BYTES : w[i] = low \div Place[BYTES - i]}
<1>6. 0 \in Good
  <2>1. BYTES - 0 = BYTES /\ 0 \in 0..BYTES
    BY <1>1
  <2>2. low \div WORD = 0
    <3>1. low = WORD * 0 + low
      BY <1>1, WordType
    <3> QED BY <1>1, <3>1, WordType, DivisionIsUnique
  <2> QED BY <1>5, <2>1, <2>2, PlaceFacts
<1>7. ASSUME NEW i \in 0..(BYTES - 1), i \in Good
      PROVE  i + 1 \in Good
  <2> DEFINE p == Place[BYTES - (i + 1)]
  <2>1. /\ i + 1 \in 1..BYTES /\ (i + 1) - 1 = i /\ i + 1 \in 0..BYTES
        /\ BYTES - (i + 1) \in 0..(BYTES - 1) /\ BYTES - (i + 1) \in 0..BYTES
        /\ (BYTES - (i + 1)) + 1 = BYTES - i
    BY <1>1
  <2>2. p \in Nat \ {0} /\ Place[BYTES - i] = p * BYTE
    BY <2>1, PlaceFacts
  <2>3. w[i + 1] = w[i] * BYTE + ((low \div p) % BYTE)
    BY <1>2, <1>5, <2>1
  <2>4. w[i] = low \div (p * BYTE)
    BY <1>7, <2>2
  <2>5. low \div p = (low \div (p * BYTE)) * BYTE + ((low \div p) % BYTE)
    <3> HIDE DEF p
    <3> QED BY <1>1, <2>2, LongerQuotient
  <2> QED BY <2>1, <2>3, <2>4, <2>5
<1> HIDE DEF Good
<1>8. 0..BYTES \subseteq Good
  BY <1>1, <1>6, <1>7, AllUpTo
<1>9. w[BYTES] = low
  <2>1. BYTES \in Good /\ BYTES - BYTES = 0
    BY <1>1, <1>8
  <2>2. w[BYTES] = low \div Place[0]
    BY <2>1 DEF Good
  <2>3. low \div 1 = low
    BY <1>1
  <2> QED BY <2>2, <2>3, PlaceFacts
<1> QED BY <1>1, <1>3, <1>4, <1>9, WordIsUnique DEF whole, n

-----------------------------------------------------------------------------
(* The intervals that a file went through                                  *)

(***************************************************************************)
(* An interval that encoder and decoder are in, with the bytes that have   *)
(* left their words and the bits that have narrowed it.                    *)
(***************************************************************************)
Entry ==
  {e \in [low: 0..(WORD - 1), high: 0..(WORD - 1), bytes: Nat, bits: Nat] : e.low <= e.high}

Divides(e) == e.low \div TOP # e.high \div TOP

MidpointOf(e, prob) == e.low + (((e.high - e.low) * Clamped(prob)) \div RANGE)

Narrows(e, f, bits) ==
  /\ Divides(e)
  /\ e.bits < Len(bits)
  /\ LET next == bits[e.bits + 1]
     IN  IF next.bit = 1
         THEN f.high = MidpointOf(e, next.prob) /\ f.low = e.low
         ELSE f.low = MidpointOf(e, next.prob) + 1 /\ f.high = e.high
  /\ f.bytes = e.bytes
  /\ f.bits = e.bits + 1

Shifts(e, f, text) ==
  /\ ~Divides(e)
  /\ e.bytes < Len(text)
  /\ text[e.bytes + 1] = e.high \div TOP
  /\ f.low = Shifted(e.low, 0)
  /\ f.high = Shifted(e.high, BYTE - 1)
  /\ f.bytes = e.bytes + 1
  /\ f.bits = e.bits

(* The intervals of some bits, whose bytes are in a file.                  *)
IsTrail(trail, bits, text) ==
  /\ trail \in Seq(Entry)
  /\ Len(trail) > 0
  /\ trail[1].low = 0 /\ trail[1].high = WORD - 1
  /\ trail[1].bytes = 0 /\ trail[1].bits = 0
  /\ \A k \in 1..(Len(trail) - 1) :
       Narrows(trail[k], trail[k + 1], bits) \/ Shifts(trail[k], trail[k + 1], text)

Bits == Seq([prob: Probs, bit: {0, 1}])

LEMMA EntryType ==
  ASSUME NEW e \in Entry
  PROVE  /\ e.low \in 0..(WORD - 1) /\ e.high \in 0..(WORD - 1) /\ e.low <= e.high
         /\ e.low \in Nat /\ e.high \in Nat /\ e.bytes \in Nat /\ e.bits \in Nat
  BY WordType DEF Entry

LEMMA BitType ==
  ASSUME NEW bits \in Bits, NEW i \in 1..Len(bits)
  PROVE  bits[i].prob \in Probs /\ bits[i].bit \in {0, 1}
<1> DEFINE Bit == [prob: Probs, bit: {0, 1}]
<1>1. bits \in Seq(Bit)
  BY DEF Bits
<1>2. bits[i] \in Bit
  <2> HIDE DEF Bit
  <2> QED BY <1>1
<1> QED BY <1>2

(* Both parts of an interval that is divided have a word.                  *)
LEMMA MidpointInEntry ==
  ASSUME NEW e \in Entry, Divides(e), NEW prob \in Probs
  PROVE  MidpointOf(e, prob) \in e.low..(e.high - 1)
<1>1. e.low \in Nat /\ e.high \in Nat /\ e.low < e.high
  BY EntryType DEF Divides
<1>2. e.high - e.low \in Nat \ {0}
  BY <1>1
<1>3. RANGE \in Nat \ {0} /\ Clamped(prob) \in 1..(RANGE - 1)
  BY ProbsOK, ClampedBounds
<1>4. ((e.high - e.low) * Clamped(prob)) \div RANGE \in 0..((e.high - e.low) - 1)
  BY <1>2, <1>3, FractionIsSmaller
<1> QED BY <1>1, <1>4 DEF MidpointOf

(* A trail stays one when there are more bits or more bytes.               *)
IsPrefixOf(s, longer) ==
  Len(s) <= Len(longer) /\ \A i \in 1..Len(s) : longer[i] = s[i]

LEMMA TrailOfMore ==
  ASSUME NEW trail, NEW bits \in Bits, NEW text \in File,
         NEW moreBits \in Bits, NEW moreFile \in File,
         IsPrefixOf(bits, moreBits), IsPrefixOf(text, moreFile),
         IsTrail(trail, bits, text)
  PROVE  IsTrail(trail, moreBits, moreFile)
<1>1. /\ Len(bits) \in Nat /\ Len(moreBits) \in Nat /\ Len(text) \in Nat /\ Len(moreFile) \in Nat
      /\ Len(bits) <= Len(moreBits) /\ Len(text) <= Len(moreFile)
  BY DEF Bits, File, IsPrefixOf
<1>2. trail \in Seq(Entry) /\ Len(trail) \in Nat
  BY DEF IsTrail
<1>3. ASSUME NEW k \in 1..(Len(trail) - 1)
      PROVE  Narrows(trail[k], trail[k + 1], moreBits) \/ Shifts(trail[k], trail[k + 1], moreFile)
  <2> DEFINE e == trail[k]
             f == trail[k + 1]
  <2>1. e \in Entry
    BY <1>2
  <2>2. e.bytes \in Nat /\ e.bits \in Nat
    BY <2>1, EntryType
  <2>3. Narrows(e, f, bits) \/ Shifts(e, f, text)
    BY DEF IsTrail
  <2> HIDE DEF e, f
  <2>4. CASE Narrows(e, f, bits)
    <3>1. e.bits < Len(bits) /\ e.bits + 1 \in 1..Len(bits) /\ e.bits < Len(moreBits)
      BY <1>1, <2>2, <2>4 DEF Narrows
    <3>2. moreBits[e.bits + 1] = bits[e.bits + 1]
      BY <3>1 DEF IsPrefixOf
    <3>3. Narrows(e, f, moreBits)
      BY <2>4, <3>1, <3>2 DEF Narrows
    <3> QED BY <3>3 DEF e, f
  <2>5. CASE Shifts(e, f, text)
    <3>1. e.bytes < Len(text) /\ e.bytes + 1 \in 1..Len(text) /\ e.bytes < Len(moreFile)
      BY <1>1, <2>2, <2>5 DEF Shifts
    <3>2. moreFile[e.bytes + 1] = text[e.bytes + 1]
      BY <3>1 DEF IsPrefixOf
    <3>3. Shifts(e, f, moreFile)
      BY <2>5, <3>1, <3>2 DEF Shifts
    <3> QED BY <3>3 DEF e, f
  <2> QED BY <2>3, <2>4, <2>5
<1> QED BY <1>3 DEF IsTrail

LEMMA TrailGoesOn ==
  ASSUME NEW trail, NEW bits, NEW text, IsTrail(trail, bits, text), NEW f \in Entry,
         Narrows(trail[Len(trail)], f, bits) \/ Shifts(trail[Len(trail)], f, text)
  PROVE  /\ IsTrail(Append(trail, f), bits, text)
         /\ Append(trail, f)[Len(Append(trail, f))] = f
<1> DEFINE longer == Append(trail, f)
<1>1. trail \in Seq(Entry) /\ Len(trail) \in Nat \ {0}
  BY DEF IsTrail
<1>2. /\ longer \in Seq(Entry) /\ Len(longer) = Len(trail) + 1 /\ longer[Len(trail) + 1] = f
      /\ \A k \in 1..Len(trail) : longer[k] = trail[k]
  BY <1>1
<1> HIDE DEF longer
<1>3. ASSUME NEW k \in 1..(Len(longer) - 1)
      PROVE  Narrows(longer[k], longer[k + 1], bits) \/ Shifts(longer[k], longer[k + 1], text)
  <2>1. k \in 1..Len(trail) /\ longer[k] = trail[k]
    BY <1>1, <1>2
  <2>2. CASE k = Len(trail)
    <3>1. longer[k] = trail[Len(trail)] /\ longer[k + 1] = f
      BY <1>2, <2>1, <2>2
    <3> QED BY <3>1
  <2>3. CASE k # Len(trail)
    <3>1. k \in 1..(Len(trail) - 1) /\ k + 1 \in 1..Len(trail)
      BY <1>1, <2>1, <2>3
    <3>2. longer[k + 1] = trail[k + 1]
      BY <1>2, <3>1
    <3>3. Narrows(trail[k], trail[k + 1], bits) \/ Shifts(trail[k], trail[k + 1], text)
      BY <3>1 DEF IsTrail
    <3> QED BY <2>1, <3>2, <3>3
  <2> QED BY <2>2, <2>3
<1>4. longer[1] = trail[1]
  BY <1>1, <1>2
<1>5. Len(longer) > 0
  BY <1>1, <1>2
<1>6. IsTrail(longer, bits, text)
  BY <1>2, <1>3, <1>4, <1>5 DEF IsTrail
<1> QED BY <1>2, <1>6 DEF longer

(* The file has a word for an interval, and the word is inside it.         *)
Follows(e, text) ==
  /\ HasWord(text, e.bytes)
  /\ WordAfter(text, e.bytes) \in e.low..e.high

(***************************************************************************)
(* A word inside a part of an interval is inside the interval, and         *)
(* compares with the midpoint as the bit does that chose the part; and a   *)
(* word inside an interval without its first byte is inside that interval  *)
(* when it begins with that byte.                                          *)
(***************************************************************************)
LEMMA NarrowedFollows ==
  ASSUME NEW e \in Entry, NEW f \in Entry, NEW bits \in Bits, NEW text \in File,
         Narrows(e, f, bits), Follows(f, text)
  PROVE  /\ Follows(e, text)
         /\ WordAfter(text, e.bytes) <= MidpointOf(e, bits[e.bits + 1].prob)
              <=> bits[e.bits + 1].bit = 1
<1> DEFINE next == bits[e.bits + 1]
           mid == MidpointOf(e, next.prob)
           word == WordAfter(text, e.bytes)
<1>1. e.bits + 1 \in 1..Len(bits)
  <2>1. e.bits \in Nat /\ Len(bits) \in Nat /\ e.bits < Len(bits)
    BY EntryType DEF Narrows, Bits
  <2> QED BY <2>1
<1>2. next.prob \in Probs /\ next.bit \in {0, 1}
  BY <1>1, BitType
<1>3. mid \in e.low..(e.high - 1)
  BY <1>2, MidpointInEntry DEF Narrows
<1>4. f.bytes = e.bytes /\ word \in f.low..f.high /\ HasWord(text, e.bytes)
  BY DEF Narrows, Follows
<1>5. /\ next.bit = 1 => f.high = mid /\ f.low = e.low
      /\ next.bit = 0 => f.low = mid + 1 /\ f.high = e.high
  BY DEF Narrows
<1>6. e.low \in Nat /\ e.high \in Nat /\ f.low \in Nat /\ f.high \in Nat
  BY EntryType
<1> HIDE DEF mid, word, next
<1>7. word \in e.low..e.high /\ (word <= mid <=> next.bit = 1)
  <2>1. CASE next.bit = 1
    BY <1>3, <1>4, <1>5, <1>6, <2>1
  <2>2. CASE next.bit = 0
    BY <1>3, <1>4, <1>5, <1>6, <2>2
  <2> QED BY <1>2, <2>1, <2>2
<1> QED BY <1>4, <1>7 DEF Follows, mid, word, next

LEMMA ShiftedFollows ==
  ASSUME NEW e \in Entry, NEW f \in Entry, NEW text \in File,
         Shifts(e, f, text), Follows(f, text)
  PROVE  Follows(e, text)
<1> DEFINE q == e.high \div TOP
           a == e.low % TOP
           b == e.high % TOP
<1>1. /\ BYTE \in Nat \ {0} /\ TOP \in Nat \ {0} /\ BYTES \in Nat \ {0} /\ WORD \in Nat \ {0}
      /\ 0 \in 0..(BYTE - 1) /\ BYTE - 1 \in 0..(BYTE - 1)
  BY WordsOK, BytesOK, WordType
<1>2. e.low \in Nat /\ e.high \in Nat /\ e.bytes \in Nat /\ e.low <= e.high
  BY EntryType
<1>3. /\ q \in Nat /\ a \in 0..(TOP - 1) /\ b \in 0..(TOP - 1)
      /\ e.low = TOP * q + a /\ e.high = TOP * q + b
  <2>1. e.low \div TOP = q
    BY DEF Shifts, Divides
  <2> HIDE DEF q
  <2>2. e.low = TOP * (e.low \div TOP) + (e.low % TOP) /\ a \in 0..(TOP - 1)
    BY <1>1, <1>2, Division
  <2>3. e.high = TOP * (e.high \div TOP) + (e.high % TOP) /\ b \in 0..(TOP - 1)
        /\ e.high \div TOP \in Nat
    BY <1>1, <1>2, Division
  <2> QED BY <2>1, <2>2, <2>3 DEF q
<1>4. f.low = a * BYTE + 0 /\ f.high = b * BYTE + (BYTE - 1)
  BY <1>1, EntryType, ShiftedWord DEF Shifts
<1>5. text[e.bytes + 1] = q /\ HasWord(text, e.bytes + 1)
  BY DEF Shifts, Follows
<1>6. PICK rest \in 0..(TOP - 1) :
        /\ WordAfter(text, e.bytes) = text[e.bytes + 1] * TOP + rest
        /\ WordAfter(text, e.bytes + 1) = rest * BYTE + text[e.bytes + 1 + BYTES]
  BY <1>2, <1>5, WordsOverlap
<1> DEFINE last == text[e.bytes + 1 + BYTES]
<1>7. last \in 0..(BYTE - 1)
  <2>1. BYTES \in 1..BYTES
    BY <1>1
  <2> QED BY <1>5, <2>1, FileBytes
<1>8. rest * BYTE + last \in (a * BYTE + 0)..(b * BYTE + (BYTE - 1))
  BY <1>4, <1>6 DEF Shifts, Follows
<1> HIDE DEF a, b, q, last
<1>9. a <= rest /\ rest <= b
  <2>1. ASSUME NEW x \in Nat, NEW y \in Nat, NEW u \in 0..(BYTE - 1), NEW v \in 0..(BYTE - 1),
               x * BYTE + u <= y * BYTE + v
        PROVE  x <= y
    <3>1. SUFFICES ASSUME x >= y + 1 PROVE FALSE
      OBVIOUS
    <3>2. x * BYTE >= (y + 1) * BYTE
      BY <1>1, <3>1, SMTT(30)
    <3>3. (y + 1) * BYTE = y * BYTE + BYTE
      BY <1>1, SMTT(30)
    <3>4. x * BYTE \in Nat /\ y * BYTE \in Nat
      BY <1>1
    <3> QED BY <1>1, <2>1, <3>2, <3>3, <3>4
  <2>2. a \in Nat /\ b \in Nat /\ rest \in Nat
    BY <1>1, <1>3
  <2>3. a * BYTE \in Nat /\ b * BYTE \in Nat /\ rest * BYTE \in Nat
    BY <1>1, <2>2
  <2>4. a * BYTE + 0 <= rest * BYTE + last /\ rest * BYTE + last <= b * BYTE + (BYTE - 1)
    BY <1>1, <1>7, <1>8, <2>3
  <2> QED BY <1>1, <1>7, <2>1, <2>2, <2>4
<1>10. q * TOP + rest \in (TOP * q + a)..(TOP * q + b)
  <2>1. q * TOP = TOP * q /\ q * TOP \in Nat
    BY <1>1, <1>3, SMTT(30)
  <2> HIDE DEF HasWord
  <2>2. ASSUME NEW m \in Nat
        PROVE  m + rest \in (m + a)..(m + b)
    BY <1>1, <1>3, <1>9
  <2> QED BY <2>1, <2>2
<1>11. WordAfter(text, e.bytes) \in e.low..e.high
  BY <1>3, <1>5, <1>6, <1>10
<1>12. HasWord(text, e.bytes)
  BY <1>1, <1>2, <1>5 DEF HasWord, File
<1> QED BY <1>11, <1>12 DEF Follows

(* So the word of the last interval puts all words inside theirs.          *)
LEMMA AllFollow ==
  ASSUME NEW trail, NEW bits \in Bits, NEW text \in File, IsTrail(trail, bits, text),
         Follows(trail[Len(trail)], text)
  PROVE  \A k \in 1..Len(trail) : Follows(trail[k], text)
<1> DEFINE n == Len(trail)
           Good == {j \in 0..(n - 1) : Follows(trail[n - j], text)}
<1>1. trail \in Seq(Entry) /\ n \in Nat /\ n > 0
  BY DEF IsTrail
<1>2. 0 \in Good
  BY <1>1
<1>3. ASSUME NEW j \in 0..((n - 1) - 1), j \in Good
      PROVE  j + 1 \in Good
  <2> DEFINE k == n - (j + 1)
  <2>1. k \in 1..(n - 1) /\ k + 1 = n - j /\ k \in 1..n /\ k + 1 \in 1..n /\ j + 1 \in 0..(n - 1)
    BY <1>1
  <2>2. trail[k] \in Entry /\ trail[k + 1] \in Entry
    BY <1>1, <2>1
  <2>3. Narrows(trail[k], trail[k + 1], bits) \/ Shifts(trail[k], trail[k + 1], text)
    BY <2>1 DEF IsTrail
  <2>4. Follows(trail[k + 1], text)
    BY <1>3, <2>1
  <2>5. Follows(trail[k], text)
    BY <2>2, <2>3, <2>4, NarrowedFollows, ShiftedFollows
  <2> QED BY <2>1, <2>5
<1> HIDE DEF Good
<1>4. 0..(n - 1) \subseteq Good
  <2>1. n - 1 \in Nat
    BY <1>1
  <2> QED BY <1>2, <1>3, <2>1, AllUpTo
<1>5. ASSUME NEW k \in 1..n
      PROVE  Follows(trail[k], text)
  <2>1. n - k \in 0..(n - 1) /\ n - (n - k) = k
    BY <1>1
  <2>2. n - k \in Good
    BY <1>4, <2>1
  <2> QED BY <2>1, <2>2 DEF Good
<1> QED BY <1>5

-----------------------------------------------------------------------------
(* The decoder in the encoder's intervals                                  *)

(* The interval that the coder is in, after some bytes and bits.           *)
Current(bytes, bits) == [low |-> low, high |-> high, bytes |-> bytes, bits |-> bits]

(***************************************************************************)
(* While the encoder runs, its interval is the last of those that its bits *)
(* and bytes went through; afterwards the file ends with the last one's    *)
(* word, and the decoder is in one of them, with the word that the file    *)
(* has there, and the bits up to it.                                       *)
(***************************************************************************)
Encoding ==
  \E trail :
    /\ IsTrail(trail, asked, out)
    /\ trail[Len(trail)] = Current(Len(out), Len(asked))

IsWhole(trail, bits, text) ==
  /\ IsTrail(trail, bits, text)
  /\ Divides(trail[Len(trail)])
  /\ trail[Len(trail)].bits = Len(bits)
  /\ trail[Len(trail)].bytes + BYTES = Len(text)
  /\ \A k \in 1..Len(trail) : Follows(trail[k], text)

IsAt(e) ==
  /\ e = Current(e.bytes, Len(decided))
  /\ pos = e.bytes + BYTES
  /\ code = WordAfter(out, e.bytes)

Decoding ==
  \E trail :
    /\ IsWhole(trail, asked, out)
    /\ mode # "open" =>
         \E k \in 1..Len(trail) :
           /\ IsAt(trail[k])
           /\ \A i \in 1..Len(decided) : decided[i] = asked[i].bit
           /\ mode = "done" => k = Len(trail)

Kept ==
  /\ mode \in {"encode", "open", "decode", "done"}
  /\ out \in File
  /\ mode \in {"encode", "open"} => decided = <<>>
  /\ mode = "encode" => Encoding
  /\ mode # "encode" => Decoding

LEMMA CurrentIsEntry ==
  ASSUME Interval, NEW bytes \in Nat, NEW bits \in Nat
  PROVE  /\ Current(bytes, bits) \in Entry
         /\ Divides(Current(bytes, bits)) <=> ~SharesTopByte
         /\ \A prob : MidpointOf(Current(bytes, bits), prob) = Midpoint(prob)
<1>1. low \in 0..(WORD - 1) /\ high \in 0..(WORD - 1) /\ low <= high
  BY WordType DEF Interval
<1> QED BY <1>1 DEF Current, Entry, Divides, SharesTopByte, MidpointOf, Midpoint

LEMMA NextIsEntry ==
  ASSUME Interval', NEW bytes \in Nat, NEW bits \in Nat
  PROVE  [low |-> low', high |-> high', bytes |-> bytes, bits |-> bits] \in Entry
<1>1. low' \in 0..(WORD - 1) /\ high' \in 0..(WORD - 1) /\ low' <= high'
  BY WordType DEF Interval
<1> QED BY <1>1 DEF Entry

(* A step of either coder is a step of the trail.                          *)
LEMMA NarrowIsNarrows ==
  ASSUME Interval, ~SharesTopByte, NEW bytes \in Nat, NEW m \in Nat, NEW bits, m < Len(bits),
         Narrow(bits[m + 1].prob, bits[m + 1].bit)
  PROVE  \A f : /\ f.low = low' /\ f.high = high' /\ f.bytes = bytes /\ f.bits = m + 1
                => Narrows(Current(bytes, m), f, bits)
<1> DEFINE e == Current(bytes, m)
<1>1. Divides(e) /\ \A prob : MidpointOf(e, prob) = Midpoint(prob)
  BY CurrentIsEntry
<1>2. e.low = low /\ e.high = high /\ e.bytes = bytes /\ e.bits = m
  BY DEF Current
<1> HIDE DEF e
<1>3. ASSUME NEW f, f.low = low', f.high = high', f.bytes = bytes, f.bits = m + 1
      PROVE  Narrows(e, f, bits)
  <2> DEFINE next == bits[m + 1]
  <2>1. IF next.bit = 1 THEN high' = Midpoint(next.prob) /\ low' = low
                        ELSE low' = Midpoint(next.prob) + 1 /\ high' = high
    BY DEF Narrow
  <2>2. MidpointOf(e, next.prob) = Midpoint(next.prob)
    BY <1>1
  <2> HIDE DEF next
  <2>3. IF next.bit = 1 THEN f.high = MidpointOf(e, next.prob) /\ f.low = e.low
                        ELSE f.low = MidpointOf(e, next.prob) + 1 /\ f.high = e.high
    BY <1>2, <1>3, <2>1, <2>2
  <2> QED BY <1>1, <1>2, <1>3, <2>3 DEF Narrows, next
<1> QED BY <1>3 DEF e

LEMMA RenormalizeIsShifts ==
  ASSUME Interval, SharesTopByte, NEW n \in Nat, NEW bits \in Nat, NEW text, n < Len(text),
         Renormalize, text[n + 1] = high \div TOP
  PROVE  \A f : /\ f.low = low' /\ f.high = high' /\ f.bytes = n + 1 /\ f.bits = bits
                => Shifts(Current(n, bits), f, text)
<1> DEFINE e == Current(n, bits)
<1>1. ~Divides(e)
  BY CurrentIsEntry
<1>2. e.low = low /\ e.high = high /\ e.bytes = n /\ e.bits = bits
  BY DEF Current
<1> HIDE DEF e
<1>3. ASSUME NEW f, f.low = low', f.high = high', f.bytes = n + 1, f.bits = bits
      PROVE  Shifts(e, f, text)
  BY <1>1, <1>2, <1>3 DEF Renormalize, Shifts
<1> QED BY <1>3 DEF e

(* Nothing has been coded yet.                                             *)
LEMMA InitKept == RangeInit => Kept
<1> SUFFICES ASSUME RangeInit PROVE Kept
  OBVIOUS
<1> DEFINE e == Current(0, 0)
           trail == <<e>>
<1>1. Interval
  BY RangeInitEstablishes DEF RangeInv
<1>2. e \in Entry
  BY <1>1, CurrentIsEntry
<1>3. e.low = 0 /\ e.high = WORD - 1 /\ e.bytes = 0 /\ e.bits = 0
  BY DEF RangeInit, Current
<1>4. Current(Len(out), Len(asked)) = e
  BY DEF RangeInit
<1> HIDE DEF e
<1>5. IsTrail(trail, asked, out)
  BY <1>2, <1>3 DEF IsTrail
<1>6. Encoding
  <2>1. trail[Len(trail)] = e
    OBVIOUS
  <2> HIDE DEF trail
  <2> QED BY <1>4, <1>5, <2>1 DEF Encoding
<1> QED BY <1>6 DEF RangeInit, Kept, File

(* What the encoder has done is not undone.                                *)
LEMMA AppendIsMore ==
  ASSUME NEW S, NEW s \in Seq(S), NEW x \in S
  PROVE  IsPrefixOf(s, Append(s, x)) /\ IsPrefixOf(s, s) /\ Append(s, x) \in Seq(S)
  BY DEF IsPrefixOf

LEMMA ConcatIsMore ==
  ASSUME NEW S, NEW s \in Seq(S), NEW t \in Seq(S)
  PROVE  IsPrefixOf(s, s \o t) /\ s \o t \in Seq(S) /\ Len(s \o t) = Len(s) + Len(t)
<1>1. s \o t \in Seq(S) /\ Len(s \o t) = Len(s) + Len(t)
  OBVIOUS
<1>2. \A i \in 1..Len(s) : (s \o t)[i] = s[i]
  OBVIOUS
<1>3. Len(s) \in Nat /\ Len(t) \in Nat
  OBVIOUS
<1> QED BY <1>1, <1>2, <1>3 DEF IsPrefixOf

LEMMA EncodeKept ==
  ASSUME RangeInv, RangeInv', Kept, NEW prob \in Probs, NEW truth \in {0, 1}, Encode(prob, truth)
  PROVE  Kept'
<1> DEFINE bit == [prob |-> prob, bit |-> truth]
           Bit == [prob: Probs, bit: {0, 1}]
           n == Len(out)
           m == Len(asked)
<1>1. /\ asked \in Bits /\ out \in File /\ bit \in Bit /\ asked' = Append(asked, bit)
      /\ n \in Nat /\ m \in Nat
  BY DEF RangeInv, Asked, Bits, Kept, File, Encode
<1>2. asked' \in Bits /\ IsPrefixOf(asked, asked') /\ IsPrefixOf(out, out)
      /\ asked'[m + 1] = bit /\ Len(asked') = m + 1
  <2>1. asked \in Seq(Bit) /\ out \in Seq(0..(BYTE - 1))
    BY <1>1 DEF Bits, File
  <2> HIDE DEF Bit, bit
  <2>2. IsPrefixOf(asked, asked') /\ asked' \in Seq(Bit)
    BY <1>1, <2>1, AppendIsMore
  <2>3. IsPrefixOf(out, out)
    BY DEF IsPrefixOf
  <2> QED BY <1>1, <2>1, <2>2, <2>3 DEF Bits, Bit
<1>3. PICK trail : IsTrail(trail, asked, out) /\ trail[Len(trail)] = Current(n, m)
  BY DEF Kept, Encode, Encoding
<1>4. IsTrail(trail, asked', out)
  BY <1>1, <1>2, <1>3, TrailOfMore
<1> DEFINE f == [low |-> low', high |-> high', bytes |-> n, bits |-> m + 1]
<1>5. out' = out /\ mode' = "encode" /\ decided' = decided /\ mode = "encode"
  BY DEF Encode
<1>6. f \in Entry
  BY <1>1, NextIsEntry DEF RangeInv
<1>7. Narrows(trail[Len(trail)], f, asked')
  <2>1. m < Len(asked') /\ asked'[m + 1].prob = prob /\ asked'[m + 1].bit = truth
    BY <1>1, <1>2
  <2>2. Narrow(asked'[m + 1].prob, asked'[m + 1].bit) /\ ~SharesTopByte /\ Interval
    BY <2>1 DEF Encode, RangeInv
  <2>3. f.low = low' /\ f.high = high' /\ f.bytes = n /\ f.bits = m + 1
    OBVIOUS
  <2> HIDE DEF f, n, m
  <2>4. Narrows(Current(n, m), f, asked')
    BY <1>1, <2>1, <2>2, <2>3, NarrowIsNarrows
  <2> QED BY <1>3, <2>4
<1> HIDE DEF f
<1>8. /\ IsTrail(Append(trail, f), asked', out)
      /\ Append(trail, f)[Len(Append(trail, f))] = f
  BY <1>4, <1>6, <1>7, TrailGoesOn
<1>9. Current(Len(out), Len(asked))' = f
  BY <1>2, <1>5 DEF f, Current
<1>10. Encoding'
  BY <1>5, <1>8, <1>9 DEF Encoding
<1> QED BY <1>1, <1>5, <1>10 DEF Kept

LEMMA EmitByteKept ==
  ASSUME RangeInv, RangeInv', Kept, EmitByte
  PROVE  Kept'
<1> DEFINE byte == high \div TOP
           n == Len(out)
           m == Len(asked)
<1>1. /\ asked \in Bits /\ out \in File /\ out' = Append(out, byte)
      /\ n \in Nat /\ m \in Nat
  BY DEF RangeInv, Asked, Bits, Kept, File, EmitByte
<1>2. byte \in 0..(BYTE - 1)
  <2>1. high \in 0..(WORD - 1) /\ WORD = TOP * BYTE /\ BYTE \in Nat /\ TOP \in Nat \ {0} /\ WORD \in Nat
    BY WordsOK, WordType DEF RangeInv, Interval, WORD
  <2>2. high \in Nat
    BY <2>1
  <2>3. byte \in Nat /\ high = TOP * byte + (high % TOP) /\ high % TOP \in Nat
    BY <2>1, <2>2, Division
  <2> HIDE DEF byte
  <2>4. SUFFICES ASSUME byte >= BYTE PROVE FALSE
    BY <2>1, <2>3
  <2>5. TOP * byte >= TOP * BYTE
    BY <2>1, <2>3, <2>4, SMTT(30)
  <2>6. TOP * byte \in Nat
    BY <2>1, <2>3
  <2> QED BY <2>1, <2>3, <2>5, <2>6
<1>3. /\ out' \in File /\ IsPrefixOf(out, out') /\ IsPrefixOf(asked, asked)
      /\ out'[n + 1] = byte /\ Len(out') = n + 1
  <2> DEFINE Byte == 0..(BYTE - 1)
  <2>1. out \in Seq(Byte) /\ byte \in Byte
    BY <1>1, <1>2 DEF File
  <2> HIDE DEF Byte, byte
  <2>2. IsPrefixOf(out, out') /\ out' \in Seq(Byte)
    BY <1>1, <2>1, AppendIsMore
  <2>3. IsPrefixOf(asked, asked)
    BY DEF IsPrefixOf
  <2> QED BY <1>1, <2>1, <2>2, <2>3 DEF File, Byte
<1>4. PICK trail : IsTrail(trail, asked, out) /\ trail[Len(trail)] = Current(n, m)
  BY DEF Kept, EmitByte, Encoding
<1>5. IsTrail(trail, asked, out')
  BY <1>1, <1>3, <1>4, TrailOfMore
<1> DEFINE f == [low |-> low', high |-> high', bytes |-> n + 1, bits |-> m]
<1>6. asked' = asked /\ mode' = "encode" /\ decided' = decided /\ mode = "encode"
  BY DEF EmitByte
<1>7. f \in Entry
  <2>1. n + 1 \in Nat
    BY <1>1
  <2> HIDE DEF n, m
  <2> QED BY <1>1, <2>1, NextIsEntry DEF RangeInv
<1>8. Shifts(trail[Len(trail)], f, out')
  <2>1. n < Len(out') /\ out'[n + 1] = high \div TOP
    BY <1>1, <1>3
  <2>2. Renormalize /\ SharesTopByte /\ Interval
    BY DEF EmitByte, RangeInv
  <2>3. f.low = low' /\ f.high = high' /\ f.bytes = n + 1 /\ f.bits = m
    OBVIOUS
  <2> HIDE DEF f, n, m
  <2>4. Shifts(Current(n, m), f, out')
    BY <1>1, <2>1, <2>2, <2>3, RenormalizeIsShifts
  <2> QED BY <1>4, <2>4
<1> HIDE DEF f
<1>9. /\ IsTrail(Append(trail, f), asked, out')
      /\ Append(trail, f)[Len(Append(trail, f))] = f
  BY <1>5, <1>7, <1>8, TrailGoesOn
<1>10. Current(Len(out), Len(asked))' = f
  BY <1>3, <1>6 DEF f, Current
<1>11. Encoding'
  BY <1>6, <1>9, <1>10 DEF Encoding
<1> QED BY <1>3, <1>6, <1>11 DEF Kept

(* finish() ends the file with the word of the last interval's low.        *)
LEMMA FinishKept ==
  ASSUME RangeInv, RangeInv', Kept, Finish
  PROVE  Kept'
<1> DEFINE n == Len(out)
           m == Len(asked)
<1>1. /\ asked \in Bits /\ out \in File /\ out' = out \o FinalBytes
      /\ n \in Nat /\ m \in Nat /\ asked' = asked
      /\ mode = "encode" /\ mode' = "open" /\ decided' = decided /\ ~SharesTopByte
  BY DEF RangeInv, Asked, Bits, Kept, File, Finish
<1>2. low \in 0..(WORD - 1) /\ high \in 0..(WORD - 1) /\ low <= high
      /\ BYTE \in Nat \ {0} /\ BYTES \in Nat \ {0} /\ low \in Nat
  BY WordsOK, BytesOK, WordType DEF RangeInv, Interval
<1>3. FinalBytes \in File /\ Len(FinalBytes) = BYTES
  <2>1. \A i \in 1..BYTES : (low \div Place[BYTES - i]) % BYTE \in 0..(BYTE - 1)
    <3>1. \A i \in 1..BYTES : Place[BYTES - i] \in Nat \ {0}
      <4>1. \A i \in 1..BYTES : BYTES - i \in 0..BYTES
        BY <1>2
      <4> QED BY <4>1, PlaceFacts
    <3>2. \A i \in 1..BYTES : low \div Place[BYTES - i] \in Nat
      BY <1>2, <3>1, Division
    <3> QED BY <1>2, <3>2, Division
  <2> QED BY <1>2, <2>1 DEF File, FinalBytes
<1>4. /\ out' \in File /\ Len(out') = n + BYTES /\ IsPrefixOf(out, out')
      /\ IsPrefixOf(asked, asked)
  <2> DEFINE Byte == 0..(BYTE - 1)
             final == FinalBytes
  <2>1. out \in Seq(Byte) /\ final \in Seq(Byte) /\ Len(final) = BYTES /\ out' = out \o final
    BY <1>1, <1>3 DEF File
  <2> HIDE DEF Byte, final
  <2>2. out' \in Seq(Byte) /\ Len(out') = n + BYTES /\ IsPrefixOf(out, out')
    BY <2>1, ConcatIsMore
  <2>3. IsPrefixOf(asked, asked)
    BY <1>1 DEF IsPrefixOf
  <2> QED BY <2>2, <2>3 DEF File, Byte
<1>5. PICK trail : IsTrail(trail, asked, out) /\ trail[Len(trail)] = Current(n, m)
  BY <1>1 DEF Kept, Encoding
<1>6. IsTrail(trail, asked, out')
  BY <1>1, <1>4, <1>5, TrailOfMore
<1>7. WordAfter(out', n) = low
  BY <1>1, <1>2, <1>4, FinalBytesAreLow
<1> DEFINE last == Current(n, m)
<1>8. last.low = low /\ last.high = high /\ last.bytes = n /\ last.bits = m /\ Divides(last)
  <2>1. Divides(last)
    BY <1>1, CurrentIsEntry DEF RangeInv
  <2> QED BY <2>1 DEF Current
<1>9. Follows(last, out')
  <2>1. HasWord(out', n)
    BY <1>1, <1>2, <1>4 DEF HasWord
  <2>2. low \in low..high
    BY <1>2
  <2> HIDE DEF last, n
  <2> QED BY <1>7, <1>8, <2>1, <2>2 DEF Follows
<1> HIDE DEF last
<1>10. \A k \in 1..Len(trail) : Follows(trail[k], out')
  <2>1. Follows(trail[Len(trail)], out')
    BY <1>5, <1>9 DEF last
  <2> QED BY <1>1, <1>4, <1>6, <2>1, AllFollow
<1>11. IsWhole(trail, asked, out')
  <2>1. trail[Len(trail)] = last
    BY <1>5 DEF last
  <2> QED BY <1>4, <1>6, <1>8, <1>10, <2>1 DEF IsWhole
<1>12. Decoding'
  BY <1>1, <1>11 DEF Decoding
<1> QED BY <1>1, <1>4, <1>12 DEF Kept

(* The decoder opens a file at its first word.                             *)
LEMMA OpenedWord ==
  ASSUME out \in File, HasWord(out, 0), Open
  PROVE  code' = WordAfter(out, 0)
<1> DEFINE Reads(u) == u = [i \in 0..BYTES |->
                              IF i = 0 THEN 0 ELSE u[i - 1] * BYTE + ByteAt(i, 0)]
           read == CHOOSE u : Reads(u)
<1>1. BYTES \in Nat /\ BYTES <= Len(out) /\ Len(out) \in Nat
  BY BytesOK DEF HasWord, File
<1>2. code' = read[BYTES]
  BY DEF Open
<1>3. PICK w : /\ IsWord(w, out, 0)
               /\ w = [i \in 0..BYTES |-> IF i = 0 THEN 0 ELSE w[i - 1] * BYTE + out[0 + i]]
  BY WordExists
<1>4. \A i \in 0..BYTES : i # 0 => ByteAt(i, 0) = out[0 + i]
  BY <1>1 DEF ByteAt
<1>5. Reads(w)
  <2>1. \A i \in 0..BYTES : w[i] = IF i = 0 THEN 0 ELSE w[i - 1] * BYTE + ByteAt(i, 0)
    BY <1>3, <1>4
  <2>2. w = [i \in 0..BYTES |-> w[i]]
    BY <1>3
  <2> QED BY <2>1, <2>2
<1>6. Reads(read)
  BY <1>5
<1> HIDE DEF read
<1> DEFINE Good == {i \in 0..BYTES : read[i] = w[i]}
<1>7. 0 \in Good
  BY <1>1, <1>5, <1>6
<1>8. ASSUME NEW i \in 0..(BYTES - 1), i \in Good
      PROVE  i + 1 \in Good
  <2>1. i + 1 \in 0..BYTES /\ i + 1 # 0 /\ (i + 1) - 1 = i
    BY <1>1
  <2>2. read[i + 1] = read[i] * BYTE + ByteAt(i + 1, 0)
    BY <1>6, <2>1
  <2>3. w[i + 1] = w[i] * BYTE + ByteAt(i + 1, 0)
    BY <1>5, <2>1
  <2> QED BY <1>8, <2>1, <2>2, <2>3
<1> HIDE DEF Good
<1>9. 0..BYTES \subseteq Good
  BY <1>1, <1>7, <1>8, AllUpTo
<1>10. BYTES \in Good
  BY <1>1, <1>9
<1>11. read[BYTES] = w[BYTES]
  BY <1>10 DEF Good
<1>12. WordAfter(out, 0) = w[BYTES]
  BY <1>3, WordIsUnique
<1> QED BY <1>2, <1>11, <1>12

LEMMA OpenKept ==
  ASSUME RangeInv, RangeInv', Kept, Open
  PROVE  Kept'
<1>1. /\ mode = "open" /\ mode' = "decode" /\ out' = out /\ asked' = asked
      /\ decided = <<>> /\ decided' = <<>> /\ low' = 0 /\ high' = WORD - 1
      /\ pos' = BYTES /\ out \in File
  BY DEF Kept, Open
<1>2. PICK trail : IsWhole(trail, asked, out)
  BY <1>1 DEF Kept, Decoding
<1> DEFINE e == trail[1]
<1>3. Len(trail) \in Nat /\ 1 \in 1..Len(trail) /\ e \in Entry
  BY <1>2 DEF IsWhole, IsTrail
<1>4. e.low = 0 /\ e.high = WORD - 1 /\ e.bytes = 0 /\ e.bits = 0
  BY <1>2 DEF IsWhole, IsTrail
<1>5. HasWord(out, 0)
  <2>1. Follows(e, out)
    BY <1>2, <1>3 DEF IsWhole
  <2> QED BY <1>4, <2>1 DEF Follows
<1>6. code' = WordAfter(out, 0)
  BY <1>1, <1>5, OpenedWord
<1>7. e = [low |-> 0, high |-> WORD - 1, bytes |-> 0, bits |-> 0]
  <2> HIDE DEF e
  <2> QED BY <1>3, <1>4 DEF Entry
<1> HIDE DEF e
<1>8. IsAt(e)'
  <2>1. e = Current(e.bytes, Len(decided))'
    BY <1>1, <1>4, <1>7 DEF Current
  <2>2. pos' = e.bytes + BYTES
    BY <1>1, <1>4, BytesOK
  <2>3. code' = WordAfter(out', e.bytes)
    BY <1>1, <1>4, <1>6
  <2> QED BY <2>1, <2>2, <2>3 DEF IsAt
<1>9. Decoding'
  <2>1. IsAt(trail[1])'
    BY <1>8 DEF e
  <2>2. \A i \in 1..Len(decided') : decided'[i] = asked'[i].bit
    BY <1>1
  <2> QED BY <1>1, <1>2, <1>3, <2>1, <2>2 DEF Decoding
<1> QED BY <1>1, <1>9 DEF Kept

(* Where the decoder is, and what follows there.                           *)
DecoderIsIn(trail, k) ==
  /\ IsWhole(trail, asked, out)
  /\ IsAt(trail[k])
  /\ \A i \in 1..Len(decided) : decided[i] = asked[i].bit
  /\ trail[k] \in Entry
  /\ trail[k].low = low /\ trail[k].high = high /\ trail[k].bits = Len(decided)
  /\ Divides(trail[k]) <=> ~SharesTopByte
  /\ \A prob : MidpointOf(trail[k], prob) = Midpoint(prob)
  /\ Follows(trail[k], out)
  /\ k # Len(trail) =>
       /\ k + 1 \in 1..Len(trail)
       /\ trail[k + 1] \in Entry
       /\ Follows(trail[k + 1], out)
       /\ \/ Narrows(trail[k], trail[k + 1], asked)
          \/ Shifts(trail[k], trail[k + 1], out)

LEMMA DecoderPlace ==
  ASSUME RangeInv, Kept, mode = "decode"
  PROVE  \E trail : \E k \in 1..Len(trail) : DecoderIsIn(trail, k)
<1>1. PICK trail :
        /\ IsWhole(trail, asked, out)
        /\ \E k \in 1..Len(trail) :
             /\ IsAt(trail[k])
             /\ \A i \in 1..Len(decided) : decided[i] = asked[i].bit
  BY DEF Kept, Decoding
<1>2. PICK k \in 1..Len(trail) :
             /\ IsAt(trail[k])
             /\ \A i \in 1..Len(decided) : decided[i] = asked[i].bit
  BY <1>1
<1>3. trail \in Seq(Entry) /\ Len(trail) \in Nat
  BY <1>1 DEF IsWhole, IsTrail
<1> DEFINE e == trail[k]
<1>4. e \in Entry
  BY <1>2, <1>3
<1>5. e = Current(e.bytes, Len(decided)) /\ e.bytes \in Nat /\ Len(decided) \in Nat /\ Interval
  BY <1>2, <1>4, EntryType DEF IsAt, RangeInv
<1>6. e.low = low /\ e.high = high /\ e.bits = Len(decided)
  <2> HIDE DEF e
  <2>1. e = [low |-> low, high |-> high, bytes |-> e.bytes, bits |-> Len(decided)]
    BY <1>5 DEF Current
  <2> QED BY <2>1
<1>7. Divides(e) <=> ~SharesTopByte
  BY <1>6 DEF Divides, SharesTopByte
<1>8. \A prob : MidpointOf(e, prob) = Midpoint(prob)
  BY <1>6 DEF MidpointOf, Midpoint
<1>9. Follows(e, out)
  BY <1>1, <1>2 DEF IsWhole
<1>10. ASSUME k # Len(trail)
       PROVE  /\ k + 1 \in 1..Len(trail)
              /\ trail[k + 1] \in Entry
              /\ Follows(trail[k + 1], out)
              /\ \/ Narrows(trail[k], trail[k + 1], asked)
                 \/ Shifts(trail[k], trail[k + 1], out)
  <2>1. k \in 1..(Len(trail) - 1) /\ k + 1 \in 1..Len(trail)
    BY <1>3, <1>10
  <2>2. trail[k + 1] \in Entry
    BY <1>3, <2>1
  <2> QED BY <1>1, <2>1, <2>2 DEF IsWhole, IsTrail
<1> HIDE DEF e
<1> QED
  <2>1. /\ e \in Entry /\ e.low = low /\ e.high = high /\ e.bits = Len(decided)
        /\ Divides(e) <=> ~SharesTopByte
        /\ \A prob : MidpointOf(e, prob) = Midpoint(prob)
        /\ Follows(e, out)
    BY <1>4, <1>6, <1>7, <1>8, <1>9
  <2>2. e = trail[k]
    BY DEF e
  <2> QED BY <1>1, <1>2, <1>10, <2>1, <2>2 DEF DecoderIsIn

(* The next interval and its word are where a step of the decoder leads.   *)
LEMMA DecoderMoves ==
  ASSUME NEW trail, NEW k \in 1..Len(trail), IsWhole(trail, asked, out),
         mode' = "decode", out' = out, asked' = asked,
         IsAt(trail[k])',
         \A i \in 1..Len(decided') : decided'[i] = asked[i].bit
  PROVE  Decoding'
  BY DEF Decoding

LEMMA NextIsAt ==
  ASSUME NEW f \in Entry, f.low = low', f.high = high', f.bits = Len(decided'),
         pos' = f.bytes + BYTES, code' = WordAfter(out', f.bytes)
  PROVE  IsAt(f)'
<1>1. f = [low |-> low', high |-> high', bytes |-> f.bytes, bits |-> Len(decided')]
  BY DEF Entry
<1>2. f = Current(f.bytes, Len(decided))'
  BY <1>1 DEF Current
<1> QED BY <1>2 DEF IsAt

(* A word inside the interval is on the side of the midpoint that the bit  *)
(* chose, so that bit is decided.                                          *)
LEMMA DecodeKept ==
  ASSUME RangeInv, RangeInv', Kept, Decode
  PROVE  Kept'
<1>1. /\ mode = "decode" /\ mode' = "decode" /\ out' = out /\ asked' = asked
      /\ code' = code /\ pos' = pos /\ ~SharesTopByte /\ Len(decided) < Len(asked)
      /\ out \in File /\ asked \in Bits /\ decided \in Seq({0, 1}) /\ Len(decided) \in Nat
  BY DEF Kept, Decode, RangeInv, Asked, Bits
<1>2. PICK trail : \E k \in 1..Len(trail) : DecoderIsIn(trail, k)
  BY <1>1, DecoderPlace
<1>3. PICK k \in 1..Len(trail) : DecoderIsIn(trail, k)
  BY <1>2
<1> USE <1>3 DEF DecoderIsIn
<1> DEFINE e == trail[k]
           f == trail[k + 1]
           m == Len(decided)
           next == asked[m + 1]
<1>4. k # Len(trail)
  <2>1. trail[Len(trail)].bits = Len(asked) /\ Len(asked) \in Nat
    BY <1>1, <1>3 DEF IsWhole, Bits
  <2> QED BY <1>1, <1>3, <2>1
<1>5. /\ k + 1 \in 1..Len(trail) /\ f \in Entry /\ Follows(f, out) /\ Narrows(e, f, asked)
      /\ e \in Entry /\ e.low = low /\ e.high = high /\ e.bits = m
      /\ MidpointOf(e, next.prob) = Midpoint(next.prob)
      /\ code = WordAfter(out, e.bytes) /\ pos = e.bytes + BYTES
  <2>1. ~Shifts(e, f, out)
    BY <1>1, <1>3 DEF Shifts
  <2> QED BY <1>3, <1>4, <2>1 DEF IsAt
<1>6. next.bit \in {0, 1}
  <2>1. m + 1 \in 1..Len(asked)
    BY <1>1 DEF Bits
  <2> QED BY <1>1, <2>1, BitType
<1> HIDE DEF e, f
<1>7. WordAfter(out, e.bytes) <= MidpointOf(e, next.prob) <=> next.bit = 1
  <2>1. WordAfter(out, e.bytes) <= MidpointOf(e, asked[e.bits + 1].prob)
          <=> asked[e.bits + 1].bit = 1
    BY <1>1, <1>5, NarrowedFollows
  <2> QED BY <1>5, <2>1
<1>8. Decided(next.prob) = next.bit
  BY <1>5, <1>6, <1>7 DEF Decided
<1>9. Narrow(next.prob, next.bit) /\ decided' = Append(decided, next.bit)
  BY <1>8 DEF Decode
<1>10. Len(decided') = m + 1 /\ \A i \in 1..Len(decided') : decided'[i] = asked[i].bit
  <2> HIDE DEF next
  <2>1. /\ Len(decided') = m + 1 /\ decided'[m + 1] = next.bit
        /\ \A i \in 1..m : decided'[i] = decided[i]
    BY <1>1, <1>6, <1>9
  <2>2. \A i \in 1..(m + 1) : i = m + 1 \/ i \in 1..m
    BY <1>1
  <2> QED BY <1>3, <2>1, <2>2 DEF next
<1>11. f.low = low' /\ f.high = high' /\ f.bytes = e.bytes /\ f.bits = m + 1
  <2>1. IF next.bit = 1 THEN high' = Midpoint(next.prob) /\ low' = low
                        ELSE low' = Midpoint(next.prob) + 1 /\ high' = high
    BY <1>9 DEF Narrow
  <2>2. IF next.bit = 1
        THEN f.high = MidpointOf(e, next.prob) /\ f.low = e.low
        ELSE f.low = MidpointOf(e, next.prob) + 1 /\ f.high = e.high
    BY <1>5 DEF Narrows
  <2>3. f.bytes = e.bytes /\ f.bits = m + 1
    BY <1>5 DEF Narrows
  <2> HIDE DEF next, m
  <2> QED BY <1>5, <2>1, <2>2, <2>3
<1>12. IsAt(f)'
  BY <1>1, <1>5, <1>10, <1>11, NextIsAt
<1>13. Decoding'
  <2>1. IsAt(trail[k + 1])'
    BY <1>12 DEF f
  <2> QED BY <1>1, <1>3, <1>5, <1>10, <2>1, DecoderMoves
<1> QED BY <1>1, <1>13 DEF Kept

(* A byte leaves the word and the next of the file enters it.              *)
LEMMA NextByteKept ==
  ASSUME RangeInv, RangeInv', Kept, NextByte
  PROVE  Kept'
<1>1. /\ mode = "decode" /\ mode' = "decode" /\ out' = out /\ asked' = asked
      /\ decided' = decided /\ SharesTopByte /\ Renormalize
      /\ pos' = pos + 1 /\ code' = Shifted(code, ByteAt(pos + 1, BYTE - 1))
      /\ out \in File /\ Len(out) \in Nat
  BY DEF Kept, NextByte, File
<1>2. PICK trail : \E k \in 1..Len(trail) : DecoderIsIn(trail, k)
  BY <1>1, DecoderPlace
<1>3. PICK k \in 1..Len(trail) : DecoderIsIn(trail, k)
  BY <1>2
<1> USE <1>3 DEF DecoderIsIn
<1> DEFINE e == trail[k]
           f == trail[k + 1]
           n == e.bytes
<1>4. k # Len(trail)
  BY <1>1, <1>3 DEF IsWhole
<1>5. /\ k + 1 \in 1..Len(trail) /\ f \in Entry /\ Follows(f, out) /\ Shifts(e, f, out)
      /\ e \in Entry /\ e.low = low /\ e.high = high /\ e.bits = Len(decided)
      /\ Follows(e, out) /\ n \in Nat
      /\ code = WordAfter(out, n) /\ pos = n + BYTES
  <2>1. ~Narrows(e, f, asked)
    BY <1>1, <1>3 DEF Narrows
  <2>2. n \in Nat
    BY <1>3, EntryType
  <2> QED BY <1>3, <1>4, <2>1, <2>2 DEF IsAt
<1> HIDE DEF e, f
<1>6. f.low = low' /\ f.high = high' /\ f.bytes = n + 1 /\ f.bits = Len(decided')
  BY <1>1, <1>5 DEF Shifts, Renormalize
<1>7. HasWord(out, n + 1) /\ n + 1 + BYTES <= Len(out) /\ BYTES \in Nat \ {0}
  BY <1>5, <1>6, BytesOK DEF Follows, HasWord
<1>8. ByteAt(pos + 1, BYTE - 1) = out[n + 1 + BYTES]
  <2>1. pos + 1 = n + 1 + BYTES
    BY <1>5, <1>7
  <2> QED BY <1>7, <2>1 DEF ByteAt
<1>9. code' = WordAfter(out, n + 1)
  <2> DEFINE last == out[n + 1 + BYTES]
  <2>1. PICK rest \in 0..(TOP - 1) :
          /\ WordAfter(out, n) = out[n + 1] * TOP + rest
          /\ WordAfter(out, n + 1) = rest * BYTE + last
    BY <1>1, <1>5, <1>7, WordsOverlap
  <2>2. last \in 0..(BYTE - 1) /\ out[n + 1] \in Nat
    <3>1. BYTES \in 1..BYTES /\ 1 \in 1..BYTES /\ HasWord(out, n)
      BY <1>1, <1>5, <1>7 DEF HasWord
    <3> QED BY <1>1, <1>5, <1>7, <3>1, FileBytes
  <2> HIDE DEF last
  <2>3. code \in 0..(WORD - 1) /\ code \in Nat
    <3>1. code \in e.low..e.high /\ e.low \in Nat /\ e.high \in 0..(WORD - 1)
      BY <1>5, EntryType DEF Follows
    <3> QED BY <3>1, WordType
  <2>4. TOP \in Nat \ {0} /\ rest \in Nat
    BY WordsOK
  <2>5. code % TOP = rest
    <3>1. code = TOP * out[n + 1] + rest
      <4> DEFINE first == out[n + 1]
      <4>1. code = first * TOP + rest /\ first \in Nat
        BY <1>5, <2>1, <2>2
      <4> HIDE DEF first
      <4>2. code = TOP * first + rest
        BY <2>4, <4>1, SMTT(30)
      <4> QED BY <4>2 DEF first
    <3> QED BY <2>2, <2>3, <2>4, <3>1, DivisionIsUnique
  <2>6. code' = (code % TOP) * BYTE + last
    BY <1>1, <1>8, <2>2, <2>3, ShiftedWord DEF last
  <2> QED BY <2>1, <2>5, <2>6
<1>10. IsAt(f)'
  <2>1. pos' = f.bytes + BYTES
    BY <1>1, <1>5, <1>6, <1>7
  <2>2. code' = WordAfter(out', f.bytes)
    BY <1>1, <1>6, <1>9
  <2> QED BY <1>5, <1>6, <2>1, <2>2, NextIsAt
<1>11. Decoding'
  <2>1. IsAt(trail[k + 1])'
    BY <1>10 DEF f
  <2>2. \A i \in 1..Len(decided') : decided'[i] = asked[i].bit
    BY <1>1, <1>3
  <2> QED BY <1>1, <1>3, <1>5, <2>1, <2>2, DecoderMoves
<1> QED BY <1>1, <1>11 DEF Kept

(* An interval that can be divided, with all bits decided, is the last.    *)
LEMMA CloseKept ==
  ASSUME RangeInv, RangeInv', Kept, Close
  PROVE  Kept'
<1>1. /\ mode = "decode" /\ mode' = "done" /\ out' = out /\ asked' = asked
      /\ decided' = decided /\ code' = code /\ pos' = pos /\ low' = low /\ high' = high
      /\ ~SharesTopByte /\ Len(decided) = Len(asked) /\ Len(asked) \in Nat /\ out \in File
  BY DEF Kept, Close, RangeInv, Asked
<1>2. PICK trail : \E k \in 1..Len(trail) : DecoderIsIn(trail, k)
  BY <1>1, DecoderPlace
<1>3. PICK k \in 1..Len(trail) : DecoderIsIn(trail, k)
  BY <1>2
<1> USE <1>3 DEF DecoderIsIn
<1>4. k = Len(trail)
  BY <1>1, <1>3 DEF Narrows, Shifts
<1>5. IsAt(trail[k])'
  <2> DEFINE e == trail[k]
  <2>1. IsAt(e)
    BY <1>3
  <2> HIDE DEF e
  <2>2. IsAt(e)'
    BY <1>1, <2>1 DEF IsAt, Current
  <2> QED BY <2>2 DEF e
<1>6. Decoding'
  BY <1>1, <1>3, <1>4, <1>5 DEF Decoding
<1> QED BY <1>1, <1>6 DEF Kept

LEMMA NextKept == RangeInv /\ RangeInv' /\ Kept /\ [RangeNext]_range_vars => Kept'
<1> SUFFICES ASSUME RangeInv, RangeInv', Kept, [RangeNext]_range_vars PROVE Kept'
  OBVIOUS
<1>1. CASE UNCHANGED range_vars
  BY <1>1 DEF range_vars, Kept, Encoding, Decoding, IsAt, Current
<1>2. ASSUME NEW prob \in Probs, NEW truth \in {0, 1}, Encode(prob, truth) PROVE Kept'
  BY <1>2, EncodeKept
<1> QED
  BY <1>1, <1>2, EmitByteKept, FinishKept, OpenKept, DecodeKept, NextByteKept, CloseKept DEF RangeNext

LEMMA KeptSuffices == RangeInv /\ Kept => DecodedIsEncoded /\ NothingIsMadeUp
<1> SUFFICES ASSUME RangeInv, Kept PROVE DecodedIsEncoded /\ NothingIsMadeUp
  OBVIOUS
<1>1. decided \in Seq({0, 1}) /\ DOMAIN decided = 1..Len(decided) /\ Len(decided) \in Nat
  BY DEF RangeInv
<1>2. CASE mode \in {"encode", "open"}
  BY <1>2 DEF Kept, DecodedIsEncoded, NothingIsMadeUp
<1>3. CASE mode \in {"decode", "done"}
  <2>1. PICK trail :
          /\ IsWhole(trail, asked, out)
          /\ \E k \in 1..Len(trail) :
               /\ IsAt(trail[k])
               /\ \A i \in 1..Len(decided) : decided[i] = asked[i].bit
               /\ mode = "done" => k = Len(trail)
    BY <1>3 DEF Kept, Decoding
  <2>2. PICK k \in 1..Len(trail) :
               /\ IsAt(trail[k])
               /\ \A i \in 1..Len(decided) : decided[i] = asked[i].bit
               /\ mode = "done" => k = Len(trail)
    BY <2>1
  <2>3. pos = trail[k].bytes + BYTES /\ trail[k] = Current(trail[k].bytes, Len(decided))
    BY <2>2 DEF IsAt
  <2>4. trail[k].bits = Len(decided)
    <3> DEFINE e == trail[k]
    <3>1. e = Current(e.bytes, Len(decided))
      BY <2>3
    <3> HIDE DEF e
    <3>2. e.bits = Len(decided)
      <4>1. Current(e.bytes, Len(decided)).bits = Len(decided)
        BY DEF Current
      <4> QED BY <3>1, <4>1
    <3> QED BY <3>2 DEF e
  <2>5. pos <= Len(out)
    BY <2>1, <2>2, <2>3 DEF IsWhole, Follows, HasWord
  <2>6. mode = "done" => pos = Len(out) /\ Len(decided) = Len(asked)
    BY <2>1, <2>2, <2>3, <2>4 DEF IsWhole
  <2> QED BY <1>1, <2>2, <2>5, <2>6 DEF DecodedIsEncoded, NothingIsMadeUp
<1> QED BY <1>2, <1>3 DEF Kept

LEMMA CoderIsKept == RangeSpec => []RangeInv /\ []Kept
<1>1. RangeSpec => []RangeInv
  BY RangeInitEstablishes, RangeNextKeeps, PTL DEF RangeSpec
<1>2. QED
  BY <1>1, InitKept, NextKept, PTL DEF RangeSpec

(***************************************************************************)
(* The decoder returns the bits that were encoded, for bytes and words of  *)
(* any size, any probabilities and any number of bits.                     *)
(***************************************************************************)
THEOREM DecoderReturnsTheBits == RangeSpec => []DecodedIsEncoded
  BY CoderIsKept, KeptSuffices, PTL

(***************************************************************************)
(* The decoder reads every byte that was written and needs no other.       *)
(***************************************************************************)
THEOREM DecoderReadsTheBytes == RangeSpec => []NothingIsMadeUp
  BY CoderIsKept, KeptSuffices, PTL

-----------------------------------------------------------------------------
(* Where things are                                                        *)

(* The number of a place that is at x, z and y, with a side each of x and z. *)
Number(x, z, y, side) == x + side * (z + side * y)

(* It is a natural number. *)
LEMMA NumberType ==
  ASSUME NEW side \in Nat \ {0}, NEW x \in Nat, NEW z \in Nat, NEW y \in Nat
  PROVE  Number(x, z, y, side) \in Nat
<1>1. side * y \in Nat
  BY ProductType
<1>2. side * (z + side * y) \in Nat
  BY <1>1, ProductType
<1> QED BY <1>2 DEF Number

(* Numbers go along x, then z, then y, and back. *)
LEMMA AlongNumber ==
  ASSUME NEW side \in Nat \ {0}, NEW x \in 0..(side - 1), NEW z \in 0..(side - 1), NEW y \in Nat
  PROVE  Along(Number(x, z, y, side), side) = [x |-> x, z |-> z, y |-> y]
<1> DEFINE u == z + side * y
           n == x + side * u
<1>1. side * y \in Nat /\ u \in Nat
  BY ProductType
<1>2. side * u \in Nat /\ n \in Nat
  BY <1>1, ProductType
<1>3. n = side * u + x /\ u = side * y + z
  BY <1>1, <1>2
<1> HIDE DEF n, u
<1>4. n \div side = u /\ n % side = x
  BY <1>1, <1>2, <1>3, DivisionIsUnique
<1>5. u \div side = y /\ u % side = z
  BY <1>1, <1>3, DivisionIsUnique
<1>6. n \div (side * side) = y
  <2>1. side * side \in Nat \ {0}
    BY SMTT(30)
  <2>2. side * u = (side * side) * y + side * z
    BY <1>1, <1>3, SMTT(30)
  <2> DEFINE r == side * z + x
  <2>3. side * z \in Nat /\ side * z <= side * (side - 1) /\ side * (side - 1) = side * side - side
    BY SMTT(30)
  <2>4. r \in 0..(side * side - 1)
    BY <2>1, <2>3
  <2>5. n = (side * side) * y + r
    BY <1>1, <1>2, <1>3, <2>1, <2>2, <2>3, SMTT(30)
  <2> QED BY <1>2, <2>1, <2>4, <2>5, DivisionIsUnique
<1> QED BY <1>4, <1>5, <1>6 DEF Along, Number, n, u

(* Every number is that of a place. *)
LEMMA NumberOfAlong ==
  ASSUME NEW side \in Nat \ {0}, NEW n \in Nat
  PROVE  /\ Along(n, side).x \in 0..(side - 1)
         /\ Along(n, side).z \in 0..(side - 1)
         /\ Along(n, side).y \in Nat
         /\ n = Number(Along(n, side).x, Along(n, side).z, Along(n, side).y, side)
<1> DEFINE u == n \div side
           x == n % side
           z == u % side
           y == u \div side
<1>1. u \in Nat /\ x \in 0..(side - 1) /\ n = side * u + x
  BY Division
<1>2. y \in Nat /\ z \in 0..(side - 1) /\ u = side * y + z
  BY <1>1, Division
<1> HIDE DEF u, x, y, z
<1>3. side * y \in Nat /\ u = z + side * y
  BY <1>2, ProductType
<1>4. n = Number(x, z, y, side)
  BY <1>1, <1>3 DEF Number
<1>5. Along(Number(x, z, y, side), side) = [x |-> x, z |-> z, y |-> y]
  BY <1>1, <1>2, AlongNumber
<1>6. Along(n, side) = [x |-> x, z |-> z, y |-> y]
  BY <1>4, <1>5
<1> QED BY <1>1, <1>2, <1>4, <1>6

(* Numbers are ordered as their places are: first by y, then by z.         *)
LEMMA NumberOrder ==
  ASSUME NEW side \in Nat \ {0},
         NEW x \in 0..(side - 1), NEW z \in 0..(side - 1), NEW y \in Nat,
         NEW u \in 0..(side - 1), NEW w \in 0..(side - 1), NEW v \in Nat
  PROVE  /\ y < v => Number(x, z, y, side) < Number(u, w, v, side)
         /\ y = v /\ z < w => Number(x, z, y, side) < Number(u, w, v, side)
         /\ y = v /\ z = w /\ x < u => Number(x, z, y, side) < Number(u, w, v, side)
<1> DEFINE a == z + side * y
           b == w + side * v
<1>1. side * y \in Nat /\ side * v \in Nat /\ a \in Nat /\ b \in Nat
  BY ProductType
<1>2. ASSUME NEW p \in Nat, NEW q \in Nat, p < q
      PROVE  side * p + side <= side * q
  BY <1>2, SMTT(30)
<1>3. y < v => a < b
  BY <1>1, <1>2
<1>4. y = v /\ z < w => a < b
  BY <1>1
<1>5. side * a \in Nat /\ side * b \in Nat
  BY <1>1, ProductType
<1> HIDE DEF a, b
<1>6. a < b => x + side * a < u + side * b
  BY <1>1, <1>2, <1>5
<1>7. y = v /\ z = w => a = b
  BY DEF a, b
<1>8. a = b /\ x < u => x + side * a < u + side * b
  BY <1>5
<1> QED BY <1>3, <1>4, <1>6, <1>7, <1>8 DEF Number, a, b

(* Numbers below side * side * n are those of the first n layers. *)
LEMMA NumberRange ==
  ASSUME NEW side \in Nat \ {0}, NEW n \in Nat \ {0},
         NEW x \in 0..(side - 1), NEW z \in 0..(side - 1), NEW y \in Nat
  PROVE  /\ Number(x, z, y, side) \in Nat
         /\ side * side * n \in Nat
         /\ y < n <=> Number(x, z, y, side) \in 0..(side * side * n - 1)
<1>1. Number(x, z, y, side) \in Nat
  BY NumberType
<1>2. Number(0, 0, n, side) = side * side * n /\ side * side * n \in Nat
  <2>1. side * n \in Nat /\ side * (side * n) \in Nat
    BY ProductType
  <2>2. side * (side * n) = side * side * n
    BY SMTT(30)
  <2> QED BY <2>1, <2>2 DEF Number
<1>3. y < n => Number(x, z, y, side) < side * side * n
  BY <1>2, NumberOrder
<1>4. n < y => side * side * n < Number(x, z, y, side)
  BY <1>2, NumberOrder
<1>5. n = y => side * side * n <= Number(x, z, y, side)
  <2>1. side * n \in Nat
    BY ProductType
  <2>2. side * (side * n) \in Nat /\ side * (z + side * n) = side * z + side * (side * n) /\ side * z \in Nat
    BY <2>1, SMTT(30)
  <2>3. side * side * n = side * (side * n)
    BY SMTT(30)
  <2> QED BY <2>2, <2>3 DEF Number
<1> QED BY <1>1, <1>2, <1>3, <1>4, <1>5

(* The assumptions, in the form the proofs use. *)
LEMMA SidesType ==
  /\ SECTION_SIDE \in Nat \ {0} /\ SEGMENT_SIDE \in Nat \ {0} /\ SectionCount \in Nat \ {0}
  /\ SIDE \in Nat \ {0} /\ SIDE = SEGMENT_SIDE * SECTION_SIDE
  /\ SECTION_SIDE * SectionCount \in Nat \ {0}
  /\ Voxels = 0..(SIDE * SIDE * (SECTION_SIDE * SectionCount) - 1)
<1>1. SECTION_SIDE \in Nat \ {0} /\ SEGMENT_SIDE \in Nat \ {0} /\ SectionCount \in Nat \ {0}
  BY ParametersOK
<1>2. \A m, n \in Nat \ {0} : m * n \in Nat \ {0}
  BY SMTT(30)
<1>3. SIDE \in Nat \ {0} /\ SIDE = SEGMENT_SIDE * SECTION_SIDE /\ SECTION_SIDE * SectionCount \in Nat \ {0}
  BY <1>1, <1>2 DEF SIDE
<1>4. \A a, b, c \in Nat : a * b * c = a * (b * c)
  BY SMTT(30)
<1>5. SIDE * SIDE \in Nat
  BY <1>2, <1>3
<1>6. Y_STRIDE * SECTION_SIDE * SectionCount = SIDE * SIDE * (SECTION_SIDE * SectionCount)
  BY <1>1, <1>4, <1>5 DEF Y_STRIDE
<1> QED BY <1>1, <1>3, <1>6 DEF Voxels

(* The number of the cell of a section, and of the section of a cell, at the *)
(* place x, z, y of the grid.                                              *)
SectionNumber(x, z, y) ==
  Number(x \div SECTION_SIDE, z \div SECTION_SIDE, y \div SECTION_SIDE, SEGMENT_SIDE)

CellNumber(x, z, y) ==
  Number(x % SECTION_SIDE, z % SECTION_SIDE, y % SECTION_SIDE, SECTION_SIDE)

InGrid(x, z, y) ==
  /\ x \in 0..(SIDE - 1)
  /\ z \in 0..(SIDE - 1)
  /\ y \in 0..(SECTION_SIDE * SectionCount - 1)

(* Quotients and remainders of the sections' sides. *)
LEMMA SideParts ==
  ASSUME NEW n \in Nat \ {0}, NEW x \in 0..(n * SECTION_SIDE - 1)
  PROVE  /\ x \div SECTION_SIDE \in 0..(n - 1)
         /\ x % SECTION_SIDE \in 0..(SECTION_SIDE - 1)
         /\ x = SECTION_SIDE * (x \div SECTION_SIDE) + (x % SECTION_SIDE)
<1> DEFINE q == x \div SECTION_SIDE
           r == x % SECTION_SIDE
<1>1. SECTION_SIDE \in Nat \ {0} /\ n * SECTION_SIDE \in Nat /\ x \in Nat
  BY SidesType, ProductType
<1>2. q \in Nat /\ r \in 0..(SECTION_SIDE - 1) /\ x = SECTION_SIDE * q + r
  BY <1>1, Division
<1> HIDE DEF q, r
<1>3. q < n
  <2>1. SUFFICES ASSUME n <= q PROVE FALSE
    BY <1>2
  <2>2. n * SECTION_SIDE <= SECTION_SIDE * q
    BY <1>1, <1>2, <2>1, SMTT(30)
  <2>3. SECTION_SIDE * q \in Nat
    BY <1>1, <1>2, ProductType
  <2> QED BY <1>1, <1>2, <2>2, <2>3
<1> QED BY <1>2, <1>3 DEF q, r

(* And put together again. *)
LEMMA PartsSide ==
  ASSUME NEW n \in Nat \ {0}, NEW q \in 0..(n - 1), NEW r \in 0..(SECTION_SIDE - 1)
  PROVE  /\ q * SECTION_SIDE + r \in 0..(n * SECTION_SIDE - 1)
         /\ (q * SECTION_SIDE + r) \div SECTION_SIDE = q
         /\ (q * SECTION_SIDE + r) % SECTION_SIDE = r
<1>1. SECTION_SIDE \in Nat \ {0} /\ n * SECTION_SIDE \in Nat /\ q * SECTION_SIDE \in Nat
  BY SidesType, ProductType
<1>2. q * SECTION_SIDE + SECTION_SIDE <= n * SECTION_SIDE
  BY <1>1, SMTT(30)
<1>3. q * SECTION_SIDE = SECTION_SIDE * q
  BY <1>1, SMTT(30)
<1>4. q * SECTION_SIDE + r \in Nat
  BY <1>1
<1> QED BY <1>1, <1>2, <1>3, <1>4, DivisionIsUnique

(* The voxel at a place. *)
LEMMA VoxelsArePlaces ==
  ASSUME NEW x, NEW z, NEW y, InGrid(x, z, y)
  PROVE  /\ Number(x, z, y, SIDE) \in Voxels
         /\ SectionOfVoxel(Number(x, z, y, SIDE)) = SectionNumber(x, z, y)
         /\ CellOfVoxel(Number(x, z, y, SIDE)) = CellNumber(x, z, y)
<1> DEFINE v == Number(x, z, y, SIDE)
<1>1. SIDE \in Nat \ {0} /\ x \in 0..(SIDE - 1) /\ z \in 0..(SIDE - 1) /\ y \in Nat
      /\ y < SECTION_SIDE * SectionCount /\ SECTION_SIDE * SectionCount \in Nat \ {0}
  BY SidesType DEF InGrid
<1>2. v \in Voxels
  BY <1>1, SidesType, NumberRange
<1>3. Along(v, SIDE) = [x |-> x, z |-> z, y |-> y]
  BY <1>1, AlongNumber
<1> HIDE DEF v
<1>4. v % SIDE = x /\ (v \div SIDE) % SIDE = z /\ v \div (SIDE * SIDE) = y
  BY <1>3 DEF Along
<1>5. SectionOfVoxel(v) = SectionNumber(x, z, y)
  BY <1>4 DEF SectionOfVoxel, SectionNumber, Number, Z_STRIDE, Y_STRIDE
<1>6. CellOfVoxel(v) = CellNumber(x, z, y)
  BY <1>4 DEF CellOfVoxel, CellNumber, Number, Z_STRIDE, Y_STRIDE
<1> QED BY <1>2, <1>5, <1>6 DEF v

(* Every voxel is at one. *)
LEMMA PlacesOfVoxels ==
  ASSUME NEW v \in Voxels
  PROVE  \E x, z, y : InGrid(x, z, y) /\ v = Number(x, z, y, SIDE)
<1> DEFINE a == Along(v, SIDE)
<1>1. SIDE \in Nat \ {0} /\ SECTION_SIDE * SectionCount \in Nat \ {0} /\ SIDE * SIDE * (SECTION_SIDE * SectionCount) \in Nat
      /\ v \in 0..(SIDE * SIDE * (SECTION_SIDE * SectionCount) - 1)
  BY SidesType, NumberRange
<1>2. v \in Nat
  BY <1>1
<1>3. /\ a.x \in 0..(SIDE - 1) /\ a.z \in 0..(SIDE - 1) /\ a.y \in Nat
      /\ v = Number(a.x, a.z, a.y, SIDE)
  BY <1>1, <1>2, NumberOfAlong
<1> HIDE DEF a
<1>4. a.y < SECTION_SIDE * SectionCount
  BY <1>1, <1>3, NumberRange
<1> QED BY <1>1, <1>3, <1>4 DEF InGrid

(* The place of a section's cell. *)
PlaceX(section, cell) ==
  Along(section, SEGMENT_SIDE).x * SECTION_SIDE + Along(cell, SECTION_SIDE).x
PlaceZ(section, cell) ==
  Along(section, SEGMENT_SIDE).z * SECTION_SIDE + Along(cell, SECTION_SIDE).z
PlaceY(section, cell) ==
  Along(section, SEGMENT_SIDE).y * SECTION_SIDE + Along(cell, SECTION_SIDE).y

(* Where a section is in its segment. *)
LEMMA SectionPlaces ==
  ASSUME NEW s \in Sections
  PROVE  /\ Along(s, SEGMENT_SIDE).x \in 0..(SEGMENT_SIDE - 1)
         /\ Along(s, SEGMENT_SIDE).z \in 0..(SEGMENT_SIDE - 1)
         /\ Along(s, SEGMENT_SIDE).y \in 0..(SectionCount - 1)
         /\ s = Number(Along(s, SEGMENT_SIDE).x, Along(s, SEGMENT_SIDE).z, Along(s, SEGMENT_SIDE).y, SEGMENT_SIDE)
<1> DEFINE a == Along(s, SEGMENT_SIDE)
<1>1. SEGMENT_SIDE \in Nat \ {0} /\ SectionCount \in Nat \ {0}
      /\ SEGMENT_SIDE * SEGMENT_SIDE * SectionCount \in Nat
  BY SidesType, NumberRange
<1>2. s \in Nat /\ s \in 0..(SEGMENT_SIDE * SEGMENT_SIDE * SectionCount - 1)
  BY <1>1 DEF Sections
<1>3. /\ a.x \in 0..(SEGMENT_SIDE - 1) /\ a.z \in 0..(SEGMENT_SIDE - 1) /\ a.y \in Nat
      /\ s = Number(a.x, a.z, a.y, SEGMENT_SIDE)
  BY <1>1, <1>2, NumberOfAlong
<1> HIDE DEF a
<1>4. a.y < SectionCount
  BY <1>1, <1>2, <1>3, NumberRange
<1> QED BY <1>1, <1>3, <1>4 DEF a

(* Where a cell is in its section. *)
LEMMA CellPlaces ==
  ASSUME NEW c \in Cells
  PROVE  /\ Along(c, SECTION_SIDE).x \in 0..(SECTION_SIDE - 1)
         /\ Along(c, SECTION_SIDE).z \in 0..(SECTION_SIDE - 1)
         /\ Along(c, SECTION_SIDE).y \in 0..(SECTION_SIDE - 1)
         /\ c = Number(Along(c, SECTION_SIDE).x, Along(c, SECTION_SIDE).z, Along(c, SECTION_SIDE).y, SECTION_SIDE)
<1> DEFINE a == Along(c, SECTION_SIDE)
<1>1. SECTION_SIDE \in Nat \ {0} /\ SECTION_SIDE * SECTION_SIDE * SECTION_SIDE \in Nat
  BY SidesType, NumberRange
<1>2. c \in Nat /\ c \in 0..(SECTION_SIDE * SECTION_SIDE * SECTION_SIDE - 1)
  BY <1>1 DEF Cells
<1>3. /\ a.x \in 0..(SECTION_SIDE - 1) /\ a.z \in 0..(SECTION_SIDE - 1) /\ a.y \in Nat
      /\ c = Number(a.x, a.z, a.y, SECTION_SIDE)
  BY <1>1, <1>2, NumberOfAlong
<1> HIDE DEF a
<1>4. a.y < SECTION_SIDE
  BY <1>1, <1>2, <1>3, NumberRange
<1> QED BY <1>1, <1>3, <1>4 DEF a

(* The voxel of a section's cell is of that section and that cell. *)
LEMMA VoxelOfCell ==
  ASSUME NEW s \in Sections, NEW c \in Cells
  PROVE  /\ InGrid(PlaceX(s, c), PlaceZ(s, c), PlaceY(s, c))
         /\ VoxelAt(s, c) = Number(PlaceX(s, c), PlaceZ(s, c), PlaceY(s, c), SIDE)
         /\ VoxelAt(s, c) \in Voxels
         /\ SectionOfVoxel(VoxelAt(s, c)) = s
         /\ CellOfVoxel(VoxelAt(s, c)) = c
<1> DEFINE a == Along(s, SEGMENT_SIDE)
           b == Along(c, SECTION_SIDE)
           x == a.x * SECTION_SIDE + b.x
           z == a.z * SECTION_SIDE + b.z
           y == a.y * SECTION_SIDE + b.y
<1>1. /\ a.x \in 0..(SEGMENT_SIDE - 1) /\ a.z \in 0..(SEGMENT_SIDE - 1) /\ a.y \in 0..(SectionCount - 1)
      /\ s = Number(a.x, a.z, a.y, SEGMENT_SIDE)
  BY SectionPlaces
<1>2. /\ b.x \in 0..(SECTION_SIDE - 1) /\ b.z \in 0..(SECTION_SIDE - 1) /\ b.y \in 0..(SECTION_SIDE - 1)
      /\ c = Number(b.x, b.z, b.y, SECTION_SIDE)
  BY CellPlaces
<1>3. PlaceX(s, c) = x /\ PlaceZ(s, c) = z /\ PlaceY(s, c) = y
  BY DEF PlaceX, PlaceZ, PlaceY
<1>4. VoxelAt(s, c) = y * Y_STRIDE + z * Z_STRIDE + a.x * SECTION_SIDE + b.x
  BY DEF VoxelAt
<1> HIDE DEF a, b
<1>5. /\ x \in 0..(SIDE - 1) /\ x \div SECTION_SIDE = a.x /\ x % SECTION_SIDE = b.x
      /\ z \in 0..(SIDE - 1) /\ z \div SECTION_SIDE = a.z /\ z % SECTION_SIDE = b.z
  BY <1>1, <1>2, SidesType, PartsSide
<1>6. y \in 0..(SECTION_SIDE * SectionCount - 1) /\ y \div SECTION_SIDE = a.y /\ y % SECTION_SIDE = b.y
  <2>1. SectionCount * SECTION_SIDE = SECTION_SIDE * SectionCount
    BY SidesType, SMTT(30)
  <2> QED BY <1>1, <1>2, <2>1, SidesType, PartsSide
<1>7. a.x * SECTION_SIDE \in Nat
  BY <1>1, SidesType, ProductType
<1>8. x \in Nat /\ z \in Nat /\ y \in Nat /\ x = a.x * SECTION_SIDE + b.x /\ SIDE \in Nat /\ b.x \in Nat
  BY <1>2, <1>5, <1>6, SidesType
<1> HIDE DEF x, z, y
<1>9. y * Y_STRIDE + z * Z_STRIDE + a.x * SECTION_SIDE + b.x = Number(x, z, y, SIDE)
  <2>1. y * (SIDE * SIDE) + z * SIDE + x = x + SIDE * (z + SIDE * y)
    BY <1>8, SMTT(30)
  <2>2. y * (SIDE * SIDE) \in Nat /\ z * SIDE \in Nat
    BY <1>8, ProductType
  <2> QED BY <1>7, <1>8, <2>1, <2>2 DEF Number, Y_STRIDE, Z_STRIDE
<1>10. VoxelAt(s, c) = Number(x, z, y, SIDE)
  BY <1>4, <1>9
<1>11. InGrid(x, z, y)
  BY <1>5, <1>6 DEF InGrid
<1>12. SectionNumber(x, z, y) = s /\ CellNumber(x, z, y) = c
  BY <1>1, <1>2, <1>5, <1>6 DEF SectionNumber, CellNumber
<1> QED BY <1>3, <1>10, <1>11, <1>12, VoxelsArePlaces

(* The parts of a place's coordinates.                                     *)
LEMMA PlaceParts ==
  ASSUME NEW x, NEW z, NEW y, InGrid(x, z, y)
  PROVE  /\ x \in Nat /\ z \in Nat /\ y \in Nat
         /\ x \div SECTION_SIDE \in 0..(SEGMENT_SIDE - 1) /\ x % SECTION_SIDE \in 0..(SECTION_SIDE - 1)
         /\ x = SECTION_SIDE * (x \div SECTION_SIDE) + (x % SECTION_SIDE)
         /\ z \div SECTION_SIDE \in 0..(SEGMENT_SIDE - 1) /\ z % SECTION_SIDE \in 0..(SECTION_SIDE - 1)
         /\ z = SECTION_SIDE * (z \div SECTION_SIDE) + (z % SECTION_SIDE)
         /\ y \div SECTION_SIDE \in 0..(SectionCount - 1) /\ y % SECTION_SIDE \in 0..(SECTION_SIDE - 1)
         /\ y = SECTION_SIDE * (y \div SECTION_SIDE) + (y % SECTION_SIDE)
<1>1. SectionCount * SECTION_SIDE = SECTION_SIDE * SectionCount
  BY SidesType, SMTT(30)
<1>2. x \in 0..(SEGMENT_SIDE * SECTION_SIDE - 1) /\ z \in 0..(SEGMENT_SIDE * SECTION_SIDE - 1)
      /\ y \in 0..(SectionCount * SECTION_SIDE - 1)
  BY <1>1, SidesType DEF InGrid
<1>3. SEGMENT_SIDE * SECTION_SIDE \in Nat /\ SectionCount * SECTION_SIDE \in Nat
  BY SidesType, ProductType
<1>4. /\ x \div SECTION_SIDE \in 0..(SEGMENT_SIDE - 1) /\ x % SECTION_SIDE \in 0..(SECTION_SIDE - 1)
      /\ x = SECTION_SIDE * (x \div SECTION_SIDE) + (x % SECTION_SIDE)
  BY <1>2, SidesType, SideParts
<1>5. /\ z \div SECTION_SIDE \in 0..(SEGMENT_SIDE - 1) /\ z % SECTION_SIDE \in 0..(SECTION_SIDE - 1)
      /\ z = SECTION_SIDE * (z \div SECTION_SIDE) + (z % SECTION_SIDE)
  BY <1>2, SidesType, SideParts
<1>6. /\ y \div SECTION_SIDE \in 0..(SectionCount - 1) /\ y % SECTION_SIDE \in 0..(SECTION_SIDE - 1)
      /\ y = SECTION_SIDE * (y \div SECTION_SIDE) + (y % SECTION_SIDE)
  BY <1>2, SidesType, SideParts
<1> QED BY <1>2, <1>3, <1>4, <1>5, <1>6

(* And the section and the cell of a voxel have it. *)
LEMMA CellOfAVoxel ==
  ASSUME NEW v \in Voxels
  PROVE  /\ SectionOfVoxel(v) \in Sections
         /\ CellOfVoxel(v) \in Cells
         /\ VoxelAt(SectionOfVoxel(v), CellOfVoxel(v)) = v
<1>1. PICK x, z, y : InGrid(x, z, y) /\ v = Number(x, z, y, SIDE)
  BY PlacesOfVoxels
<1> DEFINE s == SectionNumber(x, z, y)
           c == CellNumber(x, z, y)
           sx == x \div SECTION_SIDE
           sz == z \div SECTION_SIDE
           sy == y \div SECTION_SIDE
           cx == x % SECTION_SIDE
           cz == z % SECTION_SIDE
           cy == y % SECTION_SIDE
<1>2. SectionOfVoxel(v) = s /\ CellOfVoxel(v) = c
  BY <1>1, VoxelsArePlaces
<1>3. /\ sx \in 0..(SEGMENT_SIDE - 1) /\ cx \in 0..(SECTION_SIDE - 1) /\ x = SECTION_SIDE * sx + cx
      /\ sz \in 0..(SEGMENT_SIDE - 1) /\ cz \in 0..(SECTION_SIDE - 1) /\ z = SECTION_SIDE * sz + cz
  BY <1>1, PlaceParts
<1>4. sy \in 0..(SectionCount - 1) /\ cy \in 0..(SECTION_SIDE - 1) /\ y = SECTION_SIDE * sy + cy
  BY <1>1, PlaceParts
<1>5. s = Number(sx, sz, sy, SEGMENT_SIDE) /\ c = Number(cx, cz, cy, SECTION_SIDE)
  BY DEF SectionNumber, CellNumber
<1> HIDE DEF s, c, sx, sz, sy, cx, cz, cy
<1>6. s \in Sections
  <2>1. sy \in Nat /\ sy < SectionCount
    BY <1>4, SidesType
  <2> QED BY <1>3, <1>5, <2>1, SidesType, NumberRange DEF Sections
<1>7. c \in Cells
  <2>1. cy \in Nat /\ cy < SECTION_SIDE
    BY <1>4, SidesType
  <2> QED BY <1>3, <1>5, <2>1, SidesType, NumberRange DEF Cells
<1>8. /\ Along(Number(sx, sz, sy, SEGMENT_SIDE), SEGMENT_SIDE) = [x |-> sx, z |-> sz, y |-> sy]
      /\ Along(Number(cx, cz, cy, SECTION_SIDE), SECTION_SIDE) = [x |-> cx, z |-> cz, y |-> cy]
  BY <1>3, <1>4, SidesType, AlongNumber
<1>9. \A a \in Nat : SECTION_SIDE * a = a * SECTION_SIDE
  BY SidesType, SMTT(30)
<1>10. PlaceX(s, c) = x /\ PlaceZ(s, c) = z /\ PlaceY(s, c) = y
  BY <1>3, <1>4, <1>5, <1>8, <1>9 DEF PlaceX, PlaceZ, PlaceY
<1>11. VoxelAt(s, c) = v
  BY <1>1, <1>6, <1>7, <1>10, VoxelOfCell
<1> QED BY <1>2, <1>6, <1>7, <1>11

-----------------------------------------------------------------------------
(* What was walked before                                                  *)

(* The voxel comes before the cell of the section. *)
Walked(section, cell, v) ==
  \/ SectionOfVoxel(v) < section
  \/ SectionOfVoxel(v) = section /\ CellOfVoxel(v) < cell

(* The next cell, and the next section after the last. *)
LEMMA WalkedOn ==
  ASSUME NEW s \in Sections, NEW c \in Cells, NEW v \in Voxels
  PROVE  /\ Walked(s, c + 1, v) <=> Walked(s, c, v) \/ v = VoxelAt(s, c)
         /\ c + 1 \notin Cells =>
              (Walked(s + 1, 0, v) <=> Walked(s, c, v) \/ v = VoxelAt(s, c))
         /\ Walked(s + 1, 0, v) <=> Walked(s, 0, v) \/ SectionOfVoxel(v) = s
<1>1. s \in Nat /\ c \in Nat /\ SectionOfVoxel(v) \in Nat /\ CellOfVoxel(v) \in Nat
      /\ SectionOfVoxel(v) \in Sections /\ CellOfVoxel(v) \in Cells
  <2>1. SECTION_SIDE * SECTION_SIDE * SECTION_SIDE \in Nat /\ SEGMENT_SIDE * SEGMENT_SIDE * SectionCount \in Nat
    BY SidesType, NumberRange
  <2> QED BY <2>1, CellOfAVoxel DEF Sections, Cells
<1>2. v = VoxelAt(s, c) <=> SectionOfVoxel(v) = s /\ CellOfVoxel(v) = c
  BY VoxelOfCell, CellOfAVoxel
<1>3. c + 1 \notin Cells => \A d \in Cells : d <= c
  <2>1. SECTION_SIDE * SECTION_SIDE * SECTION_SIDE \in Nat
    BY SidesType, NumberRange
  <2> QED BY <2>1 DEF Cells
<1> QED BY <1>1, <1>2, <1>3 DEF Walked

(* All voxels have been walked when there is no section left, and none when *)
(* the walk starts.                                                        *)
LEMMA WalkedAll ==
  ASSUME NEW v \in Voxels, NEW s \in Nat, s \notin Sections
  PROVE  Walked(s, 0, v) /\ ~Walked(0, 0, v)
<1>1. SECTION_SIDE * SECTION_SIDE * SECTION_SIDE \in Nat /\ SEGMENT_SIDE * SEGMENT_SIDE * SectionCount \in Nat
  BY SidesType, NumberRange
<1> QED BY <1>1, CellOfAVoxel DEF Walked, Sections, Cells

(* A place that is not above another in any direction, and not the same,   *)
(* comes before it.                                                        *)
LEMMA BehindIsWalked ==
  ASSUME NEW x, NEW z, NEW y, InGrid(x, z, y),
         NEW u \in Nat, NEW w \in Nat, NEW v \in Nat,
         u <= x, w <= z, v <= y, ~(u = x /\ w = z /\ v = y)
  PROVE  /\ InGrid(u, w, v)
         /\ Walked(SectionNumber(x, z, y), CellNumber(x, z, y), Number(u, w, v, SIDE))
<1> DEFINE sx == x \div SECTION_SIDE
           sz == z \div SECTION_SIDE
           sy == y \div SECTION_SIDE
           cx == x % SECTION_SIDE
           cz == z % SECTION_SIDE
           cy == y % SECTION_SIDE
           tx == u \div SECTION_SIDE
           tz == w \div SECTION_SIDE
           ty == v \div SECTION_SIDE
           dx == u % SECTION_SIDE
           dz == w % SECTION_SIDE
           dy == v % SECTION_SIDE
<1>1. SECTION_SIDE \in Nat \ {0} /\ SEGMENT_SIDE \in Nat \ {0} /\ SIDE \in Nat /\ SECTION_SIDE * SectionCount \in Nat
  BY SidesType
<1>2. InGrid(u, w, v)
  BY <1>1 DEF InGrid
<1>3. /\ x \in Nat /\ z \in Nat /\ y \in Nat
      /\ sx \in 0..(SEGMENT_SIDE - 1) /\ cx \in 0..(SECTION_SIDE - 1) /\ x = SECTION_SIDE * sx + cx
      /\ sz \in 0..(SEGMENT_SIDE - 1) /\ cz \in 0..(SECTION_SIDE - 1) /\ z = SECTION_SIDE * sz + cz
      /\ sy \in 0..(SectionCount - 1) /\ cy \in 0..(SECTION_SIDE - 1) /\ y = SECTION_SIDE * sy + cy
  BY PlaceParts
<1>4. /\ tx \in 0..(SEGMENT_SIDE - 1) /\ dx \in 0..(SECTION_SIDE - 1) /\ u = SECTION_SIDE * tx + dx
      /\ tz \in 0..(SEGMENT_SIDE - 1) /\ dz \in 0..(SECTION_SIDE - 1) /\ w = SECTION_SIDE * tz + dz
      /\ ty \in 0..(SectionCount - 1) /\ dy \in 0..(SECTION_SIDE - 1) /\ v = SECTION_SIDE * ty + dy
  BY <1>2, PlaceParts
<1>5. /\ SectionNumber(x, z, y) = Number(sx, sz, sy, SEGMENT_SIDE)
      /\ CellNumber(x, z, y) = Number(cx, cz, cy, SECTION_SIDE)
      /\ SectionNumber(u, w, v) = Number(tx, tz, ty, SEGMENT_SIDE)
      /\ CellNumber(u, w, v) = Number(dx, dz, dy, SECTION_SIDE)
  BY DEF SectionNumber, CellNumber
<1> HIDE DEF sx, sz, sy, cx, cz, cy, tx, tz, ty, dx, dz, dy
<1>6. ASSUME NEW p \in Nat, NEW q \in Nat, NEW r \in 0..(SECTION_SIDE - 1), NEW t \in 0..(SECTION_SIDE - 1),
             SECTION_SIDE * p + r <= SECTION_SIDE * q + t
      PROVE  p <= q /\ (p = q => r <= t)
  <2>1. SECTION_SIDE * p \in Nat /\ SECTION_SIDE * q \in Nat
    BY <1>1, ProductType
  <2>2. q < p => SECTION_SIDE * q + SECTION_SIDE <= SECTION_SIDE * p
    BY <1>1, SMTT(30)
  <2> QED BY <1>1, <1>6, <2>1, <2>2
<1>7. /\ tx <= sx /\ (tx = sx => dx <= cx)
      /\ tz <= sz /\ (tz = sz => dz <= cz)
      /\ ty <= sy /\ (ty = sy => dy <= cy)
  BY <1>1, <1>3, <1>4, <1>6
<1>8. CASE tx = sx /\ tz = sz /\ ty = sy
  <2>1. ~(dx = cx /\ dz = cz /\ dy = cy)
    BY <1>3, <1>4, <1>8
  <2>2. \/ dy < cy
        \/ dy = cy /\ dz < cz
        \/ dy = cy /\ dz = cz /\ dx < cx
    BY <1>1, <1>3, <1>4, <1>7, <1>8, <2>1
  <2>3. Number(dx, dz, dy, SECTION_SIDE) < Number(cx, cz, cy, SECTION_SIDE)
    <3>1. cy \in Nat /\ dy \in Nat
      BY <1>1, <1>3, <1>4
    <3> QED BY <1>1, <1>3, <1>4, <2>2, <3>1, NumberOrder
  <2> QED BY <1>2, <1>5, <1>8, <2>3, VoxelsArePlaces DEF Walked
<1>9. CASE ~(tx = sx /\ tz = sz /\ ty = sy)
  <2>1. \/ ty < sy
        \/ ty = sy /\ tz < sz
        \/ ty = sy /\ tz = sz /\ tx < sx
    BY <1>1, <1>3, <1>4, <1>7, <1>9, SidesType
  <2>2. Number(tx, tz, ty, SEGMENT_SIDE) < Number(sx, sz, sy, SEGMENT_SIDE)
    <3>1. sy \in Nat /\ ty \in Nat
      BY <1>3, <1>4, SidesType
    <3> QED BY <1>1, <1>3, <1>4, <2>1, <3>1, NumberOrder
  <2> QED BY <1>2, <1>5, <2>2, VoxelsArePlaces DEF Walked
<1> QED BY <1>2, <1>8, <1>9

-----------------------------------------------------------------------------
(* The neighbours of a cell                                                *)

(* The walk is at a cell. *)
AtCell == at.section \in Sections /\ at.cell \in Cells

(* The place of the cell the walk is at. *)
LEMMA PlaceOfHere ==
  ASSUME AtCell
  PROVE  /\ InGrid(X, Z, Y)
         /\ Here = Number(X, Z, Y, SIDE)
         /\ Here \in Voxels
         /\ at.section = SectionNumber(X, Z, Y)
         /\ at.cell = CellNumber(X, Z, Y)
<1>1. /\ X = PlaceX(at.section, at.cell) /\ Z = PlaceZ(at.section, at.cell) /\ Y = PlaceY(at.section, at.cell)
      /\ Here = VoxelAt(at.section, at.cell)
  BY DEF X, Y, Z, PlaceX, PlaceY, PlaceZ, Section, Local, Here
<1>2. InGrid(X, Z, Y) /\ Here = Number(X, Z, Y, SIDE) /\ Here \in Voxels
      /\ SectionOfVoxel(Here) = at.section /\ CellOfVoxel(Here) = at.cell
  BY <1>1, VoxelOfCell DEF AtCell
<1> QED BY <1>2, VoxelsArePlaces

(* Its coordinates in the section, and the section's in the region. *)
LEMMA PartsOfHere ==
  ASSUME AtCell
  PROVE  /\ Local.x \in 0..(SECTION_SIDE - 1) /\ Section.x \in 0..(SEGMENT_SIDE - 1)
         /\ Local.z \in 0..(SECTION_SIDE - 1) /\ Section.z \in 0..(SEGMENT_SIDE - 1)
         /\ Local.y \in 0..(SECTION_SIDE - 1) /\ Section.y \in 0..(SectionCount - 1)
         /\ X = Section.x * SECTION_SIDE + Local.x
         /\ Z = Section.z * SECTION_SIDE + Local.z
         /\ Y = Section.y * SECTION_SIDE + Local.y
         /\ X \div SECTION_SIDE = Section.x /\ X % SECTION_SIDE = Local.x
         /\ Y \div SECTION_SIDE = Section.y /\ Y % SECTION_SIDE = Local.y
<1>1. /\ Local.x \in 0..(SECTION_SIDE - 1) /\ Section.x \in 0..(SEGMENT_SIDE - 1)
      /\ Local.z \in 0..(SECTION_SIDE - 1) /\ Section.z \in 0..(SEGMENT_SIDE - 1)
      /\ Local.y \in 0..(SECTION_SIDE - 1) /\ Section.y \in 0..(SectionCount - 1)
  BY SectionPlaces, CellPlaces DEF AtCell, Local, Section
<1>2. /\ X = Section.x * SECTION_SIDE + Local.x
      /\ Z = Section.z * SECTION_SIDE + Local.z
      /\ Y = Section.y * SECTION_SIDE + Local.y
  BY DEF X, Y, Z
<1> QED BY <1>1, <1>2, SidesType, PartsSide

(* Neighbours lie back along every axis but x, and there only in the layer *)
(* below.                                                                  *)
LEMMA BackType ==
  /\ \A slot \in Slots : Back[slot].x \in -1..2 /\ Back[slot].z \in 0..2 /\ Back[slot].y \in 0..2
  /\ \A slot \in Slots \ East : Back[slot].x >= 0 /\ Back[slot].x + Back[slot].z + Back[slot].y > 0
  /\ \A slot \in East : slot \in Slots /\ Back[slot].x = -1 /\ Back[slot].z \in 0..1 /\ Back[slot].y = 1
BY DEF Back, Slots, East

(* A neighbour is the voxel at the place it lies back. *)
LEMMA NeighborPlace ==
  ASSUME AtCell, NEW slot \in Slots
  PROVE  Neighbor(slot) = Number(X - Back[slot].x, Z - Back[slot].z, Y - Back[slot].y, SIDE)
<1>1. X \in Int /\ Z \in Int /\ Y \in Int /\ SIDE \in Nat
  BY PlaceOfHere, PlaceParts, SidesType
<1>2. Back[slot].x \in Int /\ Back[slot].z \in Int /\ Back[slot].y \in Int
  BY BackType
<1>3. Neighbor(slot) = Number(X, Z, Y, SIDE) - Back[slot].x - Back[slot].y * (SIDE * SIDE) - Back[slot].z * SIDE
  BY PlaceOfHere DEF Neighbor, Y_STRIDE, Z_STRIDE
<1> DEFINE a == Back[slot].x
           b == Back[slot].z
           c == Back[slot].y
<1>4. a \in Int /\ b \in Int /\ c \in Int
  BY <1>2
<1>5. Neighbor(slot) = Number(X, Z, Y, SIDE) - a - c * (SIDE * SIDE) - b * SIDE
  BY <1>3
<1> HIDE DEF a, b, c
<1>6. SIDE * (Z + SIDE * Y) = SIDE * Z + (SIDE * SIDE) * Y
  BY <1>1, SMTT(30)
<1>7. SIDE * ((Z - b) + SIDE * (Y - c)) = SIDE * Z - b * SIDE + (SIDE * SIDE) * Y - c * (SIDE * SIDE)
  BY <1>1, <1>4, SMTT(30)
<1>8. SIDE * Z \in Int /\ b * SIDE \in Int /\ (SIDE * SIDE) * Y \in Int /\ c * (SIDE * SIDE) \in Int
  BY <1>1, <1>4, SMTT(30)
<1>9. Neighbor(slot) = Number(X - a, Z - b, Y - c, SIDE)
  BY <1>1, <1>4, <1>5, <1>6, <1>7, <1>8 DEF Number
<1> QED BY <1>9 DEF a, b, c

(* A place to the east comes before a place above it unless that is at the *)
(* border of the section, above its lowest cells.                          *)
LEMMA EastIsWalked ==
  ASSUME NEW x, NEW z, NEW y, InGrid(x, z, y), NEW w \in Nat, w <= z, y > 0, x + 1 < SIDE,
         x % SECTION_SIDE < SECTION_SIDE - 1 \/ y % SECTION_SIDE = 0
  PROVE  /\ InGrid(x + 1, w, y - 1)
         /\ Walked(SectionNumber(x, z, y), CellNumber(x, z, y), Number(x + 1, w, y - 1, SIDE))
<1> DEFINE u == x + 1
           v == y - 1
           sx == x \div SECTION_SIDE
           sz == z \div SECTION_SIDE
           sy == y \div SECTION_SIDE
           cx == x % SECTION_SIDE
           cz == z % SECTION_SIDE
           cy == y % SECTION_SIDE
           tx == u \div SECTION_SIDE
           tz == w \div SECTION_SIDE
           ty == v \div SECTION_SIDE
           dx == u % SECTION_SIDE
           dz == w % SECTION_SIDE
           dy == v % SECTION_SIDE
<1>1. SECTION_SIDE \in Nat \ {0} /\ SEGMENT_SIDE \in Nat \ {0} /\ SIDE \in Nat /\ SECTION_SIDE * SectionCount \in Nat
  BY SidesType
<1>2. InGrid(u, w, v)
  BY <1>1, PlaceParts DEF InGrid
<1>3. /\ x \in Nat /\ z \in Nat /\ y \in Nat
      /\ sx \in 0..(SEGMENT_SIDE - 1) /\ cx \in 0..(SECTION_SIDE - 1) /\ x = SECTION_SIDE * sx + cx
      /\ sz \in 0..(SEGMENT_SIDE - 1) /\ cz \in 0..(SECTION_SIDE - 1) /\ z = SECTION_SIDE * sz + cz
      /\ sy \in 0..(SectionCount - 1) /\ cy \in 0..(SECTION_SIDE - 1) /\ y = SECTION_SIDE * sy + cy
  BY PlaceParts
<1>4. /\ tx \in 0..(SEGMENT_SIDE - 1) /\ dx \in 0..(SECTION_SIDE - 1) /\ u = SECTION_SIDE * tx + dx
      /\ tz \in 0..(SEGMENT_SIDE - 1) /\ dz \in 0..(SECTION_SIDE - 1) /\ w = SECTION_SIDE * tz + dz
      /\ ty \in 0..(SectionCount - 1) /\ dy \in 0..(SECTION_SIDE - 1) /\ v = SECTION_SIDE * ty + dy
  BY <1>2, PlaceParts
<1>5. /\ SectionNumber(x, z, y) = Number(sx, sz, sy, SEGMENT_SIDE)
      /\ CellNumber(x, z, y) = Number(cx, cz, cy, SECTION_SIDE)
      /\ SectionNumber(u, w, v) = Number(tx, tz, ty, SEGMENT_SIDE)
      /\ CellNumber(u, w, v) = Number(dx, dz, dy, SECTION_SIDE)
  BY DEF SectionNumber, CellNumber
<1>6. u = x + 1 /\ v = y - 1 /\ (cx < SECTION_SIDE - 1 \/ cy = 0)
  OBVIOUS
<1> HIDE DEF u, v, sx, sz, sy, cx, cz, cy, tx, tz, ty, dx, dz, dy
<1>7. ASSUME NEW p \in Nat, NEW q \in Nat, NEW r \in 0..(SECTION_SIDE - 1), NEW t \in 0..(SECTION_SIDE - 1),
             SECTION_SIDE * p + r <= SECTION_SIDE * q + t
      PROVE  p <= q /\ (p = q => r <= t)
  <2>1. SECTION_SIDE * p \in Nat /\ SECTION_SIDE * q \in Nat
    BY <1>1, ProductType
  <2>2. q < p => SECTION_SIDE * q + SECTION_SIDE <= SECTION_SIDE * p
    BY <1>1, SMTT(30)
  <2> QED BY <1>1, <1>7, <2>1, <2>2
<1>8. ty <= sy /\ (ty = sy => dy < cy)
  <2>1. v <= y
    BY <1>3, <1>6
  <2>2. ty <= sy /\ (ty = sy => dy <= cy)
    BY <1>1, <1>3, <1>4, <1>7, <2>1
  <2>3. ty = sy => dy # cy
    BY <1>3, <1>4, <1>6
  <2> QED BY <1>1, <1>3, <1>4, <2>2, <2>3
<1>9. tz <= sz
  BY <1>1, <1>3, <1>4, <1>7
<1>10. ty = sy => tx = sx
  <2>1. SUFFICES ASSUME ty = sy PROVE tx = sx
    OBVIOUS
  <2>2. cx + 1 \in 0..(SECTION_SIDE - 1)
    BY <1>1, <1>3, <1>4, <1>6, <1>8, <2>1
  <2>3. u = SECTION_SIDE * sx + (cx + 1)
    <3>1. SECTION_SIDE * sx \in Nat
      BY <1>1, <1>3, ProductType
    <3> QED BY <1>1, <1>3, <1>6, <3>1
  <2>4. u \in Nat
    BY <1>3, <1>6
  <2>5. sx \in Nat
    BY <1>1, <1>3
  <2> DEFINE e == cx + 1
  <2>6. e \in 0..(SECTION_SIDE - 1) /\ u = SECTION_SIDE * sx + e
    BY <2>2, <2>3
  <2> HIDE DEF e
  <2>7. u \div SECTION_SIDE = sx
    BY <1>1, <2>4, <2>5, <2>6, DivisionIsUnique
  <2> QED BY <2>7 DEF tx
<1>11. CASE ty = sy /\ tz = sz
  <2>1. Number(dx, dz, dy, SECTION_SIDE) < Number(cx, cz, cy, SECTION_SIDE)
    <3>1. cy \in Nat /\ dy \in Nat
      BY <1>1, <1>3, <1>4
    <3> QED BY <1>1, <1>3, <1>4, <1>8, <1>11, <3>1, NumberOrder
  <2> QED BY <1>2, <1>5, <1>10, <1>11, <2>1, VoxelsArePlaces DEF Walked, u, v
<1>12. CASE ~(ty = sy /\ tz = sz)
  <2>1. ty < sy \/ (ty = sy /\ tz < sz)
    BY <1>1, <1>3, <1>4, <1>8, <1>9, <1>12, SidesType
  <2>2. Number(tx, tz, ty, SEGMENT_SIDE) < Number(sx, sz, sy, SEGMENT_SIDE)
    <3>1. sy \in Nat /\ ty \in Nat
      BY <1>3, <1>4, SidesType
    <3> QED BY <1>1, <1>3, <1>4, <2>1, <3>1, NumberOrder
  <2> QED BY <1>2, <1>5, <2>2, VoxelsArePlaces DEF Walked, u, v
<1> QED BY <1>2, <1>11, <1>12 DEF u, v

(* A neighbour that exists is in the grid, and was decoded before.         *)
LEMMA NeighborsAreWalked ==
  ASSUME AtCell, NEW slot \in Slots, Exists(slot)
  PROVE  /\ Neighbor(slot) \in Voxels
         /\ Walked(at.section, at.cell, Neighbor(slot))
<1> DEFINE u == X - Back[slot].x
           w == Z - Back[slot].z
           v == Y - Back[slot].y
<1>1. Neighbor(slot) = Number(u, w, v, SIDE)
  BY NeighborPlace
<1>2. /\ InGrid(X, Z, Y)
      /\ at.section = SectionNumber(X, Z, Y)
      /\ at.cell = CellNumber(X, Z, Y)
      /\ X \in Nat /\ Z \in Nat /\ Y \in Nat
  BY PlaceOfHere, PlaceParts
<1>3. X >= Back[slot].x /\ Y >= Back[slot].y /\ Z >= Back[slot].z /\ (slot \in East => EastCausal)
  BY DEF Exists
<1>4. Back[slot].x \in -1..2 /\ Back[slot].z \in 0..2 /\ Back[slot].y \in 0..2
  BY BackType
<1>5. w \in Nat /\ v \in Nat /\ w <= Z /\ v <= Y
  BY <1>2, <1>3, <1>4
<1>6. CASE slot \in East
  <2>1. Back[slot].x = -1 /\ Back[slot].y = 1
    BY <1>6, BackType
  <2>2. u = X + 1 /\ v = Y - 1
    BY <1>2, <2>1
  <2>3. Y > 0 /\ X + 1 < SIDE /\ (X % SECTION_SIDE < SECTION_SIDE - 1 \/ Y % SECTION_SIDE = 0)
    BY <1>3, <1>6, PartsOfHere DEF EastCausal
  <2> HIDE DEF w
  <2>4. InGrid(X + 1, w, Y - 1) /\ Walked(SectionNumber(X, Z, Y), CellNumber(X, Z, Y), Number(X + 1, w, Y - 1, SIDE))
    BY <1>2, <1>5, <2>3, EastIsWalked
  <2> QED BY <1>1, <1>2, <2>2, <2>4, VoxelsArePlaces
<1>7. CASE slot \notin East
  <2>1. Back[slot].x >= 0 /\ Back[slot].x + Back[slot].z + Back[slot].y > 0
    BY <1>7, BackType
  <2>2. u \in Nat /\ u <= X /\ ~(u = X /\ w = Z /\ v = Y)
    BY <1>2, <1>3, <1>4, <2>1
  <2> HIDE DEF u, v, w
  <2>3. InGrid(u, w, v) /\ Walked(SectionNumber(X, Z, Y), CellNumber(X, Z, Y), Number(u, w, v, SIDE))
    BY <1>2, <1>5, <2>2, BehindIsWalked
  <2> QED BY <1>1, <1>2, <2>3, VoxelsArePlaces
<1> QED BY <1>6, <1>7

(* Where the borders are not looked at, none is near.                      *)
LEMMA FastLooks ==
  ASSUME AtCell, IsFast
  PROVE  \A slot \in Slots :
           Exists(slot) <=> (slot \in East => X + 1 < SIDE /\ (Local.x + 1 < SECTION_SIDE \/ Local.y = 0))
<1>1. /\ X \in Nat /\ Y \in Nat /\ Z \in Nat /\ SIDE \in Nat \ {0} /\ SECTION_SIDE \in Nat \ {0}
      /\ X < SIDE /\ Z < SIDE /\ Y < SECTION_SIDE * SectionCount /\ SECTION_SIDE * SectionCount \in Nat
  BY PlaceOfHere, PlaceParts, SidesType DEF InGrid
<1>2. X >= 2 /\ Y >= 2 /\ Z >= 2
  <2>1. SECTION_SIDE >= 3
    <3>1. Local.x \in 0..(SECTION_SIDE - 1)
      BY PartsOfHere
    <3>2. Local.x >= 2
      BY DEF IsFast
    <3> QED BY <1>1, <3>1, <3>2
  <2>2. \A n \in Nat : n * SECTION_SIDE \in Nat /\ (n > 0 => n * SECTION_SIDE >= SECTION_SIDE)
    BY <1>1, SMTT(30)
  <2>3. Section.x \in Nat /\ Section.y \in Nat /\ Section.z \in Nat
        /\ Local.x \in Nat /\ Local.y \in Nat /\ Local.z \in Nat
    BY PartsOfHere, SidesType
  <2>4. /\ Section.x * SECTION_SIDE \in Nat /\ (Section.x > 0 => Section.x * SECTION_SIDE >= SECTION_SIDE)
        /\ Section.y * SECTION_SIDE \in Nat /\ (Section.y > 0 => Section.y * SECTION_SIDE >= SECTION_SIDE)
        /\ Section.z * SECTION_SIDE \in Nat /\ (Section.z > 0 => Section.z * SECTION_SIDE >= SECTION_SIDE)
    BY <2>2, <2>3
  <2>5. /\ X = Section.x * SECTION_SIDE + Local.x /\ Z = Section.z * SECTION_SIDE + Local.z
        /\ Y = Section.y * SECTION_SIDE + Local.y
    BY PartsOfHere
  <2> QED BY <1>1, <2>1, <2>3, <2>4, <2>5 DEF IsFast, FastRow
<1>3. ASSUME NEW slot \in Slots
      PROVE  Exists(slot) <=> (slot \in East => X + 1 < SIDE /\ (Local.x + 1 < SECTION_SIDE \/ Local.y = 0))
  <2>1. Back[slot].x \in -1..2 /\ Back[slot].z \in 0..2 /\ Back[slot].y \in 0..2
    BY BackType
  <2>2. Local.x \in Int /\ Local.y \in Int
    BY PartsOfHere
  <2> QED BY <1>1, <1>2, <2>1, <2>2 DEF Exists, EastCausal
<1> QED BY <1>3

(* Whatever exists is in the grid: no index panics where the borders are   *)
(* looked at, and none where they are not.                                 *)
LEMMA NothingPanics ==
  ASSUME AtCell, NEW slot \in Slots, Exists(slot)
  PROVE  GridAt(Neighbor(slot)) = Grid[Neighbor(slot)]
BY NeighborsAreWalked DEF GridAt

(* So the fast path finds what the other does. *)
LEMMA FastIsExact ==
  ASSUME AtCell, IsFast
  PROVE  GatherNeighborsFast = GatherNeighbors
BY FastLooks DEF GatherNeighbors, GatherNeighborsFast

(* So the neighbours are those that exist. *)
LEMMA NeighborsAreGathered ==
  ASSUME AtCell
  PROVE  Neighbors = [slot \in Slots |-> IF Exists(slot) THEN Grid[Neighbor(slot)] ELSE NONE]
BY FastIsExact, NothingPanics DEF Neighbors, GatherNeighbors

-----------------------------------------------------------------------------
(* Rankings and palettes                                                   *)

(* The list has every element of the set once. *)
Lists(list, set) ==
  /\ list \in Seq(set)
  /\ Len(list) = Cardinality(set)
  /\ \A i, j \in 1..Len(list) : list[i] = list[j] => i = j
  /\ \A x \in set : \E i \in 1..Len(list) : list[i] = x

(* Every place of an order is taken. *)
LEMMA PlacesTaken ==
  ASSUME NEW S, IsFiniteSet(S), NEW R, Orders(R, S), NEW k \in 1..Cardinality(S)
  PROVE  \E x \in S : Rank(R, S, x) = k - 1
<1>1. Cardinality(S) \in Nat
  BY FS_CardinalityType
<1>2. \A i \in 0..(Cardinality(S) - 1) : \E x \in S : Rank(R, S, x) = i
  BY RanksAreDistinct
<1>3. k - 1 \in 0..(Cardinality(S) - 1)
  BY <1>1
<1> QED BY <1>2, <1>3

(* Sorting by an order lists the set. *)
LEMMA SortedLists ==
  ASSUME NEW S, IsFiniteSet(S), NEW R, Orders(R, S),
         NEW list, list \in [1..Cardinality(S) -> S],
         \A k \in 1..Cardinality(S) : Rank(R, S, list[k]) = k - 1
  PROVE  Lists(list, S)
<1> DEFINE n == Cardinality(S)
<1>1. n \in Nat
  BY FS_CardinalityType
<1>2. list \in [1..n -> S] /\ \A k \in 1..n : Rank(R, S, list[k]) = k - 1
  OBVIOUS
<1> HIDE DEF n
<1>3. list \in Seq(S) /\ Len(list) = n
  BY <1>1, <1>2
<1>4. ASSUME NEW i \in 1..n, NEW j \in 1..n, list[i] = list[j] PROVE i = j
  <2>1. i - 1 = j - 1
    BY <1>2, <1>4
  <2> QED BY <1>1, <2>1
<1>5. ASSUME NEW x \in S PROVE \E i \in 1..n : list[i] = x
  <2>1. Rank(R, S, x) \in 0..(n - 1)
    BY RanksAreDistinct DEF n
  <2> DEFINE i == Rank(R, S, x) + 1
  <2>2. i \in 1..n /\ Rank(R, S, x) = i - 1
    BY <1>1, <2>1
  <2> HIDE DEF i
  <2>3. list[i] \in S /\ Rank(R, S, list[i]) = Rank(R, S, x)
    BY <1>2, <2>2
  <2>4. list[i] = x
    BY <2>3, RanksAreDistinct
  <2> QED BY <2>2, <2>4
<1> QED BY <1>3, <1>4, <1>5 DEF Lists, n

(* There are finitely many cells. *)
LEMMA CellsFinite ==
  IsFiniteSet(Cells) /\ IsFiniteSet(Sections) /\ IsFiniteSet(Sections \X Cells)
<1> DEFINE m == SEGMENT_SIDE * SEGMENT_SIDE * SectionCount
           n == SECTION_SIDE * SECTION_SIDE * SECTION_SIDE
<1>1. m \in Nat /\ n \in Nat
  BY SidesType, NumberRange
<1>2. Sections = 0..(m - 1) /\ Cells = 0..(n - 1)
  BY DEF Sections, Cells
<1> HIDE DEF m, n
<1>3. IsFiniteSet(Cells) /\ IsFiniteSet(Sections)
  BY <1>1, <1>2, FS_Interval
<1> QED BY <1>3, FS_Product

(* What a region holds. *)
LEMMA ContentsType ==
  ASSUME region \in Regions, NEW s \in Sections, NEW c \in Cells
  PROVE  Contents(s, c) \in Nat /\ Contents(s, c) \in Atoms
<1>1. region \in [Sections -> {Absent} \cup [Cells -> Nat]]
  BY ParametersOK
<1>2. <<s, c>> \in Sections \X Cells /\ Contents(<<s, c>>[1], <<s, c>>[2]) = Contents(s, c)
  OBVIOUS
<1>3. Contents(s, c) \in Atoms
  BY <1>2 DEF Atoms
<1>4. Contents(s, c) \in Nat
  <2>1. CASE region[s] = Absent
    BY <2>1 DEF Contents
  <2>2. CASE region[s] # Absent
    <3>1. region[s] \in [Cells -> Nat]
      BY <1>1, <2>2
    <3> QED BY <2>2, <3>1 DEF Contents
  <2> QED BY <2>1, <2>2
<1> QED BY <1>3, <1>4

(* The atoms of a region are finitely many numbers. *)
LEMMA AtomsType ==
  ASSUME region \in Regions
  PROVE  Atoms \in SUBSET Nat /\ IsFiniteSet(Atoms)
<1> DEFINE S == Sections \X Cells
           f == [p \in S |-> Contents(p[1], p[2])]
<1>1. \A p \in S : p[1] \in Sections /\ p[2] \in Cells
  OBVIOUS
<1>2. Atoms \in SUBSET Nat
  BY <1>1, ContentsType DEF Atoms
<1>3. IsFiniteSet(S)
  BY CellsFinite
<1>4. f \in Surjection(S, Atoms)
  <2>1. f \in [S -> Atoms]
    BY <1>1, ContentsType
  <2>2. \A a \in Atoms : \E p \in S : f[p] = a
    BY DEF Atoms
  <2> HIDE DEF f, S
  <2> QED BY <2>1, <2>2 DEF Surjection
<1> HIDE DEF f, S
<1> QED BY <1>2, <1>3, <1>4, FS_Surjection

(* build_ranking lists the atoms. *)
LEMMA RankingLists ==
  ASSUME region \in Regions
  PROVE  Lists(Ranking, Atoms)
<1> DEFINE f == [atom \in Atoms |-> Frequency(atom)]
           R == {p \in Atoms \X Atoms :
                   f[p[1]] > f[p[2]] \/ (f[p[1]] = f[p[2]] /\ p[1] < p[2])}
<1>1. Atoms \in SUBSET Nat /\ IsFiniteSet(Atoms)
  BY AtomsType
<1>2. \A a \in Atoms : f[a] \in Nat
  <2>1. ASSUME NEW a \in Atoms PROVE Frequency(a) \in Nat
    <3> DEFINE T == {p \in Sections \X Cells : Contents(p[1], p[2]) = a}
    <3>1. IsFiniteSet(Sections \X Cells)
      BY CellsFinite
    <3>2. T \in SUBSET (Sections \X Cells)
      OBVIOUS
    <3>3. Frequency(a) = Cardinality(T)
      BY DEF Frequency
    <3> HIDE DEF T
    <3> QED BY <3>1, <3>2, <3>3, FS_Subset, FS_CardinalityType
  <2> QED BY <2>1
<1>3. \A x, y \in Atoms : <<x, y>> \in R <=> f[x] > f[y] \/ (f[x] = f[y] /\ x < y)
  OBVIOUS
<1> HIDE DEF f
<1>4. Orders(R, Atoms)
  BY <1>1, <1>2, <1>3 DEF Orders
<1> DEFINE Below(x) == {y \in Atoms : f[y] > f[x] \/ (f[y] = f[x] /\ y < x)}
           At(k) == CHOOSE x \in Atoms : Cardinality(Below(x)) = k - 1
           list == [k \in 1..Cardinality(Atoms) |-> At(k)]
<1>5. Ranking = list
  BY Zenon DEF Ranking, Sorted, f
<1>6. ASSUME NEW x \in Atoms
      PROVE  Rank(R, Atoms, x) = Cardinality(Below(x))
  <2>1. Below(x) = {y \in Atoms : <<y, x>> \in R}
    BY <1>3
  <2> QED BY <2>1 DEF Rank
<1> HIDE DEF R, Below
<1>7. ASSUME NEW k \in 1..Cardinality(Atoms)
      PROVE  At(k) \in Atoms /\ Rank(R, Atoms, At(k)) = k - 1
  <2>2. \E x \in Atoms : Rank(R, Atoms, x) = k - 1
    BY <1>1, <1>4, PlacesTaken
  <2>3. \E x \in Atoms : Cardinality(Below(x)) = k - 1
    BY <1>6, <2>2
  <2>4. At(k) \in Atoms /\ Cardinality(Below(At(k))) = k - 1
    BY <2>3 DEF At
  <2> QED BY <1>6, <2>4
<1> HIDE DEF At
<1>8. list \in [1..Cardinality(Atoms) -> Atoms] /\ \A k \in 1..Cardinality(Atoms) : Rank(R, Atoms, list[k]) = k - 1
  BY <1>7
<1> HIDE DEF list
<1> QED BY <1>1, <1>4, <1>5, <1>8, SortedLists

(* The rank of an atom is where the ranking has it. *)
LEMMA RankOfListed ==
  ASSUME NEW list, NEW S, IsFiniteSet(S), Lists(list, S), NEW atom \in S
  PROVE  RankOf(list, atom) \in 0..(Len(list) - 1) /\ list[RankOf(list, atom) + 1] = atom
<1> DEFINE r == CHOOSE r \in DOMAIN list : list[r] = atom
<1>1. Len(list) \in Nat /\ DOMAIN list = 1..Len(list)
  BY DEF Lists
<1>2. \E i \in DOMAIN list : list[i] = atom
  BY <1>1 DEF Lists
<1>3. r \in DOMAIN list /\ list[r] = atom
  BY <1>2
<1>4. RankOf(list, atom) = r - 1
  BY <1>2 DEF RankOf
<1> HIDE DEF r
<1> QED BY <1>1, <1>3, <1>4

(* A palette lists the ranks. *)
LEMMA PaletteLists ==
  ASSUME NEW S \in SUBSET Nat, IsFiniteSet(S), NEW T, ranked \in Seq(T)
  PROVE  Lists(SortedPalette(S), S)
<1> DEFINE f == [r \in S |-> RankOf(ranked, r)]
           R == {p \in S \X S :
                   f[p[1]] < f[p[2]] \/ (f[p[1]] = f[p[2]] /\ p[1] < p[2])}
<1>1. \A r \in S : f[r] \in Int
  <2>1. ASSUME NEW r \in S PROVE RankOf(ranked, r) \in Int
    <3>1. DOMAIN ranked \in SUBSET Int
      OBVIOUS
    <3>2. CASE \E i \in DOMAIN ranked : ranked[i] = r
      <4>1. (CHOOSE i \in DOMAIN ranked : ranked[i] = r) \in DOMAIN ranked
        BY <3>2
      <4>2. RankOf(ranked, r) = (CHOOSE i \in DOMAIN ranked : ranked[i] = r) - 1
        BY <3>2 DEF RankOf
      <4> QED BY <3>1, <4>1, <4>2
    <3>3. CASE ~\E i \in DOMAIN ranked : ranked[i] = r
      BY <3>3 DEF RankOf, NONE
    <3> QED BY <3>2, <3>3
  <2> QED BY <2>1
<1>2. \A x, y \in S : <<x, y>> \in R <=> f[x] < f[y] \/ (f[x] = f[y] /\ x < y)
  OBVIOUS
<1> HIDE DEF f
<1>3. Orders(R, S)
  BY <1>1, <1>2 DEF Orders
<1> DEFINE Below(x) == {y \in S : f[y] < f[x] \/ (f[y] = f[x] /\ y < x)}
           At(k) == CHOOSE x \in S : Cardinality(Below(x)) = k - 1
           list == [k \in 1..Cardinality(S) |-> At(k)]
<1>4. SortedPalette(S) = list
  BY Zenon DEF SortedPalette, Sorted, f
<1>5. ASSUME NEW x \in S
      PROVE  Rank(R, S, x) = Cardinality(Below(x))
  <2>1. Below(x) = {y \in S : <<y, x>> \in R}
    BY <1>2
  <2> QED BY <2>1 DEF Rank
<1> HIDE DEF R, Below
<1>6. ASSUME NEW k \in 1..Cardinality(S)
      PROVE  At(k) \in S /\ Rank(R, S, At(k)) = k - 1
  <2>2. \E x \in S : Rank(R, S, x) = k - 1
    BY <1>3, PlacesTaken
  <2>3. \E x \in S : Cardinality(Below(x)) = k - 1
    BY <1>5, <2>2
  <2>4. At(k) \in S /\ Cardinality(Below(At(k))) = k - 1
    BY <2>3 DEF At
  <2> QED BY <1>5, <2>4
<1> HIDE DEF At
<1>7. list \in [1..Cardinality(S) -> S] /\ \A k \in 1..Cardinality(S) : Rank(R, S, list[k]) = k - 1
  BY <1>6
<1> HIDE DEF list
<1> QED BY <1>3, <1>4, <1>7, SortedLists

-----------------------------------------------------------------------------
(* What the encoder builds first                                           *)

(* The ranking and the grid of the region. *)
Built ==
  /\ region \in Regions
  /\ Lists(ranked, Atoms)
  /\ voxels = [v \in Voxels |-> RankOf(ranked, Contents(SectionOfVoxel(v), CellOfVoxel(v)))]

(* Every cell has the rank of its atom. *)
LEMMA BuiltRanks ==
  ASSUME Built, NEW v \in Voxels
  PROVE  /\ voxels[v] \in Nat
         /\ voxels[v] < Len(ranked)
         /\ ranked[voxels[v] + 1] = Contents(SectionOfVoxel(v), CellOfVoxel(v))
<1>1. Contents(SectionOfVoxel(v), CellOfVoxel(v)) \in Atoms
  BY CellOfAVoxel, ContentsType DEF Built
<1>2. Lists(ranked, Atoms) /\ IsFiniteSet(Atoms) /\ Len(ranked) \in Nat
  BY AtomsType DEF Built, Lists
<1>3. voxels[v] = RankOf(ranked, Contents(SectionOfVoxel(v), CellOfVoxel(v)))
  BY DEF Built
<1> QED BY <1>1, <1>2, <1>3, RankOfListed

(* The grid holds ranks. *)
LEMMA BuiltType ==
  ASSUME Built
  PROVE  voxels \in [Voxels -> Nat]
<1>1. \A v \in Voxels : voxels[v] \in Nat
  BY BuiltRanks
<1>2. voxels = [v \in Voxels |-> voxels[v]]
  BY DEF Built
<1> QED BY <1>1, <1>2

(* The ranks of a section, of one to as many as it has cells. *)
LEMMA RanksType ==
  ASSUME Built, NEW s \in Sections
  PROVE  /\ RanksOf(s) \in SUBSET Nat
         /\ IsFiniteSet(RanksOf(s))
         /\ Cardinality(RanksOf(s)) \in 1..Cardinality(Cells)
         /\ Cardinality(Cells) \in 1..(2 ^ 16)
         /\ \A r \in RanksOf(s) : r < Len(ranked)
         /\ \A v \in Voxels : SectionOfVoxel(v) = s => voxels[v] \in RanksOf(s)
<1> DEFINE f == [c \in Cells |-> voxels[VoxelAt(s, c)]]
           n == SECTION_SIDE * SECTION_SIDE * SECTION_SIDE
<1>1. n \in Nat /\ n >= 1 /\ n <= 2 ^ 16
  <2>1. n \in Nat
    BY SidesType, NumberRange
  <2>2. n <= 2 ^ 16
    <3>1. SECTION_SIDE * SECTION_SIDE * SECTION_SIDE <= 2 ^ 16
      BY ParametersOK
    <3> QED BY <3>1
  <2>3. Number(0, 0, 0, SECTION_SIDE) \in 0..(n - 1)
    BY SidesType, NumberRange
  <2> QED BY <2>1, <2>2, <2>3
<1>2. Cells = 0..(n - 1)
  BY DEF Cells
<1>3. IsFiniteSet(Cells) /\ Cardinality(Cells) = n /\ 0 \in Cells
  <2> HIDE DEF n
  <2> QED BY <1>1, <1>2, FS_Interval
<1>4. \A c \in Cells : VoxelAt(s, c) \in Voxels
  BY VoxelOfCell
<1>5. RanksOf(s) \in SUBSET Nat /\ (\A r \in RanksOf(s) : r < Len(ranked))
  BY <1>4, BuiltRanks DEF RanksOf
<1>6. f \in Surjection(Cells, RanksOf(s))
  <2>1. f \in [Cells -> RanksOf(s)]
    BY DEF RanksOf
  <2>2. \A r \in RanksOf(s) : \E c \in Cells : f[c] = r
    BY DEF RanksOf
  <2> HIDE DEF f
  <2> QED BY <2>1, <2>2 DEF Surjection
<1> HIDE DEF f, n
<1>7. IsFiniteSet(RanksOf(s)) /\ Cardinality(RanksOf(s)) <= n
  BY <1>3, <1>6, FS_Surjection
<1>8. RanksOf(s) # {}
  BY <1>3 DEF RanksOf
<1>9. Cardinality(RanksOf(s)) \in Nat /\ Cardinality(RanksOf(s)) # 0
  BY <1>7, <1>8, FS_CardinalityType, FS_EmptySet
<1>10. ASSUME NEW v \in Voxels, SectionOfVoxel(v) = s PROVE voxels[v] \in RanksOf(s)
  <2>1. CellOfVoxel(v) \in Cells /\ VoxelAt(s, CellOfVoxel(v)) = v
    BY <1>10, CellOfAVoxel
  <2> QED BY <2>1 DEF RanksOf
<1>11. Cardinality(RanksOf(s)) \in 1..Cardinality(Cells)
  BY <1>1, <1>3, <1>7, <1>9
<1>12. Cardinality(Cells) \in 1..(2 ^ 16)
  BY <1>1, <1>3
<1> QED BY <1>5, <1>7, <1>10, <1>11, <1>12

(* The fewest bits that number so many things. *)
LEMMA BitDepthType ==
  ASSUME NEW n \in 2..(2 ^ 16)
  PROVE  BitDepth(n) \in 1..16 /\ n <= 2 ^ BitDepth(n)
<1> DEFINE Fit == {b \in 0..16 : Pow(b) >= n}
<1>1. \A b \in 0..16 : Pow(b) \in Nat
  BY PowType
<1>2. n \in Nat /\ n >= 2 /\ n <= Pow(16)
  <2>1. Pow(16) \in Nat /\ Pow(16) = 2 ^ 16
    BY PowType DEF Pow
  <2> QED BY <2>1
<1>3. Fit \in SUBSET Nat /\ Fit # {}
  BY <1>2
<1>4. PICK b \in Fit : \A k \in Fit : b <= k
  BY <1>3, LeastExists
<1>5. b \in 0..16 /\ Pow(b) >= n /\ \A fewer \in 0..(b - 1) : Pow(fewer) < n
  <2>1. b \in 0..16 /\ Pow(b) >= n
    BY <1>4
  <2>2. ASSUME NEW fewer \in 0..(b - 1) PROVE Pow(fewer) < n
    <3>1. fewer \in 0..16 /\ ~(b <= fewer)
      BY <2>1
    <3>2. fewer \notin Fit
      BY <1>4, <3>1
    <3> QED BY <1>1, <1>2, <3>1, <3>2
  <2> QED BY <2>1, <2>2
<1> HIDE DEF Fit
<1>6. \E bits \in 0..16 : 2 ^ bits >= n /\ \A fewer \in 0..(bits - 1) : 2 ^ fewer < n
  BY <1>5 DEF Pow
<1> DEFINE d == BitDepth(n)
<1>7. d \in 0..16 /\ 2 ^ d >= n
  BY <1>6 DEF BitDepth
<1> HIDE DEF d
<1>8. d # 0
  <2>1. d = 0 => 2 ^ d = 1
    BY PowOfZero DEF Pow
  <2> QED BY <1>2, <1>7, <2>1
<1>9. Pow(d) \in Nat /\ Pow(d) = 2 ^ d
  BY <1>1, <1>7 DEF Pow
<1> QED BY <1>2, <1>7, <1>8, <1>9 DEF d

(* Section s is uniform in the header, or the header has its palette. *)
Describes(header, s) ==
  \/ /\ header.bits = 0
     /\ header.palette = <<header.palette[1]>>
     /\ header.palette[1] \in Nat
     /\ header.palette[1] < Len(ranked)
     /\ \A v \in Voxels : SectionOfVoxel(v) = s => voxels[v] = header.palette[1]
  \/ /\ header.bits \in 1..16
     /\ Lists(header.palette, RanksOf(s))
     /\ Len(header.palette) \in 2..Cardinality(Cells)
     /\ Len(header.palette) <= 2 ^ header.bits
     /\ header.bits = BitDepth(Len(header.palette))

(* What the encoder writes for a section describes it.                     *)
LEMMA HeaderDescribes ==
  ASSUME Built, NEW s \in Sections
  PROVE  Describes(Header(s), s)
<1> DEFINE R == RanksOf(s)
<1>1. /\ R \in SUBSET Nat /\ IsFiniteSet(R)
      /\ Cardinality(R) \in 1..Cardinality(Cells) /\ Cardinality(Cells) \in 1..(2 ^ 16)
      /\ \A r \in R : r < Len(ranked)
      /\ \A v \in Voxels : SectionOfVoxel(v) = s => voxels[v] \in R
  BY RanksType
<1>2. CASE region[s] = Absent
  <2>1. Header(s) = [bits |-> 0, palette |-> <<RankOf(ranked, 0)>>]
    BY <1>2 DEF Header, Uniform
  <2>2. \A c \in Cells : Contents(s, c) = 0
    BY <1>2 DEF Contents
  <2>3. ASSUME NEW v \in Voxels, SectionOfVoxel(v) = s PROVE voxels[v] = RankOf(ranked, 0)
    <3>1. voxels[v] = RankOf(ranked, Contents(SectionOfVoxel(v), CellOfVoxel(v)))
      BY DEF Built
    <3> QED BY <2>2, <2>3, <3>1, CellOfAVoxel
  <2>4. RankOf(ranked, 0) \in Nat /\ RankOf(ranked, 0) < Len(ranked)
    <3>1. 0 \in Cells
      <4>1. SECTION_SIDE * SECTION_SIDE * SECTION_SIDE \in Nat /\ Number(0, 0, 0, SECTION_SIDE) \in 0..(SECTION_SIDE * SECTION_SIDE * SECTION_SIDE - 1)
        BY SidesType, NumberRange
      <4> QED BY <4>1 DEF Cells
    <3>2. 0 \in Atoms
      BY <2>2, <3>1, ContentsType DEF Built
    <3>3. Lists(ranked, Atoms) /\ IsFiniteSet(Atoms) /\ Len(ranked) \in Nat
      BY AtomsType DEF Built, Lists
    <3> QED BY <3>2, <3>3, RankOfListed
  <2> QED BY <2>1, <2>3, <2>4 DEF Describes
<1>3. CASE region[s] # Absent /\ Cardinality(R) = 1
  <2> DEFINE r == CHOOSE rank \in R : TRUE
  <2>1. PICK only : R = {only}
    BY <1>1, <1>3, FS_Singleton
  <2>2. r = only
    BY <2>1
  <2>3. Header(s) = [bits |-> 0, palette |-> <<r>>]
    BY <1>3 DEF Header, Uniform
  <2> HIDE DEF r, R
  <2>4. \A v \in Voxels : SectionOfVoxel(v) = s => voxels[v] = r
    BY <1>1, <2>1, <2>2
  <2>5. r \in Nat /\ r < Len(ranked)
    BY <1>1, <2>1, <2>2
  <2> QED BY <2>3, <2>4, <2>5 DEF Describes
<1>4. CASE region[s] # Absent /\ Cardinality(R) # 1
  <2>1. Header(s) = [bits |-> BitDepth(Cardinality(R)), palette |-> SortedPalette(R)]
    BY <1>4 DEF Header
  <2>2. Lists(SortedPalette(R), R)
    <3>1. ranked \in Seq(Atoms)
      BY DEF Built, Lists
    <3> QED BY <1>1, <3>1, PaletteLists
  <2>3. Cardinality(R) \in 2..Cardinality(Cells) /\ Cardinality(R) \in 2..(2 ^ 16)
    <3>1. Pow(16) \in Nat /\ Pow(16) = 2 ^ 16
      BY PowType DEF Pow
    <3> QED BY <1>1, <1>4, <3>1
  <2>4. Len(SortedPalette(R)) = Cardinality(R)
    BY <2>2 DEF Lists
  <2> HIDE DEF R
  <2>5. BitDepth(Cardinality(R)) \in 1..16 /\ Cardinality(R) <= 2 ^ BitDepth(Cardinality(R))
    BY <2>3, BitDepthType
  <2> QED BY <2>1, <2>2, <2>3, <2>4, <2>5 DEF Describes, R
<1> QED BY <1>2, <1>3, <1>4

(* The decoder takes such a header. *)
LEMMA DescribedIsValid ==
  ASSUME Built, NEW s \in Sections, NEW header, Describes(header, s)
  PROVE  HeaderIsValid(header)
<1>1. CASE header.bits = 0
  <2>1. header.palette = <<header.palette[1]>> /\ header.palette[1] < Len(ranked)
    BY <1>1 DEF Describes
  <2>2. DOMAIN header.palette = {1}
    BY <2>1
  <2> QED BY <1>1, <2>1, <2>2 DEF HeaderIsValid
<1>2. CASE header.bits # 0
  <2>1. /\ Lists(header.palette, RanksOf(s))
        /\ Len(header.palette) \in 2..Cardinality(Cells)
        /\ header.bits = BitDepth(Len(header.palette))
    BY <1>2 DEF Describes
  <2>2. \A r \in RanksOf(s) : r < Len(ranked)
    BY RanksType
  <2>3. \A i \in DOMAIN header.palette : header.palette[i] \in RanksOf(s)
    BY <2>1 DEF Lists
  <2> QED BY <2>1, <2>2, <2>3 DEF HeaderIsValid
<1> QED BY <1>1, <1>2

-----------------------------------------------------------------------------
(* The coder inside a section                                              *)

(* The place in the walk. *)
AtType ==
  at \in [section : Nat, cell : Nat, stage : {"section", "head", "candidate", "tree"},
          candidate : Nat, partial : Nat, bit_pos : Int]

(* What is remembered is what was computed for those neighbours in this    *)
(* section, whatever the run was.                                          *)
MemoOfSection ==
  \/ memo = NoMemo
  \/ \E n, r : memo = [valid |-> TRUE,
                       contexts |-> [neighbors |-> n, primary_value |-> SelectPrimaryValue(n), run |-> r,
                                     section_y |-> Section.y, palette_bits |-> PaletteBits]]

(* The walk is at a cell of a section that has a palette. *)
InCell ==
  /\ AtCell
  /\ at.stage \in {"head", "candidate", "tree"}
  /\ Built
  /\ headers[at.section + 1].bits # 0
  /\ Describes(headers[at.section + 1], at.section)
  /\ MemoOfSection

(* The palette numbers the ranks of the section. *)
LEMMA PaletteNumbers ==
  ASSUME InCell
  PROVE  /\ Len(Palette) \in Nat /\ DOMAIN Palette = 1..Len(Palette)
         /\ PaletteBits \in 1..16 /\ Len(Palette) <= 2 ^ PaletteBits
         /\ \A r : IsMember(r) <=> r \in RanksOf(at.section)
         /\ \A r : IsMember(r) => SlotOf(r) \in 0..(Len(Palette) - 1) /\ Palette[SlotOf(r) + 1] = r
         /\ \A p, q : IsMember(p) /\ IsMember(q) /\ SlotOf(p) = SlotOf(q) => p = q
         /\ \A i \in 1..Len(Palette) : IsMember(Palette[i]) /\ SlotOf(Palette[i]) = i - 1
<1>1. /\ Lists(Palette, RanksOf(at.section)) /\ PaletteBits \in 1..16 /\ Len(Palette) <= 2 ^ PaletteBits
  BY DEF InCell, Describes, Palette, PaletteBits
<1>2. Len(Palette) \in Nat /\ DOMAIN Palette = 1..Len(Palette)
  BY <1>1 DEF Lists
<1>3. \A r : IsMember(r) <=> r \in RanksOf(at.section)
  BY <1>1, <1>2 DEF IsMember, Lists
<1>4. ASSUME NEW r, IsMember(r)
      PROVE  SlotOf(r) \in 0..(Len(Palette) - 1) /\ Palette[SlotOf(r) + 1] = r
  <2> DEFINE i == CHOOSE i \in DOMAIN Palette : Palette[i] = r
  <2>1. i \in DOMAIN Palette /\ Palette[i] = r
    BY <1>4 DEF IsMember
  <2>2. SlotOf(r) = i - 1
    BY DEF SlotOf
  <2> HIDE DEF i
  <2> QED BY <1>2, <2>1, <2>2
<1>5. \A p, q : IsMember(p) /\ IsMember(q) /\ SlotOf(p) = SlotOf(q) => p = q
  BY <1>4
<1>6. ASSUME NEW i \in 1..Len(Palette) PROVE IsMember(Palette[i]) /\ SlotOf(Palette[i]) = i - 1
  <2>1. IsMember(Palette[i])
    BY <1>2 DEF IsMember
  <2> DEFINE r == Palette[i]
  <2>2. SlotOf(r) + 1 \in 1..Len(Palette) /\ Palette[SlotOf(r) + 1] = r
    BY <1>2, <1>4, <2>1
  <2>3. SlotOf(r) + 1 = i
    BY <1>1, <2>2 DEF Lists
  <2>4. SlotOf(r) \in Int
    BY <1>2, <1>4, <2>1
  <2> QED BY <2>1, <2>3, <2>4
<1> QED BY <1>1, <1>2, <1>3, <1>4, <1>5, <1>6

(* The cell's rank is one of them.                                         *)
LEMMA TruthIsMember ==
  ASSUME InCell
  PROVE  IsMember(Truth)
<1>1. Truth \in RanksOf(at.section)
  BY DEF Truth, Here, RanksOf, InCell, AtCell
<1> QED BY <1>1, PaletteNumbers

(* A remembered guess is the one that would be computed. *)
LEMMA MemoAnswers ==
  ASSUME InCell, NEW n
  PROVE  Contexts(n) = HeadContexts(n) /\ PrimaryValue(n) = SelectPrimaryValue(n)
<1>1. CASE MemoMatches(n)
  <2>1. memo # NoMemo
    BY <1>1 DEF MemoMatches, NoMemo
  <2>2. PICK r : memo = [valid |-> TRUE,
                         contexts |-> [neighbors |-> n, primary_value |-> SelectPrimaryValue(n), run |-> r,
                                       section_y |-> Section.y, palette_bits |-> PaletteBits]]
    BY <1>1, <2>1 DEF MemoMatches, InCell, MemoOfSection
  <2>3. Contexts(n) = [memo.contexts EXCEPT !.run = run]
    BY <1>1 DEF Contexts, Remembered
  <2>4. Contexts(n) = HeadContexts(n)
    BY <2>2, <2>3 DEF HeadContexts
  <2> QED BY <2>4 DEF PrimaryValue, HeadContexts
<1>2. CASE ~MemoMatches(n)
  BY <1>2 DEF Contexts, PrimaryValue, HeadContexts
<1> QED BY <1>1, <1>2

(* After a guess it is remembered like that, in the same section.          *)
LEMMA MemorizedOfSection ==
  ASSUME InCell
  PROVE  \/ Memorized = NoMemo
         \/ \E n, r : Memorized =
                        [valid |-> TRUE,
                         contexts |-> [neighbors |-> n, primary_value |-> SelectPrimaryValue(n), run |-> r,
                                       section_y |-> Section.y, palette_bits |-> PaletteBits]]
<1>1. CASE MemoMatches(Neighbors)
  BY <1>1 DEF Memorized, InCell, MemoOfSection
<1>2. CASE ~MemoMatches(Neighbors)
  BY <1>2 DEF Memorized, HeadContexts
<1> QED BY <1>1, <1>2

-----------------------------------------------------------------------------
(* Candidates and survivors                                                *)

(* The wrong guess of a cell whose candidates were wrong up to a slot. *)
LEMMA CandidatesType ==
  /\ CandidateSlots \in SUBSET (1..12)
  /\ IsFiniteSet(CandidateSlots)
  /\ \A slot \in CandidateSlots : IsMember(Neighbors[slot]) /\ Neighbors[slot] # PrimaryValue(Neighbors)
  /\ \A s, t \in CandidateSlots : Neighbors[s] = Neighbors[t] => s = t
<1>1. CandidateSlots \in SUBSET (1..12)
  BY DEF CandidateSlots, Slots
<1>2. IsFiniteSet(CandidateSlots)
  <2>1. CandidateSlots \in SUBSET Nat /\ 12 \in Nat /\ \A s \in CandidateSlots : s <= 12
    BY <1>1
  <2> QED BY <2>1, FS_BoundedSetOfNaturals
<1>3. \A slot \in CandidateSlots : IsMember(Neighbors[slot]) /\ Neighbors[slot] # PrimaryValue(Neighbors)
  BY DEF CandidateSlots, IsCandidate
<1>4. ASSUME NEW s \in CandidateSlots, NEW t \in CandidateSlots, Neighbors[s] = Neighbors[t]
      PROVE  s = t
  <2>1. s \in 1..12 /\ t \in 1..12
    BY <1>1
  <2>2. /\ \A earlier \in 1..(s - 1) : Neighbors[earlier] # Neighbors[s]
        /\ \A earlier \in 1..(t - 1) : Neighbors[earlier] # Neighbors[t]
    BY DEF CandidateSlots, IsCandidate
  <2> QED BY <1>4, <2>1, <2>2
<1> QED BY <1>1, <1>2, <1>3, <1>4

(* The least of some slots. *)
LEMMA LeastSlot ==
  ASSUME NEW S \in SUBSET (1..12), S # {}
  PROVE  Min(S) \in S /\ \A t \in S : Min(S) <= t
<1>1. S \in SUBSET Nat
  OBVIOUS
<1>2. \E s \in S : \A t \in S : s <= t
  BY <1>1, LeastExists
<1> QED BY <1>2 DEF Min

(* The lesser of two numbers. *)
LEMMA MinOfTwo ==
  ASSUME NEW a \in Int, NEW b \in Int
  PROVE  Min({a, b}) = IF a <= b THEN a ELSE b
<1>1. \E s \in {a, b} : \A t \in {a, b} : s <= t
  OBVIOUS
<1>2. Min({a, b}) \in {a, b} /\ \A t \in {a, b} : Min({a, b}) <= t
  BY <1>1 DEF Min
<1> QED BY <1>2

(* No two of the values that are excluded have the same slot.              *)
LEMMA ExcludedType ==
  ASSUME InCell
  PROVE  /\ DOMAIN Excluded \in SUBSET (0..12)
         /\ IsFiniteSet(DOMAIN Excluded)
         /\ \A k \in DOMAIN Excluded : Excluded[k] \in 0..(Len(Palette) - 1)
         /\ \A k, l \in DOMAIN Excluded : Excluded[k] = Excluded[l] => k = l
         /\ Truth # PrimaryValue(Neighbors) /\ (\A slot \in CandidateSlots : Neighbors[slot] # Truth)
              => \A k \in DOMAIN Excluded : Excluded[k] # SlotOf(Truth)
<1> DEFINE p == PrimaryValue(Neighbors)
           guess == IF p # NONE /\ IsMember(p) THEN {0} ELSE {}
           value(k) == IF k = 0 THEN p ELSE Neighbors[k]
<1>1. Excluded = [k \in guess \cup CandidateSlots |-> SlotOf(value(k))]
  BY Zenon DEF Excluded
<1>2. DOMAIN Excluded = guess \cup CandidateSlots /\ \A k \in DOMAIN Excluded : Excluded[k] = SlotOf(value(k))
  BY <1>1
<1>3. DOMAIN Excluded \in SUBSET (0..12)
  BY <1>2, CandidatesType
<1>4. IsFiniteSet(DOMAIN Excluded)
  <2>1. DOMAIN Excluded \in SUBSET Nat /\ 12 \in Nat /\ \A s \in DOMAIN Excluded : s <= 12
    BY <1>3
  <2> QED BY <2>1, FS_BoundedSetOfNaturals
<1>5. ASSUME NEW k \in DOMAIN Excluded PROVE IsMember(value(k))
  <2>1. CASE k = 0
    <3>1. 0 \notin CandidateSlots
      BY CandidatesType
    <3>2. IsMember(p)
      BY <1>2, <2>1, <3>1
    <3> QED BY <2>1, <3>2
  <2>2. CASE k # 0
    <3>1. k \in CandidateSlots
      BY <1>2, <2>2
    <3>2. IsMember(Neighbors[k])
      BY <3>1, CandidatesType
    <3> QED BY <2>2, <3>2
  <2> QED BY <2>1, <2>2
<1>6. \A k, l \in DOMAIN Excluded : value(k) = value(l) => k = l
  BY <1>2, CandidatesType
<1>7. Truth # p /\ (\A slot \in CandidateSlots : Neighbors[slot] # Truth) => \A k \in DOMAIN Excluded : value(k) # Truth
  BY <1>2
<1> HIDE DEF p, guess, value
<1>8. \A k \in DOMAIN Excluded : Excluded[k] \in 0..(Len(Palette) - 1)
  BY <1>2, <1>5, PaletteNumbers
<1>9. \A k, l \in DOMAIN Excluded : Excluded[k] = Excluded[l] => k = l
  BY <1>2, <1>5, <1>6, PaletteNumbers
<1>10. Truth # p /\ (\A slot \in CandidateSlots : Neighbors[slot] # Truth)
         => \A k \in DOMAIN Excluded : Excluded[k] # SlotOf(Truth)
  BY <1>2, <1>5, <1>7, PaletteNumbers, TruthIsMember
<1> QED BY <1>3, <1>4, <1>8, <1>9, <1>10 DEF p

(* What is left of a part is not less than nothing, and not nothing where  *)
(* a slot is not excluded.                                                 *)
LEMMA LeftCounts ==
  ASSUME InCell, NEW first \in Int, NEW last \in Int, first <= last
  PROVE  /\ Left(first, last) \in Int
         /\ Left(first, last) >= 0
         /\ \A n \in first..(last - 1) :
              (\A k \in DOMAIN Excluded : Excluded[k] # n) => Left(first, last) > 0
<1> DEFINE D == {k \in DOMAIN Excluded : Excluded[k] \in first..(last - 1)}
           f == [k \in D |-> Excluded[k]]
           T == first..(last - 1)
<1>1. IsFiniteSet(D)
  <2>1. D \in SUBSET DOMAIN Excluded
    OBVIOUS
  <2> HIDE DEF D
  <2> QED BY <2>1, ExcludedType, FS_Subset
<1>2. IsFiniteSet(T) /\ Cardinality(T) = last - first
  <2> DEFINE e == last - 1
  <2>1. e \in Int /\ last - first = IF first > e THEN 0 ELSE e - first + 1
    OBVIOUS
  <2> HIDE DEF e
  <2>2. IsFiniteSet(first..e) /\ Cardinality(first..e) = last - first
    BY <2>1, FS_Interval
  <2> QED BY <2>2 DEF e
<1>3. Left(first, last) = last - first - Cardinality(D)
  BY DEF Left
<1>4. \A k, l \in D : f[k] = f[l] => k = l
  BY ExcludedType
<1>5. ASSUME NEW U \in SUBSET T, \A k \in D : f[k] \in U
      PROVE  Cardinality(D) <= Cardinality(U)
  <2>1. f \in [D -> U]
    BY <1>5
  <2> HIDE DEF D, f, T
  <2>2. f \in Injection(D, U)
    BY <1>4, <2>1, IsInjection
  <2>3. IsFiniteSet(U)
    BY <1>2, <1>5, FS_Subset
  <2> QED BY <2>2, <2>3, FS_Injection
<1>6. Cardinality(D) \in Nat
  BY <1>1, FS_CardinalityType
<1>7. Cardinality(D) <= last - first
  <2>1. \A k \in D : f[k] \in T
    OBVIOUS
  <2> HIDE DEF D, f, T
  <2> QED BY <1>2, <1>5, <2>1
<1>8. ASSUME NEW n \in T, \A k \in DOMAIN Excluded : Excluded[k] # n
      PROVE  Cardinality(D) <= last - first - 1
  <2>1. \A k \in D : f[k] \in T \ {n}
    BY <1>8
  <2> HIDE DEF D, f, T
  <2>2. Cardinality(T \ {n}) = last - first - 1
    BY <1>2, <1>8, FS_RemoveElement
  <2> QED BY <1>5, <2>1, <2>2
<1> HIDE DEF D
<1> QED BY <1>3, <1>6, <1>7, <1>8

-----------------------------------------------------------------------------
(* The coder between and inside cells                                      *)

(* At a section's header *)
Between == at.stage = "section" /\ at.cell = 0 /\ at.partial = 0

(* Before the guess nothing of the value is known. *)
HeadPart == at.stage = "head" => at.partial = 0

(* After a wrong guess, the value is another. *)
WrongPart == at.stage \in {"candidate", "tree"} => Truth # PrimaryValue(Neighbors)

(* The candidates before this one were wrong. *)
ChainPart ==
  at.stage = "candidate" =>
    /\ at.candidate \in CandidateSlots
    /\ \A slot \in CandidateSlots : slot < at.candidate => Neighbors[slot] # Truth
    /\ at.partial = 0
    /\ at.bit_pos = PaletteBits - 1

(* All were, and the tree is at a node with the cell's slot below it.      *)
TreePart ==
  at.stage = "tree" =>
    /\ \A slot \in CandidateSlots : Neighbors[slot] # Truth
    /\ at.bit_pos \in -1..15
    /\ \E m \in Nat : at.partial = 2 ^ (at.bit_pos + 1) * m
    /\ SlotOf(Truth) \in at.partial..(at.partial + 2 ^ (at.bit_pos + 1) - 1)

(* The coder is at a cell, and everything above holds. *)
Inside == InCell /\ HeadPart /\ WrongPart /\ ChainPart /\ TreePart

(* It is where it should be. *)
Good == AtType /\ (Between \/ Inside)

(* The tree goes where the cell's slot is, asked or not.                   *)
LEMMA TreeHalves ==
  ASSUME AtType, Inside, at.stage = "tree", at.bit_pos >= 0
  PROVE  /\ Node \in Nat /\ Node = at.partial + 2 ^ at.bit_pos
         /\ 2 ^ at.bit_pos \in Nat
         /\ at.partial + 2 ^ (at.bit_pos + 1) = Node + 2 ^ at.bit_pos
         /\ Lower >= 0 /\ Upper >= 0
         /\ SlotOf(Truth) \in at.partial..(Hi - 1)
         /\ \A k \in DOMAIN Excluded : Excluded[k] # SlotOf(Truth)
         /\ Lower = 0 => SlotOf(Truth) >= Node
         /\ Upper = 0 => SlotOf(Truth) < Node
         /\ (SlotOf(Truth) \div 2 ^ at.bit_pos) % 2 = IF SlotOf(Truth) >= Node THEN 1 ELSE 0
         /\ \E m \in Nat : at.partial = 2 ^ at.bit_pos * m
         /\ \E m \in Nat : Node = 2 ^ at.bit_pos * m
<1> DEFINE s == SlotOf(Truth)
           b == at.bit_pos
           p == at.partial
           h == Pow(b)
           t == Min({Node, Hi})
<1>1. b \in Nat /\ p \in Nat /\ b \in 0..15
  <2>1. at.bit_pos \in -1..15 /\ at.partial \in Nat
    BY DEF AtType, Inside, TreePart
  <2> QED BY <2>1
<1>2. h \in Nat \ {0} /\ Pow(b + 1) = h + h
  BY <1>1, PowDoubles, PowType
<1>3. Node = p + h /\ Pow(b + 1) = 2 ^ (b + 1) /\ h = 2 ^ b
  BY DEF Node, Pow
<1>4. PICK m \in Nat : p = (h + h) * m
  BY <1>2, <1>3 DEF Inside, TreePart
<1>5. s \in p..(p + (h + h) - 1)
  BY <1>2, <1>3 DEF Inside, TreePart
<1>6. Len(Palette) \in Nat /\ s \in 0..(Len(Palette) - 1)
  BY PaletteNumbers, TruthIsMember DEF Inside
<1>7. Hi = Min({p + (h + h), Len(Palette)})
  BY <1>2, <1>3 DEF Hi
<1>8. \A k \in DOMAIN Excluded : Excluded[k] # s
  BY ExcludedType DEF Inside, WrongPart, TreePart
<1>9. Lower = Left(p, t) /\ Upper = Left(t, Hi)
  BY DEF Lower, Upper
<1> HIDE DEF s, b, p, h, t
<1>10. Hi = IF p + (h + h) <= Len(Palette) THEN p + (h + h) ELSE Len(Palette)
  BY <1>1, <1>2, <1>6, <1>7, MinOfTwo
<1>11. Hi \in Int /\ s < Hi /\ s \in Int /\ p <= s
  BY <1>1, <1>2, <1>5, <1>6, <1>10
<1>12. t = IF Node <= Hi THEN Node ELSE Hi
  BY <1>1, <1>2, <1>3, <1>11, MinOfTwo DEF t
<1>13. t \in Int /\ p <= t /\ t <= Hi
  BY <1>1, <1>2, <1>3, <1>11, <1>12
<1>14. /\ Lower \in Int /\ Lower >= 0
       /\ s \in p..(t - 1) => Lower > 0
  BY <1>1, <1>8, <1>9, <1>13, LeftCounts DEF Inside
<1>15. /\ Upper \in Int /\ Upper >= 0
       /\ s \in t..(Hi - 1) => Upper > 0
  BY <1>8, <1>9, <1>11, <1>13, LeftCounts DEF Inside
<1>16. /\ Lower = 0 => s >= Node
       /\ Upper = 0 => s < Node
  BY <1>1, <1>2, <1>3, <1>11, <1>12, <1>13, <1>14, <1>15
<1>17. p = h * (m + m)
  BY <1>2, <1>4, SMTT(30)
<1>18. Node = h * (m + m + 1)
  <2>1. h * (m + m + 1) = h * (m + m) + h
    BY <1>2, <1>4, SMTT(30)
  <2> QED BY <1>3, <1>17, <2>1
<1>19. (s \div h) % 2 = IF s >= Node THEN 1 ELSE 0
  <2>1. m + m \in Nat /\ m + m + 1 \in Nat /\ h * (m + m) \in Nat /\ h * (m + m + 1) \in Nat /\ s \in Nat
    BY <1>1, <1>2, <1>3, <1>4, <1>11, <1>17, <1>18
  <2>2. CASE s >= Node
    <3> DEFINE r == s - Node
               q == m + m + 1
    <3>1. r \in 0..(h - 1) /\ s = h * q + r
      BY <1>1, <1>2, <1>3, <1>5, <1>18, <2>1, <2>2
    <3>2. q \in Nat /\ q % 2 = 1
      BY <1>4
    <3> HIDE DEF r, q
    <3>3. s \div h = q
      BY <1>2, <2>1, <3>1, <3>2, DivisionIsUnique
    <3> QED BY <2>2, <3>2, <3>3
  <2>3. CASE s < Node
    <3> DEFINE r == s - p
               q == m + m
    <3>1. r \in 0..(h - 1) /\ s = h * q + r
      BY <1>1, <1>2, <1>3, <1>5, <1>17, <2>1, <2>3
    <3>2. q \in Nat /\ q % 2 = 0
      BY <1>4
    <3> HIDE DEF r, q
    <3>3. s \div h = q
      BY <1>2, <2>1, <3>1, <3>2, DivisionIsUnique
    <3> QED BY <1>1, <1>2, <1>3, <1>11, <2>3, <3>2, <3>3
  <2> QED BY <1>1, <1>2, <1>3, <1>11, <2>2, <2>3
<1>20. m + m \in Nat /\ m + m + 1 \in Nat
  BY <1>4
<1>21. /\ \E k \in Nat : p = h * k
       /\ \E k \in Nat : Node = h * k
  BY <1>17, <1>18, <1>20
<1>22. Node \in Nat /\ h \in Nat /\ p + 2 ^ (b + 1) = Node + h
  BY <1>1, <1>2, <1>3
<1>23. s \in p..(Hi - 1)
  BY <1>1, <1>11
<1> QED BY <1>3, <1>8, <1>14, <1>15, <1>16, <1>19, <1>21, <1>22, <1>23 DEF s, b, p

(* At a leaf of the tree is the cell's value. *)
LEMMA LeafIsTruth ==
  ASSUME AtType, Inside, at.stage = "tree", at.bit_pos < 0
  PROVE  at.partial < Len(Palette) /\ Palette[at.partial + 1] = Truth
<1>1. at.bit_pos = -1 /\ at.partial \in Nat
  BY DEF AtType, Inside, TreePart
<1>2. 2 ^ (at.bit_pos + 1) = 1
  <2>1. at.bit_pos + 1 = 0
    BY <1>1
  <2> QED BY <2>1, PowOfZero DEF Pow
<1>3. SlotOf(Truth) \in at.partial..(at.partial + 1 - 1)
  BY <1>2 DEF Inside, TreePart
<1>4. SlotOf(Truth) = at.partial
  BY <1>1, <1>3
<1> QED BY <1>1, <1>4, PaletteNumbers, TruthIsMember DEF Inside

-----------------------------------------------------------------------------
(* Steps inside a section                                                  *)

(* The decoder is about to read the true bit, if it reads one. *)
ReadsTruth == phase = "decode" /\ Asks => file[cursor + 1].bit = TrueBit

(* The step of the walk, with what it writes or reads. *)
Stepped ==
  /\ UNCHANGED <<region, phase, ranked, voxels, headers>>
  /\ at' = Onward.at
  /\ run' = Onward.run
  /\ miss' = Onward.miss
  /\ memo' = Onward.memo
  /\ decoded' = IF phase = "decode" /\ Completes THEN [decoded EXCEPT ![Here] = Truth] ELSE decoded
  /\ phase = "encode" =>
       /\ cursor' = cursor
       /\ file' = IF Asks THEN Append(file, [question |-> Question, bit |-> TrueBit]) ELSE file
  /\ phase = "decode" =>
       /\ file' = file
       /\ Asks => cursor < Len(file)
       /\ cursor' = IF Asks THEN cursor + 1 ELSE cursor

(* A question is answered with the true bit by both. *)
LEMMA CodedIsTrue ==
  ASSUME Coding, ReadsTruth, Asks, NEW truth, NEW bit, Coded(Question, truth, bit),
         phase = "encode" => truth = TrueBit
  PROVE  /\ bit = TrueBit
         /\ phase = "encode" =>
              /\ cursor' = cursor
              /\ file' = Append(file, [question |-> Question, bit |-> TrueBit])
         /\ phase = "decode" =>
              /\ file' = file
              /\ cursor < Len(file)
              /\ cursor' = cursor + 1
BY DEF Coded, ReadsTruth, Coding

(* Asking about the guess is a step of the walk: what is answered is true. *)
LEMMA AskHeadSteps ==
  ASSUME Good, Coding, ReadsTruth, AskHead
  PROVE  Stepped
<1> DEFINE p == PrimaryValue(Neighbors)
<1>1. at.stage = "head" /\ ~SkipsHead(p)
  BY DEF AskHead
<1>2. Asks /\ Question = HeadQuestion /\ TrueBit = IF Truth = p THEN 1 ELSE 0
  BY <1>1 DEF Asks, Question, TrueBit
<1>3. PICK bit \in {0, 1} :
         /\ Coded(HeadQuestion, IF Truth = p THEN 1 ELSE 0, bit)
         /\ run' = IF bit = 1 THEN Min({run + 1, 255}) ELSE 0
         /\ miss' = [miss EXCEPT ![Here] = 1 - bit]
         /\ IF bit = 1 THEN Settle(p) ELSE at' = Residual /\ UNCHANGED decoded
  BY DEF AskHead
<1>4. /\ bit = TrueBit
      /\ phase = "encode" =>
           /\ cursor' = cursor
           /\ file' = Append(file, [question |-> Question, bit |-> TrueBit])
      /\ phase = "decode" => file' = file /\ cursor < Len(file) /\ cursor' = cursor + 1
  BY <1>2, <1>3, CodedIsTrue
<1>5. memo' = Memorized /\ UNCHANGED <<region, phase, ranked, voxels, headers>>
  BY DEF AskHead
<1>6. Onward = AfterHead
  BY <1>1 DEF Onward
<1>7. Completes <=> Truth = p
  BY <1>1 DEF Completes
<1> HIDE DEF p
<1>8. CASE Truth = p
  <2>1. bit = 1 /\ 1 - bit = 0
    BY <1>2, <1>4, <1>8
  <2>2. AfterHead = [at |-> NextCell, run |-> Min({run + 1, 255}), miss |-> [miss EXCEPT ![Here] = 0],
                     memo |-> Memorized]
    BY <1>8 DEF AfterHead, p
  <2>3. /\ at' = NextCell /\ run' = Min({run + 1, 255}) /\ miss' = [miss EXCEPT ![Here] = 0]
        /\ decoded' = IF phase = "decode" THEN [decoded EXCEPT ![Here] = Truth] ELSE decoded
    BY <1>3, <1>8, <2>1 DEF Settle
  <2> QED BY <1>2, <1>4, <1>5, <1>6, <1>7, <1>8, <2>2, <2>3 DEF Stepped
<1>9. CASE Truth # p
  <2>1. bit = 0 /\ 1 - bit = 1
    BY <1>2, <1>4, <1>9
  <2>2. AfterHead = [at |-> Residual, run |-> 0, miss |-> [miss EXCEPT ![Here] = 1], memo |-> Memorized]
    BY <1>9 DEF AfterHead, p
  <2>3. /\ at' = Residual /\ run' = 0 /\ miss' = [miss EXCEPT ![Here] = 1] /\ decoded' = decoded
    BY <1>3, <2>1
  <2> QED BY <1>2, <1>4, <1>5, <1>6, <1>7, <1>9, <2>2, <2>3 DEF Stepped
<1> QED BY <1>8, <1>9

(* Not asking is one too: the guess is not in the palette, so it is wrong. *)
LEMMA SkipHeadSteps ==
  ASSUME Good, Coding, SkipHead
  PROVE  Stepped
<1> DEFINE p == PrimaryValue(Neighbors)
<1>1. at.stage = "head" /\ SkipsHead(p)
  BY DEF SkipHead
<1>2. Inside
  BY <1>1 DEF Good, Between
<1>3. Truth # p
  BY <1>1, <1>2, TruthIsMember DEF SkipsHead, Inside
<1>4. ~Asks
  BY <1>1 DEF Asks, AtBranch
<1>5. Onward = AfterHead /\ ~Completes
  BY <1>1, <1>3 DEF Onward, Completes
<1>6. AfterHead = [at |-> Residual, run |-> 0, miss |-> [miss EXCEPT ![Here] = 1], memo |-> Memorized]
  BY <1>3 DEF AfterHead
<1>7. /\ run' = 0 /\ miss' = [miss EXCEPT ![Here] = 1] /\ memo' = Memorized /\ at' = Residual
      /\ UNCHANGED <<region, phase, ranked, voxels, decoded, headers, file, cursor>>
  BY DEF SkipHead
<1> HIDE DEF p
<1> QED BY <1>4, <1>5, <1>6, <1>7 DEF Stepped

(* A candidate, asked about. *)
LEMMA AskCandidateSteps ==
  ASSUME Good, Coding, ReadsTruth, AskCandidate
  PROVE  Stepped
<1>1. at.stage = "candidate"
  BY DEF AskCandidate
<1>2. Asks /\ Question = CandidateQuestion /\ TrueBit = IF Truth = Candidate THEN 1 ELSE 0
  BY <1>1 DEF Asks, Question, TrueBit
<1>3. PICK bit \in {0, 1} :
         /\ Coded(CandidateQuestion, IF Truth = Candidate THEN 1 ELSE 0, bit)
         /\ IF bit = 1 THEN Settle(Candidate) ELSE at' = NextCandidate /\ UNCHANGED decoded
  BY DEF AskCandidate
<1>4. /\ bit = TrueBit
      /\ phase = "encode" =>
           /\ cursor' = cursor
           /\ file' = Append(file, [question |-> Question, bit |-> TrueBit])
      /\ phase = "decode" => file' = file /\ cursor < Len(file) /\ cursor' = cursor + 1
  BY <1>2, <1>3, CodedIsTrue
<1>5. UNCHANGED <<region, phase, ranked, voxels, headers, run, miss, memo>>
  BY DEF AskCandidate
<1>6. Onward = AfterCandidate
  BY <1>1 DEF Onward
<1>7. Completes <=> Truth = Candidate
  BY <1>1 DEF Completes
<1>8. CASE Truth = Candidate
  <2>1. bit = 1
    BY <1>2, <1>4, <1>8
  <2>2. AfterCandidate = [at |-> NextCell, run |-> run, miss |-> miss, memo |-> memo]
    BY <1>8 DEF AfterCandidate
  <2>3. /\ at' = NextCell
        /\ decoded' = IF phase = "decode" THEN [decoded EXCEPT ![Here] = Truth] ELSE decoded
    BY <1>3, <1>8, <2>1 DEF Settle
  <2> QED BY <1>2, <1>4, <1>5, <1>6, <1>7, <1>8, <2>2, <2>3 DEF Stepped
<1>9. CASE Truth # Candidate
  <2>1. bit = 0
    BY <1>2, <1>4, <1>9
  <2>2. AfterCandidate = [at |-> NextCandidate, run |-> run, miss |-> miss, memo |-> memo]
    BY <1>9 DEF AfterCandidate
  <2>3. at' = NextCandidate /\ decoded' = decoded
    BY <1>3, <2>1
  <2> QED BY <1>2, <1>4, <1>5, <1>6, <1>7, <1>9, <2>2, <2>3 DEF Stepped
<1> QED BY <1>8, <1>9

(* A half of the tree with nothing left has not the value, so the other    *)
(* has.                                                                    *)
LEMMA DescendSteps ==
  ASSUME Good, Coding, Descend
  PROVE  Stepped
<1>1. at.stage = "tree" /\ at.bit_pos >= 0 /\ (Upper = 0 \/ Lower = 0)
  BY DEF Descend, AtBranch
<1>2. Inside /\ AtType
  BY <1>1 DEF Good, Between
<1>3. /\ Lower = 0 => SlotOf(Truth) >= Node
      /\ Upper = 0 => SlotOf(Truth) < Node
      /\ Node \in Nat /\ SlotOf(Truth) \in Int
  BY <1>1, <1>2, TreeHalves, PaletteNumbers, TruthIsMember DEF Inside
<1>4. ~Asks /\ ~Completes
  BY <1>1, <1>2 DEF Asks, Completes, AtType
<1>5. Onward = AfterBranch
  BY <1>1 DEF Onward
<1>6. at' = [at EXCEPT !.bit_pos = @ - 1, !.partial = IF Upper = 0 THEN @ ELSE Node]
  BY DEF Descend
<1>7. Upper = 0 <=> ~(SlotOf(Truth) >= Node)
  BY <1>1, <1>3
<1>8. at' = [at EXCEPT !.bit_pos = @ - 1, !.partial = IF SlotOf(Truth) >= Node THEN Node ELSE @]
  BY <1>6, <1>7
<1>9. UNCHANGED <<region, phase, ranked, voxels, decoded, headers, file, cursor, run, miss, memo>>
  BY DEF Descend
<1> QED BY <1>4, <1>5, <1>8, <1>9 DEF Stepped, AfterBranch

(* The bit of a node leads to the half that has the value. *)
LEMMA AskTreeSteps ==
  ASSUME Good, Coding, ReadsTruth, AskTree
  PROVE  Stepped
<1>1. at.stage = "tree" /\ at.bit_pos >= 0 /\ Upper # 0 /\ Lower # 0 /\ AtBranch
  BY DEF AskTree, AtBranch
<1>2. Inside /\ AtType
  BY <1>1 DEF Good, Between
<1> DEFINE s == SlotOf(Truth)
           bitOf == (s \div 2 ^ at.bit_pos) % 2
<1>3. /\ bitOf = IF s >= Node THEN 1 ELSE 0
      /\ Node \in Nat /\ Node = at.partial + 2 ^ at.bit_pos /\ 2 ^ at.bit_pos \in Nat
      /\ at.partial \in Nat
  BY <1>1, <1>2, TreeHalves DEF AtType
<1>4. Asks /\ Question = TreeQuestion /\ TrueBit = bitOf
  BY <1>1 DEF Asks, Question, TrueBit
<1>5. ~Completes /\ Onward = AfterBranch
  BY <1>1, <1>2 DEF Onward, Completes, AtType
<1>6. PICK bit \in {0, 1} :
         /\ Coded(TreeQuestion, IF phase = "encode" THEN bitOf ELSE 0, bit)
         /\ at' = [at EXCEPT !.bit_pos = @ - 1, !.partial = @ + bit * 2 ^ at.bit_pos]
  BY DEF AskTree
<1>7. /\ bit = TrueBit
      /\ phase = "encode" =>
           /\ cursor' = cursor
           /\ file' = Append(file, [question |-> Question, bit |-> TrueBit])
      /\ phase = "decode" => file' = file /\ cursor < Len(file) /\ cursor' = cursor + 1
  BY <1>4, <1>6, CodedIsTrue
<1>8. UNCHANGED <<region, phase, ranked, voxels, decoded, headers, run, miss, memo>>
  BY DEF AskTree
<1> DEFINE h == 2 ^ at.bit_pos
<1>9. at.partial + bit * h = IF s >= Node THEN Node ELSE at.partial
  <2>1. h \in Nat /\ Node = at.partial + h /\ at.partial \in Nat
    BY <1>3
  <2>2. bit = IF s >= Node THEN 1 ELSE 0
    BY <1>3, <1>4, <1>7
  <2> HIDE DEF h, s
  <2>3. 1 * h = h /\ 0 * h = 0
    BY <2>1
  <2> QED BY <2>1, <2>2, <2>3
<1>10. at' = [at EXCEPT !.bit_pos = @ - 1, !.partial = IF s >= Node THEN Node ELSE @]
  BY <1>6, <1>9
<1> HIDE DEF s, bitOf
<1> QED BY <1>4, <1>5, <1>7, <1>8, <1>10 DEF Stepped, AfterBranch, s

(* A leaf is the value. *)
LEMMA TakeLeafSteps ==
  ASSUME Good, Coding, TakeLeaf
  PROVE  Stepped
<1>1. at.stage = "tree" /\ at.bit_pos < 0
  BY DEF TakeLeaf, AtLeaf
<1>2. Inside /\ AtType
  BY <1>1 DEF Good, Between
<1>3. Palette[at.partial + 1] = Truth
  BY <1>1, <1>2, LeafIsTruth
<1>4. ~Asks /\ Completes
  BY <1>1, <1>2 DEF Asks, Completes, AtType, AtBranch
<1>5. Onward = AfterLeaf
  BY <1>1, <1>2 DEF Onward, AtType
<1>6. /\ at' = NextCell
      /\ decoded' = IF phase = "decode" THEN [decoded EXCEPT ![Here] = Truth] ELSE decoded
      /\ UNCHANGED <<region, phase, ranked, voxels, headers, file, cursor, run, miss, memo>>
  BY <1>3 DEF TakeLeaf, Settle
<1> QED BY <1>4, <1>5, <1>6 DEF Stepped, AfterLeaf

(* So does every step inside a section. *)
LEMMA CellSteps ==
  ASSUME Good, Coding, at.stage # "section", ReadsTruth, Next
  PROVE  Stepped
<1>1. at.section \in Sections
  BY DEF Good, Between, Inside, InCell, AtCell
<1>2. \/ AskHead \/ SkipHead \/ AskCandidate \/ Descend \/ AskTree \/ TakeLeaf
  BY <1>1 DEF Next, BuildGrid, EncodeSection, DecodeSection, AtSection, StartDecoding, FinishDecoding, AtEnd, Coding
<1> QED BY <1>2, AskHeadSteps, SkipHeadSteps, AskCandidateSteps, DescendSteps, AskTreeSteps, TakeLeafSteps

-----------------------------------------------------------------------------
(* What a step leaves as it is                                             *)

(* In a section. *)
LEMMA SameSection ==
  ASSUME at'.section = at.section, headers' = headers
  PROVE  /\ Palette' = Palette /\ PaletteBits' = PaletteBits /\ Section' = Section
         /\ \A r : IsMember(r)' <=> IsMember(r)
         /\ \A r : SlotOf(r)' = SlotOf(r)
         /\ \A n : SelectPrimaryValue(n)' = SelectPrimaryValue(n)
<1>1. Palette' = Palette /\ PaletteBits' = PaletteBits
  BY DEF Palette, PaletteBits
<1>2. Section' = Section
  BY DEF Section, Along
<1>3. \A r : IsMember(r)' <=> IsMember(r)
  BY <1>1 DEF IsMember
<1>4. \A r : SlotOf(r)' = SlotOf(r)
  BY <1>1 DEF SlotOf
<1>5. ASSUME NEW n PROVE SelectPrimaryValue(n)' = SelectPrimaryValue(n)
  <2> DEFINE seen == {n[slot] : slot \in FirstOrder} \ {NONE}
  <2>1. {v \in seen : IsMember(v)}' = {v \in seen : IsMember(v)}
    BY <1>3
  <2> QED BY <2>1 DEF SelectPrimaryValue
<1> QED BY <1>1, <1>2, <1>3, <1>4, <1>5

(* At a cell. *)
LEMMA SameCell ==
  ASSUME at'.section = at.section, at'.cell = at.cell
  PROVE  /\ Here' = Here /\ Local' = Local /\ Section' = Section
         /\ X' = X /\ Y' = Y /\ Z' = Z
         /\ \A slot : Neighbor(slot)' = Neighbor(slot)
         /\ \A slot : Exists(slot)' <=> Exists(slot)
         /\ IsFast' <=> IsFast
<1>1. Here' = Here
  BY DEF Here, VoxelAt, Along
<1>2. Local' = Local /\ Section' = Section
  BY DEF Local, Section, Along
<1>3. X' = X /\ Y' = Y /\ Z' = Z
  BY <1>2 DEF X, Y, Z
<1>4. \A slot : Neighbor(slot)' = Neighbor(slot)
  BY <1>1 DEF Neighbor
<1>5. EastCausal' <=> EastCausal
  BY <1>2, <1>3 DEF EastCausal
<1>6. \A slot : Exists(slot)' <=> Exists(slot)
  BY <1>3, <1>5 DEF Exists
<1>7. IsFast' <=> IsFast
  BY <1>2 DEF IsFast, FastRow
<1> QED BY <1>1, <1>2, <1>3, <1>4, <1>6, <1>7

(* And with the grid as it is. *)
LEMMA SameNeighbors ==
  ASSUME at'.section = at.section, at'.cell = at.cell, Grid' = Grid
  PROVE  Neighbors' = Neighbors
<1>1. GatherNeighbors' = GatherNeighbors
  BY SameCell DEF GatherNeighbors, GridAt
<1>2. GatherNeighborsFast' = GatherNeighborsFast
  BY SameCell DEF GatherNeighborsFast, GridAt
<1> QED BY <1>1, <1>2, SameCell DEF Neighbors

(* The palette for a given ranking. *)
PaletteBy(list, ranks) ==
  LET key == [r \in ranks |-> RankOf(list, r)]
      Above(r, s) == key[r] < key[s] \/ (key[r] = key[s] /\ r < s)
  IN  Sorted(ranks, Above)

(* Any one of them *)
Some(S) == CHOOSE rank \in S : TRUE

(* What is built stays, and what is read off it. *)
LEMMA SameBuilt ==
  ASSUME UNCHANGED <<region, ranked, voxels>>
  PROVE  /\ Built' <=> Built
         /\ \A s : RanksOf(s)' = RanksOf(s)
         /\ \A h, s : Describes(h, s)' <=> Describes(h, s)
         /\ \A s : Header(s)' = Header(s)
<1>1. \A s, c : Contents(s, c)' = Contents(s, c)
  BY DEF Contents
<1>2. Atoms' = Atoms
  BY <1>1 DEF Atoms
<1>3. Built' <=> Built
  BY <1>1, <1>2 DEF Built
<1>4. \A s : RanksOf(s)' = RanksOf(s)
  BY DEF RanksOf
<1>5. \A h, s : Describes(h, s)' <=> Describes(h, s)
  BY <1>4 DEF Describes
<1>6. \A S : SortedPalette(S)' = SortedPalette(S)
  <2>1. \A S : SortedPalette(S) = PaletteBy(ranked, S)
    BY Zenon DEF SortedPalette, PaletteBy
  <2>2. \A S : SortedPalette(S)' = PaletteBy(ranked', S)
    BY Zenon DEF SortedPalette, PaletteBy, Sorted
  <2> QED BY <2>1, <2>2
<1>7. \A s : Header(s)' = Header(s)
  <2>1. \A s : Header(s) = IF region[s] = Absent THEN Uniform(RankOf(ranked, 0))
                           ELSE IF Cardinality(RanksOf(s)) = 1 THEN Uniform(Some(RanksOf(s)))
                           ELSE [bits |-> BitDepth(Cardinality(RanksOf(s))), palette |-> SortedPalette(RanksOf(s))]
    BY Zenon DEF Header, Some
  <2>2. \A s : Header(s)' = IF region'[s] = Absent THEN Uniform(RankOf(ranked', 0))
                           ELSE IF Cardinality(RanksOf(s)') = 1 THEN Uniform(Some(RanksOf(s)'))
                           ELSE [bits |-> BitDepth(Cardinality(RanksOf(s)')), palette |-> SortedPalette(RanksOf(s))']
    BY Zenon DEF Header, Some
  <2>3. ASSUME NEW s PROVE SortedPalette(RanksOf(s))' = SortedPalette(RanksOf(s))
    BY <1>4, <1>6
  <2> QED BY <1>4, <2>1, <2>2, <2>3
<1> QED BY <1>3, <1>4, <1>5, <1>7

(* The walk stays in its section. *)
LEMMA InCellKept ==
  ASSUME InCell, UNCHANGED <<region, ranked, voxels, headers>>,
         at'.section = at.section, at'.cell \in Cells, at'.stage \in {"head", "candidate", "tree"},
         memo' = memo \/ memo' = Memorized
  PROVE  InCell'
<1>1. /\ Section' = Section /\ PaletteBits' = PaletteBits
      /\ \A n : SelectPrimaryValue(n)' = SelectPrimaryValue(n)
  BY SameSection
<1>2. \/ memo' = NoMemo
      \/ \E n, r : memo' =
                     [valid |-> TRUE,
                      contexts |-> [neighbors |-> n, primary_value |-> SelectPrimaryValue(n), run |-> r,
                                    section_y |-> Section.y, palette_bits |-> PaletteBits]]
  BY MemorizedOfSection DEF InCell, MemoOfSection
<1>3. MemoOfSection'
  <2>1. CASE memo' = NoMemo
    BY <2>1 DEF MemoOfSection, NoMemo
  <2>2. CASE memo' # NoMemo
    <3>1. PICK n, r : memo' =
                        [valid |-> TRUE,
                         contexts |-> [neighbors |-> n, primary_value |-> SelectPrimaryValue(n), run |-> r,
                                       section_y |-> Section.y, palette_bits |-> PaletteBits]]
      BY <1>2, <2>2
    <3>2. memo' = [valid |-> TRUE,
                   contexts |-> [neighbors |-> n, primary_value |-> SelectPrimaryValue(n)', run |-> r,
                                 section_y |-> Section'.y, palette_bits |-> PaletteBits']]
      BY <1>1, <3>1
    <3> QED BY <3>2 DEF MemoOfSection
  <2> QED BY <2>1, <2>2
<1>4. Built' /\ Describes(headers[at.section + 1], at.section)'
  BY SameBuilt DEF InCell, Describes
<1>5. AtCell' /\ at'.stage \in {"head", "candidate", "tree"} /\ headers'[at'.section + 1].bits # 0
  BY DEF InCell, AtCell
<1> QED BY <1>3, <1>4, <1>5 DEF InCell

-----------------------------------------------------------------------------
(* Every step keeps the coder where it should be                           *)

(* On to the next cell, or to the next section after the last. *)
LEMMA NextCellGood ==
  ASSUME AtType, InCell, UNCHANGED <<region, ranked, voxels, headers>>,
         at' = NextCell, memo' = memo \/ memo' = Memorized
  PROVE  Good'
<1>1. at.section \in Nat /\ at.cell \in Nat
  BY DEF AtType
<1>2. CASE at.cell + 1 \in Cells
  <2>1. at' = [section |-> at.section, cell |-> at.cell + 1, stage |-> "head",
               candidate |-> 0, partial |-> 0, bit_pos |-> 0]
    BY <1>2 DEF NextCell, Start
  <2>2. AtType'
    BY <1>1, <2>1 DEF AtType
  <2>3. InCell'
    BY <1>2, <2>1, InCellKept
  <2>4. HeadPart' /\ WrongPart' /\ ChainPart' /\ TreePart'
    BY <2>1 DEF HeadPart, WrongPart, ChainPart, TreePart
  <2> QED BY <2>2, <2>3, <2>4 DEF Good, Inside
<1>3. CASE at.cell + 1 \notin Cells
  <2>1. at' = [section |-> at.section + 1, cell |-> 0, stage |-> "section",
               candidate |-> 0, partial |-> 0, bit_pos |-> 0]
    BY <1>3 DEF NextCell, Start
  <2> QED BY <1>1, <2>1 DEF Good, AtType, Between
<1> QED BY <1>2, <1>3

(* A fact about a state holds of the next. *)
Recalls == \A n : PrimaryValue(n) = SelectPrimaryValue(n)

(* In a cell it does. *)
LEMMA InCellRecalls == InCell => Recalls
BY MemoAnswers DEF Recalls

(* And in the next state, if that is in a cell. *)
LEMMA RecallsNext ==
  ASSUME InCell'
  PROVE  Recalls'
BY InCellRecalls, PTL

(* What stays when the same cell goes on. *)
LEMMA SameInside ==
  ASSUME InCell, UNCHANGED <<region, ranked, voxels, headers>>, Grid' = Grid,
         at'.section = at.section, at'.cell = at.cell, at'.stage \in {"head", "candidate", "tree"},
         memo' = memo \/ memo' = Memorized
  PROVE  /\ InCell'
         /\ Neighbors' = Neighbors /\ Truth' = Truth
         /\ PrimaryValue(Neighbors)' = PrimaryValue(Neighbors)
         /\ CandidateSlots' = CandidateSlots
         /\ PaletteBits' = PaletteBits
         /\ SlotOf(Truth)' = SlotOf(Truth)
<1>1. InCell'
  BY InCellKept DEF InCell, AtCell
<1>2. Neighbors' = Neighbors
  BY SameNeighbors
<1>3. Truth' = Truth
  BY SameCell DEF Truth
<1>4. PrimaryValue(Neighbors) = SelectPrimaryValue(Neighbors)
  BY MemoAnswers
<1>5. PrimaryValue(Neighbors)' = SelectPrimaryValue(Neighbors)'
  <2>1. Recalls'
    BY <1>1, RecallsNext
  <2>2. PICK n : n = Neighbors'
    OBVIOUS
  <2>3. PrimaryValue(n)' = SelectPrimaryValue(n)'
    BY <2>1 DEF Recalls
  <2>4. PrimaryValue(Neighbors)' = PrimaryValue(n)'
    BY <2>2 DEF PrimaryValue, Contexts, MemoMatches, Remembered, HeadContexts
  <2>5. SelectPrimaryValue(Neighbors)' = SelectPrimaryValue(n)'
    BY <2>2 DEF SelectPrimaryValue
  <2> QED BY <2>3, <2>4, <2>5
<1>6. SelectPrimaryValue(Neighbors)' = SelectPrimaryValue(Neighbors)
  <2>1. PICK n : n = Neighbors
    OBVIOUS
  <2>2. SelectPrimaryValue(n)' = SelectPrimaryValue(n)
    BY SameSection
  <2>3. SelectPrimaryValue(Neighbors)' = SelectPrimaryValue(n)'
    BY <1>2, <2>1 DEF SelectPrimaryValue
  <2>4. SelectPrimaryValue(Neighbors) = SelectPrimaryValue(n)
    BY <2>1
  <2> QED BY <2>2, <2>3, <2>4
<1>7. PrimaryValue(Neighbors)' = PrimaryValue(Neighbors)
  BY <1>4, <1>5, <1>6
<1>8. CandidateSlots' = CandidateSlots
  <2> DEFINE p == PrimaryValue(Neighbors)
             n == Neighbors
  <2>1. ASSUME NEW slot \in Slots
        PROVE  /\ IsCandidate(Neighbors, slot) <=>
                    /\ Neighbors[slot] \notin {NONE, PrimaryValue(Neighbors)}
                    /\ IsMember(Neighbors[slot])
                    /\ \A earlier \in 1..(slot - 1) : Neighbors[earlier] # Neighbors[slot]
               /\ IsCandidate(Neighbors, slot)' <=>
                    /\ Neighbors'[slot] \notin {NONE, PrimaryValue(Neighbors)'}
                    /\ IsMember(Neighbors[slot])'
                    /\ \A earlier \in 1..(slot - 1) : Neighbors'[earlier] # Neighbors'[slot]
    BY Zenon DEF IsCandidate
  <2>2. ASSUME NEW slot PROVE IsMember(Neighbors[slot])' <=> IsMember(Neighbors[slot])
    <3>1. Palette' = Palette
      BY SameSection
    <3> QED BY <1>2, <3>1 DEF IsMember
  <2>3. ASSUME NEW slot \in Slots PROVE IsCandidate(Neighbors, slot)' <=> IsCandidate(Neighbors, slot)
    BY <1>2, <1>7, <2>1, <2>2
  <2> QED BY <2>3 DEF CandidateSlots
<1>9. PaletteBits' = PaletteBits /\ Palette' = Palette
  BY SameSection
<1>10. SlotOf(Truth)' = SlotOf(Truth)
  BY <1>3, <1>9 DEF SlotOf
<1> QED BY <1>1, <1>2, <1>3, <1>7, <1>8, <1>9, <1>10

(* The tree begins at its root, with all slots below. *)
AtRoot ==
  /\ InCell
  /\ at.stage = "tree" /\ at.partial = 0 /\ at.bit_pos = PaletteBits - 1
  /\ Truth # PrimaryValue(Neighbors)
  /\ \A slot \in CandidateSlots : Neighbors[slot] # Truth

(* The root has every slot below it. *)
LEMMA RootIsGood == AtRoot => Inside
<1> SUFFICES ASSUME AtRoot PROVE Inside
  OBVIOUS
<1> USE DEF AtRoot
<1>1. PaletteBits \in 1..16 /\ Len(Palette) \in Nat /\ Len(Palette) <= 2 ^ PaletteBits
      /\ SlotOf(Truth) \in 0..(Len(Palette) - 1)
  BY PaletteNumbers, TruthIsMember
<1>2. at.bit_pos \in -1..15 /\ at.bit_pos + 1 = PaletteBits
  BY <1>1
<1>3. 2 ^ (at.bit_pos + 1) = Pow(PaletteBits) /\ Pow(PaletteBits) \in Nat
  BY <1>1, <1>2, PowType DEF Pow
<1>4. at.partial = 2 ^ (at.bit_pos + 1) * 0
  BY <1>3
<1>5. SlotOf(Truth) \in at.partial..(at.partial + 2 ^ (at.bit_pos + 1) - 1)
  <2>1. 2 ^ PaletteBits = Pow(PaletteBits)
    BY DEF Pow
  <2> QED BY <1>1, <1>3, <2>1
<1>6. TreePart
  BY <1>2, <1>4, <1>5 DEF TreePart
<1> QED BY <1>6 DEF Inside, HeadPart, WrongPart, ChainPart

(* And in the next state. *)
LEMMA RootNext ==
  ASSUME AtRoot'
  PROVE  Inside'
BY RootIsGood, PTL

(* Candidates are known by their slots. *)
LEMMA SlotsAreNumbers == \A slot \in CandidateSlots : slot \in Nat
BY DEF CandidateSlots, Slots

(* A wrong guess leads to the first candidate. *)
LEMMA ResidualGood ==
  ASSUME AtType, Inside, at.stage = "head", Truth # PrimaryValue(Neighbors),
         UNCHANGED <<region, ranked, voxels, headers>>, Grid' = Grid,
         at' = Residual, memo' = Memorized
  PROVE  Good'
<1>1. PaletteBits \in 1..16 /\ InCell /\ at.partial = 0
  BY PaletteNumbers DEF Inside, HeadPart
<1>6. PaletteBits - 1 \in Int
  BY <1>1
<1>7. CandidateSlots \in SUBSET (1..12)
  BY CandidatesType
<1>2. at'.section = at.section /\ at'.cell = at.cell /\ at'.stage \in {"head", "candidate", "tree"}
      /\ at'.partial = 0 /\ at'.bit_pos = PaletteBits - 1
  BY <1>1 DEF Residual, AtType
<1>3. /\ InCell' /\ Neighbors' = Neighbors /\ Truth' = Truth
      /\ PrimaryValue(Neighbors)' = PrimaryValue(Neighbors) /\ CandidateSlots' = CandidateSlots
      /\ PaletteBits' = PaletteBits
  BY <1>1, <1>2, SameInside
<1>4. CASE CandidateSlots = {}
  <2> DEFINE b == PaletteBits - 1
  <2>1. at' = [at EXCEPT !.stage = "tree", !.candidate = 0, !.bit_pos = b]
    BY <1>4 DEF Residual
  <2>5. b \in Int
    BY <1>6
  <2> HIDE DEF b
  <2>2. AtType'
    BY ONLY AtType, <2>5, <2>1 DEF AtType
  <2>3. at'.stage = "tree"
    BY <2>1 DEF AtType
  <2>4. Inside'
    <3>1. AtRoot'
      BY <1>2, <1>3, <1>4, <2>3 DEF AtRoot
    <3> QED BY <3>1, RootNext
  <2> QED BY <2>2, <2>4 DEF Good
<1>5. CASE CandidateSlots # {}
  <2>1. at' = [at EXCEPT !.stage = "candidate", !.candidate = Min(CandidateSlots), !.bit_pos = PaletteBits - 1]
    BY <1>5 DEF Residual
  <2>2. Min(CandidateSlots) \in CandidateSlots /\ \A t \in CandidateSlots : Min(CandidateSlots) <= t
    BY <1>5, CandidatesType, LeastSlot
  <2>3. Min(CandidateSlots) \in Nat /\ \A t \in CandidateSlots : t \in Nat
    BY <2>2, SlotsAreNumbers
  <2>4. AtType'
    BY <1>6, <2>1, <2>3 DEF AtType
  <2>5. at'.stage = "candidate" /\ at'.candidate = Min(CandidateSlots)
    BY <2>1 DEF AtType
  <2>6. ChainPart'
    BY <1>2, <1>3, <2>2, <2>3, <2>5 DEF ChainPart
  <2>7. HeadPart' /\ WrongPart' /\ TreePart'
    BY <1>3, <2>5 DEF HeadPart, WrongPart, TreePart
  <2> QED BY <1>3, <2>4, <2>6, <2>7 DEF Good, Inside
<1> QED BY <1>4, <1>5

(* A wrong candidate leads to the next. *)
LEMMA NextCandidateGood ==
  ASSUME AtType, Inside, at.stage = "candidate", Truth # Candidate,
         UNCHANGED <<region, ranked, voxels, headers>>, Grid' = Grid,
         at' = NextCandidate, memo' = memo
  PROVE  Good'
<1>1. /\ PaletteBits \in 1..16 /\ InCell /\ at.candidate \in CandidateSlots
      /\ \A slot \in CandidateSlots : slot < at.candidate => Neighbors[slot] # Truth
      /\ at.partial = 0 /\ at.bit_pos = PaletteBits - 1 /\ Truth # PrimaryValue(Neighbors)
  BY PaletteNumbers DEF Inside, ChainPart, WrongPart
<1>2. at'.section = at.section /\ at'.cell = at.cell /\ at'.stage \in {"head", "candidate", "tree"}
      /\ at'.partial = at.partial /\ at'.bit_pos = at.bit_pos
  BY DEF NextCandidate, AtType
<1>3. /\ InCell' /\ Neighbors' = Neighbors /\ Truth' = Truth
      /\ PrimaryValue(Neighbors)' = PrimaryValue(Neighbors) /\ CandidateSlots' = CandidateSlots
      /\ PaletteBits' = PaletteBits
  BY <1>1, <1>2, SameInside
<1>4. at.candidate \in Nat /\ \A t \in CandidateSlots : t \in Nat
  <2> QED BY <1>1, SlotsAreNumbers
<1>5. Neighbors[at.candidate] # Truth
  BY DEF Candidate
<1>6. CASE LaterCandidates = {}
  <2>1. at' = [at EXCEPT !.stage = "tree"]
    BY <1>6 DEF NextCandidate
  <2>2. AtType' /\ at'.stage = "tree"
    BY <2>1 DEF AtType
  <2>3. ASSUME NEW slot \in CandidateSlots PROVE Neighbors[slot] # Truth
    <3>1. ~(slot > at.candidate)
      BY <1>6 DEF LaterCandidates
    <3>2. slot < at.candidate \/ slot = at.candidate
      BY <1>4, <3>1
    <3> QED BY <1>1, <1>5, <3>2
  <2>4. Inside'
    <3>1. AtRoot'
      BY <1>1, <1>2, <1>3, <2>2, <2>3 DEF AtRoot
    <3> QED BY <3>1, RootNext
  <2> QED BY <2>2, <2>4 DEF Good
<1>7. CASE LaterCandidates # {}
  <2> DEFINE m == Min(LaterCandidates)
  <2>1. at' = [at EXCEPT !.candidate = m]
    BY <1>7 DEF NextCandidate
  <2>2. LaterCandidates \in SUBSET (1..12) /\ LaterCandidates \in SUBSET CandidateSlots
    BY CandidatesType DEF LaterCandidates
  <2>3. m \in LaterCandidates /\ \A t \in LaterCandidates : m <= t
    BY <1>7, <2>2, LeastSlot
  <2> HIDE DEF m
  <2>4. m \in Nat /\ m \in CandidateSlots
    BY <2>2, <2>3
  <2>5. AtType' /\ at'.stage = "candidate" /\ at'.candidate = m
    BY <2>1, <2>4 DEF AtType
  <2>6. ASSUME NEW slot \in CandidateSlots, slot < m PROVE Neighbors[slot] # Truth
    <3>1. slot \notin LaterCandidates
      BY <1>4, <2>3, <2>4, <2>6
    <3>2. slot < at.candidate \/ slot = at.candidate
      BY <1>4, <3>1 DEF LaterCandidates
    <3> QED BY <1>1, <1>5, <3>2
  <2>7. ChainPart'
    BY <1>1, <1>2, <1>3, <2>4, <2>5, <2>6 DEF ChainPart
  <2>8. HeadPart' /\ WrongPart' /\ TreePart'
    BY <1>1, <1>3, <2>5 DEF HeadPart, WrongPart, TreePart
  <2> QED BY <1>3, <2>5, <2>7, <2>8 DEF Good, Inside
<1> QED BY <1>6, <1>7

(* A node of the tree leads to the half with the cell's slot. *)
LEMMA BranchGood ==
  ASSUME AtType, Inside, at.stage = "tree", at.bit_pos >= 0,
         UNCHANGED <<region, ranked, voxels, headers>>, Grid' = Grid,
         at' = [at EXCEPT !.bit_pos = @ - 1, !.partial = IF SlotOf(Truth) >= Node THEN Node ELSE @],
         memo' = memo
  PROVE  Good'
<1> DEFINE s == SlotOf(Truth)
           b == at.bit_pos
           p == at.partial
           q == IF s >= Node THEN Node ELSE p
           h == 2 ^ b
<1>1. /\ InCell /\ Truth # PrimaryValue(Neighbors)
      /\ \A slot \in CandidateSlots : Neighbors[slot] # Truth
      /\ b \in 0..15 /\ p \in Nat
      /\ s \in p..(p + 2 ^ (b + 1) - 1)
  <2>1. at.bit_pos \in -1..15
    BY DEF Inside, TreePart
  <2> QED BY <2>1 DEF Inside, WrongPart, TreePart, AtType
<1>2. /\ Node \in Nat /\ Node = p + h /\ h \in Nat /\ p + 2 ^ (b + 1) = Node + h
      /\ \E m \in Nat : p = h * m
      /\ \E m \in Nat : Node = h * m
  BY TreeHalves
<1>3. at' = [at EXCEPT !.bit_pos = b - 1, !.partial = q]
  OBVIOUS
<1>4. at'.section = at.section /\ at'.cell = at.cell /\ at'.stage = "tree" /\ at'.bit_pos = b - 1 /\ at'.partial = q
  BY DEF AtType
<1>5. /\ InCell' /\ Neighbors' = Neighbors /\ Truth' = Truth
      /\ PrimaryValue(Neighbors)' = PrimaryValue(Neighbors) /\ CandidateSlots' = CandidateSlots
      /\ SlotOf(Truth)' = s
  BY <1>1, <1>4, SameInside
<1> HIDE DEF s, b, p, h
<1>6. q \in Nat /\ b - 1 \in Int /\ b - 1 \in -1..15 /\ b - 1 + 1 = b
  BY <1>1, <1>2
<1>7. AtType'
  BY <1>3, <1>6 DEF AtType
<1>8. \E m \in Nat : q = h * m
  BY <1>2
<1>9. s \in q..(q + h - 1)
  <2>1. s \in Int /\ p <= s /\ s < Node + h
    BY <1>1, <1>2
  <2> QED BY <1>1, <1>2, <2>1
<1> HIDE DEF q
<1>10. 2 ^ (at'.bit_pos + 1) = h
  BY <1>4, <1>6 DEF h
<1>11. TreePart'
  <2>1. /\ \A slot \in CandidateSlots' : Neighbors'[slot] # Truth'
        /\ at'.bit_pos \in -1..15
        /\ \E m \in Nat : at'.partial = 2 ^ (at'.bit_pos + 1) * m
        /\ SlotOf(Truth)' \in at'.partial..(at'.partial + 2 ^ (at'.bit_pos + 1) - 1)
    BY <1>1, <1>4, <1>5, <1>6, <1>8, <1>9, <1>10
  <2> QED BY <2>1 DEF TreePart
<1>12. HeadPart' /\ WrongPart' /\ ChainPart'
  BY <1>1, <1>4, <1>5 DEF HeadPart, WrongPart, ChainPart
<1> QED BY <1>5, <1>7, <1>11, <1>12 DEF Good, Inside

(* So the step of the walk keeps it. *)
LEMMA SteppedGood ==
  ASSUME Good, Coding, at.stage # "section", Stepped
  PROVE  Good'
<1>1. AtType /\ Inside /\ InCell
  BY DEF Good, Between, Inside
<1>2. /\ UNCHANGED <<region, phase, ranked, voxels, headers>>
      /\ at' = Onward.at /\ memo' = Onward.memo
      /\ ~Completes => decoded' = decoded
  BY DEF Stepped
<1>3. ~Completes => Grid' = Grid
  BY <1>2 DEF Grid
<1>4. CASE at.stage = "head"
  <2>1. Onward = AfterHead
    BY <1>4 DEF Onward
  <2>2. CASE Truth = PrimaryValue(Neighbors)
    <3>1. at' = NextCell /\ memo' = Memorized
      BY <1>2, <2>1, <2>2 DEF AfterHead
    <3> QED BY <1>1, <1>2, <3>1, NextCellGood
  <2>3. CASE Truth # PrimaryValue(Neighbors)
    <3>1. at' = Residual /\ memo' = Memorized /\ ~Completes
      BY <1>2, <1>4, <2>1, <2>3 DEF AfterHead, Completes
    <3> QED BY <1>1, <1>2, <1>3, <1>4, <2>3, <3>1, ResidualGood
  <2> QED BY <2>2, <2>3
<1>5. CASE at.stage = "candidate"
  <2>1. Onward = AfterCandidate
    BY <1>5 DEF Onward
  <2>2. CASE Truth = Candidate
    <3>1. at' = NextCell /\ memo' = memo
      BY <1>2, <2>1, <2>2 DEF AfterCandidate
    <3> QED BY <1>1, <1>2, <3>1, NextCellGood
  <2>3. CASE Truth # Candidate
    <3>1. at' = NextCandidate /\ memo' = memo /\ ~Completes
      BY <1>2, <1>5, <2>1, <2>3 DEF AfterCandidate, Completes
    <3> QED BY <1>1, <1>2, <1>3, <1>5, <2>3, <3>1, NextCandidateGood
  <2> QED BY <2>2, <2>3
<1>6. CASE at.stage = "tree" /\ at.bit_pos >= 0
  <2>1. Onward = AfterBranch
    BY <1>6 DEF Onward
  <2>2. ~Completes
    BY <1>1, <1>6 DEF Completes, AtType
  <2>3. /\ at' = [at EXCEPT !.bit_pos = @ - 1, !.partial = IF SlotOf(Truth) >= Node THEN Node ELSE @]
        /\ memo' = memo
    BY <1>2, <2>1 DEF AfterBranch
  <2> QED BY <1>1, <1>2, <1>3, <1>6, <2>2, <2>3, BranchGood
<1>7. CASE at.stage = "tree" /\ ~(at.bit_pos >= 0)
  <2>1. Onward = AfterLeaf
    BY <1>7 DEF Onward
  <2>2. at' = NextCell /\ memo' = memo
    BY <1>2, <2>1 DEF AfterLeaf
  <2> QED BY <1>1, <1>2, <2>2, NextCellGood
<1> QED BY <1>1, <1>4, <1>5, <1>6, <1>7 DEF InCell

-----------------------------------------------------------------------------
(* The encoder at another moment of its walk                               *)

(* GridWalk at an entry of the trail, over the grid and headers of the     *)
(* encoder.                                                                *)
Moment(w, grid, heads) ==
  INSTANCE GridWalk WITH
    region <- <<>>, phase <- "encode", ranked <- <<>>, voxels <- grid, decoded <- grid,
    headers <- heads, file <- <<>>, cursor <- 0,
    at <- w.at, run <- w.run, miss <- w.miss, memo <- w.memo

(* The coder is where the encoder was. *)
IsNow(w, grid, heads) ==
  /\ w.at = at /\ w.run = run /\ w.miss = miss /\ w.memo = memo
  /\ grid = voxels
  /\ heads[at.section + 1] = headers[at.section + 1]

(* It is at the same place. *)
LEMMA MomentPlace ==
  ASSUME NEW w, NEW grid, NEW heads, IsNow(w, grid, heads)
  PROVE  /\ Moment(w, grid, heads)!Here = Here
         /\ Moment(w, grid, heads)!Local = Local
         /\ Moment(w, grid, heads)!Section = Section
         /\ Moment(w, grid, heads)!X = X
         /\ Moment(w, grid, heads)!Y = Y
         /\ Moment(w, grid, heads)!Z = Z
         /\ Moment(w, grid, heads)!Truth = Truth
         /\ \A slot : Moment(w, grid, heads)!Neighbor(slot) = Neighbor(slot)
<1>1. /\ Moment(w, grid, heads)!Here = Here
      /\ Moment(w, grid, heads)!Local = Local
      /\ Moment(w, grid, heads)!Section = Section
  BY DEF IsNow, Moment!Here, Here, Moment!Local, Local, Moment!Section, Section,
     Moment!VoxelAt, VoxelAt, Moment!Along, Along, Moment!Y_STRIDE, Y_STRIDE,
     Moment!Z_STRIDE, Z_STRIDE, Moment!SIDE, SIDE
<1>2. /\ Moment(w, grid, heads)!X = X
      /\ Moment(w, grid, heads)!Y = Y
      /\ Moment(w, grid, heads)!Z = Z
      /\ Moment(w, grid, heads)!Truth = Truth
  BY <1>1 DEF IsNow, Moment!X, X, Moment!Y, Y, Moment!Z, Z, Moment!Truth, Truth
<1>3. \A slot : Moment(w, grid, heads)!Neighbor(slot) = Neighbor(slot)
  BY <1>1 DEF Moment!Neighbor, Neighbor, Moment!Back, Back,
     Moment!Y_STRIDE, Y_STRIDE, Moment!Z_STRIDE, Z_STRIDE, Moment!SIDE, SIDE
<1> QED BY <1>1, <1>2, <1>3

(* It has the same palette. *)
LEMMA MomentPalette ==
  ASSUME NEW w, NEW grid, NEW heads, IsNow(w, grid, heads)
  PROVE  /\ Moment(w, grid, heads)!Palette = Palette
         /\ Moment(w, grid, heads)!PaletteBits = PaletteBits
         /\ \A r : Moment(w, grid, heads)!IsMember(r) <=> IsMember(r)
         /\ \A r : Moment(w, grid, heads)!SlotOf(r) = SlotOf(r)
<1>1. /\ Moment(w, grid, heads)!Palette = Palette
      /\ Moment(w, grid, heads)!PaletteBits = PaletteBits
  BY DEF IsNow, Moment!Palette, Palette, Moment!PaletteBits, PaletteBits
<1> QED BY <1>1 DEF Moment!IsMember, IsMember, Moment!SlotOf, SlotOf

(* Which value is best supported depends on the neighbours only. *)
LEMMA MomentBest ==
  ASSUME NEW w, NEW grid, NEW heads
  PROVE  \A n, v : Moment(w, grid, heads)!BestOf(n, v) = BestOf(n, v)
BY DEF Moment!BestOf, BestOf, Moment!Support, Support, Moment!LastSlot, LastSlot,
   Moment!Weight, Weight, Moment!FirstOrder, FirstOrder

(* And counting is counting. *)
LEMMA MomentCounts ==
  ASSUME NEW w, NEW grid, NEW heads, NEW S
  PROVE  /\ Moment(w, grid, heads)!Cardinality(S) = Cardinality(S)
         /\ Moment(w, grid, heads)!Min(S) = Min(S)
<1>1. Moment(w, grid, heads)!Cardinality(S) = Cardinality(S)
  BY Zenon DEF Moment!Cardinality, Cardinality
<1>2. Moment(w, grid, heads)!Min(S) = Min(S)
  BY Zenon DEF Moment!Min, Min
<1> QED BY <1>1, <1>2

(* It has the same guess for the same neighbours. *)
LEMMA MomentPrimary ==
  ASSUME NEW w, NEW grid, NEW heads, IsNow(w, grid, heads), NEW n
  PROVE  /\ Moment(w, grid, heads)!SelectPrimaryValue(n) = SelectPrimaryValue(n)
         /\ Moment(w, grid, heads)!HeadContexts(n) = HeadContexts(n)
         /\ Moment(w, grid, heads)!MemoMatches(n) <=> MemoMatches(n)
         /\ Moment(w, grid, heads)!Contexts(n) = Contexts(n)
         /\ Moment(w, grid, heads)!PrimaryValue(n) = PrimaryValue(n)
         /\ Moment(w, grid, heads)!Cluster(n) = Cluster(n)
<1> DEFINE seen == {n[slot] : slot \in FirstOrder} \ {NONE}
           members == {v \in seen : IsMember(v)}
           then == {n[slot] : slot \in Moment(w, grid, heads)!FirstOrder} \ {Moment(w, grid, heads)!NONE}
           membersThen == {v \in then : Moment(w, grid, heads)!IsMember(v)}
<1>1. then = seen
  BY DEF Moment!FirstOrder, FirstOrder, Moment!NONE, NONE
<1>8. membersThen = members
  BY <1>1, MomentPalette
<1>9. SelectPrimaryValue(n) = IF members # {} THEN BestOf(n, members) ELSE IF seen # {} THEN BestOf(n, seen) ELSE NONE
  BY DEF SelectPrimaryValue
<1>10. Moment(w, grid, heads)!SelectPrimaryValue(n) =
         IF membersThen # {} THEN Moment(w, grid, heads)!BestOf(n, membersThen)
         ELSE IF then # {} THEN Moment(w, grid, heads)!BestOf(n, then) ELSE Moment(w, grid, heads)!NONE
  BY DEF Moment!SelectPrimaryValue
<1> HIDE DEF seen, members, then, membersThen
<1>2. Moment(w, grid, heads)!SelectPrimaryValue(n) = SelectPrimaryValue(n)
  BY <1>1, <1>8, <1>9, <1>10, MomentBest DEF Moment!NONE, NONE
<1>3. Moment(w, grid, heads)!HeadContexts(n) = HeadContexts(n)
  BY <1>2, MomentPlace, MomentPalette DEF IsNow, Moment!HeadContexts, HeadContexts
<1>4. Moment(w, grid, heads)!MemoMatches(n) <=> MemoMatches(n)
  BY DEF IsNow, Moment!MemoMatches, MemoMatches
<1>5. Moment(w, grid, heads)!Contexts(n) = Contexts(n)
  BY <1>3, <1>4 DEF IsNow, Moment!Contexts, Contexts, Moment!Remembered, Remembered
<1>6. Moment(w, grid, heads)!PrimaryValue(n) = PrimaryValue(n)
  BY <1>5 DEF Moment!PrimaryValue, PrimaryValue
<1>7. Moment(w, grid, heads)!Cluster(n) = Cluster(n)
  BY MomentPlace DEF IsNow, Moment!Cluster, Cluster, Moment!NONE, NONE
<1> QED BY <1>2, <1>3, <1>4, <1>5, <1>6, <1>7

-----------------------------------------------------------------------------
(* What the encoder saw where the decoder is now                           *)

(* It has the same neighbours, if those that exist are read alike. *)
LEMMA MomentNeighbors ==
  ASSUME NEW w, NEW grid, NEW heads, IsNow(w, grid, heads), AtCell,
         \A slot \in Slots : Exists(slot) => Grid[Neighbor(slot)] = voxels[Neighbor(slot)]
  PROVE  Moment(w, grid, heads)!Neighbors = Neighbors
<1> DEFINE gathered == [slot \in Slots |-> IF Exists(slot) THEN voxels[Neighbor(slot)] ELSE NONE]
<1>1. Neighbors = gathered
  BY NeighborsAreGathered
<1>5. \A slot \in Slots : Exists(slot) =>
        Moment(w, grid, heads)!GridAt(Neighbor(slot)) = voxels[Neighbor(slot)]
  BY NeighborsAreWalked, MomentPlace DEF IsNow, Moment!GridAt, Moment!Grid, Moment!Voxels, Voxels,
     Moment!Y_STRIDE, Y_STRIDE, Moment!SIDE, SIDE
<1>2. Moment(w, grid, heads)!GatherNeighbors = gathered
  BY <1>5, MomentPlace DEF IsNow, Moment!GatherNeighbors, Moment!Slots, Slots, Moment!NONE, NONE,
     Moment!Exists, Exists, Moment!Back, Back, Moment!East, East, Moment!EastCausal, EastCausal,
     Moment!SIDE, SIDE
<1>3. (Moment(w, grid, heads)!IsFast <=> IsFast)
  BY MomentPlace DEF Moment!IsFast, IsFast, Moment!FastRow, FastRow
<1>4. ASSUME IsFast PROVE Moment(w, grid, heads)!GatherNeighborsFast = gathered
  <2> DEFINE looked == [slot \in Slots |->
                          IF slot \in East => X + 1 < SIDE /\ (Local.x + 1 < SECTION_SIDE \/ Local.y = 0)
                          THEN Moment(w, grid, heads)!GridAt(Neighbor(slot)) ELSE NONE]
  <2>1. Moment(w, grid, heads)!GatherNeighborsFast = looked
    BY MomentPlace DEF IsNow, Moment!GatherNeighborsFast, Moment!Slots, Slots, Moment!NONE, NONE,
       Moment!East, East, Moment!SIDE, SIDE
  <2>2. looked = gathered
    BY <1>4, <1>5, FastLooks
  <2> QED BY <2>1, <2>2
<1> QED BY <1>1, <1>2, <1>3, <1>4 DEF Moment!Neighbors

(* Then everything the walk does next is what it did then. *)
Twin(w, grid, heads) ==
  /\ IsNow(w, grid, heads)
  /\ Coding
  /\ InCell
  /\ Moment(w, grid, heads)!Neighbors = Neighbors

(* The guess and the question about it are the same. *)
LEMMA TwinPrimary ==
  ASSUME NEW w, NEW grid, NEW heads, Twin(w, grid, heads)
  PROVE  /\ Moment(w, grid, heads)!PrimaryValue(Moment(w, grid, heads)!Neighbors) = PrimaryValue(Neighbors)
         /\ Moment(w, grid, heads)!Contexts(Moment(w, grid, heads)!Neighbors) = Contexts(Neighbors)
         /\ Moment(w, grid, heads)!Cluster(Moment(w, grid, heads)!Neighbors) = Cluster(Neighbors)
         /\ Moment(w, grid, heads)!Memorized = Memorized
         /\ Moment(w, grid, heads)!HeadQuestion = HeadQuestion
         /\ Moment(w, grid, heads)!SkipsHead(PrimaryValue(Neighbors)) <=> SkipsHead(PrimaryValue(Neighbors))
<1> DEFINE n == Neighbors
<1>1. IsNow(w, grid, heads) /\ Moment(w, grid, heads)!Neighbors = n
  BY DEF Twin
<1>2. /\ Moment(w, grid, heads)!HeadContexts(n) = HeadContexts(n)
      /\ Moment(w, grid, heads)!MemoMatches(n) <=> MemoMatches(n)
      /\ Moment(w, grid, heads)!Contexts(n) = Contexts(n)
      /\ Moment(w, grid, heads)!PrimaryValue(n) = PrimaryValue(n)
      /\ Moment(w, grid, heads)!Cluster(n) = Cluster(n)
  BY <1>1, MomentPrimary
<1>3. Moment(w, grid, heads)!Memorized = Memorized
  BY <1>1, <1>2 DEF IsNow, Moment!Memorized, Memorized
<1>4. Moment(w, grid, heads)!HeadQuestion = HeadQuestion
  BY <1>1, <1>2 DEF Moment!HeadQuestion, HeadQuestion
<1>5. Moment(w, grid, heads)!SkipsHead(PrimaryValue(n)) <=> SkipsHead(PrimaryValue(n))
  <2>1. IsMember(Truth)
    BY TruthIsMember DEF Twin
  <2>2. Moment(w, grid, heads)!Truth = Truth
    BY <1>1, MomentPlace
  <2>3. Moment(w, grid, heads)!IsMember(PrimaryValue(n)) <=> IsMember(PrimaryValue(n))
    BY <1>1, MomentPalette
  <2> HIDE DEF n
  <2> QED BY <2>1, <2>2, <2>3 DEF Moment!SkipsHead, SkipsHead, Moment!NONE, NONE
<1> QED BY <1>1, <1>2, <1>3, <1>4, <1>5

(* So are the candidates. *)
LEMMA TwinCandidates ==
  ASSUME NEW w, NEW grid, NEW heads, Twin(w, grid, heads)
  PROVE  /\ Moment(w, grid, heads)!CandidateSlots = CandidateSlots
         /\ Moment(w, grid, heads)!Candidate = Candidate
         /\ Moment(w, grid, heads)!Residual = Residual
         /\ Moment(w, grid, heads)!NextCandidate = NextCandidate
         /\ Moment(w, grid, heads)!CandidateQuestion = CandidateQuestion
<1> DEFINE n == Neighbors
           p == PrimaryValue(Neighbors)
<1>1. IsNow(w, grid, heads) /\ Moment(w, grid, heads)!Neighbors = n
  BY DEF Twin
<1>2. Moment(w, grid, heads)!PrimaryValue(n) = p
  BY <1>1, MomentPrimary
<1>3. ASSUME NEW slot PROVE Moment(w, grid, heads)!IsCandidate(n, slot) <=> IsCandidate(n, slot)
  <2>1. Moment(w, grid, heads)!IsMember(n[slot]) <=> IsMember(n[slot])
    BY <1>1, MomentPalette
  <2>2. p = PrimaryValue(n)
    OBVIOUS
  <2> HIDE DEF n, p
  <2> QED BY <1>2, <2>1, <2>2 DEF Moment!IsCandidate, IsCandidate, Moment!NONE, NONE
<1>4. Moment(w, grid, heads)!CandidateSlots = CandidateSlots
  BY <1>1, <1>3 DEF Moment!CandidateSlots, CandidateSlots, Moment!Slots, Slots
<1>5. Moment(w, grid, heads)!Candidate = Candidate
  BY <1>1 DEF IsNow, Moment!Candidate, Candidate
<1>6. Moment(w, grid, heads)!PaletteBits = PaletteBits
  BY <1>1, MomentPalette
<1>7. Moment(w, grid, heads)!Residual = Residual
  BY MomentCounts, <1>1, <1>4, <1>6 DEF IsNow, Moment!Residual, Residual
<1>8. Moment(w, grid, heads)!LaterCandidates = LaterCandidates
  BY <1>1, <1>4 DEF IsNow, Moment!LaterCandidates, LaterCandidates
<1>9. Moment(w, grid, heads)!NextCandidate = NextCandidate
  BY MomentCounts, <1>1, <1>8 DEF IsNow, Moment!NextCandidate, NextCandidate
<1>10. Moment(w, grid, heads)!CandidateQuestion = CandidateQuestion
  BY MomentCounts, <1>1, <1>2, <1>4, <1>5, <1>6
     DEF IsNow, Moment!CandidateQuestion, CandidateQuestion, Moment!FirstOrder, FirstOrder
<1> QED BY <1>4, <1>5, <1>7, <1>9, <1>10

(* So is the tree that is left. *)
LEMMA TwinTree ==
  ASSUME NEW w, NEW grid, NEW heads, Twin(w, grid, heads)
  PROVE  /\ Moment(w, grid, heads)!Node = Node
         /\ Moment(w, grid, heads)!Lower = Lower
         /\ Moment(w, grid, heads)!Upper = Upper
         /\ Moment(w, grid, heads)!TreeQuestion = TreeQuestion
         /\ Moment(w, grid, heads)!SlotOf(Truth) = SlotOf(Truth)
<1> DEFINE n == Neighbors
           p == PrimaryValue(Neighbors)
<1>1. IsNow(w, grid, heads) /\ Moment(w, grid, heads)!Neighbors = n
  BY DEF Twin
<1>2. Moment(w, grid, heads)!PrimaryValue(n) = p
  BY <1>1, MomentPrimary
<1>3. /\ Moment(w, grid, heads)!Palette = Palette
      /\ Moment(w, grid, heads)!PaletteBits = PaletteBits
      /\ \A r : Moment(w, grid, heads)!IsMember(r) <=> IsMember(r)
      /\ \A r : Moment(w, grid, heads)!SlotOf(r) = SlotOf(r)
  BY <1>1, MomentPalette
<1>4. Moment(w, grid, heads)!Node = Node /\ Moment(w, grid, heads)!Hi = Hi
  BY MomentCounts, <1>1, <1>3 DEF IsNow, Moment!Node, Node, Moment!Hi, Hi
<1>5. Moment(w, grid, heads)!Excluded = Excluded
  BY <1>1, <1>2, <1>3, TwinCandidates DEF Moment!Excluded, Excluded, Moment!NONE, NONE
<1>6. ASSUME NEW a, NEW b PROVE Moment(w, grid, heads)!Left(a, b) = Left(a, b)
  BY MomentCounts, <1>5 DEF Moment!Left, Left
<1>7. Moment(w, grid, heads)!Lower = Lower /\ Moment(w, grid, heads)!Upper = Upper
  BY MomentCounts, <1>1, <1>4, <1>6 DEF IsNow, Moment!Lower, Lower, Moment!Upper, Upper
<1>8. Moment(w, grid, heads)!TreeQuestion = TreeQuestion
  BY MomentCounts, <1>1, <1>2, <1>3, <1>4, <1>7, MomentPlace DEF IsNow, Moment!TreeQuestion, TreeQuestion
<1> QED BY <1>3, <1>4, <1>7, <1>8

(* So are question, answer and the step that follows. *)
LEMMA TwinSteps ==
  ASSUME NEW w, NEW grid, NEW heads, Twin(w, grid, heads)
  PROVE  /\ Moment(w, grid, heads)!Asks <=> Asks
         /\ Moment(w, grid, heads)!Question = Question
         /\ Moment(w, grid, heads)!TrueBit = TrueBit
         /\ Moment(w, grid, heads)!Onward = Onward
<1>1. /\ IsNow(w, grid, heads) /\ Moment(w, grid, heads)!Neighbors = Neighbors
      /\ Coding /\ at.stage \in {"head", "candidate", "tree"}
  BY DEF Twin, InCell
<1>2. Moment(w, grid, heads)!PrimaryValue(Moment(w, grid, heads)!Neighbors) = PrimaryValue(Neighbors)
  BY TwinPrimary
<1>3. Moment(w, grid, heads)!Asks <=> Asks
  BY <1>1, <1>2, TwinPrimary, TwinTree
     DEF IsNow, Moment!Asks, Asks, Moment!AtBranch, AtBranch, Moment!Coding
<1>4. Moment(w, grid, heads)!Question = Question
  BY <1>1, TwinPrimary, TwinCandidates, TwinTree DEF IsNow, Moment!Question, Question
<1>5. Moment(w, grid, heads)!Truth = Truth /\ Moment(w, grid, heads)!Here = Here
  BY <1>1, MomentPlace
<1>6. Moment(w, grid, heads)!TrueBit = TrueBit
  BY <1>1, <1>2, <1>5, TwinCandidates, TwinTree DEF IsNow, Moment!TrueBit, TrueBit
<1>7. Moment(w, grid, heads)!NextCell = NextCell
  BY <1>1 DEF IsNow, Moment!NextCell, NextCell, Moment!Start, Start, Moment!Cells, Cells
<1>8. Moment(w, grid, heads)!AfterHead = AfterHead
  BY MomentCounts, <1>1, <1>2, <1>5, <1>7, TwinPrimary, TwinCandidates DEF IsNow, Moment!AfterHead, AfterHead
<1>9. Moment(w, grid, heads)!AfterCandidate = AfterCandidate
  BY <1>1, <1>5, <1>7, TwinCandidates DEF IsNow, Moment!AfterCandidate, AfterCandidate
<1>10. Moment(w, grid, heads)!AfterBranch = AfterBranch
  BY <1>1, <1>5, TwinTree DEF IsNow, Moment!AfterBranch, AfterBranch
<1>11. Moment(w, grid, heads)!AfterLeaf = AfterLeaf
  BY <1>1, <1>7 DEF IsNow, Moment!AfterLeaf, AfterLeaf
<1>12. Moment(w, grid, heads)!Onward = Onward
  BY <1>1, <1>8, <1>9, <1>10, <1>11 DEF IsNow, Moment!Onward, Onward
<1> QED BY <1>3, <1>4, <1>6, <1>12

-----------------------------------------------------------------------------
(* At a section's header                                                   *)

(* A section has a first cell. *)
LEMMA FirstCell == 0 \in Cells
<1>1. SECTION_SIDE * SECTION_SIDE * SECTION_SIDE \in Nat
      /\ Number(0, 0, 0, SECTION_SIDE) \in 0..(SECTION_SIDE * SECTION_SIDE * SECTION_SIDE - 1)
  BY SidesType, NumberRange
<1> QED BY <1>1 DEF Cells

(* The step at a section, the encoder's and the decoder's. *)
SectionStepped ==
  /\ UNCHANGED <<region, phase, ranked, voxels, file, cursor>>
  /\ at' = AfterHeader(Header(at.section)).at
  /\ run' = AfterHeader(Header(at.section)).run
  /\ miss' = AfterHeader(Header(at.section)).miss
  /\ memo' = AfterHeader(Header(at.section)).memo
  /\ headers'[at.section + 1] = Header(at.section)
  /\ decoded' = IF phase = "decode" /\ Header(at.section).bits = 0
                THEN Filled(at.section, Header(at.section).palette[1]) ELSE decoded

(* After the header the coder is where it should be. *)
LEMMA SectionGood ==
  ASSUME Built, AtType, Between, at.section \in Sections, SectionStepped
  PROVE  Good'
<1> DEFINE h == Header(at.section)
<1>1. Describes(h, at.section)
  BY HeaderDescribes
<1>2. at' = AfterHeader(h).at /\ memo' = AfterHeader(h).memo /\ headers'[at.section + 1] = h
      /\ UNCHANGED <<region, ranked, voxels>>
  BY DEF SectionStepped
<1>3. at.cell = 0 /\ at.partial = 0 /\ at.section \in Nat /\ at.stage = "section"
  BY DEF Between, AtType
<1> HIDE DEF h
<1>4. CASE h.bits = 0
  <2>1. at' = [at EXCEPT !.section = @ + 1]
    BY <1>2, <1>4 DEF AfterHeader
  <2> QED BY <1>3, <2>1 DEF Good, AtType, Between
<1>5. CASE h.bits # 0
  <2>1. at' = [at EXCEPT !.stage = "head"] /\ memo' = NoMemo
    BY <1>2, <1>5 DEF AfterHeader
  <2>2. AtType' /\ at'.section = at.section /\ at'.cell = 0 /\ at'.stage = "head" /\ at'.partial = 0
    BY <1>3, <2>1 DEF AtType
  <2>3. Built' /\ Describes(headers[at.section + 1], at.section)'
    <3>1. PICK g, s : g = h /\ s = at.section
      OBVIOUS
    <3>2. Describes(g, s)
      BY <1>1, <3>1
    <3>3. Built' /\ Describes(g, s)'
      BY <1>2, <3>2, SameBuilt
    <3>4. headers'[at'.section + 1] = g /\ at'.section = s
      BY <1>2, <2>2, <3>1
    <3> QED BY <3>3, <3>4 DEF Describes
  <2>4. MemoOfSection'
    BY <2>1 DEF MemoOfSection, NoMemo
  <2>5. InCell'
    BY <1>2, <1>5, <2>2, <2>3, <2>4, FirstCell DEF InCell, AtCell
  <2>6. HeadPart' /\ WrongPart' /\ ChainPart' /\ TreePart'
    BY <2>2 DEF HeadPart, WrongPart, ChainPart, TreePart
  <2> QED BY <2>2, <2>5, <2>6 DEF Good, Inside
<1> QED BY <1>4, <1>5

(* The encoder's is one. *)
LEMMA EncodeSectionSteps ==
  ASSUME EncodeSection, NEW S, headers \in Seq(S), Len(headers) = at.section
  PROVE  SectionStepped /\ headers' = Append(headers, Header(at.section))
<1> DEFINE h == Header(at.section)
<1>1. /\ phase = "encode" /\ headers' = Append(headers, h)
      /\ IF h.bits = 0 THEN at' = [at EXCEPT !.section = @ + 1] /\ UNCHANGED memo
                       ELSE at' = [at EXCEPT !.stage = "head"] /\ memo' = NoMemo
      /\ UNCHANGED <<region, phase, ranked, voxels, decoded, file, cursor, run, miss>>
  BY DEF EncodeSection
<1> HIDE DEF h
<1>2. headers'[at.section + 1] = h
  BY <1>1
<1> QED BY <1>1, <1>2 DEF SectionStepped, AfterHeader, h

(* And so is the decoder's. *)
LEMMA DecodeSectionSteps ==
  ASSUME DecodeSection, headers[at.section + 1] = Header(at.section)
  PROVE  SectionStepped /\ headers' = headers
<1> DEFINE h == Header(at.section)
<1>1. PaletteBits = h.bits /\ Palette = h.palette
  BY DEF PaletteBits, Palette
<1>2. /\ phase = "decode"
      /\ IF h.bits = 0
         THEN /\ decoded' = Filled(at.section, h.palette[1])
              /\ at' = [at EXCEPT !.section = @ + 1]
              /\ UNCHANGED memo
         ELSE /\ at' = [at EXCEPT !.stage = "head"]
              /\ memo' = NoMemo
              /\ UNCHANGED decoded
      /\ UNCHANGED <<region, phase, ranked, voxels, headers, file, cursor, run, miss>>
  BY <1>1 DEF DecodeSection
<1> HIDE DEF h
<1>3. headers'[at.section + 1] = h
  BY <1>2 DEF h
<1> QED BY <1>2, <1>3 DEF SectionStepped, AfterHeader, h

(* What the encoder did there. *)
LEMMA MomentSection ==
  ASSUME NEW w, NEW grid, NEW heads, w.at = at, w.run = run, w.miss = miss, w.memo = memo,
         at.stage = "section"
  PROVE  /\ ~Moment(w, grid, heads)!Asks
         /\ Moment(w, grid, heads)!Onward = AfterHeader(heads[at.section + 1])
BY DEF Moment!Asks, Moment!AtBranch, Moment!Onward, Moment!AfterHeader, AfterHeader, Moment!NoMemo, NoMemo

-----------------------------------------------------------------------------
(* The trail of the encoder                                                *)

(* From one entry to the next is one step, with what it wrote. *)
Linked(w, n, answers, grid, heads) ==
  /\ w.at.section \in Sections
  /\ w.asked \in Nat
  /\ n.at = Moment(w, grid, heads)!Onward.at
  /\ n.run = Moment(w, grid, heads)!Onward.run
  /\ n.miss = Moment(w, grid, heads)!Onward.miss
  /\ n.memo = Moment(w, grid, heads)!Onward.memo
  /\ Moment(w, grid, heads)!Asks =>
       /\ n.asked = w.asked + 1
       /\ w.asked < Len(answers)
       /\ answers[w.asked + 1] =
            [question |-> Moment(w, grid, heads)!Question, bit |-> Moment(w, grid, heads)!TrueBit]
  /\ ~Moment(w, grid, heads)!Asks => n.asked = w.asked

(* Where the walk starts. *)
First(w) ==
  /\ w.at = Start
  /\ w.run = 0
  /\ w.miss = [v \in Voxels |-> 0]
  /\ w.memo = NoMemo
  /\ w.asked = 0

(* The trail starts there, and goes on step by step. *)
Trail(trail, last, answers, grid, heads) ==
  /\ last \in Nat \ {0}
  /\ First(trail[1])
  /\ \A k \in 1..(last - 1) : Linked(trail[k], trail[k + 1], answers, grid, heads)

(* Longer by what was written since. *)
LongerBy(answers, longer) ==
  /\ Len(answers) \in Nat /\ Len(longer) \in Nat
  /\ Len(answers) <= Len(longer)
  /\ \A k \in 1..Len(answers) : longer[k] = answers[k]

(* What was written stays. *)
LEMMA LinkKept ==
  ASSUME NEW w, NEW n, NEW answers, NEW longer, NEW grid, NEW heads,
         Linked(w, n, answers, grid, heads), LongerBy(answers, longer)
  PROVE  Linked(w, n, longer, grid, heads)
<1>1. w.asked \in Nat /\ w.asked < Len(answers) => w.asked + 1 \in 1..Len(answers) /\ w.asked < Len(longer)
  BY DEF LongerBy
<1> QED BY <1>1 DEF Linked, LongerBy

(* So the trail can be extended by a step. *)
LEMMA TrailGrows ==
  ASSUME NEW trail, NEW last, NEW answers, NEW longer, NEW grid, NEW heads, NEW w,
         Trail(trail, last, answers, grid, heads), LongerBy(answers, longer),
         Linked(trail[last], w, longer, grid, heads)
  PROVE  \E grown : Trail(grown, last + 1, longer, grid, heads) /\ grown[last + 1] = w
<1> DEFINE grown == [k \in 1..(last + 1) |-> IF k = last + 1 THEN w ELSE trail[k]]
<1>1. last \in Nat \ {0} /\ last + 1 \in Nat \ {0} /\ last + 1 - 1 = last
  BY DEF Trail
<1>2. grown[last + 1] = w /\ \A k \in 1..last : grown[k] = trail[k]
  BY <1>1
<1> HIDE DEF grown
<1>3. First(grown[1])
  BY <1>1, <1>2 DEF Trail
<1>4. ASSUME NEW k \in 1..last
      PROVE  Linked(grown[k], grown[k + 1], longer, grid, heads)
  <2>1. CASE k = last
    BY <1>2, <2>1
  <2>2. CASE k # last
    <3>1. k \in 1..(last - 1) /\ k + 1 \in 1..last
      BY <1>1, <2>2
    <3>2. Linked(trail[k], trail[k + 1], longer, grid, heads)
      BY <3>1, LinkKept DEF Trail
    <3> QED BY <1>2, <3>1, <3>2
  <2> QED BY <2>1, <2>2
<1>5. Trail(grown, last + 1, longer, grid, heads)
  BY <1>1, <1>3, <1>4 DEF Trail
<1> QED BY <1>2, <1>5

(* Of the state, a trail depends on the file only. *)
LEMMA TrailPrimed ==
  ASSUME NEW trail, NEW last, NEW grid, NEW heads
  PROVE  Trail(trail, last, file, grid, heads)' <=> Trail(trail, last, file', grid, heads)
OBVIOUS

-----------------------------------------------------------------------------
(* The inductive invariant                                                 *)

(* Nothing is coded yet. *)
Fresh ==
  /\ region \in Regions
  /\ headers = <<>> /\ file = <<>> /\ cursor = 0
  /\ at = Start /\ run = 0 /\ miss = [v \in Voxels |-> 0] /\ memo = NoMemo

(* What state the coder is in, in every phase. *)
Shape ==
  /\ phase \in {"build", "encode", "decode", "done"}
  /\ decoded \in [Voxels -> Nat]
  /\ \E S : file \in Seq(S)
  /\ \E S : headers \in Seq(S)
  /\ phase = "build" => Fresh
  /\ phase # "build" => Built
  /\ phase = "encode" => cursor = 0
  /\ Coding => Good

(* The coder is where the entry is. *)
Arrived(w) == w.at = at /\ w.run = run /\ w.miss = miss /\ w.memo = memo

(* These are the headers of the sections. *)
Headed(heads) == \A s \in Sections : heads[s + 1] = Header(s)

(* Headers are written section by section. *)
HeadersPart ==
  /\ phase = "encode" =>
       /\ Len(headers) = at.section + (IF at.stage = "section" THEN 0 ELSE 1)
       /\ \A s \in Sections : s < Len(headers) => headers[s + 1] = Header(s)
  /\ phase = "decode" => Headed(headers)

(* The trail leads to where the encoder is. *)
Leading(trail, last, grid, heads) ==
  /\ grid = voxels
  /\ Headed(heads)
  /\ Trail(trail, last, file, grid, heads)
  /\ Arrived(trail[last])
  /\ trail[last].asked = Len(file)

(* The decoder is on it. *)
Following(trail, last, grid, heads, k) ==
  /\ grid = voxels
  /\ Headed(heads)
  /\ Trail(trail, last, file, grid, heads)
  /\ k \in 1..last
  /\ Arrived(trail[k])
  /\ trail[k].asked = cursor
  /\ trail[last].at.section \notin Sections
  /\ trail[last].asked = Len(file)

(* There is a trail. *)
TrailPart ==
  /\ phase = "encode" => \E trail, last, grid, heads : Leading(trail, last, grid, heads)
  /\ phase = "decode" => \E trail, last, grid, heads, k : Following(trail, last, grid, heads, k)

(* What was walked over is decoded. *)
DecodedPart ==
  /\ phase = "decode" =>
       \A v \in Voxels : Walked(at.section, at.cell, v) => decoded[v] = voxels[v]
  /\ phase = "done" => decoded = voxels /\ cursor = Len(file)

(* The inductive invariant. *)
IInv == Shape /\ HeadersPart /\ TrailPart /\ DecodedPart

-----------------------------------------------------------------------------
(* Before the walk                                                         *)

(* It holds at first. *)
LEMMA InitEstablishes == Init => IInv
<1> SUFFICES ASSUME Init PROVE IInv
  OBVIOUS
<1> USE DEF Init
<1>1. decoded \in [Voxels -> Nat]
  OBVIOUS
<1>2. file \in Seq({}) /\ headers \in Seq({})
  OBVIOUS
<1>3. Fresh
  BY DEF Fresh
<1> QED BY <1>1, <1>2, <1>3 DEF IInv, Shape, HeadersPart, TrailPart, DecodedPart, Coding

(* The headers that will be written *)
HeadersListed == \E heads : Headed(heads)

(* There is such a list. *)
LEMMA HeadersAreListed == HeadersListed
<1> DEFINE D == {s + 1 : s \in Sections}
           heads == [k \in D |-> Header(k - 1)]
<1>1. \A s \in Sections : s + 1 \in D /\ (s + 1) - 1 = s
  BY DEF Sections
<1> HIDE DEF D
<1>2. \A k \in D : heads[k] = Header(k - 1)
  OBVIOUS
<1> HIDE DEF heads
<1>3. ASSUME NEW s \in Sections PROVE heads[s + 1] = Header(s)
  <2>1. PICK k : k = s + 1
    OBVIOUS
  <2>2. k \in D /\ k - 1 = s
    BY <1>1, <2>1
  <2>3. heads[k] = Header(k - 1)
    BY <1>2, <2>2
  <2> QED BY <2>1, <2>2, <2>3
<1> QED BY <1>3 DEF HeadersListed, Headed

(* And in the next state. *)
LEMMA HeadersListedNext == HeadersListed'
BY HeadersAreListed, PTL

(* It holds when ranking and grid are built: the trail has one entry. *)
LEMMA BuildKeeps ==
  ASSUME IInv, BuildGrid
  PROVE  IInv'
<1>1. Fresh /\ Shape /\ phase' = "encode"
      /\ UNCHANGED <<region, decoded, headers, file, cursor, at, run, miss, memo>>
      /\ ranked' = Ranking
      /\ voxels' = [v \in Voxels |-> RankOf(ranked', Contents(SectionOfVoxel(v), CellOfVoxel(v)))]
  BY DEF BuildGrid, IInv, Shape
<1>2. Built'
  <2>1. Lists(Ranking, Atoms)
    BY <1>1, RankingLists DEF Fresh
  <2>2. \A s, c : Contents(s, c)' = Contents(s, c)
    BY <1>1 DEF Contents
  <2>3. Atoms' = Atoms
    BY <2>2 DEF Atoms
  <2> QED BY <1>1, <2>1, <2>2, <2>3 DEF Built, Fresh
<1>3. Good'
  <2>1. AtType' /\ Between'
    BY <1>1 DEF Fresh, Start, AtType, Between
  <2> QED BY <2>1 DEF Good
<1>4. Shape'
  <2>1. \E S : file' \in Seq(S)
    BY <1>1 DEF Shape
  <2>2. \E S : headers' \in Seq(S)
    BY <1>1 DEF Shape
  <2> QED BY <1>1, <1>2, <1>3, <2>1, <2>2 DEF Shape, Fresh
<1>5. HeadersPart'
  <2>1. Len(headers') = 0 /\ at'.section = 0 /\ at'.stage = "section"
    BY <1>1 DEF Fresh, Start
  <2>2. \A s \in Sections : ~(s < 0)
    BY DEF Sections
  <2> QED BY <1>1, <2>1, <2>2 DEF HeadersPart
<1>6. TrailPart'
  <2> DEFINE w == [at |-> at, run |-> run, miss |-> miss, memo |-> memo, asked |-> 0]
  <2>1. First(w)
    BY <1>1 DEF First, Fresh
  <2>2. PICK trail, grid : trail = [k \in {1} |-> w] /\ grid = voxels'
    OBVIOUS
  <2>3. PICK heads : Headed(heads)'
    BY HeadersListedNext DEF HeadersListed
  <2>4. Trail(trail, 1, file', grid, heads)
    <3>1. trail[1] = w
      BY <2>2
    <3>2. 1 \in Nat \ {0} /\ 1..(1 - 1) = {}
      OBVIOUS
    <3> QED BY <2>1, <3>1, <3>2 DEF Trail
  <2>5. Arrived(trail[1])' /\ trail[1].asked = Len(file')
    BY <1>1, <2>2 DEF Arrived, Fresh
  <2>6. Leading(trail, 1, grid, heads)'
    BY <2>2, <2>3, <2>4, <2>5, TrailPrimed DEF Leading
  <2> QED BY <1>1, <2>6 DEF TrailPart
<1>7. DecodedPart'
  BY <1>1 DEF DecodedPart
<1> QED BY <1>4, <1>5, <1>6, <1>7 DEF IInv

-----------------------------------------------------------------------------
(* The encoder walks on                                                    *)

(* What is built stays, so the headers do. *)
LEMMA HeadedKept ==
  ASSUME UNCHANGED <<region, ranked, voxels>>, NEW heads
  PROVE  Headed(heads)' <=> Headed(heads)
<1>1. \A s : Header(s)' = Header(s)
  BY SameBuilt
<1> QED BY <1>1 DEF Headed

(* One entry more. *)
LEMMA EncodingGrows ==
  ASSUME phase = "encode", phase' = "encode", UNCHANGED <<region, ranked, voxels>>,
         NEW trail, NEW last, NEW grid, NEW heads, Leading(trail, last, grid, heads),
         LongerBy(file, file'),
         Linked(trail[last],
                [at |-> at', run |-> run', miss |-> miss', memo |-> memo', asked |-> Len(file')],
                file', grid, heads)
  PROVE  TrailPart'
<1> DEFINE w == [at |-> at', run |-> run', miss |-> miss', memo |-> memo', asked |-> Len(file')]
<1>1. Trail(trail, last, file, grid, heads)
  BY DEF Leading
<1>8. Linked(trail[last], w, file', grid, heads)
  OBVIOUS
<1> HIDE DEF w
<1>9. PICK answers, longer, new : answers = file /\ longer = file' /\ new = w
  OBVIOUS
<1>10. /\ Trail(trail, last, answers, grid, heads)
       /\ LongerBy(answers, longer)
       /\ Linked(trail[last], new, longer, grid, heads)
  BY <1>1, <1>8, <1>9
<1>11. PICK grown : Trail(grown, last + 1, longer, grid, heads) /\ grown[last + 1] = new
  BY ONLY <1>10, TrailGrows
<1>2. Trail(grown, last + 1, file', grid, heads) /\ grown[last + 1] = w
  BY <1>9, <1>11
<1>3. PICK n : n = last + 1
  OBVIOUS
<1>4. Trail(grown, n, file, grid, heads)'
  BY <1>2, <1>3, TrailPrimed
<1>5. Arrived(grown[n])' /\ grown[n].asked = Len(file')
  BY <1>2, <1>3 DEF Arrived, w
<1>6. Headed(heads)' /\ grid = voxels'
  BY HeadedKept DEF Leading
<1>7. Leading(grown, n, grid, heads)'
  BY <1>4, <1>5, <1>6 DEF Leading
<1> QED BY <1>7 DEF TrailPart

(* At an entry inside a section, the coder is the encoder's twin. *)
LEMMA EncoderIsTwin ==
  ASSUME phase = "encode", Inside, HeadersPart,
         NEW trail, NEW last, NEW grid, NEW heads, Leading(trail, last, grid, heads)
  PROVE  Twin(trail[last], grid, heads)
<1>1. AtCell /\ InCell /\ at.stage # "section"
  BY DEF Inside, InCell
<1>2. headers[at.section + 1] = Header(at.section)
  <2>1. at.section \in Sections /\ at.section < at.section + 1
    BY <1>1 DEF AtCell, Sections
  <2> QED BY <1>1, <2>1 DEF HeadersPart
<1>3. IsNow(trail[last], grid, heads)
  BY <1>1, <1>2 DEF IsNow, Leading, Arrived, Headed, AtCell
<1>4. Grid = voxels
  BY DEF Grid
<1> QED BY <1>1, <1>3, <1>4, MomentNeighbors DEF Twin, Coding

(* Every question is appended. *)
LEMMA AppendedIsLonger ==
  ASSUME NEW S, file \in Seq(S), NEW x, file' = Append(file, x) \/ file' = file
  PROVE  /\ LongerBy(file, file')
         /\ \E T : file' \in Seq(T)
         /\ file' = Append(file, x) => Len(file') = Len(file) + 1 /\ file'[Len(file) + 1] = x
<1>1. file \in Seq(S \cup {x}) /\ Len(file) \in Nat
  OBVIOUS
<1>2. CASE file' = file
  BY <1>1, <1>2 DEF LongerBy
<1>3. CASE file' = Append(file, x)
  <2>1. file' \in Seq(S \cup {x}) /\ Len(file') = Len(file) + 1 /\ file'[Len(file) + 1] = x
        /\ \A k \in 1..Len(file) : file'[k] = file[k]
    BY <1>1, <1>3
  <2> QED BY <1>1, <2>1 DEF LongerBy
<1> QED BY <1>2, <1>3

(* Where a step inside a section leads. *)
LEMMA OnwardMoves ==
  ASSUME Inside, AtType
  PROVE  /\ \/ Onward.at.section = at.section /\ Onward.at.stage # "section"
            \/ Onward.at.section = at.section + 1 /\ Onward.at.stage = "section"
         /\ Completes => Onward.at = NextCell
         /\ ~Completes => Onward.at.section = at.section /\ Onward.at.cell = at.cell
<1>1. at.stage \in {"head", "candidate", "tree"} /\ at.bit_pos \in Int
  BY DEF Inside, InCell, AtType
<1>2. \/ NextCell.section = at.section /\ NextCell.stage # "section"
      \/ NextCell.section = at.section + 1 /\ NextCell.stage = "section"
  BY DEF NextCell, Start
<1>3. Residual.section = at.section /\ Residual.cell = at.cell /\ Residual.stage # "section"
  BY DEF Residual, AtType
<1>4. NextCandidate.section = at.section /\ NextCandidate.cell = at.cell
      /\ (at.stage = "candidate" => NextCandidate.stage # "section")
  BY DEF NextCandidate, AtType
<1>5. CASE at.stage = "head"
  <2>1. Onward = AfterHead /\ (Completes <=> Truth = PrimaryValue(Neighbors))
    BY <1>5 DEF Onward, Completes
  <2>2. Onward.at = IF Truth = PrimaryValue(Neighbors) THEN NextCell ELSE Residual
    BY <2>1 DEF AfterHead
  <2> QED BY <1>2, <1>3, <2>1, <2>2
<1>6. CASE at.stage = "candidate"
  <2>1. Onward = AfterCandidate /\ (Completes <=> Truth = Candidate)
    BY <1>6 DEF Onward, Completes
  <2>2. Onward.at = IF Truth = Candidate THEN NextCell ELSE NextCandidate
    BY <2>1 DEF AfterCandidate
  <2> QED BY <1>2, <1>4, <1>6, <2>1, <2>2
<1>7. CASE at.stage = "tree" /\ at.bit_pos >= 0
  <2>1. Onward = AfterBranch /\ ~Completes
    BY <1>1, <1>7 DEF Onward, Completes
  <2>2. Onward.at = [at EXCEPT !.bit_pos = @ - 1, !.partial = IF SlotOf(Truth) >= Node THEN Node ELSE @]
    BY <2>1 DEF AfterBranch
  <2>3. Onward.at.section = at.section /\ Onward.at.cell = at.cell /\ Onward.at.stage = "tree"
    BY <1>7, <2>2 DEF AtType
  <2> QED BY <2>1, <2>3
<1>8. CASE at.stage = "tree" /\ at.bit_pos < 0
  <2>1. Onward = AfterLeaf /\ Completes
    BY <1>1, <1>8 DEF Onward, Completes
  <2>2. Onward.at = NextCell
    BY <2>1 DEF AfterLeaf
  <2> QED BY <1>2, <2>1, <2>2
<1> QED BY <1>1, <1>5, <1>6, <1>7, <1>8

(* Every step inside a section adds an entry. *)
LEMMA EncodeCellKeeps ==
  ASSUME IInv, phase = "encode", at.stage # "section", Next
  PROVE  IInv'
<1>1. Shape /\ HeadersPart /\ TrailPart /\ Good /\ Coding /\ Inside
  BY DEF IInv, Shape, Coding, Good, Between
<1>2. Stepped /\ Good'
  BY <1>1, CellSteps, SteppedGood DEF ReadsTruth
<1>3. /\ phase' = "encode" /\ decoded' = decoded /\ cursor' = cursor
      /\ UNCHANGED <<region, ranked, voxels, headers>>
      /\ at' = Onward.at /\ run' = Onward.run /\ miss' = Onward.miss /\ memo' = Onward.memo
      /\ file' = IF Asks THEN Append(file, [question |-> Question, bit |-> TrueBit]) ELSE file
  BY <1>2 DEF Stepped
<1>4. PICK S : file \in Seq(S)
  BY <1>1 DEF Shape
<1> DEFINE x == [question |-> Question, bit |-> TrueBit]
<1>5. /\ LongerBy(file, file')
      /\ \E T : file' \in Seq(T)
      /\ Asks => Len(file') = Len(file) + 1 /\ file'[Len(file) + 1] = x
  BY <1>3, <1>4, AppendedIsLonger
<1>6. Shape'
  <2>1. \E T : headers' \in Seq(T)
    BY <1>1, <1>3 DEF Shape
  <2>2. Built'
    BY <1>1, <1>3, SameBuilt DEF Shape
  <2> QED BY <1>1, <1>2, <1>3, <1>5, <2>1, <2>2 DEF Shape
<1>7. HeadersPart'
  <2>1. \/ at'.section = at.section /\ at'.stage # "section"
        \/ at'.section = at.section + 1 /\ at'.stage = "section"
    BY <1>1, <1>3, OnwardMoves DEF Good
  <2>2. \A s : Header(s)' = Header(s)
    BY <1>3, SameBuilt
  <2>3. at.section \in Nat
    BY <1>1 DEF Good, AtType
  <2> QED BY <1>1, <1>3, <2>1, <2>2, <2>3 DEF HeadersPart
<1>8. TrailPart'
  <2>1. PICK trail, last, grid, heads : Leading(trail, last, grid, heads)
    BY <1>1 DEF TrailPart
  <2> DEFINE t == trail[last]
             w == [at |-> at', run |-> run', miss |-> miss', memo |-> memo', asked |-> Len(file')]
  <2>2. /\ Moment(t, grid, heads)!Asks <=> Asks
        /\ Moment(t, grid, heads)!Question = Question
        /\ Moment(t, grid, heads)!TrueBit = TrueBit
        /\ Moment(t, grid, heads)!Onward = Onward
    BY <1>1, <2>1, EncoderIsTwin, TwinSteps
  <2>3. t.at.section \in Sections /\ t.asked = Len(file) /\ Len(file) \in Nat
    BY <1>1, <1>4, <2>1 DEF Leading, Arrived, Inside, InCell, AtCell
  <2>4. /\ w.at = Onward.at /\ w.run = Onward.run /\ w.miss = Onward.miss /\ w.memo = Onward.memo
        /\ w.asked = Len(file')
    BY <1>3
  <2>5. /\ Asks => w.asked = t.asked + 1 /\ t.asked < Len(file') /\ file'[t.asked + 1] = x
        /\ ~Asks => w.asked = t.asked
    BY <1>3, <1>5, <2>3
  <2> HIDE DEF t, w
  <2>6. Linked(t, w, file', grid, heads)
    BY <2>2, <2>3, <2>4, <2>5 DEF Linked
  <2> QED BY <1>3, <1>5, <2>1, <2>6, EncodingGrows DEF t, w
<1>9. DecodedPart'
  BY <1>3 DEF DecodedPart
<1> QED BY <1>6, <1>7, <1>8, <1>9 DEF IInv

-----------------------------------------------------------------------------
(* Between two sections                                                    *)

(* At a section, both coders *)
LEMMA SectionShape ==
  ASSUME Shape, Coding, at.stage = "section", at.section \in Sections, SectionStepped,
         \E S : headers' \in Seq(S)
  PROVE  /\ Shape' /\ phase' = phase
         /\ UNCHANGED <<region, ranked, voxels, file, cursor>>
         /\ \/ at'.section = at.section /\ at'.stage = "head" /\ Header(at.section).bits # 0 /\ at'.cell = at.cell
            \/ at'.section = at.section + 1 /\ at'.stage = "section" /\ Header(at.section).bits = 0 /\ at'.cell = at.cell
         /\ at.cell = 0
<1> DEFINE h == Header(at.section)
<1>1. Built /\ AtType /\ Between /\ at.cell = 0
  BY DEF Shape, Good, Inside, InCell, Coding, Between
<1>2. Good'
  BY <1>1, SectionGood
<1>3. /\ UNCHANGED <<region, phase, ranked, voxels, file, cursor>>
      /\ at' = AfterHeader(h).at
      /\ decoded' = IF phase = "decode" /\ h.bits = 0 THEN Filled(at.section, h.palette[1]) ELSE decoded
  BY DEF SectionStepped
<1>4. Built'
  BY <1>1, <1>3, SameBuilt
<1>5. h.bits = 0 => h.palette[1] \in Nat
  <2>1. Describes(h, at.section)
    BY <1>1, HeaderDescribes
  <2> HIDE DEF h
  <2> QED BY <2>1 DEF Describes
<1> HIDE DEF h
<1>6. decoded' \in [Voxels -> Nat]
  <2>1. decoded \in [Voxels -> Nat]
    BY DEF Shape
  <2>2. h.bits = 0 => Filled(at.section, h.palette[1]) \in [Voxels -> Nat]
    BY <1>5, <2>1 DEF Filled
  <2> QED BY <1>3, <2>1, <2>2
<1>7. \E S : file' \in Seq(S)
  BY <1>3 DEF Shape
<1>8. Shape'
  BY <1>2, <1>3, <1>4, <1>6, <1>7 DEF Shape, Coding
<1>9. \/ at'.section = at.section /\ at'.stage = "head" /\ h.bits # 0 /\ at'.cell = at.cell
      \/ at'.section = at.section + 1 /\ at'.stage = "section" /\ h.bits = 0 /\ at'.cell = at.cell
  <2>1. at' = IF h.bits = 0 THEN [at EXCEPT !.section = @ + 1] ELSE [at EXCEPT !.stage = "head"]
    BY <1>3 DEF AfterHeader
  <2> QED BY <1>1, <2>1 DEF AtType
<1> QED BY <1>1, <1>3, <1>8, <1>9 DEF h

(* And so does every section. *)
LEMMA EncodeSectionKeeps ==
  ASSUME IInv, EncodeSection
  PROVE  IInv'
<1> DEFINE h == Header(at.section)
           s == at.section
<1>1. /\ Shape /\ HeadersPart /\ TrailPart
      /\ phase = "encode" /\ at.stage = "section" /\ s \in Sections /\ Coding
  BY DEF IInv, EncodeSection, AtSection, Coding
<1>2. PICK S : headers \in Seq(S)
  BY <1>1 DEF Shape
<1>3. Len(headers) = s /\ \A r \in Sections : r < Len(headers) => headers[r + 1] = Header(r)
  <2>1. s \in Nat
    BY <1>1 DEF Sections
  <2> QED BY <1>1, <2>1 DEF HeadersPart
<1>4. SectionStepped /\ headers' = Append(headers, h)
  BY <1>2, <1>3, EncodeSectionSteps
<1> HIDE DEF h
<1>5. headers' \in Seq(S \cup {h}) /\ Len(headers') = s + 1
      /\ \A k \in 1..s : headers'[k] = headers[k]
      /\ headers'[s + 1] = h
  BY <1>2, <1>3, <1>4
<1>10. headers'[s + 1] = h
  BY <1>4 DEF SectionStepped, h
<1>6. /\ Shape' /\ phase' = phase
      /\ UNCHANGED <<region, ranked, voxels, file, cursor>>
      /\ \/ at'.section = s /\ at'.stage = "head"
         \/ at'.section = s + 1 /\ at'.stage = "section"
  BY <1>1, <1>4, <1>5, SectionShape
<1>7. HeadersPart'
  <2>1. \A r : Header(r)' = Header(r)
    BY <1>6, SameBuilt
  <2>2. s \in Nat
    BY <1>1 DEF Sections
  <2>3. ASSUME NEW r \in Sections, r < s + 1 PROVE headers'[r + 1] = Header(r)
    <3>1. r \in Nat
      BY DEF Sections
    <3>2. CASE r = s
      <4>1. Header(r) = h
        BY <3>2 DEF h
      <4> QED BY <1>10, <3>2, <4>1
    <3>3. CASE r # s
      <4>1. r < s /\ r + 1 \in 1..s
        BY <2>2, <2>3, <3>1, <3>3
      <4> QED BY <1>3, <1>5, <4>1
    <3> QED BY <3>2, <3>3
  <2>4. Len(headers') = at'.section + (IF at'.stage = "section" THEN 0 ELSE 1)
    BY <1>5, <1>6, <2>2
  <2> HIDE DEF s
  <2>5. \A r \in Sections : r < Len(headers') => headers'[r + 1] = Header(r)'
    BY <1>5, <2>1, <2>3
  <2> QED BY <1>1, <1>6, <2>4, <2>5 DEF HeadersPart
<1>8. TrailPart'
  <2>1. PICK trail, last, grid, heads : Leading(trail, last, grid, heads)
    BY <1>1 DEF TrailPart
  <2> DEFINE t == trail[last]
             w == [at |-> at', run |-> run', miss |-> miss', memo |-> memo', asked |-> Len(file')]
  <2>2. /\ ~Moment(t, grid, heads)!Asks
        /\ Moment(t, grid, heads)!Onward = AfterHeader(heads[s + 1])
    BY <1>1, <2>1, MomentSection DEF Leading, Arrived
  <2>3. heads[s + 1] = h
    BY <1>1, <2>1 DEF Leading, Headed, h
  <2>4. t.at.section \in Sections /\ t.asked = Len(file) /\ Len(file) \in Nat
    BY <1>1, <2>1 DEF Leading, Arrived, Shape
  <2>5. /\ at' = AfterHeader(h).at /\ run' = AfterHeader(h).run /\ miss' = AfterHeader(h).miss
        /\ memo' = AfterHeader(h).memo /\ file' = file
    BY <1>4 DEF SectionStepped, h
  <2>6. /\ w.at = AfterHeader(h).at /\ w.run = AfterHeader(h).run /\ w.miss = AfterHeader(h).miss
        /\ w.memo = AfterHeader(h).memo /\ w.asked = t.asked
    BY <2>4, <2>5
  <2>7. LongerBy(file, file')
    BY <2>4, <2>5 DEF LongerBy
  <2> HIDE DEF t, w, s
  <2>8. Linked(t, w, file', grid, heads)
    BY <2>2, <2>3, <2>4, <2>6 DEF Linked
  <2> QED BY <1>1, <1>6, <2>1, <2>7, <2>8, EncodingGrows DEF t, w
<1>9. DecodedPart'
  BY <1>1, <1>6 DEF DecodedPart
<1> QED BY <1>6, <1>7, <1>8, <1>9 DEF IInv

(* The decoder starts where the trail does. *)
LEMMA StartDecodingKeeps ==
  ASSUME IInv, StartDecoding
  PROVE  IInv'
<1>1. /\ Shape /\ HeadersPart /\ TrailPart /\ DecodedPart
      /\ phase = "encode" /\ at.section \notin Sections /\ Coding /\ Good
      /\ phase' = "decode" /\ at' = Start /\ run' = 0 /\ miss' = [v \in Voxels |-> 0] /\ memo' = NoMemo
      /\ UNCHANGED <<region, ranked, voxels, decoded, headers, file, cursor>>
  BY DEF IInv, StartDecoding, AtEnd, Coding, Shape
<1>2. at.stage = "section" /\ at.section \in Nat
  BY <1>1 DEF Good, Between, Inside, InCell, AtCell, AtType
<1>3. Shape'
  <2>1. AtType' /\ Between'
    BY <1>1 DEF Start, AtType, Between
  <2>2. Built'
    BY <1>1, SameBuilt DEF Shape
  <2>3. \E S : file' \in Seq(S)
    BY <1>1 DEF Shape
  <2>4. \E S : headers' \in Seq(S)
    BY <1>1 DEF Shape
  <2> QED BY <1>1, <2>1, <2>2, <2>3, <2>4 DEF Shape, Good
<1>4. HeadersPart'
  <2>1. ASSUME NEW s \in Sections PROVE headers[s + 1] = Header(s)
    <3>1. SEGMENT_SIDE * SEGMENT_SIDE * SectionCount \in Nat
      BY SidesType, NumberRange
    <3>2. s < at.section
      BY <1>1, <1>2, <3>1 DEF Sections
    <3> QED BY <1>1, <1>2, <3>2 DEF HeadersPart
  <2>2. \A s : Header(s)' = Header(s)
    BY <1>1, SameBuilt
  <2> QED BY <1>1, <2>1, <2>2 DEF HeadersPart, Headed
<1>5. TrailPart'
  <2>1. PICK trail, last, grid, heads : Leading(trail, last, grid, heads)
    BY <1>1 DEF TrailPart
  <2>2. 1 \in 1..last /\ First(trail[1])
    BY <2>1 DEF Leading, Trail
  <2>3. Arrived(trail[1])' /\ trail[1].asked = cursor'
    <3>1. cursor = 0
      BY <1>1 DEF Shape
    <3> QED BY <1>1, <2>2, <3>1 DEF First, Arrived
  <2>4. Headed(heads)' /\ grid = voxels'
    BY <1>1, <2>1, HeadedKept DEF Leading
  <2>5. Trail(trail, last, file, grid, heads)'
    BY <1>1, <2>1, TrailPrimed DEF Leading
  <2>6. trail[last].at.section \notin Sections /\ trail[last].asked = Len(file')
    BY <1>1, <2>1 DEF Leading, Arrived
  <2>7. Following(trail, last, grid, heads, 1)'
    BY <2>2, <2>3, <2>4, <2>5, <2>6 DEF Following
  <2> QED BY <1>1, <2>7 DEF TrailPart
<1>6. DecodedPart'
  <2>1. \A v \in Voxels : ~Walked(0, 0, v)
    <3>1. \A v \in Voxels : ~Walked(0, 0, v)
      BY <1>1, <1>2, WalkedAll
    <3> QED BY <3>1
  <2>2. at'.section = 0 /\ at'.cell = 0
    BY <1>1 DEF Start
  <2> QED BY <1>1, <2>1, <2>2 DEF DecodedPart
<1> QED BY <1>3, <1>4, <1>5, <1>6 DEF IInv

-----------------------------------------------------------------------------
(* The decoder follows                                                     *)

(* Inside a section it is the twin of the encoder at its entry. *)
LEMMA DecoderIsTwin ==
  ASSUME phase = "decode", Inside, HeadersPart, DecodedPart,
         NEW trail, NEW last, NEW grid, NEW heads, NEW k, Following(trail, last, grid, heads, k)
  PROVE  Twin(trail[k], grid, heads)
<1>1. AtCell /\ InCell
  BY DEF Inside, InCell
<1>2. headers[at.section + 1] = Header(at.section) /\ heads[at.section + 1] = Header(at.section)
  BY <1>1 DEF HeadersPart, Headed, AtCell, Following
<1>3. IsNow(trail[k], grid, heads)
  BY <1>1, <1>2 DEF IsNow, Following, Arrived
<1>4. ASSUME NEW slot \in Slots, Exists(slot)
      PROVE  Grid[Neighbor(slot)] = voxels[Neighbor(slot)]
  <2>1. Neighbor(slot) \in Voxels /\ Walked(at.section, at.cell, Neighbor(slot))
    BY <1>1, <1>4, NeighborsAreWalked
  <2>2. Grid = decoded
    BY DEF Grid
  <2> QED BY <2>1, <2>2 DEF DecodedPart
<1> QED BY <1>1, <1>3, <1>4, MomentNeighbors DEF Twin, Coding

(* Before the end of the trail there is a section, at its end there is none. *)
LEMMA TrailAhead ==
  ASSUME NEW trail, NEW last, NEW grid, NEW heads, NEW k, Following(trail, last, grid, heads, k)
  PROVE  /\ at.section \in Sections =>
              k + 1 \in 1..last /\ Linked(trail[k], trail[k + 1], file, grid, heads)
         /\ at.section \notin Sections => k = last
<1>1. last \in Nat \ {0} /\ k \in 1..last /\ trail[k].at = at /\ trail[last].at.section \notin Sections
      /\ \A j \in 1..(last - 1) : Linked(trail[j], trail[j + 1], file, grid, heads)
  BY DEF Following, Arrived, Trail
<1>2. CASE k = last
  BY <1>1, <1>2
<1>3. CASE k # last
  <2>1. k \in 1..(last - 1) /\ k + 1 \in 1..last
    BY <1>1, <1>3
  <2>2. Linked(trail[k], trail[k + 1], file, grid, heads)
    BY <1>1, <2>1
  <2>3. at.section \in Sections
    BY <1>1, <2>2 DEF Linked
  <2> QED BY <2>1, <2>2, <2>3
<1> QED BY <1>2, <1>3

(* So the encoder's next answer is to the decoder's question, and true. *)
LEMMA NextAnswer ==
  ASSUME phase = "decode", Inside, HeadersPart, DecodedPart,
         NEW trail, NEW last, NEW grid, NEW heads, NEW k, Following(trail, last, grid, heads, k)
  PROVE  /\ Asks => /\ cursor < Len(file)
                    /\ file[cursor + 1] = [question |-> Question, bit |-> TrueBit]
         /\ k + 1 \in 1..last
         /\ cursor \in Nat
         /\ trail[k + 1].at = Onward.at /\ trail[k + 1].run = Onward.run
         /\ trail[k + 1].miss = Onward.miss /\ trail[k + 1].memo = Onward.memo
         /\ trail[k + 1].asked = IF Asks THEN cursor + 1 ELSE cursor
<1>1. /\ Moment(trail[k], grid, heads)!Asks <=> Asks
      /\ Moment(trail[k], grid, heads)!Question = Question
      /\ Moment(trail[k], grid, heads)!TrueBit = TrueBit
      /\ Moment(trail[k], grid, heads)!Onward = Onward
  BY DecoderIsTwin, TwinSteps
<1>2. k + 1 \in 1..last /\ Linked(trail[k], trail[k + 1], file, grid, heads)
  BY TrailAhead DEF Inside, InCell, AtCell
<1>3. trail[k].asked = cursor
  BY DEF Following
<1> QED BY <1>1, <1>2, <1>3 DEF Linked

(* The next entry is where it is after the step. *)
LEMMA DecodingMoves ==
  ASSUME phase' = "decode", UNCHANGED <<region, ranked, voxels, file>>,
         NEW trail, NEW last, NEW grid, NEW heads, NEW k, Following(trail, last, grid, heads, k),
         k + 1 \in 1..last, Arrived(trail[k + 1])', trail[k + 1].asked = cursor'
  PROVE  TrailPart'
<1>1. PICK n : n = k + 1
  OBVIOUS
<1>2. Headed(heads)' /\ grid = voxels'
  BY HeadedKept DEF Following
<1>3. Trail(trail, last, file, grid, heads)'
  BY TrailPrimed DEF Following
<1>4. trail[last].at.section \notin Sections /\ trail[last].asked = Len(file')
  BY DEF Following
<1>5. Arrived(trail[n])'
  BY <1>1 DEF Arrived
<1>6. Following(trail, last, grid, heads, n)'
  BY <1>1, <1>2, <1>3, <1>4, <1>5 DEF Following
<1> QED BY <1>6 DEF TrailPart

(* Every step of the decoder inside a section leads to the next entry. *)
LEMMA DecodeCellKeeps ==
  ASSUME IInv, phase = "decode", at.stage # "section", Next
  PROVE  IInv'
<1>1. Shape /\ HeadersPart /\ TrailPart /\ DecodedPart /\ Good /\ Coding /\ Inside /\ AtType
      /\ AtCell /\ Built
  BY DEF IInv, Shape, Coding, Good, Between, Inside, InCell
<1>2. PICK trail, last, grid, heads, k : Following(trail, last, grid, heads, k)
  BY <1>1 DEF TrailPart
<1>3. /\ Asks => /\ cursor < Len(file)
                 /\ file[cursor + 1] = [question |-> Question, bit |-> TrueBit]
      /\ k + 1 \in 1..last
      /\ trail[k + 1].at = Onward.at /\ trail[k + 1].run = Onward.run
      /\ trail[k + 1].miss = Onward.miss /\ trail[k + 1].memo = Onward.memo
      /\ trail[k + 1].asked = IF Asks THEN cursor + 1 ELSE cursor
  BY <1>1, <1>2, NextAnswer
<1>4. Stepped /\ Good'
  BY <1>1, <1>3, CellSteps, SteppedGood DEF ReadsTruth
<1>5. /\ phase' = "decode" /\ file' = file
      /\ UNCHANGED <<region, ranked, voxels, headers>>
      /\ at' = Onward.at /\ run' = Onward.run /\ miss' = Onward.miss /\ memo' = Onward.memo
      /\ cursor' = IF Asks THEN cursor + 1 ELSE cursor
      /\ decoded' = IF Completes THEN [decoded EXCEPT ![Here] = Truth] ELSE decoded
  BY <1>4 DEF Stepped
<1>6. decoded \in [Voxels -> Nat] /\ Here \in Voxels /\ Truth \in Nat /\ Truth = voxels[Here]
  BY <1>1, PlaceOfHere, BuiltType DEF Shape, Truth
<1>7. Shape'
  <2>1. \E T : headers' \in Seq(T)
    BY <1>1, <1>5 DEF Shape
  <2>2. \E T : file' \in Seq(T)
    BY <1>1, <1>5 DEF Shape
  <2>3. Built'
    BY <1>1, <1>5, SameBuilt
  <2>4. decoded' \in [Voxels -> Nat]
    BY <1>5, <1>6
  <2> QED BY <1>4, <1>5, <2>1, <2>2, <2>3, <2>4 DEF Shape
<1>8. HeadersPart'
  BY <1>1, <1>5, HeadedKept DEF HeadersPart, Headed
<1>9. TrailPart'
  <2>1. Arrived(trail[k + 1])' /\ trail[k + 1].asked = cursor'
    BY <1>3, <1>5 DEF Arrived
  <2> QED BY <1>2, <1>3, <1>5, <2>1, DecodingMoves
<1>10. DecodedPart'
  <2>1. /\ Completes => Onward.at = NextCell
        /\ ~Completes => Onward.at.section = at.section /\ Onward.at.cell = at.cell
    BY <1>1, OnwardMoves
  <2>2. CASE ~Completes
    BY <1>1, <1>5, <2>1, <2>2 DEF DecodedPart
  <2>3. CASE Completes
    <3>1. at' = NextCell /\ decoded' = [decoded EXCEPT ![Here] = Truth]
      BY <1>5, <2>1, <2>3
    <3>2. \/ at'.section = at.section /\ at'.cell = at.cell + 1
          \/ at'.section = at.section + 1 /\ at'.cell = 0 /\ at.cell + 1 \notin Cells
      BY <3>1 DEF NextCell, Start
    <3>3. ASSUME NEW v \in Voxels, Walked(at'.section, at'.cell, v)
          PROVE  decoded'[v] = voxels[v]
      <4>1. Walked(at.section, at.cell, v) \/ v = Here
        BY <1>1, <3>2, <3>3, WalkedOn DEF AtCell, Here
      <4> QED BY <1>1, <1>6, <3>1, <4>1 DEF DecodedPart
    <3> QED BY <1>5, <3>3 DEF DecodedPart
  <2> QED BY <2>2, <2>3
<1> QED BY <1>7, <1>8, <1>9, <1>10 DEF IInv

(* And so does every section. *)
LEMMA DecodeSectionKeeps ==
  ASSUME IInv, DecodeSection
  PROVE  IInv'
<1> DEFINE h == Header(at.section)
           s == at.section
<1>1. /\ Shape /\ HeadersPart /\ TrailPart /\ DecodedPart
      /\ phase = "decode" /\ at.stage = "section" /\ s \in Sections /\ Coding /\ Built
  BY DEF IInv, DecodeSection, AtSection, Coding, Shape
<1>2. headers[s + 1] = h
  BY <1>1 DEF HeadersPart, Headed
<1>3. SectionStepped /\ headers' = headers
  BY <1>2, DecodeSectionSteps
<1>4. \E S : headers' \in Seq(S)
  BY <1>1, <1>3 DEF Shape
<1>5. /\ Shape' /\ phase' = phase
      /\ UNCHANGED <<region, ranked, voxels, file, cursor>>
      /\ \/ at'.section = s /\ at'.stage = "head" /\ h.bits # 0 /\ at'.cell = at.cell
         \/ at'.section = s + 1 /\ at'.stage = "section" /\ h.bits = 0 /\ at'.cell = at.cell
      /\ at.cell = 0
  BY <1>1, <1>3, <1>4, SectionShape
<1>6. Describes(h, s)
  BY <1>1, HeaderDescribes
<1>7. /\ at' = AfterHeader(h).at /\ run' = AfterHeader(h).run /\ miss' = AfterHeader(h).miss
      /\ memo' = AfterHeader(h).memo
      /\ decoded' = IF h.bits = 0 THEN Filled(s, h.palette[1]) ELSE decoded
  BY <1>1, <1>3 DEF SectionStepped
<1>8. HeadersPart'
  BY <1>1, <1>3, <1>5, HeadedKept DEF HeadersPart, Headed
<1>9. TrailPart'
  <2>1. PICK trail, last, grid, heads, k : Following(trail, last, grid, heads, k)
    BY <1>1 DEF TrailPart
  <2>2. k + 1 \in 1..last /\ Linked(trail[k], trail[k + 1], file, grid, heads)
    BY <1>1, <2>1, TrailAhead
  <2>3. /\ ~Moment(trail[k], grid, heads)!Asks
        /\ Moment(trail[k], grid, heads)!Onward = AfterHeader(heads[s + 1])
    BY <1>1, <2>1, MomentSection DEF Following, Arrived
  <2>4. heads[s + 1] = h /\ trail[k].asked = cursor
    BY <1>1, <2>1 DEF Following, Headed
  <2> HIDE DEF h, s
  <2>5. Arrived(trail[k + 1])' /\ trail[k + 1].asked = cursor'
    BY <1>5, <1>7, <2>2, <2>3, <2>4 DEF Linked, Arrived
  <2> QED BY <1>1, <1>5, <2>1, <2>2, <2>5, DecodingMoves
<1> HIDE DEF h
<1>10. DecodedPart'
  <2>1. ASSUME NEW v \in Voxels, Walked(at'.section, at'.cell, v)
        PROVE  decoded'[v] = voxels[v]
    <3>1. CASE h.bits # 0
      BY <1>1, <1>5, <1>7, <2>1, <3>1 DEF DecodedPart
    <3>2. CASE h.bits = 0
      <4>1. at'.section = s + 1 /\ at'.cell = 0
        BY <1>5, <3>2
      <4>2. 0 \in Cells
        BY FirstCell
      <4>3. Walked(s, 0, v) \/ SectionOfVoxel(v) = s
        BY <1>1, <2>1, <4>1, <4>2, WalkedOn
      <4>4. decoded'[v] = IF SectionOfVoxel(v) = s THEN h.palette[1] ELSE decoded[v]
        BY <1>7, <3>2 DEF Filled
      <4>5. SectionOfVoxel(v) = s => voxels[v] = h.palette[1]
        BY <1>6, <3>2 DEF Describes
      <4>6. Walked(s, 0, v) => decoded[v] = voxels[v]
        BY <1>1, <1>5 DEF DecodedPart
      <4> QED BY <4>3, <4>4, <4>5, <4>6
    <3> QED BY <3>1, <3>2
  <2> QED BY <1>1, <1>5, <2>1 DEF DecodedPart
<1> QED BY <1>5, <1>8, <1>9, <1>10 DEF IInv

(* At the end of the walk all is decoded, and the trail has ended. *)
LEMMA FinishDecodingKeeps ==
  ASSUME IInv, FinishDecoding
  PROVE  IInv'
<1>1. /\ Shape /\ HeadersPart /\ TrailPart /\ DecodedPart
      /\ phase = "decode" /\ at.section \notin Sections /\ Good /\ Built
      /\ phase' = "done"
      /\ UNCHANGED <<region, ranked, voxels, decoded, headers, file, cursor, at>>
  BY DEF IInv, FinishDecoding, AtEnd, Coding, Shape
<1>2. at.cell = 0 /\ at.section \in Nat
  BY <1>1 DEF Good, Between, Inside, InCell, AtCell, AtType
<1>3. decoded = voxels
  <2>1. \A v \in Voxels : decoded[v] = voxels[v]
    <3>1. ASSUME NEW v \in Voxels PROVE decoded[v] = voxels[v]
      <4>1. Walked(at.section, 0, v)
        BY <1>1, <1>2, WalkedAll
      <4> QED BY <1>1, <1>2, <4>1 DEF DecodedPart
    <3> QED BY <3>1
  <2>2. decoded \in [Voxels -> Nat] /\ voxels \in [Voxels -> Nat]
    BY <1>1, BuiltType DEF Shape
  <2> QED BY <2>1, <2>2
<1>4. cursor = Len(file)
  <2>1. PICK trail, last, grid, heads, k : Following(trail, last, grid, heads, k)
    BY <1>1 DEF TrailPart
  <2>2. k = last
    BY <1>1, <2>1, TrailAhead
  <2> QED BY <2>1, <2>2 DEF Following
<1>5. Shape'
  <2>1. \E T : headers' \in Seq(T)
    BY <1>1 DEF Shape
  <2>2. \E T : file' \in Seq(T)
    BY <1>1 DEF Shape
  <2>3. Built'
    BY <1>1, SameBuilt
  <2> QED BY <1>1, <2>1, <2>2, <2>3 DEF Shape, Coding
<1> QED BY <1>1, <1>3, <1>4, <1>5 DEF IInv, HeadersPart, TrailPart, DecodedPart

(* Nothing is lost when nothing happens. *)
LEMMA StutterGood ==
  ASSUME Good, UNCHANGED vars
  PROVE  Good'
<1>1. /\ AtType /\ UNCHANGED <<region, ranked, voxels, headers, at, memo>>
      /\ Grid' = Grid
  BY DEF Good, vars, Grid
<1>2. AtType' /\ (Between => Between')
  BY <1>1 DEF AtType, Between
<1>3. ASSUME Inside PROVE Inside'
  <2>1. InCell /\ at.stage \in {"head", "candidate", "tree"}
    BY <1>3 DEF Inside, InCell
  <2>2. /\ InCell'
        /\ Neighbors' = Neighbors /\ Truth' = Truth
        /\ PrimaryValue(Neighbors)' = PrimaryValue(Neighbors)
        /\ CandidateSlots' = CandidateSlots
        /\ PaletteBits' = PaletteBits
        /\ SlotOf(Truth)' = SlotOf(Truth)
    BY <1>1, <2>1, SameInside
  <2>3. HeadPart' /\ WrongPart'
    BY <1>1, <1>3, <2>2 DEF Inside, HeadPart, WrongPart
  <2>4. ChainPart'
    BY <1>1, <1>3, <2>2 DEF Inside, ChainPart
  <2>5. TreePart'
    BY <1>1, <1>3, <2>2 DEF Inside, TreePart
  <2> QED BY <2>2, <2>3, <2>4, <2>5 DEF Inside
<1> QED BY <1>2, <1>3 DEF Good

(* The invariant holds when nothing happens. *)
LEMMA StutterKeeps ==
  ASSUME IInv, UNCHANGED vars
  PROVE  IInv'
<1>1. /\ Shape /\ HeadersPart /\ TrailPart /\ DecodedPart
      /\ UNCHANGED <<region, phase, ranked, voxels, decoded, headers, file, cursor, at, run, miss, memo>>
  BY DEF IInv, vars
<1>2. Shape'
  <2>1. \E T : headers' \in Seq(T)
    BY <1>1 DEF Shape
  <2>2. \E T : file' \in Seq(T)
    BY <1>1 DEF Shape
  <2>3. (Built' <=> Built) /\ (Coding => Good')
    BY <1>1, SameBuilt, StutterGood DEF Shape
  <2>4. phase' = "build" => Fresh'
    BY <1>1 DEF Shape, Fresh, Start, NoMemo
  <2> QED BY <1>1, <2>1, <2>2, <2>3, <2>4 DEF Shape, Coding
<1>3. HeadersPart'
  <2>1. \A s : Header(s)' = Header(s)
    BY <1>1, SameBuilt
  <2> QED BY <1>1, <2>1 DEF HeadersPart, Headed
<1>4. ASSUME NEW trail, NEW last, NEW grid, NEW heads
      PROVE  /\ Leading(trail, last, grid, heads) => Leading(trail, last, grid, heads)'
             /\ \A k : Following(trail, last, grid, heads, k) => Following(trail, last, grid, heads, k)'
  <2>1. Headed(heads)' <=> Headed(heads)
    BY <1>1, HeadedKept
  <2>2. Trail(trail, last, file, grid, heads)' <=> Trail(trail, last, file, grid, heads)
    BY <1>1, TrailPrimed
  <2>3. ASSUME NEW w PROVE Arrived(w)' <=> Arrived(w)
    BY <1>1 DEF Arrived
  <2> QED BY <1>1, <2>1, <2>2, <2>3 DEF Leading, Following
<1>5. TrailPart'
  <2>1. CASE phase = "encode"
    BY <1>1, <1>4, <2>1 DEF TrailPart
  <2>2. CASE phase = "decode"
    BY <1>1, <1>4, <2>2 DEF TrailPart
  <2> QED BY <1>1, <2>1, <2>2 DEF TrailPart
<1>6. DecodedPart'
  BY <1>1 DEF DecodedPart
<1> QED BY <1>2, <1>3, <1>5, <1>6 DEF IInv

(* Every step keeps the invariant. *)
LEMMA NextKeeps ==
  ASSUME IInv, Next
  PROVE  IInv'
<1>1. CASE Coding /\ at.stage # "section"
  BY <1>1, EncodeCellKeeps, DecodeCellKeeps DEF Coding
<1>2. CASE ~Coding \/ at.stage = "section"
  <2>1. \/ BuildGrid \/ EncodeSection \/ DecodeSection \/ StartDecoding \/ FinishDecoding
    BY <1>2 DEF Next, AskHead, SkipHead, AskCandidate, Descend, AskTree, TakeLeaf, AtBranch, AtLeaf
  <2> QED BY <2>1, BuildKeeps, EncodeSectionKeeps, DecodeSectionKeeps, StartDecodingKeeps, FinishDecodingKeeps
<1> QED BY <1>1, <1>2

(***************************************************************************)
(* The inductive invariant holds in every state the coder reaches.         *)
(***************************************************************************)
THEOREM Invariance == Spec => []IInv
<1>1. IInv /\ [Next]_vars => IInv'
  BY NextKeeps, StutterKeeps
<1> QED BY <1>1, InitEstablishes, PTL DEF Spec

-----------------------------------------------------------------------------
(***************************************************************************)
(* Where the neighbours are gathered without looking at the borders of the *)
(* grid, they are those found with looking, and those are in the grid:     *)
(* gather_neighbors_fast, which looks at no border but the eastern one,    *)
(* never takes an index across a border or out of the grid, for any number *)
(* of segments and any size of a section.                                  *)
(***************************************************************************)
THEOREM NeighborsAreExact == Spec => []FastPathIsExact
<1>1. IInv => FastPathIsExact
  BY FastIsExact, NeighborsAreWalked DEF IInv, Shape, Good, Between, Inside, InCell, FastPathIsExact
<1> QED BY <1>1, Invariance, PTL

(***************************************************************************)
(* What is remembered of a cell is what the next cell with the same        *)
(* neighbours would compute, although the run has changed in between.      *)
(***************************************************************************)
THEOREM MemoStaysFresh == Spec => []MemoIsFresh
<1>1. IInv => MemoIsFresh
  <2> SUFFICES ASSUME IInv, Coding, at.stage = "head", MemoMatches(Neighbors)
               PROVE  Remembered = HeadContexts(Neighbors)
    BY DEF MemoIsFresh
  <2>1. InCell
    BY DEF IInv, Shape, Good, Between, Inside
  <2>2. PICK n : n = Neighbors
    OBVIOUS
  <2>3. Contexts(n) = HeadContexts(n)
    BY <2>1, MemoAnswers
  <2> QED BY <2>2, <2>3 DEF Contexts
<1> QED BY <1>1, Invariance, PTL

(***************************************************************************)
(* The tree that is left when guess and candidates are excluded always has *)
(* the cell's value in it, and no count of what is left underflows.        *)
(***************************************************************************)
THEOREM SurvivorsAlwaysExist == Spec => []SurvivorsExist
<1>1. IInv => SurvivorsExist
  BY TreeHalves DEF IInv, Shape, Good, Between, AtBranch, SurvivorsExist
<1> QED BY <1>1, Invariance, PTL

(***************************************************************************)
(* The decoder always asks what the encoder answered next, of the same     *)
(* neighbours, run and misses, and refuses nothing the encoder wrote; so   *)
(* both use the same probability.                                          *)
(***************************************************************************)
THEOREM DecoderInStep == Spec => []InStep
<1>1. IInv => InStep
  <2> SUFFICES ASSUME IInv, phase = "decode"
               PROVE  /\ Asks => cursor < Len(file) /\ file[cursor + 1].question = Question
                      /\ AtSection => HeaderIsValid(headers[at.section + 1])
                      /\ AtLeaf => at.partial < Len(Palette)
    BY DEF InStep
  <2>1. Shape /\ HeadersPart /\ TrailPart /\ DecodedPart /\ Good /\ AtType /\ Built /\ Coding
    BY DEF IInv, Shape, Coding, Good
  <2>2. Asks => cursor < Len(file) /\ file[cursor + 1].question = Question
    <3> SUFFICES ASSUME Asks PROVE cursor < Len(file) /\ file[cursor + 1].question = Question
      OBVIOUS
    <3>1. Inside
      BY <2>1 DEF Asks, AtBranch, Good, Between
    <3>2. PICK trail, last, grid, heads, k : Following(trail, last, grid, heads, k)
      BY <2>1 DEF TrailPart
    <3> QED BY <2>1, <3>1, <3>2, NextAnswer
  <2>3. AtSection => HeaderIsValid(headers[at.section + 1])
    <3> SUFFICES ASSUME AtSection PROVE HeaderIsValid(headers[at.section + 1])
      OBVIOUS
    <3>1. at.section \in Sections /\ headers[at.section + 1] = Header(at.section)
      BY <2>1 DEF AtSection, HeadersPart, Headed
    <3> QED BY <2>1, <3>1, HeaderDescribes, DescribedIsValid
  <2>4. AtLeaf => at.partial < Len(Palette)
    BY <2>1, LeafIsTruth DEF AtLeaf, Good, Between
  <2> QED BY <2>2, <2>3, <2>4
<1> QED BY <1>1, Invariance, PTL

(***************************************************************************)
(* Decoding yields the encoded grid, every cell of it the rank of its      *)
(* atom, from exactly the decisions that were written.                     *)
(***************************************************************************)
THEOREM GridComesBack == Spec => []RoundTrip
<1>1. IInv => RoundTrip
  <2> SUFFICES ASSUME IInv, phase = "done"
               PROVE  /\ decoded = voxels /\ cursor = Len(file)
                      /\ \A v \in Voxels : ranked[decoded[v] + 1] = Contents(SectionOfVoxel(v), CellOfVoxel(v))
    BY DEF RoundTrip
  <2>1. decoded = voxels /\ cursor = Len(file) /\ Built
    BY DEF IInv, DecodedPart, Shape
  <2> QED BY <2>1, BuiltRanks
<1> QED BY <1>1, Invariance, PTL
=============================================================================
