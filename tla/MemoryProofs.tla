--------------------------- MODULE MemoryProofs ---------------------------
(***************************************************************************)
(* Proofs about regions in memory: what a segment tells of its past        *)
(* (SegmentHistory), and what becomes of the buffers that regions are      *)
(* slices of, and of the results, while a benchmark runs (BenchRun).       *)
(*                                                                         *)
(* Segments: for every value of the constants.  The three parts of a       *)
(* segment keep their pasts in the same way, so most of the argument is    *)
(* about any history and the observations it tells of.                     *)
(*                                                                         *)
(* Buffers: for any number of threads, files and buffers, and pools of any *)
(* limits.  First the operations of BufferPool, one lemma for each: what   *)
(* it does to the relation between owners, buffers and their data (Sees),  *)
(* and that what is neither seen nor pooled is only what the caller holds. *)
(* Then the steps of a worker, from which only that relation is needed: at *)
(* each of them the owners it may have are known, and the data they must   *)
(* see.                                                                    *)
(*                                                                         *)
(* Results: each counter is the sum over the files that have come past the *)
(* step that adds to it.                                                   *)
(***************************************************************************)
EXTENDS SegmentHistory, BenchRun, NaturalSets, SequenceTheorems, FiniteSetTheorems, TLAPS

-----------------------------------------------------------------------------
(* Logs                                                                    *)

(* A sequence of entries with timestamps, newest or oldest first.          *)
IsLog(log) ==
  /\ Len(log) \in Nat
  /\ DOMAIN log = 1..Len(log)
  /\ \A k \in 1..Len(log) : log[k].timestamp \in Int

(* A search for t in history stops at entry k. *)
Stops(history, t, k) ==
  /\ k \in 1..Len(history)
  /\ history[k].timestamp <= t \/ k = Len(history)
  /\ \A j \in 1..(k - 1) : history[j].timestamp > t

(* A search stops somewhere, and at one entry only. *)
LEMMA SearchStops ==
  ASSUME NEW history, IsLog(history), Len(history) # 0, NEW t \in Int
  PROVE  /\ Stops(history, t, StopsAt(history, t))
         /\ \A k : Stops(history, t, k) => k = StopsAt(history, t)
<1> DEFINE n == Len(history)
           Reached == {k \in 1..n : history[k].timestamp <= t \/ k = n}
<1>1. n \in Nat /\ n \in Reached /\ Reached \in SUBSET Nat
  BY DEF IsLog
<1>2. PICK k \in Reached : \A j \in Reached : k <= j
  BY <1>1, LeastExists
<1>3. Stops(history, t, k)
  <2>1. ASSUME NEW j \in 1..(k - 1)
        PROVE  history[j].timestamp > t
    <3>1. j \in 1..n /\ ~(k <= j)
      BY <1>1, <1>2
    <3>2. j \notin Reached
      BY <1>2, <3>1
    <3>3. ~(history[j].timestamp <= t) /\ history[j].timestamp \in Int
      BY <3>1, <3>2 DEF IsLog
    <3> QED BY <3>3
  <2> QED BY <1>2, <2>1 DEF Stops
<1>4. StopsAt(history, t) = CHOOSE j : Stops(history, t, j)
  BY DEF StopsAt, Stops, IsLog
<1>5. Stops(history, t, StopsAt(history, t))
  BY <1>3, <1>4
<1>6. ASSUME NEW i, NEW j, Stops(history, t, i), Stops(history, t, j), i < j
      PROVE  FALSE
  <2>1. i \in 1..n /\ j \in 1..n /\ i \in 1..(j - 1) /\ i # n
    BY <1>1, <1>6 DEF Stops
  <2>2. history[i].timestamp <= t /\ history[i].timestamp > t
    BY <1>6, <2>1 DEF Stops
  <2>3. history[i].timestamp \in Int
    BY <2>1 DEF IsLog
  <2> QED BY <2>2, <2>3
<1>7. ASSUME NEW i, Stops(history, t, i)
      PROVE  i = StopsAt(history, t)
  <2> DEFINE j == StopsAt(history, t)
  <2>1. i \in 1..n /\ j \in 1..n
    BY <1>5, <1>7 DEF Stops
  <2>2. ~(i < j) /\ ~(j < i)
    BY <1>5, <1>6, <1>7
  <2> QED BY <1>1, <2>1, <2>2
<1> QED BY <1>5, <1>7

(* Each entry of a history is newer than the next ones. *)
Descending(history) ==
  \A j, k \in 1..Len(history) : j < k => history[j].timestamp > history[k].timestamp

(* A search for the timestamp of an entry finds that entry. *)
LEMMA SearchFinds ==
  ASSUME NEW history, IsLog(history), Descending(history),
         NEW k \in 1..Len(history)
  PROVE  StopsAt(history, history[k].timestamp) = k
<1>1. Len(history) \in Nat /\ Len(history) # 0 /\ history[k].timestamp \in Int
  BY DEF IsLog
<1>2. Stops(history, history[k].timestamp, k)
  BY <1>1 DEF Stops, Descending
<1> QED BY <1>1, <1>2, SearchStops

(* longer is history with an entry of time t in front.  *)
InFront(history, longer, t) ==
  /\ Len(longer) = Len(history) + 1
  /\ longer[1].timestamp = t
  /\ \A k \in 1..Len(history) : longer[k + 1].timestamp = history[k].timestamp

(* From the time of the newest entry on, a search stops there; before it,  *)
(* where it stopped without the newest entry.                              *)
LEMMA SearchInFront ==
  ASSUME NEW history, NEW longer, NEW new \in Int, IsLog(history), IsLog(longer),
         InFront(history, longer, new),
         NEW t \in Int
  PROVE  /\ t >= new => StopsAt(longer, t) = 1
         /\ t < new /\ Len(history) # 0
              => /\ StopsAt(history, t) \in 1..Len(history)
                 /\ StopsAt(longer, t) = StopsAt(history, t) + 1
<1>1. Len(history) \in Nat /\ Len(longer) = Len(history) + 1
  BY DEF IsLog, InFront
<1>2. ASSUME t >= new
      PROVE  StopsAt(longer, t) = 1
  <2>1. Stops(longer, t, 1)
    BY <1>1, <1>2 DEF Stops, InFront
  <2> QED BY <1>1, <2>1, SearchStops
<1>3. ASSUME t < new, Len(history) # 0
      PROVE  /\ StopsAt(history, t) \in 1..Len(history)
             /\ StopsAt(longer, t) = StopsAt(history, t) + 1
  <2> DEFINE k == StopsAt(history, t)
  <2>1. Stops(history, t, k) /\ k \in 1..Len(history)
    BY <1>3, SearchStops DEF Stops
  <2> HIDE DEF k
  <2>2. k + 1 \in 1..Len(longer) /\ (longer[k + 1].timestamp <= t \/ k + 1 = Len(longer))
    BY <1>1, <2>1 DEF Stops, InFront
  <2>3. ASSUME NEW j \in 1..((k + 1) - 1)
        PROVE  longer[j].timestamp > t
    <3>1. CASE j = 1
      BY <1>3, <3>1 DEF InFront
    <3>2. CASE j # 1
      <4>1. j - 1 \in 1..(k - 1) /\ j - 1 \in 1..Len(history) /\ (j - 1) + 1 = j
        BY <1>1, <2>1, <3>2
      <4>2. history[j - 1].timestamp > t
        BY <2>1, <4>1 DEF Stops
      <4>3. longer[(j - 1) + 1].timestamp = history[j - 1].timestamp
        BY <4>1 DEF InFront
      <4> QED BY <4>1, <4>2, <4>3
    <3> QED BY <3>1, <3>2
  <2>4. Stops(longer, t, k + 1)
    BY <2>2, <2>3 DEF Stops
  <2>5. StopsAt(longer, t) = k + 1
    BY <1>1, <2>4, SearchStops
  <2> QED BY <2>1, <2>5 DEF k
<1> QED BY <1>2, <1>3

-----------------------------------------------------------------------------
(* Histories and the observations they tell of                             *)

(* What the last observation at or before a time saw is what the history   *)
(* has for that time.                                                      *)
TellsCuts(history, values, observations, saw) ==
  \A t \in Int : \A i \in 1..Len(observations) :
    IsLastBy(observations, t, i) => values[StopsAt(history, t)] = saw[i]

(* The newest entry is as the last observation.                            *)
TellsLast(history, values, observations, saw) ==
  Len(observations) # 0 =>
    /\ history[1].timestamp <= observations[Len(observations)].timestamp
    /\ values[1] = saw[Len(observations)]

(* history, with a value for every entry, tells of observations that saw   *)
(* those values: each entry was observed, and nothing is missing of        *)
(* observations that came in order.                                        *)
Tells(history, values, observations, saw) ==
  /\ IsLog(history) /\ IsLog(observations)
  /\ Len(history) = 0 <=> Len(observations) = 0
  /\ Descending(history)
  /\ \A k \in 1..Len(history) : \E i \in 1..Len(observations) :
       /\ observations[i].timestamp = history[k].timestamp
       /\ saw[i] = values[k]
  /\ InOrder(observations) => /\ TellsLast(history, values, observations, saw)
                              /\ TellsCuts(history, values, observations, saw)

(* One more observation was made: at t, of value. *)
OneMore(observations, saw, more, sees, t, value) ==
  /\ Len(more) = Len(observations) + 1
  /\ \A i \in 1..Len(observations) : /\ more[i].timestamp = observations[i].timestamp
                                     /\ sees[i] = saw[i]
  /\ more[Len(more)].timestamp = t
  /\ sees[Len(more)] = value

(* What was in order before one more observation, and how that one lies.   *)
LEMMA MoreInOrder ==
  ASSUME NEW observations, NEW saw, NEW more, NEW sees, NEW new \in Int, NEW value,
         IsLog(observations), IsLog(more),
         OneMore(observations, saw, more, sees, new, value),
         InOrder(more)
  PROVE  /\ InOrder(observations)
         /\ Len(observations) # 0 => observations[Len(observations)].timestamp < new
         /\ \A t \in Int, i \in 1..Len(observations) :
              IsLastBy(more, t, i) => t < new /\ IsLastBy(observations, t, i)
         /\ \A t \in Int : IsLastBy(more, t, Len(more)) => new <= t
<1> DEFINE n == Len(observations)
<1>1. n \in Nat /\ Len(more) = n + 1 /\ DOMAIN more = 1..(n + 1) /\ DOMAIN observations = 1..n
  BY DEF IsLog, OneMore
<1>2. \A i \in 1..n : more[i].timestamp = observations[i].timestamp
  BY DEF OneMore
<1>3. more[n + 1].timestamp = new
  BY <1>1 DEF OneMore
<1> HIDE DEF n
<1>4. \A i, j \in 1..(n + 1) : i < j => more[i].timestamp < more[j].timestamp
  BY <1>1 DEF InOrder
<1>5. InOrder(observations)
  <2> SUFFICES ASSUME NEW i \in 1..n, NEW j \in 1..n, i < j
               PROVE  observations[i].timestamp < observations[j].timestamp
    BY <1>1 DEF InOrder
  <2>1. i \in 1..(n + 1) /\ j \in 1..(n + 1)
    BY <1>1
  <2> QED BY <1>2, <1>4, <2>1
<1>6. n # 0 => observations[n].timestamp < new
  <2> SUFFICES ASSUME n # 0 PROVE observations[n].timestamp < new
    OBVIOUS
  <2>1. n \in 1..n /\ n \in 1..(n + 1) /\ n + 1 \in 1..(n + 1) /\ n < n + 1
    BY <1>1
  <2> QED BY <1>2, <1>3, <1>4, <2>1
<1>7. ASSUME NEW t \in Int, NEW i \in 1..n, IsLastBy(more, t, i)
      PROVE  t < new /\ IsLastBy(observations, t, i)
  <2>1. n + 1 \in (i + 1)..Len(more)
    BY <1>1
  <2>2. more[n + 1].timestamp > t
    BY <1>7, <2>1 DEF IsLastBy
  <2>3. \A j \in (i + 1)..n : j \in 1..n /\ j \in (i + 1)..Len(more)
    BY <1>1
  <2>4. observations[i].timestamp <= t
    BY <1>2, <1>7 DEF IsLastBy
  <2>5. \A j \in (i + 1)..n : observations[j].timestamp > t
    BY <1>2, <1>7, <2>3 DEF IsLastBy
  <2> QED BY <1>3, <2>2, <2>4, <2>5 DEF IsLastBy, n
<1>8. \A t \in Int : IsLastBy(more, t, Len(more)) => new <= t
  BY <1>1, <1>3 DEF IsLastBy
<1> QED BY <1>5, <1>6, <1>7, <1>8 DEF n

(* A history that is left as it is tells of one more observation that is   *)
(* older than it, or that saw nothing new.                                 *)
LEMMA LeftAloneTells ==
  ASSUME NEW history, NEW values, NEW observations, NEW saw, NEW more, NEW sees,
         NEW new \in Int, NEW value,
         Tells(history, values, observations, saw), IsLog(more),
         OneMore(observations, saw, more, sees, new, value),
         Len(history) # 0,
         new <= history[1].timestamp \/ value = values[1]
  PROVE  Tells(history, values, more, sees)
<1> DEFINE n == Len(observations)
<1>1. /\ n \in Nat \ {0} /\ Len(more) = n + 1
      /\ Len(history) \in Nat /\ 1 \in 1..Len(history) /\ history[1].timestamp \in Int
      /\ n \in 1..n /\ observations[n].timestamp \in Int
  BY DEF Tells, IsLog, OneMore
<1>2. ASSUME NEW k \in 1..Len(history)
      PROVE  \E i \in 1..Len(more) : /\ more[i].timestamp = history[k].timestamp
                                     /\ sees[i] = values[k]
  <2>1. PICK i \in 1..n : /\ observations[i].timestamp = history[k].timestamp
                          /\ saw[i] = values[k]
    BY DEF Tells
  <2>2. i \in 1..Len(more) /\ more[i].timestamp = history[k].timestamp /\ sees[i] = values[k]
    BY <1>1, <2>1 DEF OneMore
  <2> QED BY <2>2
<1>3. ASSUME InOrder(more)
      PROVE  /\ TellsLast(history, values, more, sees)
             /\ TellsCuts(history, values, more, sees)
  <2>1. /\ InOrder(observations)
        /\ observations[n].timestamp < new
        /\ \A t \in Int, i \in 1..n :
             IsLastBy(more, t, i) => t < new /\ IsLastBy(observations, t, i)
        /\ \A t \in Int : IsLastBy(more, t, Len(more)) => new <= t
    BY <1>1, <1>3, MoreInOrder DEF Tells
  <2>2. /\ history[1].timestamp <= observations[n].timestamp
        /\ TellsCuts(history, values, observations, saw)
    BY <1>1, <2>1 DEF Tells, TellsLast
  <2>3. history[1].timestamp < new /\ value = values[1]
    BY <1>1, <2>1, <2>2
  <2>4. more[Len(more)].timestamp = new /\ sees[Len(more)] = value
    BY DEF OneMore
  <2>5. TellsLast(history, values, more, sees)
    BY <1>1, <2>3, <2>4 DEF TellsLast
  <2>6. ASSUME NEW t \in Int, NEW i \in 1..Len(more), IsLastBy(more, t, i)
        PROVE  values[StopsAt(history, t)] = sees[i]
    <3>1. CASE i = Len(more)
      <4>1. new <= t
        BY <2>1, <2>6, <3>1
      <4>2. Stops(history, t, 1)
        BY <1>1, <2>3, <4>1 DEF Stops
      <4>3. StopsAt(history, t) = 1
        BY <4>2, SearchStops DEF Tells
      <4> QED BY <2>3, <2>4, <3>1, <4>3
    <3>2. CASE i # Len(more)
      <4>1. i \in 1..n
        BY <1>1, <3>2
      <4>2. IsLastBy(observations, t, i)
        BY <2>1, <2>6, <4>1
      <4>3. values[StopsAt(history, t)] = saw[i]
        BY <2>2, <4>1, <4>2 DEF TellsCuts
      <4> QED BY <4>1, <4>3 DEF OneMore
    <3> QED BY <3>1, <3>2
  <2> QED BY <2>5, <2>6 DEF TellsCuts
<1> QED BY <1>1, <1>2, <1>3 DEF Tells

(* longer is history with an observation newer than it in front: its time  *)
(* is new, its value value, and the other values are kept.                 *)
GrownBy(history, values, longer, kept, new, value) ==
  /\ InFront(history, longer, new)
  /\ kept[1] = value
  /\ \A k \in 1..Len(history) : kept[k + 1] = values[k]
  /\ Len(history) # 0 => new > history[1].timestamp

(* A history that an observation newer than it is put in front of tells of *)
(* that one too.                                                           *)
LEMMA PutInFrontTells ==
  ASSUME NEW history, NEW values, NEW observations, NEW saw, NEW more, NEW sees,
         NEW longer, NEW kept, NEW new \in Int, NEW value,
         Tells(history, values, observations, saw), IsLog(more), IsLog(longer),
         OneMore(observations, saw, more, sees, new, value),
         GrownBy(history, values, longer, kept, new, value)
  PROVE  Tells(longer, kept, more, sees)
<1> DEFINE n == Len(observations)
           m == Len(history)
<1>0. /\ InFront(history, longer, new)
      /\ kept[1] = value
      /\ \A k \in 1..Len(history) : kept[k + 1] = values[k]
      /\ Len(history) # 0 => new > history[1].timestamp
  BY DEF GrownBy
<1>1. /\ n \in Nat /\ Len(more) = n + 1 /\ m \in Nat /\ Len(longer) = m + 1
      /\ m = 0 <=> n = 0
      /\ \A k \in 1..m : history[k].timestamp \in Int
  BY <1>0 DEF Tells, IsLog, OneMore, InFront
<1>2. \A k \in 1..(m + 1) : k = 1 \/ (k - 1 \in 1..m /\ (k - 1) + 1 = k)
  BY <1>1
<1>3. more[Len(more)].timestamp = new /\ sees[Len(more)] = value
  BY DEF OneMore
<1>4. longer[1].timestamp = new /\ \A k \in 1..m : longer[k + 1].timestamp = history[k].timestamp
  BY <1>0 DEF InFront
<1>5. \A k \in 1..m : new > history[k].timestamp
  <2> SUFFICES ASSUME NEW k \in 1..m PROVE new > history[k].timestamp
    OBVIOUS
  <2>1. 1 \in 1..m /\ new > history[1].timestamp /\ (1 = k \/ 1 < k)
    BY <1>0, <1>1
  <2>2. 1 < k => history[1].timestamp > history[k].timestamp
    BY <2>1 DEF Tells, Descending
  <2> QED BY <1>1, <2>1, <2>2
<1>6. Descending(longer)
  <2> SUFFICES ASSUME NEW j \in 1..(m + 1), NEW k \in 1..(m + 1), j < k
               PROVE  longer[j].timestamp > longer[k].timestamp
    BY <1>1 DEF Descending
  <2>1. k - 1 \in 1..m /\ longer[k].timestamp = history[k - 1].timestamp
    BY <1>1, <1>2, <1>4
  <2>2. CASE j = 1
    BY <1>4, <1>5, <2>1, <2>2
  <2>3. CASE j # 1
    <3>1. j - 1 \in 1..m /\ j - 1 < k - 1 /\ longer[j].timestamp = history[j - 1].timestamp
      BY <1>1, <1>2, <1>4, <2>3
    <3>2. history[j - 1].timestamp > history[k - 1].timestamp
      BY <2>1, <3>1 DEF Tells, Descending
    <3> QED BY <2>1, <3>1, <3>2
  <2> QED BY <2>2, <2>3
<1>7. ASSUME NEW k \in 1..Len(longer)
      PROVE  \E i \in 1..Len(more) : /\ more[i].timestamp = longer[k].timestamp
                                     /\ sees[i] = kept[k]
  <2>1. CASE k = 1
    <3>1. Len(more) \in 1..Len(more)
      BY <1>1
    <3> QED BY <1>0, <1>3, <1>4, <2>1, <3>1
  <2>2. CASE k # 1
    <3>1. k - 1 \in 1..m /\ (k - 1) + 1 = k
      BY <1>1, <1>2, <2>2
    <3>2. PICK i \in 1..n : /\ observations[i].timestamp = history[k - 1].timestamp
                            /\ saw[i] = values[k - 1]
      BY <3>1 DEF Tells
    <3>3. longer[k].timestamp = history[k - 1].timestamp /\ kept[k] = values[k - 1]
      BY <1>0, <1>4, <3>1
    <3>4. i \in 1..Len(more) /\ more[i].timestamp = longer[k].timestamp /\ sees[i] = kept[k]
      BY <1>1, <3>2, <3>3 DEF OneMore
    <3> QED BY <3>4
  <2> QED BY <2>1, <2>2
<1>8. ASSUME InOrder(more)
      PROVE  /\ TellsLast(longer, kept, more, sees)
             /\ TellsCuts(longer, kept, more, sees)
  <2>1. /\ InOrder(observations)
        /\ \A t \in Int, i \in 1..n :
             IsLastBy(more, t, i) => t < new /\ IsLastBy(observations, t, i)
        /\ \A t \in Int : IsLastBy(more, t, Len(more)) => new <= t
    BY <1>8, MoreInOrder DEF Tells
  <2>2. TellsLast(longer, kept, more, sees)
    BY <1>0, <1>3, <1>4 DEF TellsLast
  <2>3. ASSUME NEW t \in Int, NEW i \in 1..Len(more), IsLastBy(more, t, i)
        PROVE  kept[StopsAt(longer, t)] = sees[i]
    <3>1. CASE i = Len(more)
      <4>1. new <= t
        BY <2>1, <2>3, <3>1
      <4>2. StopsAt(longer, t) = 1
        BY <1>0, <4>1, SearchInFront DEF Tells
      <4> QED BY <1>0, <1>3, <3>1, <4>2
    <3>2. CASE i # Len(more)
      <4>1. i \in 1..n /\ m # 0
        BY <1>1, <3>2
      <4>2. t < new /\ IsLastBy(observations, t, i)
        BY <2>1, <2>3, <4>1
      <4>3. values[StopsAt(history, t)] = saw[i]
        BY <2>1, <4>1, <4>2 DEF Tells, TellsCuts
      <4>4. StopsAt(history, t) \in 1..m /\ StopsAt(longer, t) = StopsAt(history, t) + 1
        BY <1>0, <4>1, <4>2, SearchInFront DEF Tells
      <4>5. kept[StopsAt(longer, t)] = values[StopsAt(history, t)]
        BY <1>0, <4>4
      <4> QED BY <4>1, <4>3, <4>5 DEF OneMore
    <3> QED BY <3>1, <3>2
  <2> QED BY <2>2, <2>3 DEF TellsCuts
<1> QED BY <1>1, <1>6, <1>7, <1>8 DEF Tells

-----------------------------------------------------------------------------
(* Lists of tile entities and their deltas                                 *)

Lists == UNION {[P -> Entities] : P \in SUBSET Positions}

Deltas == UNION {[P -> Entities \cup {Erase}] : P \in SUBSET Positions}

(* The list a slice is collected into has its positions, and at each the   *)
(* entity of some element of the slice.                                    *)
LEMMA SliceAsList ==
  ASSUME NEW slice \in Slices
  PROVE  /\ ListOf(slice) \in Lists
         /\ DOMAIN ListOf(slice) = PositionsOf(slice)
         /\ \A p \in PositionsOf(slice) :
              \E i \in DOMAIN slice : slice[i].pos = p /\ ListOf(slice)[p] = slice[i].te
<1>1. slice \in Seq([pos: Positions, te: Entities])
  BY ParametersOK
<1> DEFINE n == Len(slice)
           IsLast(i, p) == /\ slice[i].pos = p
                           /\ \A j \in (i + 1)..n : slice[j].pos # p
<1>2. n \in Nat /\ DOMAIN slice = 1..n
  BY <1>1, LenProperties
<1>3. \A i \in DOMAIN slice : slice[i].pos \in Positions /\ slice[i].te \in Entities
  <2> SUFFICES ASSUME NEW i \in DOMAIN slice
               PROVE  slice[i].pos \in Positions /\ slice[i].te \in Entities
    OBVIOUS
  <2>1. slice[i] \in [pos: Positions, te: Entities]
    BY <1>1, <1>2, ElementOfSeq
  <2> QED BY <2>1
<1>4. ASSUME NEW p \in PositionsOf(slice)
      PROVE  \E i \in DOMAIN slice : IsLast(i, p)
  <2> DEFINE Behind == {n - i : i \in {j \in DOMAIN slice : slice[j].pos = p}}
  <2>1. Behind \in SUBSET Nat /\ Behind # {}
    BY <1>2, <1>4 DEF PositionsOf
  <2>2. PICK b \in Behind : \A c \in Behind : b <= c
    BY <2>1, LeastExists
  <2>3. PICK i \in DOMAIN slice : slice[i].pos = p /\ b = n - i
    BY <2>2
  <2>4. ASSUME NEW j \in (i + 1)..n, slice[j].pos = p
        PROVE  FALSE
    <3>1. i \in 1..n /\ j \in 1..n
      BY <1>2, <2>3, <2>4
    <3>2. n - j \in Behind
      BY <1>2, <2>4, <3>1
    <3>3. ~(b <= n - j)
      BY <1>2, <2>3, <2>4, <3>1
    <3> QED BY <2>2, <3>2, <3>3
  <2> QED BY <2>3, <2>4
<1> DEFINE last(p) == CHOOSE i \in DOMAIN slice : IsLast(i, p)
<1>5. \A p \in PositionsOf(slice) : last(p) \in DOMAIN slice /\ slice[last(p)].pos = p
  BY <1>4
<1>6. ListOf(slice) = [p \in PositionsOf(slice) |-> slice[last(p)].te]
  BY DEF ListOf
<1> HIDE DEF last
<1>7. PositionsOf(slice) \in SUBSET Positions
  BY <1>3 DEF PositionsOf
<1>8. ListOf(slice) \in [PositionsOf(slice) -> Entities]
  BY <1>3, <1>5, <1>6
<1> QED BY <1>5, <1>6, <1>7, <1>8 DEF Lists

(* A delta that no position is in says that the slice is the list.         *)
LEMMA NoDeltaNoChange ==
  ASSUME NEW latest \in Lists, NEW slice \in Slices,
         DOMAIN ReverseDelta(latest, slice) = {}
  PROVE  ListOf(slice) = latest
<1>1. /\ PositionsOf(slice) \ DOMAIN latest = {}
      /\ DOMAIN latest \ PositionsOf(slice) = {}
      /\ \A p \in DOMAIN latest :
           ~ \E i \in DOMAIN slice : slice[i].pos = p /\ slice[i].te # latest[p]
  BY DEF ReverseDelta
<1>2. DOMAIN latest = PositionsOf(slice)
  BY <1>1
<1>3. \A p \in DOMAIN latest : ListOf(slice)[p] = latest[p]
  BY <1>1, <1>2, SliceAsList
<1> QED BY <1>2, <1>3, SliceAsList DEF Lists

(* The reverse delta applied to the list of the slice gives the list       *)
(* before it back, although the delta is made from the slice.              *)
LEMMA ReverseDeltaLeadsBack ==
  ASSUME NEW latest \in Lists, NEW slice \in Slices
  PROVE  /\ ReverseDelta(latest, slice) \in Deltas
         /\ Applied(ReverseDelta(latest, slice), ListOf(slice)) = latest
<1> DEFINE delta == ReverseDelta(latest, slice)
           list == ListOf(slice)
           new == PositionsOf(slice) \ DOMAIN latest
           gone == DOMAIN latest \ PositionsOf(slice)
           changed == {p \in DOMAIN latest :
                         \E i \in DOMAIN slice : slice[i].pos = p /\ slice[i].te # latest[p]}
           back == Applied(delta, list)
<1>1. delta = [p \in new \cup changed \cup gone |-> IF p \in new THEN Erase ELSE latest[p]]
  BY DEF ReverseDelta
<1>2. PICK P \in SUBSET Positions : latest \in [P -> Entities]
  BY DEF Lists
<1>3. /\ PositionsOf(slice) \in SUBSET Positions /\ DOMAIN list = PositionsOf(slice)
      /\ \A p \in PositionsOf(slice) :
           \E i \in DOMAIN slice : slice[i].pos = p /\ list[p] = slice[i].te
  <2>1. list \in Lists /\ DOMAIN list = PositionsOf(slice)
    BY SliceAsList
  <2>2. DOMAIN list \in SUBSET Positions
    BY <2>1 DEF Lists
  <2> QED BY <2>1, <2>2, SliceAsList
<1>4. \A p \in DOMAIN latest : latest[p] \in Entities /\ latest[p] # Erase
  BY <1>2, ParametersOK
<1> HIDE DEF list
<1>5. {p \in DOMAIN delta : delta[p] = Erase} = new
  BY <1>1, <1>4
<1>6. (DOMAIN list \cup DOMAIN delta) \ new = DOMAIN latest
  BY <1>1, <1>3
<1>7. back = [p \in DOMAIN latest |-> IF p \in DOMAIN delta THEN delta[p] ELSE list[p]]
  BY <1>5, <1>6 DEF Applied
<1>8. ASSUME NEW p \in DOMAIN latest
      PROVE  (IF p \in DOMAIN delta THEN delta[p] ELSE list[p]) = latest[p]
  <2>1. CASE p \in DOMAIN delta
    BY <1>1, <2>1
  <2>2. CASE p \notin DOMAIN delta
    <3>1. p \in PositionsOf(slice) /\ p \notin changed
      BY <1>1, <2>2
    <3> QED BY <1>3, <2>2, <3>1
  <2> QED BY <2>1, <2>2
<1>9. back = latest
  BY <1>2, <1>7, <1>8
<1>10. delta \in [new \cup changed \cup gone -> Entities \cup {Erase}]
  BY <1>1, <1>4
<1>11. new \cup changed \cup gone \in SUBSET Positions
  BY <1>2, <1>3
<1>12. delta \in Deltas
  BY <1>10, <1>11 DEF Deltas
<1> QED BY <1>9, <1>12 DEF list

(* lists are what reconstruct_tile_entities makes of deltas. *)
Unrolls(deltas, lists) ==
  lists = [k \in 0..Len(deltas) |->
             IF k = 0 THEN NoTileEntities
                      ELSE Applied(deltas[k].deltas, lists[k - 1])]

(* There are such lists for deltas of any length.                          *)
LEMMA ListsExist ==
  ASSUME NEW deltas, Len(deltas) \in Nat
  PROVE  \E lists : Unrolls(deltas, lists)
<1> DEFINE n == Len(deltas)
           Step(lists, k) == IF k = 0 THEN NoTileEntities
                                      ELSE Applied(deltas[k].deltas, lists[k - 1])
           UpTo(lists, m) == lists = [k \in 0..m |-> Step(lists, k)]
           Reached == {m \in 0..n : \E lists : UpTo(lists, m)}
<1>1. 0 \in Reached
  <2> DEFINE lists == [k \in 0..0 |-> NoTileEntities]
  <2>1. \A k \in 0..0 : k = 0
    OBVIOUS
  <2>2. UpTo(lists, 0) /\ 0 \in 0..n
    BY <2>1
  <2> HIDE DEF lists, UpTo
  <2> QED BY <2>2
<1>2. ASSUME NEW m \in 0..(n - 1), m \in Reached
      PROVE  m + 1 \in Reached
  <2>1. PICK lists : UpTo(lists, m)
    BY <1>2
  <2> DEFINE more == [k \in 0..(m + 1) |->
                        IF k = m + 1 THEN Applied(deltas[k].deltas, lists[m]) ELSE lists[k]]
  <2>2. ASSUME NEW k \in 0..(m + 1)
        PROVE  more[k] = Step(more, k)
    <3>1. CASE k = m + 1
      <4>1. k # 0 /\ k - 1 = m /\ m \in 0..(m + 1) /\ m # m + 1
        BY <3>1
      <4>2. more[k - 1] = lists[m]
        BY <4>1
      <4> QED BY <3>1, <4>1, <4>2
    <3>2. CASE k # m + 1
      <4>1. k \in 0..m /\ more[k] = lists[k]
        BY <3>2
      <4>2. lists[k] = Step(lists, k)
        BY <2>1, <4>1
      <4>3. CASE k = 0
        BY <4>1, <4>2, <4>3
      <4>4. CASE k # 0
        <5>1. k - 1 \in 0..(m + 1) /\ k - 1 # m + 1
          BY <4>1, <4>4
        <5>2. more[k - 1] = lists[k - 1]
          BY <5>1
        <5> QED BY <4>1, <4>2, <4>4, <5>2
      <4> QED BY <4>3, <4>4
    <3> QED BY <3>1, <3>2
  <2>3. more = [k \in 0..(m + 1) |-> more[k]]
    OBVIOUS
  <2> HIDE DEF more
  <2>4. UpTo(more, m + 1)
    BY <2>2, <2>3
  <2>5. m + 1 \in 0..n
    BY <1>2
  <2> QED BY <2>4, <2>5
<1> HIDE DEF Reached
<1>3. 0..n \subseteq Reached
  BY <1>1, <1>2, AllUpTo
<1>4. n \in Reached
  BY <1>3
<1> QED BY <1>4 DEF Reached, Unrolls

(* The first list of deltas that begin with a list is that list. *)
LEMMA FirstList ==
  ASSUME NEW deltas, NEW lists, Unrolls(deltas, lists), Len(deltas) \in Nat \ {0},
         deltas[1].deltas \in Lists
  PROVE  lists[1] = deltas[1].deltas
<1> DEFINE first == deltas[1].deltas
<1>1. 0 \in 0..Len(deltas) /\ 1 \in 0..Len(deltas) /\ 1 - 1 = 0
  OBVIOUS
<1>2. lists[0] = NoTileEntities
  BY <1>1 DEF Unrolls
<1>3. lists[1] = Applied(first, lists[0])
  BY <1>1 DEF Unrolls
<1>4. DOMAIN NoTileEntities = {}
  BY DEF NoTileEntities
<1>5. PICK P \in SUBSET Positions : first \in [P -> Entities]
  BY DEF Lists
<1>6. {p \in DOMAIN first : first[p] = Erase} = {}
  BY <1>5, ParametersOK
<1> HIDE DEF first
<1>7. Applied(first, NoTileEntities) = [p \in DOMAIN first |-> first[p]]
  BY <1>4, <1>6 DEF Applied
<1>8. Applied(first, NoTileEntities) = first
  BY <1>5, <1>7
<1> QED BY <1>2, <1>3, <1>8 DEF first

(* Of deltas that a slice was recorded in front of, the lists are the      *)
(* slice's and then those there were.                                      *)
LEMMA ListsInFront ==
  ASSUME NEW deltas, NEW lists, NEW longer, NEW kept, NEW slice \in Slices,
         Len(deltas) \in Nat \ {0}, Len(longer) = Len(deltas) + 1,
         Unrolls(deltas, lists), Unrolls(longer, kept),
         deltas[1].deltas \in Lists,
         longer[1].deltas = ListOf(slice),
         longer[2].deltas = ReverseDelta(deltas[1].deltas, slice),
         \A k \in 3..Len(longer) : longer[k].deltas = deltas[k - 1].deltas
  PROVE  /\ kept[1] = ListOf(slice)
         /\ \A k \in 1..Len(deltas) : kept[k + 1] = lists[k]
<1> DEFINE n == Len(deltas)
           Same == {k \in 1..n : kept[k + 1] = lists[k]}
<1>1. kept[1] = ListOf(slice)
  BY FirstList, SliceAsList
<1>2. /\ \A k \in 1..n : k \in 0..n /\ k # 0 /\ k + 1 \in 0..(n + 1) /\ k + 1 # 0
                         /\ (k + 1) - 1 = k
      /\ 1 \in 1..n /\ n \in Nat
  OBVIOUS
<1>3. \A k \in 1..n : /\ lists[k] = Applied(deltas[k].deltas, lists[k - 1])
                      /\ kept[k + 1] = Applied(longer[k + 1].deltas, kept[k])
  BY <1>2 DEF Unrolls
<1>4. 1 \in Same
  <2>1. kept[1 + 1] = Applied(longer[1 + 1].deltas, kept[1])
    BY <1>2, <1>3
  <2>2. kept[1 + 1] = deltas[1].deltas
    BY <1>1, <2>1, ReverseDeltaLeadsBack
  <2> QED BY <1>2, <2>2, FirstList
<1>5. ASSUME NEW k \in 1..(n - 1), k \in Same
      PROVE  k + 1 \in Same
  <2>1. k + 1 \in 1..n /\ (k + 1) + 1 \in 3..Len(longer) /\ ((k + 1) + 1) - 1 = k + 1
        /\ (k + 1) - 1 = k
    BY <1>2
  <2>2. longer[(k + 1) + 1].deltas = deltas[k + 1].deltas
    BY <2>1
  <2>3. kept[(k + 1) + 1] = Applied(deltas[k + 1].deltas, kept[k + 1])
    BY <1>3, <2>1, <2>2
  <2>4. lists[k + 1] = Applied(deltas[k + 1].deltas, lists[k])
    BY <1>3, <2>1
  <2> QED BY <1>5, <2>1, <2>3, <2>4
<1> HIDE DEF Same
<1>6. 1..n \subseteq Same
  BY <1>2, <1>4, <1>5, AllUpTo
<1> QED BY <1>1, <1>6 DEF Same

-----------------------------------------------------------------------------
(* The invariant                                                           *)

Grids == UNION {{update[s] : s \in 1..Len(update)} : update \in Updates}

GridSnapshots == [timestamp: Times, grid: Grids]

DeltaSnapshots == [timestamp: Times, deltas: Deltas]

StateSnapshots == [timestamp: Times, state_type: StateTypes]

SliceSnapshots == [timestamp: Times, slice: Slices]

TypeOK ==
  /\ sections \in [Sections -> Seq(GridSnapshots)]
  /\ reverse_deltas \in Seq(DeltaSnapshots)
  /\ states \in Seq(StateSnapshots)
  /\ seen \in [calls: Nat, updates: [Sections -> Seq(GridSnapshots)],
               slices: Seq(SliceSnapshots), states: Seq(StateSnapshots)]

(* The values of logs. *)
GridsOf(log) == [k \in 1..Len(log) |-> log[k].grid]

TypesOf(log) == [k \in 1..Len(log) |-> log[k].state_type]

ListsOf(log) == [k \in 1..Len(log) |-> ListOf(log[k].slice)]

SectionsTell ==
  \A s \in Sections :
    Tells(sections[s], GridsOf(sections[s]), UpdatesOf(s), GridsOf(UpdatesOf(s)))

(* The newest delta is a whole list. *)
LatestIsList == Len(reverse_deltas) # 0 => reverse_deltas[1].deltas \in Lists

TileEntitiesTell ==
  Tells(reverse_deltas, TileEntityLists, seen.slices, ListsOf(seen.slices))

StatesTell == Tells(states, TypesOf(states), seen.states, TypesOf(seen.states))

IInv == TypeOK /\ SectionsTell /\ LatestIsList /\ TileEntitiesTell /\ StatesTell

(* Sequences of entries with timestamps are logs. *)
LEMMA TypedLogs ==
  ASSUME NEW S, \A entry \in S : entry.timestamp \in Int, NEW log \in Seq(S)
  PROVE  IsLog(log)
<1>1. Len(log) \in Nat /\ DOMAIN log = 1..Len(log)
  BY LenProperties
<1>2. \A k \in 1..Len(log) : log[k] \in S
  BY ElementOfSeq
<1> QED BY <1>1, <1>2 DEF IsLog

LEMMA SnapshotLogs ==
  /\ \A log \in Seq(GridSnapshots) : IsLog(log)
  /\ \A log \in Seq(DeltaSnapshots) : IsLog(log)
  /\ \A log \in Seq(StateSnapshots) : IsLog(log)
  /\ \A log \in Seq(SliceSnapshots) : IsLog(log)
<1>1. Times \subseteq Int
  BY ParametersOK
<1>2. \A entry \in GridSnapshots : entry.timestamp \in Int
  BY <1>1 DEF GridSnapshots
<1>3. \A entry \in DeltaSnapshots : entry.timestamp \in Int
  BY <1>1 DEF DeltaSnapshots
<1>4. \A entry \in StateSnapshots : entry.timestamp \in Int
  BY <1>1 DEF StateSnapshots
<1>5. \A entry \in SliceSnapshots : entry.timestamp \in Int
  BY <1>1 DEF SliceSnapshots
<1> QED BY <1>2, <1>3, <1>4, <1>5, TypedLogs

(* Whole lists are deltas. *)
LEMMA ListsAreDeltas == Lists \subseteq Deltas
BY DEF Lists, Deltas

(* An entry in front of a log. *)
LEMMA EntryInFront ==
  ASSUME NEW S, NEW log \in Seq(S), NEW entry \in S
  PROVE  /\ <<entry>> \o log \in Seq(S)
         /\ Len(<<entry>> \o log) = Len(log) + 1
         /\ (<<entry>> \o log)[1] = entry
         /\ \A k \in 1..Len(log) : (<<entry>> \o log)[k + 1] = log[k]
<1>1. <<entry>> \in Seq(S) /\ Len(<<entry>>) = 1 /\ <<entry>>[1] = entry
  OBVIOUS
<1>2. Len(log) \in Nat
  BY LenProperties
<1>3. /\ <<entry>> \o log \in Seq(S)
      /\ Len(<<entry>> \o log) = 1 + Len(log)
      /\ \A k \in 1..(1 + Len(log)) :
           (<<entry>> \o log)[k] = IF k <= 1 THEN <<entry>>[k] ELSE log[k - 1]
  BY <1>1, ConcatProperties
<1>4. 1 \in 1..(1 + Len(log))
      /\ \A k \in 1..Len(log) : k + 1 \in 1..(1 + Len(log)) /\ ~(k + 1 <= 1) /\ (k + 1) - 1 = k
  BY <1>2
<1> QED BY <1>1, <1>2, <1>3, <1>4

(* Whatever tile entities were recorded, the lists a read makes of them    *)
(* are those reconstruct_tile_entities defines.                            *)
LEMMA ListsUnroll == TypeOK => Unrolls(reverse_deltas, TileEntityLists)
<1> SUFFICES ASSUME TypeOK PROVE Unrolls(reverse_deltas, TileEntityLists)
  OBVIOUS
<1>1. Len(reverse_deltas) \in Nat
  BY LenProperties DEF TypeOK
<1>2. TileEntityLists = CHOOSE lists : Unrolls(reverse_deltas, lists)
  BY DEF TileEntityLists, Unrolls
<1> QED BY <1>1, <1>2, ListsExist

(* The same after a step. *)
LEMMA ListsStillUnroll == TypeOK' => Unrolls(reverse_deltas', TileEntityLists')
<1> DEFINE Unrolled == Unrolls(reverse_deltas, TileEntityLists)
<1>1. TypeOK => Unrolled
  BY ListsUnroll
<1> HIDE DEF Unrolled
<1>2. TypeOK' => Unrolled'
  BY <1>1, PTL
<1> QED BY <1>2 DEF Unrolled

(* Nothing recorded tells of nothing observed. *)
LEMMA NothingTells ==
  ASSUME NEW values, NEW saw
  PROVE  Tells(<<>>, values, <<>>, saw)
<1>1. Len(<<>>) = 0 /\ DOMAIN <<>> = 1..0
  OBVIOUS
<1> QED BY <1>1 DEF Tells, IsLog, Descending, TellsLast, TellsCuts

(* The invariant holds of a segment nothing was recorded of. *)
LEMMA InitEstablishes == Init => IInv
<1> SUFFICES ASSUME Init PROVE IInv
  OBVIOUS
<1>1. <<>> \in Seq(GridSnapshots) /\ <<>> \in Seq(DeltaSnapshots)
      /\ <<>> \in Seq(StateSnapshots) /\ <<>> \in Seq(SliceSnapshots) /\ Len(<<>>) = 0
  BY EmptySeq
<1>2. TypeOK
  BY <1>1 DEF Init, TypeOK
<1>3. SectionsTell
  BY NothingTells DEF Init, SectionsTell, UpdatesOf
<1>4. TileEntitiesTell /\ StatesTell
  BY NothingTells DEF Init, TileEntitiesTell, StatesTell
<1> QED BY <1>1, <1>2, <1>3, <1>4 DEF Init, IInv, LatestIsList

-----------------------------------------------------------------------------
(* Steps                                                                   *)

(* An appended observation is one more. *)
LEMMA AppendedIsOneMore ==
  ASSUME NEW S, NEW log \in Seq(S), NEW entry \in S
  PROVE  LET more == Append(log, entry)
         IN  /\ more \in Seq(S)
             /\ OneMore(log, GridsOf(log), more, GridsOf(more), entry.timestamp, entry.grid)
             /\ OneMore(log, TypesOf(log), more, TypesOf(more), entry.timestamp,
                        entry.state_type)
             /\ OneMore(log, ListsOf(log), more, ListsOf(more), entry.timestamp,
                        ListOf(entry.slice))
<1> DEFINE more == Append(log, entry)
           n == Len(log)
<1>1. /\ more \in Seq(S) /\ n \in Nat /\ Len(more) = n + 1
      /\ \A i \in 1..n : more[i] = log[i]
      /\ more[n + 1] = entry
  BY AppendProperties, LenProperties
<1> HIDE DEF more, n
<1>2. n + 1 \in 1..Len(more) /\ \A i \in 1..n : i \in 1..Len(more)
  BY <1>1
<1>3. OneMore(log, GridsOf(log), more, GridsOf(more), entry.timestamp, entry.grid)
  BY <1>1, <1>2 DEF OneMore, GridsOf, n
<1>4. OneMore(log, TypesOf(log), more, TypesOf(more), entry.timestamp, entry.state_type)
  BY <1>1, <1>2 DEF OneMore, TypesOf, n
<1>5. OneMore(log, ListsOf(log), more, ListsOf(more), entry.timestamp, ListOf(entry.slice))
  BY <1>1, <1>2 DEF OneMore, ListsOf, n
<1> QED BY <1>1, <1>3, <1>4, <1>5 DEF more

(* An entry in front of a history that is not as new grows it. *)
LEMMA InFrontGrows ==
  ASSUME NEW S, NEW log \in Seq(S), NEW entry \in S,
         Len(log) # 0 => entry.timestamp > log[1].timestamp
  PROVE  LET longer == <<entry>> \o log
         IN  /\ longer \in Seq(S)
             /\ GrownBy(log, GridsOf(log), longer, GridsOf(longer), entry.timestamp, entry.grid)
             /\ GrownBy(log, TypesOf(log), longer, TypesOf(longer), entry.timestamp,
                        entry.state_type)
<1> DEFINE longer == <<entry>> \o log
           n == Len(log)
<1>1. /\ longer \in Seq(S) /\ Len(longer) = n + 1 /\ longer[1] = entry
      /\ \A k \in 1..n : longer[k + 1] = log[k]
  BY EntryInFront
<1>2. n \in Nat
  BY LenProperties
<1> HIDE DEF longer, n
<1>3. 1 \in 1..Len(longer) /\ \A k \in 1..n : k + 1 \in 1..Len(longer)
  BY <1>1, <1>2
<1>4. InFront(log, longer, entry.timestamp)
  BY <1>1 DEF InFront, n
<1>5. GrownBy(log, GridsOf(log), longer, GridsOf(longer), entry.timestamp, entry.grid)
  BY <1>1, <1>3, <1>4 DEF GrownBy, GridsOf, n
<1>6. GrownBy(log, TypesOf(log), longer, TypesOf(longer), entry.timestamp, entry.state_type)
  BY <1>1, <1>3, <1>4 DEF GrownBy, TypesOf, n
<1> QED BY <1>1, <1>5, <1>6 DEF longer

(* What a step does to a history and the observations: nothing; an         *)
(* observation leaves the history alone; or it grows it.                   *)
Follows(history, values, observations, saw, history2, values2, observations2, saw2) ==
  \/ /\ history2 = history /\ values2 = values
     /\ observations2 = observations /\ saw2 = saw
  \/ \E t \in Int : \E value :
       /\ OneMore(observations, saw, observations2, saw2, t, value)
       /\ \/ /\ history2 = history /\ values2 = values
             /\ Len(history) # 0
             /\ t <= history[1].timestamp \/ value = values[1]
          \/ GrownBy(history, values, history2, values2, t, value)

(* Any of them keeps that the history tells of the observations.           *)
LEMMA FollowingTells ==
  ASSUME NEW history, NEW values, NEW observations, NEW saw,
         NEW history2, NEW values2, NEW observations2, NEW saw2,
         IsLog(history2), IsLog(observations2),
         Follows(history, values, observations, saw, history2, values2, observations2, saw2),
         Tells(history, values, observations, saw)
  PROVE  Tells(history2, values2, observations2, saw2)
BY LeftAloneTells, PutInFrontTells DEF Follows

(* No step changes what a history that is not empty has for a time before  *)
(* its newest entry, that of now or that of after the step.                *)
LEMMA FollowingKeepsThePast ==
  ASSUME NEW history, NEW values, NEW observations, NEW saw,
         NEW history2, NEW values2, NEW observations2, NEW saw2,
         IsLog(history), IsLog(history2), Len(history) # 0,
         Follows(history, values, observations, saw, history2, values2, observations2, saw2),
         NEW t \in Int,
         t < history2[1].timestamp \/ t < history[1].timestamp
  PROVE  /\ StopsAt(history, t) \in 1..Len(history)
         /\ StopsAt(history2, t) \in 1..Len(history2)
         /\ values2[StopsAt(history2, t)] = values[StopsAt(history, t)]
<1>1. CASE history2 = history /\ values2 = values
  BY <1>1, SearchStops DEF Stops
<1>2. CASE \E new \in Int : \E value : GrownBy(history, values, history2, values2, new, value)
  <2>0. PICK new \in Int : \E value : GrownBy(history, values, history2, values2, new, value)
    BY <1>2
  <2>1. PICK value : GrownBy(history, values, history2, values2, new, value)
    BY <2>0
  <2>2. /\ InFront(history, history2, new) /\ history2[1].timestamp = new
        /\ \A k \in 1..Len(history) : values2[k + 1] = values[k]
        /\ new > history[1].timestamp
    BY <2>1 DEF GrownBy, InFront
  <2>3. history[1].timestamp \in Int
    BY DEF IsLog
  <2>4. t < new
    BY <2>2, <2>3
  <2>5. StopsAt(history, t) \in 1..Len(history) /\ StopsAt(history2, t) = StopsAt(history, t) + 1
    BY <2>2, <2>4, SearchInFront
  <2>6. Len(history2) = Len(history) + 1 /\ Len(history) \in Nat
    BY <2>2 DEF InFront, IsLog
  <2> QED BY <2>2, <2>5, <2>6
<1> QED BY <1>1, <1>2 DEF Follows

(* What an update does to a section and what was seen of it.               *)
LEMMA SectionFollows ==
  ASSUME IInv, NEW t \in Times, NEW update \in Updates, UpdateSections(t, update),
         NEW s \in Sections
  PROVE  /\ sections'[s] \in Seq(GridSnapshots)
         /\ seen'.updates[s] \in Seq(GridSnapshots)
         /\ Follows(sections[s], GridsOf(sections[s]),
                    seen.updates[s], GridsOf(seen.updates[s]),
                    sections'[s], GridsOf(sections'[s]),
                    seen'.updates[s], GridsOf(seen'.updates[s]))
<1> DEFINE entry == [timestamp |-> t, grid |-> update[s]]
           history == sections[s]
           covered == s <= Len(update)
           taken == Saves(history, t, update[s])
<1>1. /\ history \in Seq(GridSnapshots) /\ seen.updates[s] \in Seq(GridSnapshots)
      /\ seen \in [calls: Nat, updates: [Sections -> Seq(GridSnapshots)],
                   slices: Seq(SliceSnapshots), states: Seq(StateSnapshots)]
  BY DEF IInv, TypeOK
<1>2. /\ covered => entry \in GridSnapshots
      /\ entry.timestamp = t /\ entry.grid = update[s] /\ t \in Int
  <2>1. covered => s \in 1..Len(update)
    BY ParametersOK DEF Sections
  <2> QED BY <2>1, ParametersOK DEF GridSnapshots, Grids
<1>3. sections'[s] = IF covered /\ taken THEN <<entry>> \o history ELSE history
  BY DEF UpdateSections
<1>4. seen'.updates[s] = IF covered THEN Append(seen.updates[s], entry) ELSE seen.updates[s]
  BY <1>1 DEF UpdateSections
<1>5. Len(history) \in Nat /\ (Len(history) = 0 <=> history = <<>>) /\ IsLog(history)
  BY <1>1, EmptySeq, LenProperties, SnapshotLogs
<1>6. Len(history) # 0 => /\ history[1].timestamp \in Int
                          /\ GridsOf(history)[1] = history[1].grid
  BY <1>5 DEF IsLog, GridsOf
<1> HIDE DEF entry, history
<1>7. CASE ~covered
  BY <1>1, <1>3, <1>4, <1>7 DEF Follows, history
<1>8. CASE covered /\ ~taken
  <2>1. /\ Append(seen.updates[s], entry) \in Seq(GridSnapshots)
        /\ OneMore(seen.updates[s], GridsOf(seen.updates[s]),
                   seen'.updates[s], GridsOf(seen'.updates[s]), t, update[s])
    BY <1>1, <1>2, <1>4, <1>8, AppendedIsOneMore
  <2>2. Len(history) # 0 /\ (t <= history[1].timestamp \/ update[s] = GridsOf(history)[1])
    BY <1>2, <1>5, <1>6, <1>8 DEF Saves
  <2>3. sections'[s] = history
    BY <1>3, <1>8
  <2> QED BY <1>1, <1>2, <1>4, <1>8, <2>1, <2>2, <2>3 DEF Follows, history
<1>9. CASE covered /\ taken
  <2>1. /\ Append(seen.updates[s], entry) \in Seq(GridSnapshots)
        /\ OneMore(seen.updates[s], GridsOf(seen.updates[s]),
                   seen'.updates[s], GridsOf(seen'.updates[s]), t, update[s])
    BY <1>1, <1>2, <1>4, <1>9, AppendedIsOneMore
  <2>2. Len(history) # 0 => entry.timestamp > history[1].timestamp
    BY <1>2, <1>5, <1>9 DEF Saves
  <2>3. /\ <<entry>> \o history \in Seq(GridSnapshots)
        /\ GrownBy(history, GridsOf(history), <<entry>> \o history,
                   GridsOf(<<entry>> \o history), t, update[s])
    BY <1>1, <1>2, <1>9, <2>2, InFrontGrows
  <2>4. sections'[s] = <<entry>> \o history
    BY <1>3, <1>9
  <2> QED BY <1>2, <1>4, <1>9, <2>1, <2>3, <2>4 DEF Follows, history
<1> QED BY <1>7, <1>8, <1>9

(* What Recorded makes of the deltas.                                      *)
LEMMA RecordedShape ==
  ASSUME TypeOK, Len(reverse_deltas) # 0, reverse_deltas[1].deltas \in Lists,
         NEW t \in Times, NEW slice \in Slices
  PROVE  /\ Recorded(t, slice) \in Seq(DeltaSnapshots)
         /\ InFront(reverse_deltas, Recorded(t, slice), t)
         /\ Recorded(t, slice)[1].deltas = ListOf(slice)
         /\ Recorded(t, slice)[2].deltas = ReverseDelta(reverse_deltas[1].deltas, slice)
         /\ \A k \in 3..Len(Recorded(t, slice)) :
              Recorded(t, slice)[k].deltas = reverse_deltas[k - 1].deltas
<1> DEFINE first == [timestamp |-> t, deltas |-> ListOf(slice)]
           second == [timestamp |-> reverse_deltas[1].timestamp,
                      deltas |-> ReverseDelta(reverse_deltas[1].deltas, slice)]
           rest == Tail(reverse_deltas)
           old == <<second>> \o rest
           recorded == Recorded(t, slice)
<1>1. /\ reverse_deltas \in Seq(DeltaSnapshots) /\ Len(reverse_deltas) \in Nat \ {0}
      /\ reverse_deltas # <<>>
  BY LenProperties, EmptySeq DEF TypeOK
<1>2. /\ rest \in Seq(DeltaSnapshots) /\ Len(rest) = Len(reverse_deltas) - 1
      /\ \A k \in 1..Len(rest) : rest[k] = reverse_deltas[k + 1]
  BY <1>1, HeadTailProperties
<1>3. reverse_deltas[1] \in DeltaSnapshots
  BY <1>1, ElementOfSeq
<1>4. first \in DeltaSnapshots
  BY SliceAsList, ListsAreDeltas DEF DeltaSnapshots
<1>5. second \in DeltaSnapshots
  BY <1>3, ReverseDeltaLeadsBack DEF DeltaSnapshots
<1>6. recorded = <<first, second>> \o rest
  BY DEF Recorded
<1> HIDE DEF rest
<1>7. first.timestamp = t /\ first.deltas = ListOf(slice)
      /\ second.timestamp = reverse_deltas[1].timestamp
      /\ second.deltas = ReverseDelta(reverse_deltas[1].deltas, slice)
  OBVIOUS
<1> HIDE DEF first, second, recorded
<1>8. /\ <<first, second>> \in Seq(DeltaSnapshots) /\ Len(<<first, second>>) = 2
      /\ <<first, second>>[1] = first /\ <<first, second>>[2] = second
  BY <1>4, <1>5
<1>9. /\ recorded \in Seq(DeltaSnapshots) /\ Len(recorded) = 2 + Len(rest)
      /\ \A k \in 1..(2 + Len(rest)) :
           recorded[k] = IF k <= 2 THEN <<first, second>>[k] ELSE rest[k - 2]
  BY <1>2, <1>6, <1>8, ConcatProperties
<1>10. Len(recorded) = Len(reverse_deltas) + 1 /\ recorded[1] = first /\ recorded[2] = second
  BY <1>1, <1>2, <1>8, <1>9
<1>11. ASSUME NEW k \in 3..Len(recorded)
       PROVE  recorded[k] = reverse_deltas[k - 1]
  <2>1. k \in 1..(2 + Len(rest)) /\ ~(k <= 2) /\ k - 2 \in 1..Len(rest)
        /\ (k - 2) + 1 = k - 1
    BY <1>1, <1>2, <1>9
  <2> QED BY <1>2, <1>9, <2>1
<1>12. ASSUME NEW k \in 1..Len(reverse_deltas)
       PROVE  recorded[k + 1].timestamp = reverse_deltas[k].timestamp
  <2>1. CASE k = 1
    BY <1>7, <1>10, <2>1
  <2>2. CASE k # 1
    <3>1. k + 1 \in 3..Len(recorded) /\ (k + 1) - 1 = k
      BY <1>1, <1>10, <2>2
    <3> QED BY <1>11, <3>1
  <2> QED BY <2>1, <2>2
<1> QED BY <1>7, <1>9, <1>10, <1>11, <1>12 DEF InFront, recorded

(* What an insertion does to the tile entities.                            *)
LEMMA TileEntitiesFollow ==
  ASSUME IInv, NEW t \in Times, NEW slice \in Slices, InsertTileEntities(t, slice),
         TypeOK'
  PROVE  /\ LatestIsList'
         /\ Follows(reverse_deltas, TileEntityLists, seen.slices, ListsOf(seen.slices),
                    reverse_deltas', TileEntityLists', seen'.slices, ListsOf(seen'.slices))
<1> DEFINE entry == [timestamp |-> t, slice |-> slice]
           change == ReverseDelta(reverse_deltas[1].deltas, slice)
<1>1. /\ reverse_deltas \in Seq(DeltaSnapshots) /\ seen.slices \in Seq(SliceSnapshots)
      /\ seen \in [calls: Nat, updates: [Sections -> Seq(GridSnapshots)],
                   slices: Seq(SliceSnapshots), states: Seq(StateSnapshots)]
      /\ (Len(reverse_deltas) # 0 => reverse_deltas[1].deltas \in Lists)
  BY DEF IInv, TypeOK, LatestIsList
<1>2. entry \in SliceSnapshots /\ entry.timestamp = t /\ entry.slice = slice /\ t \in Int
  BY ParametersOK DEF SliceSnapshots
<1>3. seen'.slices = Append(seen.slices, entry)
  BY <1>1 DEF InsertTileEntities
<1> HIDE DEF entry
<1>4. OneMore(seen.slices, ListsOf(seen.slices), seen'.slices, ListsOf(seen'.slices),
              t, ListOf(slice))
  BY <1>1, <1>2, <1>3, AppendedIsOneMore
<1>5. /\ Len(reverse_deltas) \in Nat /\ IsLog(reverse_deltas)
      /\ Len(reverse_deltas) = 0 <=> reverse_deltas = <<>>
  BY <1>1, EmptySeq, LenProperties, SnapshotLogs
<1>6. Unrolls(reverse_deltas, TileEntityLists) /\ Unrolls(reverse_deltas', TileEntityLists')
  BY ListsUnroll, ListsStillUnroll DEF IInv
<1>7. ListOf(slice) \in Lists
  BY SliceAsList
<1>8. CASE reverse_deltas = <<>>
  <2>1. reverse_deltas' = <<[timestamp |-> t, deltas |-> ListOf(slice)]>>
    BY <1>8 DEF InsertTileEntities
  <2>2. /\ Len(reverse_deltas) = 0 /\ Len(reverse_deltas') = 1
        /\ reverse_deltas'[1].timestamp = t /\ reverse_deltas'[1].deltas = ListOf(slice)
    BY <1>5, <1>8, <2>1
  <2>3. TileEntityLists'[1] = ListOf(slice)
    BY <1>6, <1>7, <2>2, FirstList
  <2>4. GrownBy(reverse_deltas, TileEntityLists, reverse_deltas', TileEntityLists',
                t, ListOf(slice))
    BY <2>2, <2>3 DEF GrownBy, InFront
  <2> QED BY <1>2, <1>4, <1>7, <2>2, <2>4 DEF Follows, LatestIsList
<1>9. CASE reverse_deltas # <<>> /\ t > reverse_deltas[1].timestamp /\ DOMAIN change # {}
  <2>1. reverse_deltas' = Recorded(t, slice)
    BY <1>9 DEF InsertTileEntities
  <2>2. /\ InFront(reverse_deltas, reverse_deltas', t)
        /\ reverse_deltas'[1].deltas = ListOf(slice)
        /\ reverse_deltas'[2].deltas = ReverseDelta(reverse_deltas[1].deltas, slice)
        /\ \A k \in 3..Len(reverse_deltas') :
             reverse_deltas'[k].deltas = reverse_deltas[k - 1].deltas
    BY <1>1, <1>5, <1>9, <2>1, RecordedShape DEF IInv
  <2>3. /\ TileEntityLists'[1] = ListOf(slice)
        /\ \A k \in 1..Len(reverse_deltas) : TileEntityLists'[k + 1] = TileEntityLists[k]
    <3>1. /\ Len(reverse_deltas) \in Nat \ {0}
          /\ Len(reverse_deltas') = Len(reverse_deltas) + 1
          /\ reverse_deltas[1].deltas \in Lists
      BY <1>1, <1>5, <1>9, <2>2 DEF InFront
    <3> QED BY <1>6, <2>2, <3>1, ListsInFront
  <2>4. GrownBy(reverse_deltas, TileEntityLists, reverse_deltas', TileEntityLists',
                t, ListOf(slice))
    BY <1>9, <2>2, <2>3 DEF GrownBy
  <2> QED BY <1>2, <1>4, <1>7, <2>2, <2>4 DEF Follows, LatestIsList
<1>10. CASE reverse_deltas # <<>> /\ ~(t > reverse_deltas[1].timestamp /\ DOMAIN change # {})
  <2>1. reverse_deltas' = reverse_deltas
    BY <1>10 DEF InsertTileEntities
  <2>2. TileEntityLists' = TileEntityLists
    BY <2>1 DEF TileEntityLists
  <2>3. /\ Len(reverse_deltas) \in Nat \ {0} /\ reverse_deltas[1].deltas \in Lists
        /\ reverse_deltas[1].timestamp \in Int
    BY <1>1, <1>5, <1>10 DEF IsLog
  <2>4. TileEntityLists[1] = reverse_deltas[1].deltas
    BY <1>6, <2>3, FirstList
  <2>5. t <= reverse_deltas[1].timestamp \/ ListOf(slice) = TileEntityLists[1]
    <3>1. t > reverse_deltas[1].timestamp => DOMAIN change = {}
      BY <1>10
    <3>2. t > reverse_deltas[1].timestamp => ListOf(slice) = reverse_deltas[1].deltas
      BY <2>3, <3>1, NoDeltaNoChange
    <3> QED BY <1>2, <2>3, <2>4, <3>2
  <2> QED BY <1>1, <1>2, <1>4, <2>1, <2>2, <2>3, <2>5 DEF Follows, LatestIsList
<1> QED BY <1>8, <1>9, <1>10

(* What an insertion does to the states.                                   *)
LEMMA StatesFollow ==
  ASSUME IInv, NEW t \in Times, NEW type \in StateTypes, InsertState(t, type)
  PROVE  /\ states' \in Seq(StateSnapshots) /\ seen'.states \in Seq(StateSnapshots)
         /\ Follows(states, TypesOf(states), seen.states, TypesOf(seen.states),
                    states', TypesOf(states'), seen'.states, TypesOf(seen'.states))
<1> DEFINE entry == [timestamp |-> t, state_type |-> type]
<1>1. /\ states \in Seq(StateSnapshots) /\ seen.states \in Seq(StateSnapshots)
      /\ seen \in [calls: Nat, updates: [Sections -> Seq(GridSnapshots)],
                   slices: Seq(SliceSnapshots), states: Seq(StateSnapshots)]
  BY DEF IInv, TypeOK
<1>2. entry \in StateSnapshots /\ entry.timestamp = t /\ entry.state_type = type /\ t \in Int
  BY ParametersOK DEF StateSnapshots
<1>3. /\ states' = IF NewState(t, type) THEN <<entry>> \o states ELSE states
      /\ seen'.states = Append(seen.states, entry)
  BY <1>1 DEF InsertState
<1>4. Len(states) \in Nat /\ (Len(states) = 0 <=> states = <<>>) /\ IsLog(states)
  BY <1>1, EmptySeq, LenProperties, SnapshotLogs
<1>5. Len(states) # 0 => /\ states[1].timestamp \in Int
                         /\ TypesOf(states)[1] = states[1].state_type
  BY <1>4 DEF IsLog, TypesOf
<1> HIDE DEF entry
<1>6. /\ seen'.states \in Seq(StateSnapshots)
      /\ OneMore(seen.states, TypesOf(seen.states), seen'.states, TypesOf(seen'.states),
                 t, type)
  BY <1>1, <1>2, <1>3, AppendedIsOneMore
<1>7. CASE NewState(t, type)
  <2>1. Len(states) # 0 => entry.timestamp > states[1].timestamp
    BY <1>2, <1>4, <1>7 DEF NewState
  <2>2. /\ states' \in Seq(StateSnapshots)
        /\ GrownBy(states, TypesOf(states), states', TypesOf(states'), t, type)
    BY <1>1, <1>2, <1>3, <1>7, <2>1, InFrontGrows
  <2> QED BY <1>2, <1>6, <2>2 DEF Follows
<1>8. CASE ~NewState(t, type)
  <2>1. Len(states) # 0 /\ (t <= states[1].timestamp \/ type = TypesOf(states)[1])
    BY <1>2, <1>4, <1>5, <1>8 DEF NewState
  <2>2. states' = states
    BY <1>3, <1>8
  <2> QED BY <1>1, <1>2, <1>6, <2>1, <2>2 DEF Follows
<1> QED BY <1>7, <1>8

(* Every step keeps the invariant. *)
LEMMA NextKeepsTypes == IInv /\ [Next]_vars => TypeOK'
<1> SUFFICES ASSUME IInv, [Next]_vars PROVE TypeOK'
  OBVIOUS
<1>0. /\ TypeOK
      /\ sections \in [Sections -> Seq(GridSnapshots)]
      /\ seen \in [calls: Nat, updates: [Sections -> Seq(GridSnapshots)],
                   slices: Seq(SliceSnapshots), states: Seq(StateSnapshots)]
  BY DEF IInv, TypeOK
<1>1. ASSUME NEW t \in Times, NEW update \in Updates, UpdateSections(t, update)
      PROVE  TypeOK'
  <2>1. \A s \in Sections : /\ sections'[s] \in Seq(GridSnapshots)
                            /\ seen'.updates[s] \in Seq(GridSnapshots)
    BY <1>1, SectionFollows
  <2>2. DOMAIN sections' = Sections /\ sections' = [s \in Sections |-> sections'[s]]
    BY <1>1 DEF UpdateSections
  <2>3. /\ seen'.updates = [s \in Sections |-> seen'.updates[s]]
        /\ seen' = [calls |-> seen.calls + 1, updates |-> seen'.updates,
                    slices |-> seen.slices, states |-> seen.states]
    BY <1>0, <1>1 DEF UpdateSections
  <2>4. sections' \in [Sections -> Seq(GridSnapshots)]
    BY <2>1, <2>2
  <2>5. seen'.updates \in [Sections -> Seq(GridSnapshots)]
    BY <2>1, <2>3
  <2>6. seen' \in [calls: Nat, updates: [Sections -> Seq(GridSnapshots)],
                   slices: Seq(SliceSnapshots), states: Seq(StateSnapshots)]
    BY <1>0, <2>3, <2>5
  <2> QED BY <1>0, <1>1, <2>4, <2>6 DEF TypeOK, UpdateSections
<1>2. ASSUME NEW t \in Times, NEW slice \in Slices, InsertTileEntities(t, slice)
      PROVE  TypeOK'
  <2> DEFINE entry == [timestamp |-> t, slice |-> slice]
             snapshot == [timestamp |-> t, deltas |-> ListOf(slice)]
  <2>1. entry \in SliceSnapshots
    BY DEF SliceSnapshots
  <2>2. Append(seen.slices, entry) \in Seq(SliceSnapshots)
    BY <1>0, <2>1, AppendProperties
  <2>3. seen' \in [calls: Nat, updates: [Sections -> Seq(GridSnapshots)],
                   slices: Seq(SliceSnapshots), states: Seq(StateSnapshots)]
    <3>1. seen' = [calls |-> seen.calls + 1, updates |-> seen.updates,
                   slices |-> Append(seen.slices, entry), states |-> seen.states]
      BY <1>0, <1>2 DEF InsertTileEntities
    <3> HIDE DEF entry
    <3> QED BY <1>0, <2>2, <3>1
  <2>4. snapshot \in DeltaSnapshots /\ <<snapshot>> \in Seq(DeltaSnapshots)
    BY SliceAsList, ListsAreDeltas DEF DeltaSnapshots
  <2>5. /\ reverse_deltas \in Seq(DeltaSnapshots)
        /\ reverse_deltas # <<>> => Recorded(t, slice) \in Seq(DeltaSnapshots)
    BY EmptySeq, RecordedShape DEF IInv, TypeOK, LatestIsList
  <2>6. reverse_deltas' \in Seq(DeltaSnapshots)
    BY <1>2, <2>4, <2>5 DEF InsertTileEntities
  <2> QED BY <1>0, <1>2, <2>3, <2>6 DEF TypeOK, InsertTileEntities
<1>3. ASSUME NEW t \in Times, NEW type \in StateTypes, InsertState(t, type)
      PROVE  TypeOK'
  <2>1. states' \in Seq(StateSnapshots) /\ seen'.states \in Seq(StateSnapshots)
    BY <1>3, StatesFollow
  <2>2. seen' = [calls |-> seen.calls + 1, updates |-> seen.updates,
                 slices |-> seen.slices, states |-> seen'.states]
    BY <1>0, <1>3 DEF InsertState
  <2>3. seen' \in [calls: Nat, updates: [Sections -> Seq(GridSnapshots)],
                   slices: Seq(SliceSnapshots), states: Seq(StateSnapshots)]
    BY <1>0, <2>1, <2>2
  <2> QED BY <1>0, <1>3, <2>1, <2>3 DEF TypeOK, InsertState
<1>4. ASSUME UNCHANGED vars PROVE TypeOK'
  BY <1>0, <1>4 DEF TypeOK, vars
<1> QED BY <1>1, <1>2, <1>3, <1>4 DEF Next

(* What a step does to each of the three parts. *)
LEMMA NextFollows ==
  ASSUME IInv, [Next]_vars
  PROVE  /\ \A s \in Sections :
              Follows(sections[s], GridsOf(sections[s]),
                      seen.updates[s], GridsOf(seen.updates[s]),
                      sections'[s], GridsOf(sections'[s]),
                      seen'.updates[s], GridsOf(seen'.updates[s]))
         /\ LatestIsList'
         /\ Follows(reverse_deltas, TileEntityLists, seen.slices, ListsOf(seen.slices),
                    reverse_deltas', TileEntityLists', seen'.slices, ListsOf(seen'.slices))
         /\ Follows(states, TypesOf(states), seen.states, TypesOf(seen.states),
                    states', TypesOf(states'), seen'.states, TypesOf(seen'.states))
<1> DEFINE SectionsFollow ==
             \A s \in Sections :
               Follows(sections[s], GridsOf(sections[s]),
                       seen.updates[s], GridsOf(seen.updates[s]),
                       sections'[s], GridsOf(sections'[s]),
                       seen'.updates[s], GridsOf(seen'.updates[s]))
           EntitiesFollow ==
             /\ LatestIsList'
             /\ Follows(reverse_deltas, TileEntityLists, seen.slices, ListsOf(seen.slices),
                        reverse_deltas', TileEntityLists', seen'.slices, ListsOf(seen'.slices))
           TypesFollow ==
             Follows(states, TypesOf(states), seen.states, TypesOf(seen.states),
                     states', TypesOf(states'), seen'.states, TypesOf(seen'.states))
<1>0. /\ TypeOK' /\ LatestIsList
      /\ seen \in [calls: Nat, updates: [Sections -> Seq(GridSnapshots)],
                   slices: Seq(SliceSnapshots), states: Seq(StateSnapshots)]
  BY NextKeepsTypes DEF IInv, TypeOK
<1>1. ASSUME UNCHANGED sections, seen'.updates = seen.updates
      PROVE  SectionsFollow
  BY <1>1 DEF Follows
<1>2. ASSUME UNCHANGED reverse_deltas, seen'.slices = seen.slices
      PROVE  EntitiesFollow
  <2>1. TileEntityLists' = TileEntityLists
    BY <1>2 DEF TileEntityLists
  <2> QED BY <1>0, <1>2, <2>1 DEF Follows, LatestIsList
<1>3. ASSUME UNCHANGED states, seen'.states = seen.states
      PROVE  TypesFollow
  BY <1>3 DEF Follows
<1> DEFINE AllFollow == SectionsFollow /\ EntitiesFollow /\ TypesFollow
<1>4. ASSUME NEW t \in Times, NEW update \in Updates, UpdateSections(t, update)
      PROVE  AllFollow
  <2>1. SectionsFollow
    BY <1>4, SectionFollows
  <2>2. UNCHANGED <<reverse_deltas, states>> /\ seen'.slices = seen.slices
        /\ seen'.states = seen.states
    BY <1>0, <1>4 DEF UpdateSections
  <2> HIDE DEF SectionsFollow, EntitiesFollow, TypesFollow
  <2> QED BY <1>2, <1>3, <2>1, <2>2
<1>5. ASSUME NEW t \in Times, NEW slice \in Slices, InsertTileEntities(t, slice)
      PROVE  AllFollow
  <2>1. EntitiesFollow
    BY <1>0, <1>5, TileEntitiesFollow
  <2>2. UNCHANGED <<sections, states>> /\ seen'.updates = seen.updates
        /\ seen'.states = seen.states
    BY <1>0, <1>5 DEF InsertTileEntities
  <2> HIDE DEF SectionsFollow, EntitiesFollow, TypesFollow
  <2> QED BY <1>1, <1>3, <2>1, <2>2
<1>6. ASSUME NEW t \in Times, NEW type \in StateTypes, InsertState(t, type)
      PROVE  AllFollow
  <2>1. TypesFollow
    BY <1>6, StatesFollow
  <2>2. UNCHANGED <<sections, reverse_deltas>> /\ seen'.updates = seen.updates
        /\ seen'.slices = seen.slices
    BY <1>0, <1>6 DEF InsertState
  <2> HIDE DEF SectionsFollow, EntitiesFollow, TypesFollow
  <2> QED BY <1>1, <1>2, <2>1, <2>2
<1>7. ASSUME UNCHANGED vars PROVE AllFollow
  <2>1. UNCHANGED <<sections, reverse_deltas, states>> /\ seen' = seen
    BY <1>7 DEF vars
  <2> HIDE DEF SectionsFollow, EntitiesFollow, TypesFollow
  <2> QED BY <1>1, <1>2, <1>3, <2>1
<1> HIDE DEF AllFollow
<1>8. AllFollow
  BY <1>4, <1>5, <1>6, <1>7 DEF Next
<1> QED BY <1>8 DEF AllFollow

(* Every step keeps the invariant. *)
LEMMA NextKeeps == IInv /\ [Next]_vars => IInv'
<1> SUFFICES ASSUME IInv, [Next]_vars PROVE IInv'
  OBVIOUS
<1>1. TypeOK /\ TypeOK'
  BY NextKeepsTypes DEF IInv
<1>2. /\ \A s \in Sections : IsLog(sections'[s]) /\ IsLog(seen'.updates[s])
      /\ IsLog(reverse_deltas') /\ IsLog(seen'.slices)
      /\ IsLog(states') /\ IsLog(seen'.states)
  BY <1>1, SnapshotLogs DEF TypeOK
<1>3. SectionsTell'
  <2> SUFFICES ASSUME NEW s \in Sections
               PROVE  Tells(sections'[s], GridsOf(sections'[s]),
                            seen'.updates[s], GridsOf(seen'.updates[s]))
    BY DEF SectionsTell, UpdatesOf
  <2>1. Tells(sections[s], GridsOf(sections[s]), seen.updates[s], GridsOf(seen.updates[s]))
    BY DEF IInv, SectionsTell, UpdatesOf
  <2>2. Follows(sections[s], GridsOf(sections[s]),
                seen.updates[s], GridsOf(seen.updates[s]),
                sections'[s], GridsOf(sections'[s]),
                seen'.updates[s], GridsOf(seen'.updates[s]))
    BY NextFollows
  <2> QED BY <1>2, <2>1, <2>2, FollowingTells
<1>4. LatestIsList' /\ TileEntitiesTell'
  BY <1>2, NextFollows, FollowingTells DEF IInv, TileEntitiesTell
<1>5. StatesTell'
  BY <1>2, NextFollows, FollowingTells DEF IInv, StatesTell
<1> QED BY <1>1, <1>3, <1>4, <1>5 DEF IInv

(* In every state the invariant holds. *)
LEMMA Invariance == Spec => []IInv
BY InitEstablishes, NextKeeps, PTL DEF Spec

-----------------------------------------------------------------------------
(* The nearest snapshot                                                    *)

(* What is no farther away has no larger square. *)
LEMMA SquaresGrow ==
  ASSUME NEW x \in Nat, NEW y \in Nat, x <= y
  PROVE  x * x <= y * y
<1>1. x * x <= x * y /\ x * y <= y * y
  OBVIOUS
<1> QED BY <1>1

LEMMA DistanceSquared ==
  ASSUME NEW t \in Int, NEW u \in Int
  PROVE  /\ Distance(t, u) \in Nat
         /\ Distance(t, u) * Distance(t, u) = (u - t) * (u - t)
<1>1. CASE t < u
  BY <1>1 DEF Distance
<1>2. CASE ~(t < u)
  <2>1. Distance(t, u) = t - u /\ t - u \in Nat
    BY <1>2 DEF Distance
  <2>2. (t - u) * (t - u) = (u - t) * (u - t)
    OBVIOUS
  <2> QED BY <2>1, <2>2
<1> QED BY <1>1, <1>2

(* find_nearest takes the first entry of a history among those that no     *)
(* other is nearer to t than.                                              *)
LEMMA NearestIsTaken ==
  ASSUME NEW history, IsLog(history), history # <<>>, Len(history) # 0, NEW t \in Int
  PROVE  \E k \in 1..Len(history) :
           /\ FindNearestTimestamp(history, t) = history[k].timestamp
           /\ \A j \in 1..Len(history) :
                Distance(t, history[k].timestamp) <= Distance(t, history[j].timestamp)
           /\ \A j \in 1..(k - 1) :
                Distance(t, history[k].timestamp) < Distance(t, history[j].timestamp)
<1> DEFINE n == Len(history)
           distance(k) == Distance(t, history[k].timestamp)
           IsNearest(k) == /\ \A j \in DOMAIN history : distance(k) <= distance(j)
                           /\ \A j \in 1..(k - 1) : distance(k) < distance(j)
           Distances == {distance(k) : k \in 1..n}
<1>1. n \in Nat \ {0} /\ DOMAIN history = 1..n
  BY DEF IsLog
<1>2. \A k \in 1..n : distance(k) \in Nat
  BY DistanceSquared DEF IsLog
<1>3. FindNearestTimestamp(history, t) =
        history[CHOOSE k \in DOMAIN history : IsNearest(k)].timestamp
  BY DEF FindNearestTimestamp
<1> HIDE DEF n, distance
<1>4. Distances \in SUBSET Nat /\ Distances # {}
  <2>1. 1 \in 1..n
    BY <1>1
  <2> QED BY <1>2, <2>1
<1>5. PICK least \in Distances : \A d \in Distances : least <= d
  BY <1>4, LeastExists
<1> DEFINE Nearest == {k \in 1..n : distance(k) = least}
<1>6. Nearest \in SUBSET Nat /\ Nearest # {}
  BY <1>5
<1>7. PICK k \in Nearest : \A j \in Nearest : k <= j
  BY <1>6, LeastExists
<1>8. k \in 1..n /\ distance(k) = least /\ \A j \in 1..n : distance(k) <= distance(j)
  BY <1>5, <1>7
<1>9. ASSUME NEW j \in 1..(k - 1)
      PROVE  distance(k) < distance(j)
  <2>1. j \in 1..n /\ ~(k <= j)
    BY <1>1, <1>8
  <2>2. distance(j) # least
    BY <1>7, <2>1
  <2> QED BY <1>2, <1>8, <2>1, <2>2
<1>10. IsNearest(k) /\ k \in DOMAIN history
  BY <1>1, <1>8, <1>9
<1> DEFINE nearest == CHOOSE i \in DOMAIN history : IsNearest(i)
<1>11. nearest \in DOMAIN history /\ IsNearest(nearest)
  BY <1>10
<1> HIDE DEF nearest
<1>12. FindNearestTimestamp(history, t) = history[nearest].timestamp
  BY <1>3 DEF nearest
<1> QED BY <1>1, <1>11, <1>12 DEF n, distance

(* No entry of a history is nearer to t than the one taken, and one as     *)
(* near on the other side of t is older.                                   *)
LEMMA NearestIsNearest ==
  ASSUME NEW history, IsLog(history), history # <<>>, Len(history) # 0,
         Descending(history), NEW t \in Int
  PROVE  LET nearest == FindNearestTimestamp(history, t)
         IN  \E k \in 1..Len(history) :
               /\ nearest = history[k].timestamp
               /\ \A j \in 1..Len(history) :
                    LET other == history[j].timestamp
                    IN  /\ (nearest - t) * (nearest - t) <= (other - t) * (other - t)
                        /\ t - nearest = other - t => nearest >= other
<1>1. PICK k \in 1..Len(history) :
        /\ FindNearestTimestamp(history, t) = history[k].timestamp
        /\ \A j \in 1..Len(history) :
             Distance(t, history[k].timestamp) <= Distance(t, history[j].timestamp)
        /\ \A j \in 1..(k - 1) :
             Distance(t, history[k].timestamp) < Distance(t, history[j].timestamp)
  BY NearestIsTaken
<1> DEFINE nearest == history[k].timestamp
<1>2. nearest \in Int
  BY DEF IsLog
<1>3. ASSUME NEW j \in 1..Len(history)
      PROVE  LET other == history[j].timestamp
             IN  /\ (nearest - t) * (nearest - t) <= (other - t) * (other - t)
                 /\ t - nearest = other - t => nearest >= other
  <2> DEFINE other == history[j].timestamp
  <2>1. other \in Int /\ Distance(t, nearest) <= Distance(t, other)
    BY <1>1 DEF IsLog
  <2>2. j < k => Distance(t, nearest) < Distance(t, other)
    <3>1. Len(history) \in Nat /\ (j < k => j \in 1..(k - 1))
      BY DEF IsLog
    <3> QED BY <1>1, <3>1
  <2>3. k < j => nearest > other
    BY DEF Descending
  <2>4. k = j => nearest = other
    OBVIOUS
  <2>5. j < k \/ k = j \/ k < j
    BY DEF IsLog
  <2> HIDE DEF nearest, other
  <2>6. (nearest - t) * (nearest - t) <= (other - t) * (other - t)
    <3>1. Distance(t, nearest) * Distance(t, nearest) <= Distance(t, other) * Distance(t, other)
      BY <1>2, <2>1, DistanceSquared, SquaresGrow
    <3> QED BY <1>2, <2>1, <3>1, DistanceSquared
  <2>7. ASSUME t - nearest = other - t
        PROVE  nearest >= other
    <3>1. Distance(t, nearest) = Distance(t, other)
      BY <1>2, <2>1, <2>7 DEF Distance
    <3>2. k = j \/ k < j
      <4>1. Distance(t, nearest) \in Nat
        BY <1>2, DistanceSquared
      <4> QED BY <2>2, <2>5, <3>1, <4>1
    <3> QED BY <1>2, <2>1, <2>3, <2>4, <3>2
  <2> QED BY <2>6, <2>7 DEF nearest, other
<1> QED BY <1>1, <1>3

-----------------------------------------------------------------------------
(* Theorems                                                                *)

(* Provided that the observations of a section came in the order of their  *)
(* times, it reads back, for any time, what was last seen at or before it; *)
(* likewise the tile entities, rebuilt from any number of deltas, and the  *)
(* states.  Nothing is said here of observations in another order.         *)
THEOREM CutsAreObserved == Spec => []CutIsObserved
<1>1. IInv => CutIsObserved
  <2> SUFFICES ASSUME IInv, NEW t \in Times
               PROVE  /\ \A s \in Sections :
                           InOrder(UpdatesOf(s)) =>
                             \A i \in DOMAIN UpdatesOf(s) :
                               IsLastBy(UpdatesOf(s), t, i)
                                 => SectionBefore(s, t) = UpdatesOf(s)[i].grid
                      /\ InOrder(seen.slices) =>
                           \A i \in DOMAIN seen.slices :
                             IsLastBy(seen.slices, t, i)
                               => TileEntitiesBefore(t) = ListOf(seen.slices[i].slice)
                      /\ InOrder(seen.states) =>
                           \A i \in DOMAIN seen.states :
                             IsLastBy(seen.states, t, i)
                               => StateBefore(t) = seen.states[i].state_type
    BY DEF CutIsObserved
  <2>1. t \in Int
    BY ParametersOK
  <2>2. ASSUME NEW history, NEW values, NEW observations, NEW saw,
               Tells(history, values, observations, saw), InOrder(observations),
               NEW i \in DOMAIN observations, IsLastBy(observations, t, i)
        PROVE  /\ i \in 1..Len(observations)
               /\ StopsAt(history, t) \in 1..Len(history)
               /\ values[StopsAt(history, t)] = saw[i]
    <3>1. i \in 1..Len(observations) /\ Len(history) # 0
      BY <2>2 DEF Tells, IsLog
    <3>2. StopsAt(history, t) \in 1..Len(history)
      BY <2>1, <2>2, <3>1, SearchStops DEF Tells, Stops
    <3> QED BY <2>1, <2>2, <3>1, <3>2 DEF Tells, TellsCuts
  <2>3. ASSUME NEW s \in Sections, InOrder(UpdatesOf(s)),
               NEW i \in DOMAIN UpdatesOf(s), IsLastBy(UpdatesOf(s), t, i)
        PROVE  SectionBefore(s, t) = UpdatesOf(s)[i].grid
    <3>1. Tells(sections[s], GridsOf(sections[s]), UpdatesOf(s), GridsOf(UpdatesOf(s)))
      BY DEF IInv, SectionsTell
    <3> QED BY <2>2, <2>3, <3>1 DEF SectionBefore, GridsOf
  <2>4. ASSUME InOrder(seen.slices), NEW i \in DOMAIN seen.slices,
               IsLastBy(seen.slices, t, i)
        PROVE  TileEntitiesBefore(t) = ListOf(seen.slices[i].slice)
    <3>1. Tells(reverse_deltas, TileEntityLists, seen.slices, ListsOf(seen.slices))
      BY DEF IInv, TileEntitiesTell
    <3> QED BY <2>2, <2>4, <3>1 DEF TileEntitiesBefore, ListsOf
  <2>5. ASSUME InOrder(seen.states), NEW i \in DOMAIN seen.states,
               IsLastBy(seen.states, t, i)
        PROVE  StateBefore(t) = seen.states[i].state_type
    <3>1. Tells(states, TypesOf(states), seen.states, TypesOf(seen.states))
      BY DEF IInv, StatesTell
    <3> QED BY <2>2, <2>5, <3>1 DEF StateBefore, TypesOf
  <2> QED BY <2>3, <2>4, <2>5
<1> QED BY <1>1, Invariance, PTL

(* In whatever order observations arrive, a read of a time that a history  *)
(* covers never returns what was seen only later.                          *)
THEOREM ReadsAreOfThePast == Spec => []NothingFromTheFuture
<1>1. IInv => NothingFromTheFuture
  <2> SUFFICES ASSUME IInv, NEW t \in Times
               PROVE  /\ \A s \in Sections :
                           Covers(sections[s], t) =>
                             \E i \in DOMAIN UpdatesOf(s) :
                               /\ UpdatesOf(s)[i].timestamp <= t
                               /\ UpdatesOf(s)[i].grid = SectionBefore(s, t)
                      /\ Covers(reverse_deltas, t) =>
                           \E i \in DOMAIN seen.slices :
                             /\ seen.slices[i].timestamp <= t
                             /\ ListOf(seen.slices[i].slice) = TileEntitiesBefore(t)
                      /\ Covers(states, t) =>
                           \E i \in DOMAIN seen.states :
                             /\ seen.states[i].timestamp <= t
                             /\ seen.states[i].state_type = StateBefore(t)
    BY DEF NothingFromTheFuture
  <2>1. t \in Int
    BY ParametersOK
  <2>2. ASSUME NEW history, NEW values, NEW observations, NEW saw,
               Tells(history, values, observations, saw), Len(history) # 0,
               history[Len(history)].timestamp <= t
        PROVE  /\ StopsAt(history, t) \in 1..Len(history)
               /\ \E i \in DOMAIN observations :
                    /\ i \in 1..Len(observations)
                    /\ observations[i].timestamp <= t
                    /\ saw[i] = values[StopsAt(history, t)]
    <3> DEFINE k == StopsAt(history, t)
    <3>1. Stops(history, t, k)
      BY <2>1, <2>2, SearchStops DEF Tells
    <3>2. k \in 1..Len(history) /\ history[k].timestamp <= t
      BY <2>2, <3>1 DEF Stops
    <3>3. PICK i \in 1..Len(observations) : /\ observations[i].timestamp = history[k].timestamp
                                            /\ saw[i] = values[k]
      BY <2>2, <3>2 DEF Tells
    <3>4. i \in DOMAIN observations
      BY <2>2, <3>3 DEF Tells, IsLog
    <3> QED BY <3>2, <3>3, <3>4
  <2>3. ASSUME NEW s \in Sections, Covers(sections[s], t)
        PROVE  \E i \in DOMAIN UpdatesOf(s) :
                 /\ UpdatesOf(s)[i].timestamp <= t
                 /\ UpdatesOf(s)[i].grid = SectionBefore(s, t)
    <3>1. sections[s] \in Seq(GridSnapshots)
      BY DEF IInv, TypeOK
    <3>2. Len(sections[s]) # 0 /\ sections[s][Len(sections[s])].timestamp <= t
      BY <2>3, <3>1, EmptySeq DEF Covers
    <3>3. Tells(sections[s], GridsOf(sections[s]), UpdatesOf(s), GridsOf(UpdatesOf(s)))
      BY DEF IInv, SectionsTell
    <3> QED BY <2>2, <3>2, <3>3 DEF SectionBefore, GridsOf
  <2>4. ASSUME Covers(reverse_deltas, t)
        PROVE  \E i \in DOMAIN seen.slices :
                 /\ seen.slices[i].timestamp <= t
                 /\ ListOf(seen.slices[i].slice) = TileEntitiesBefore(t)
    <3>1. reverse_deltas \in Seq(DeltaSnapshots)
      BY DEF IInv, TypeOK
    <3>2. Len(reverse_deltas) # 0 /\ reverse_deltas[Len(reverse_deltas)].timestamp <= t
      BY <2>4, <3>1, EmptySeq DEF Covers
    <3>3. Tells(reverse_deltas, TileEntityLists, seen.slices, ListsOf(seen.slices))
      BY DEF IInv, TileEntitiesTell
    <3> QED BY <2>2, <3>2, <3>3 DEF TileEntitiesBefore, ListsOf
  <2>5. ASSUME Covers(states, t)
        PROVE  \E i \in DOMAIN seen.states :
                 /\ seen.states[i].timestamp <= t
                 /\ seen.states[i].state_type = StateBefore(t)
    <3>1. states \in Seq(StateSnapshots)
      BY DEF IInv, TypeOK
    <3>2. Len(states) # 0 /\ states[Len(states)].timestamp <= t
      BY <2>5, <3>1, EmptySeq DEF Covers
    <3>3. Tells(states, TypesOf(states), seen.states, TypesOf(seen.states))
      BY DEF IInv, StatesTell
    <3> QED BY <2>2, <3>2, <3>3 DEF StateBefore, TypesOf
  <2> QED BY <2>3, <2>4, <2>5
<1> QED BY <1>1, Invariance, PTL

(* snapshot_from answers with what was seen at the time it chose, and no   *)
(* recorded snapshot is nearer to the asked time.                          *)
THEOREM NearestReadsAreObserved == Spec => []NearestIsObserved
<1>1. IInv => NearestIsObserved
  <2> SUFFICES ASSUME IInv, NEW s \in Sections, NEW t \in Times, sections[s] # <<>>
               PROVE  LET nearest == FindNearestTimestamp(sections[s], t)
                      IN  /\ \E i \in DOMAIN UpdatesOf(s) :
                               /\ UpdatesOf(s)[i].timestamp = nearest
                               /\ UpdatesOf(s)[i].grid = SectionBefore(s, nearest)
                          /\ \A k \in DOMAIN sections[s] :
                               LET other == sections[s][k].timestamp
                               IN  /\ (nearest - t) * (nearest - t)
                                        <= (other - t) * (other - t)
                                   /\ t - nearest = other - t => nearest >= other
    BY DEF NearestIsObserved
  <2> DEFINE history == sections[s]
             nearest == FindNearestTimestamp(history, t)
  <2>1. t \in Int
    BY ParametersOK
  <2>2. history \in Seq(GridSnapshots)
    BY DEF IInv, TypeOK
  <2>3. Tells(history, GridsOf(history), UpdatesOf(s), GridsOf(UpdatesOf(s)))
    BY DEF IInv, SectionsTell
  <2>4. IsLog(history) /\ IsLog(UpdatesOf(s)) /\ Descending(history) /\ Len(history) # 0
        /\ DOMAIN history = 1..Len(history)
    BY <2>2, <2>3, EmptySeq DEF Tells, IsLog
  <2>5. PICK k \in 1..Len(history) :
          /\ nearest = history[k].timestamp
          /\ \A j \in 1..Len(history) :
               LET other == history[j].timestamp
               IN  /\ (nearest - t) * (nearest - t) <= (other - t) * (other - t)
                   /\ t - nearest = other - t => nearest >= other
    BY <2>1, <2>4, NearestIsNearest
  <2>6. StopsAt(history, nearest) = k
    BY <2>4, <2>5, SearchFinds
  <2>7. PICK i \in 1..Len(UpdatesOf(s)) :
          /\ UpdatesOf(s)[i].timestamp = history[k].timestamp
          /\ GridsOf(UpdatesOf(s))[i] = GridsOf(history)[k]
    BY <2>3 DEF Tells
  <2>8. i \in DOMAIN UpdatesOf(s) /\ UpdatesOf(s)[i].grid = history[k].grid
    BY <2>4, <2>7 DEF IsLog, GridsOf
  <2>9. SectionBefore(s, nearest) = history[k].grid
    BY <2>6 DEF SectionBefore
  <2> QED BY <2>4, <2>5, <2>7, <2>8, <2>9
<1> QED BY <1>1, Invariance, PTL

(* Recording, which rewrites the newest entry into a reverse delta, never  *)
(* changes the answer for a time before the newest snapshot.               *)
THEOREM ThePastIsKept == Spec => PastIsImmutable
<1> DEFINE Kept ==
      /\ \A s \in Sections : \A t \in Times :
           (/\ sections'[s] # sections[s]
            /\ sections[s] # <<>>
            /\ t < sections'[s][1].timestamp \/ t < sections[s][1].timestamp)
              => SectionBefore(s, t)' = SectionBefore(s, t)
      /\ \A t \in Times :
           (/\ reverse_deltas' # reverse_deltas
            /\ reverse_deltas # <<>>
            /\ t < reverse_deltas'[1].timestamp \/ t < reverse_deltas[1].timestamp)
              => TileEntitiesBefore(t)' = TileEntitiesBefore(t)
      /\ \A t \in Times :
           (/\ states' # states
            /\ states # <<>>
            /\ t < states'[1].timestamp \/ t < states[1].timestamp)
              => StateBefore(t)' = StateBefore(t)
<1>1. IInv /\ IInv' /\ [Next]_vars => Kept
  <2> SUFFICES ASSUME IInv, IInv', [Next]_vars PROVE Kept
    OBVIOUS
  <2>1. Times \subseteq Int
    BY ParametersOK
  <2>2. /\ \A s \in Sections : sections[s] \in Seq(GridSnapshots)
                               /\ sections'[s] \in Seq(GridSnapshots)
        /\ reverse_deltas \in Seq(DeltaSnapshots) /\ reverse_deltas' \in Seq(DeltaSnapshots)
        /\ states \in Seq(StateSnapshots) /\ states' \in Seq(StateSnapshots)
    BY DEF IInv, TypeOK
  <2>3. ASSUME NEW s \in Sections, NEW t \in Times, sections[s] # <<>>,
               t < sections'[s][1].timestamp \/ t < sections[s][1].timestamp
        PROVE  SectionBefore(s, t)' = SectionBefore(s, t)
    <3>1. IsLog(sections[s]) /\ IsLog(sections'[s]) /\ Len(sections[s]) # 0 /\ t \in Int
      BY <2>1, <2>2, <2>3, SnapshotLogs, EmptySeq
    <3>2. Follows(sections[s], GridsOf(sections[s]),
                  seen.updates[s], GridsOf(seen.updates[s]),
                  sections'[s], GridsOf(sections'[s]),
                  seen'.updates[s], GridsOf(seen'.updates[s]))
      BY NextFollows
    <3>3. /\ StopsAt(sections[s], t) \in 1..Len(sections[s])
          /\ StopsAt(sections'[s], t) \in 1..Len(sections'[s])
          /\ GridsOf(sections'[s])[StopsAt(sections'[s], t)]
               = GridsOf(sections[s])[StopsAt(sections[s], t)]
      BY <2>3, <3>1, <3>2, FollowingKeepsThePast
    <3> QED BY <3>3 DEF SectionBefore, GridsOf
  <2>4. ASSUME NEW t \in Times, reverse_deltas # <<>>,
               t < reverse_deltas'[1].timestamp \/ t < reverse_deltas[1].timestamp
        PROVE  TileEntitiesBefore(t)' = TileEntitiesBefore(t)
    <3>1. IsLog(reverse_deltas) /\ IsLog(reverse_deltas') /\ Len(reverse_deltas) # 0 /\ t \in Int
      BY <2>1, <2>2, <2>4, SnapshotLogs, EmptySeq
    <3>2. Follows(reverse_deltas, TileEntityLists, seen.slices, ListsOf(seen.slices),
                  reverse_deltas', TileEntityLists', seen'.slices, ListsOf(seen'.slices))
      BY NextFollows
    <3>3. TileEntityLists'[StopsAt(reverse_deltas', t)]
            = TileEntityLists[StopsAt(reverse_deltas, t)]
      BY <2>4, <3>1, <3>2, FollowingKeepsThePast
    <3> QED BY <3>3 DEF TileEntitiesBefore
  <2>5. ASSUME NEW t \in Times, states # <<>>,
               t < states'[1].timestamp \/ t < states[1].timestamp
        PROVE  StateBefore(t)' = StateBefore(t)
    <3>1. IsLog(states) /\ IsLog(states') /\ Len(states) # 0 /\ t \in Int
      BY <2>1, <2>2, <2>5, SnapshotLogs, EmptySeq
    <3>2. Follows(states, TypesOf(states), seen.states, TypesOf(seen.states),
                  states', TypesOf(states'), seen'.states, TypesOf(seen'.states))
      BY NextFollows
    <3>3. /\ StopsAt(states, t) \in 1..Len(states)
          /\ StopsAt(states', t) \in 1..Len(states')
          /\ TypesOf(states')[StopsAt(states', t)] = TypesOf(states)[StopsAt(states, t)]
      BY <2>5, <3>1, <3>2, FollowingKeepsThePast
    <3> QED BY <3>3 DEF StateBefore, TypesOf
  <2> QED BY <2>3, <2>4, <2>5
<1> QED BY <1>1, Invariance, PTL DEF Spec, PastIsImmutable

-----------------------------------------------------------------------------
(* Buffers of a benchmark                                                  *)

(* An owner refers to a buffer with that data.                             *)
Sees(h, owner, b, data) ==
  /\ b \in Allocated(h)
  /\ owner \in h.memory[b].refs
  /\ h.memory[b].data = data

IsPooled(h, b) ==
  \E t \in Threads : \E i \in DOMAIN h.pool[t] : h.pool[t][i] = b

PoolEntry(h, b) ==
  /\ b \in Allocated(h)
  /\ h.memory[b].refs = {}
  /\ h.memory[b].element = "u8"
  /\ h.memory[b].capacity >= MIN_POOL_CAPACITY
  /\ h.memory[b].data = NoData

IsHeap(h) ==
  /\ DOMAIN h = {"memory", "pool"}
  /\ h.pool \in [Threads -> Seq(Buffers)]
  /\ Allocated(h) \subseteq Buffers
  /\ \A b \in Allocated(h) : DOMAIN h.memory[b] = {"capacity", "element", "data", "refs"}

(* PoolIsSound, but for the buffers in loose, which a call has in hand.    *)
Sound(h, loose) ==
  /\ IsHeap(h)
  /\ \A t \in Threads : Len(h.pool[t]) <= MAX_POOL_DEPTH
  /\ \A t, u \in Threads : \A i \in DOMAIN h.pool[t], j \in DOMAIN h.pool[u] :
       h.pool[t][i] = h.pool[u][j] => t = u /\ i = j
  /\ \A t \in Threads : \A i \in DOMAIN h.pool[t] : PoolEntry(h, h.pool[t][i])
  /\ \A b \in loose : b \in Allocated(h) /\ h.memory[b].refs = {} /\ ~IsPooled(h, b)
  /\ \A b \in Allocated(h) : h.memory[b].refs = {} => b \in loose \/ IsPooled(h, b)
  /\ \A b \in Allocated(h) :
       h.memory[b].element = "u8" \/ ~(h.memory[b].capacity >= MIN_POOL_CAPACITY)

SeenAsBefore(h, g) ==
  \A o, b, d : Sees(g, o, b, d) <=> Sees(h, o, b, d)

HasSpare(h) == \E b \in Buffers : b \notin Allocated(h)

(* What may be allocated: bytes, or words too few for the pool.            *)
MayAllocate(capacity, element) ==
  element = "u8" \/ ~(capacity >= MIN_POOL_CAPACITY)

-----------------------------------------------------------------------------
(* Memory                                                                  *)

(* As long as a buffer is spare, the address chosen is an unused one.      *)
LEMMA UnusedIsSpare ==
  ASSUME NEW h, HasSpare(h)
  PROVE  Unused(h) \in Buffers /\ Unused(h) \notin Allocated(h)
BY DEF Unused, HasSpare

(* A new buffer is in the caller's hands and seen by nobody.               *)
LEMMA AllocateKeeps ==
  ASSUME NEW h, NEW loose, Sound(h, loose), HasSpare(h),
         NEW capacity, NEW element, MayAllocate(capacity, element)
  PROVE  LET g == Allocate(h, capacity, element)
         IN  /\ Sound(g, loose \cup {Unused(h)})
             /\ SeenAsBefore(h, g)
             /\ Allocated(g) = Allocated(h) \cup {Unused(h)}
<1> DEFINE g == Allocate(h, capacity, element)
           new == Unused(h)
<1>1. new \in Buffers /\ new \notin Allocated(h)
  BY UnusedIsSpare
<1>2. /\ DOMAIN h = {"memory", "pool"}
      /\ g.pool = h.pool
      /\ DOMAIN g = {"memory", "pool"}
      /\ Allocated(g) = Allocated(h) \cup {new}
      /\ \A b \in Allocated(h) : g.memory[b] = h.memory[b]
      /\ g.memory[new] = [capacity |-> capacity, element |-> element,
                          data |-> NoData, refs |-> {}]
  BY <1>1 DEF Allocate, Allocated, Sound, IsHeap
<1> HIDE DEF g, new
<1>3. SeenAsBefore(h, g)
  BY <1>1, <1>2 DEF SeenAsBefore, Sees
<1>4. \A b : IsPooled(g, b) <=> IsPooled(h, b)
  BY <1>2 DEF IsPooled
<1>5. IsHeap(g)
  BY <1>1, <1>2 DEF IsHeap, Sound
<1>6. \A b \in Allocated(h) : PoolEntry(h, b) => PoolEntry(g, b)
  BY <1>2 DEF PoolEntry
<1>7. \A t \in Threads : \A i \in DOMAIN g.pool[t] : PoolEntry(g, g.pool[t][i])
  BY <1>2, <1>6 DEF Sound, PoolEntry
<1>8. ~IsPooled(g, new)
  BY <1>1, <1>2, <1>4 DEF Sound, PoolEntry, IsPooled
<1>9. \A b \in loose \cup {new} :
        b \in Allocated(g) /\ g.memory[b].refs = {} /\ ~IsPooled(g, b)
  BY <1>2, <1>4, <1>8 DEF Sound
<1>10. \A b \in Allocated(g) : g.memory[b].refs = {} => b \in loose \cup {new} \/ IsPooled(g, b)
  BY <1>2, <1>4 DEF Sound
<1>11. \A b \in Allocated(g) :
         g.memory[b].element = "u8" \/ ~(g.memory[b].capacity >= MIN_POOL_CAPACITY)
  BY <1>2 DEF Sound, MayAllocate
<1>12. /\ \A t \in Threads : Len(g.pool[t]) <= MAX_POOL_DEPTH
       /\ \A t, u \in Threads : \A i \in DOMAIN g.pool[t], j \in DOMAIN g.pool[u] :
            g.pool[t][i] = g.pool[u][j] => t = u /\ i = j
  BY <1>2 DEF Sound
<1>13. Sound(g, loose \cup {new})
  BY <1>5, <1>7, <1>9, <1>10, <1>11, <1>12 DEF Sound
<1> QED BY <1>2, <1>3, <1>13 DEF g, new

(* Freeing a buffer in hand takes it from nobody.                          *)
LEMMA DeallocateKeeps ==
  ASSUME NEW h, NEW loose, Sound(h, loose), NEW b \in loose
  PROVE  LET g == Deallocate(h, b)
         IN  /\ Sound(g, loose \ {b})
             /\ SeenAsBefore(h, g)
             /\ Allocated(g) = Allocated(h) \ {b}
             /\ HasSpare(g)
<1> DEFINE g == Deallocate(h, b)
<1>1. b \in Allocated(h) /\ b \in Buffers /\ h.memory[b].refs = {} /\ ~IsPooled(h, b)
  BY DEF Sound, IsHeap
<1>2. /\ g.pool = h.pool
      /\ DOMAIN g = {"memory", "pool"}
      /\ Allocated(g) = Allocated(h) \ {b}
      /\ \A c \in Allocated(g) : g.memory[c] = h.memory[c]
  BY DEF Deallocate, Allocated, Sound, IsHeap
<1> HIDE DEF g
<1>3. SeenAsBefore(h, g)
  BY <1>1, <1>2 DEF SeenAsBefore, Sees
<1>4. \A c : IsPooled(g, c) <=> IsPooled(h, c)
  BY <1>2 DEF IsPooled
<1>5. IsHeap(g)
  BY <1>2 DEF IsHeap, Sound
<1>6. \A t \in Threads : \A i \in DOMAIN g.pool[t] : PoolEntry(g, g.pool[t][i])
  BY <1>1, <1>2 DEF Sound, PoolEntry, IsPooled
<1>7. \A c \in loose \ {b} : c \in Allocated(g) /\ g.memory[c].refs = {} /\ ~IsPooled(g, c)
  BY <1>2, <1>4 DEF Sound
<1>8. \A c \in Allocated(g) : g.memory[c].refs = {} => c \in loose \ {b} \/ IsPooled(g, c)
  BY <1>2, <1>4 DEF Sound
<1>9. \A c \in Allocated(g) :
        g.memory[c].element = "u8" \/ ~(g.memory[c].capacity >= MIN_POOL_CAPACITY)
  BY <1>2 DEF Sound
<1>10. /\ \A t \in Threads : Len(g.pool[t]) <= MAX_POOL_DEPTH
       /\ \A t, u \in Threads : \A i \in DOMAIN g.pool[t], j \in DOMAIN g.pool[u] :
            g.pool[t][i] = g.pool[u][j] => t = u /\ i = j
  BY <1>2 DEF Sound
<1>11. Sound(g, loose \ {b})
  BY <1>5, <1>6, <1>7, <1>8, <1>9, <1>10 DEF Sound
<1> QED BY <1>1, <1>2, <1>3, <1>11 DEF g, HasSpare

-----------------------------------------------------------------------------
(* Owners                                                                  *)

(* What the owners see when one more sees the buffer b.                    *)
SeenAlsoBy(h, g, owner, b, data) ==
  \A o, c, d : Sees(g, o, c, d) <=>
                Sees(h, o, c, d) \/ (o = owner /\ c = b /\ d = data)

(* A buffer in hand, turned into a slice, is seen by its owner alone.      *)
LEMMA FromVecKeeps ==
  ASSUME NEW h, NEW loose, Sound(h, loose), NEW b \in loose, NEW data, NEW owner
  PROVE  LET g == FromVec(h, b, data, owner)
         IN  /\ Sound(g, loose \ {b})
             /\ SeenAlsoBy(h, g, owner, b, data)
             /\ Allocated(g) = Allocated(h)
<1> DEFINE g == FromVec(h, b, data, owner)
<1>1. b \in Allocated(h) /\ h.memory[b].refs = {} /\ ~IsPooled(h, b)
  BY DEF Sound
<1>2. /\ g.pool = h.pool
      /\ DOMAIN g = {"memory", "pool"}
      /\ Allocated(g) = Allocated(h)
      /\ \A c \in Allocated(h) \ {b} : g.memory[c] = h.memory[c]
      /\ DOMAIN g.memory[b] = {"capacity", "element", "data", "refs"}
      /\ g.memory[b].refs = {owner}
      /\ g.memory[b].data = data
      /\ g.memory[b].element = h.memory[b].element
      /\ g.memory[b].capacity = h.memory[b].capacity
  BY <1>1 DEF FromVec, Allocated, Sound, IsHeap
<1> HIDE DEF g
<1>3. SeenAlsoBy(h, g, owner, b, data)
  BY <1>1, <1>2 DEF SeenAlsoBy, Sees
<1>4. \A c : IsPooled(g, c) <=> IsPooled(h, c)
  BY <1>2 DEF IsPooled
<1>5. IsHeap(g)
  BY <1>2 DEF IsHeap, Sound
<1>6. ASSUME NEW t \in Threads, NEW i \in DOMAIN g.pool[t]
      PROVE  PoolEntry(g, g.pool[t][i])
  <2>1. PoolEntry(h, h.pool[t][i])
    BY <1>2 DEF Sound
  <2>2. h.pool[t][i] # b
    BY <1>1, <1>2 DEF IsPooled
  <2> QED BY <1>2, <2>1, <2>2 DEF PoolEntry
<1>7. \A c \in loose \ {b} : c \in Allocated(g) /\ g.memory[c].refs = {} /\ ~IsPooled(g, c)
  BY <1>2, <1>4 DEF Sound
<1>8. \A c \in Allocated(g) : g.memory[c].refs = {} => c \in loose \ {b} \/ IsPooled(g, c)
  BY <1>2, <1>4 DEF Sound
<1>9. \A c \in Allocated(g) :
        g.memory[c].element = "u8" \/ ~(g.memory[c].capacity >= MIN_POOL_CAPACITY)
  BY <1>2 DEF Sound
<1>10. /\ \A t \in Threads : Len(g.pool[t]) <= MAX_POOL_DEPTH
       /\ \A t, u \in Threads : \A i \in DOMAIN g.pool[t], j \in DOMAIN g.pool[u] :
            g.pool[t][i] = g.pool[u][j] => t = u /\ i = j
  BY <1>2 DEF Sound
<1>11. Sound(g, loose \ {b})
  BY <1>5, <1>6, <1>7, <1>8, <1>9, <1>10 DEF Sound
<1> QED BY <1>2, <1>3, <1>11 DEF g

(* A further slice is seen by one owner more.                              *)
LEMMA ShareKeeps ==
  ASSUME NEW h, Sound(h, {}), NEW other, NEW b, NEW data, Sees(h, other, b, data),
         NEW owner
  PROVE  LET g == Share(h, b, owner)
         IN  /\ Sound(g, {})
             /\ SeenAlsoBy(h, g, owner, b, data)
             /\ Allocated(g) = Allocated(h)
<1> DEFINE g == Share(h, b, owner)
<1>1. b \in Allocated(h) /\ other \in h.memory[b].refs /\ h.memory[b].data = data
  BY DEF Sees
<1>2. /\ g.pool = h.pool
      /\ DOMAIN g = {"memory", "pool"}
      /\ Allocated(g) = Allocated(h)
      /\ \A c \in Allocated(h) \ {b} : g.memory[c] = h.memory[c]
      /\ DOMAIN g.memory[b] = {"capacity", "element", "data", "refs"}
      /\ g.memory[b].refs = h.memory[b].refs \cup {owner}
      /\ g.memory[b].data = data
      /\ g.memory[b].element = h.memory[b].element
      /\ g.memory[b].capacity = h.memory[b].capacity
  BY <1>1 DEF Share, Allocated, Sound, IsHeap
<1> HIDE DEF g
<1>3. SeenAlsoBy(h, g, owner, b, data)
  BY <1>1, <1>2 DEF SeenAlsoBy, Sees
<1>4. \A c : IsPooled(g, c) <=> IsPooled(h, c)
  BY <1>2 DEF IsPooled
<1>5. IsHeap(g)
  BY <1>2 DEF IsHeap, Sound
<1>6. ASSUME NEW t \in Threads, NEW i \in DOMAIN g.pool[t]
      PROVE  PoolEntry(g, g.pool[t][i])
  <2>1. PoolEntry(h, h.pool[t][i])
    BY <1>2 DEF Sound
  <2>2. h.pool[t][i] # b
    BY <1>1, <2>1 DEF PoolEntry
  <2> QED BY <1>2, <2>1, <2>2 DEF PoolEntry
<1>7. \A c \in Allocated(g) : g.memory[c].refs = {} => IsPooled(g, c)
  BY <1>2, <1>4 DEF Sound
<1>8. \A c \in Allocated(g) :
        g.memory[c].element = "u8" \/ ~(g.memory[c].capacity >= MIN_POOL_CAPACITY)
  BY <1>2 DEF Sound
<1>9. /\ \A t \in Threads : Len(g.pool[t]) <= MAX_POOL_DEPTH
      /\ \A t, u \in Threads : \A i \in DOMAIN g.pool[t], j \in DOMAIN g.pool[u] :
           g.pool[t][i] = g.pool[u][j] => t = u /\ i = j
  BY <1>2 DEF Sound
<1>10. Sound(g, {})
  BY <1>5, <1>6, <1>7, <1>8, <1>9 DEF Sound
<1> QED BY <1>2, <1>3, <1>10 DEF g

-----------------------------------------------------------------------------
(* The pool                                                                *)

(* The entry found in a pool is one of the pool.                           *)
LEMMA FirstFitIsPooled ==
  ASSUME NEW h, NEW loose, Sound(h, loose), NEW t \in Threads, NEW min_cap,
         Fitting(h, t, min_cap) # {}
  PROVE  FirstFit(h, t, min_cap) \in DOMAIN h.pool[t]
<1>1. h.pool[t] \in Seq(Buffers)
  BY DEF Sound, IsHeap
<1>2. Fitting(h, t, min_cap) \in SUBSET Nat
  BY <1>1 DEF Fitting
<1>3. \E i \in Fitting(h, t, min_cap) : \A k \in Fitting(h, t, min_cap) : i <= k
  BY <1>2, LeastExists
<1>4. FirstFit(h, t, min_cap) \in Fitting(h, t, min_cap)
  BY <1>3 DEF FirstFit
<1> QED BY <1>4 DEF Fitting

(* swap_remove takes one entry and keeps each of the others once.          *)
LEMMA SwapRemoveRemoves ==
  ASSUME NEW seq \in Seq(Buffers), NEW i \in DOMAIN seq,
         \A j, k \in DOMAIN seq : seq[j] = seq[k] => j = k
  PROVE  LET s == SwapRemove(seq, i)
         IN  /\ s \in Seq(Buffers)
             /\ Len(s) <= Len(seq)
             /\ \A j, k \in DOMAIN s : s[j] = s[k] => j = k
             /\ \A b : (\E j \in DOMAIN s : s[j] = b)
                        <=> (\E j \in DOMAIN seq : seq[j] = b) /\ b # seq[i]
<1> DEFINE n == Len(seq)
           s == SwapRemove(seq, i)
<1>1. n \in Nat /\ DOMAIN seq = 1..n /\ i \in 1..n /\ n - 1 \in Nat
  OBVIOUS
<1>2. /\ DOMAIN s = 1..(n - 1)
      /\ \A k \in 1..(n - 1) : s[k] = IF k = i THEN seq[n] ELSE seq[k]
  BY DEF SwapRemove
<1>3. s \in Seq(Buffers)
  <2>1. \A k \in 1..(n - 1) : s[k] \in Buffers
    BY <1>1, <1>2
  <2>2. s = [k \in 1..(n - 1) |-> s[k]]
    BY <1>2 DEF SwapRemove
  <2> HIDE DEF s
  <2> QED BY <1>1, <2>1, <2>2
<1> HIDE DEF n, s
<1>4. Len(s) = n - 1
  BY <1>1, <1>2, <1>3
<1>5. \A j, k \in DOMAIN s : s[j] = s[k] => j = k
  BY <1>1, <1>2
<1>6. ASSUME NEW b
      PROVE  (\E j \in DOMAIN s : s[j] = b)
             <=> (\E j \in DOMAIN seq : seq[j] = b) /\ b # seq[i]
  <2>1. ASSUME NEW j \in DOMAIN s, s[j] = b
        PROVE  (\E k \in DOMAIN seq : seq[k] = b) /\ b # seq[i]
    BY <1>1, <1>2, <2>1
  <2>2. ASSUME NEW j \in DOMAIN seq, seq[j] = b, b # seq[i]
        PROVE  \E k \in DOMAIN s : s[k] = b
    <3>1. CASE j = n
      <4>1. i \in DOMAIN s /\ s[i] = b
        BY <1>1, <1>2, <2>2, <3>1
      <4> QED BY <4>1
    <3>2. CASE j # n
      <4>1. j \in DOMAIN s /\ s[j] = b
        BY <1>1, <1>2, <2>2, <3>2
      <4> QED BY <4>1
    <3> QED BY <3>1, <3>2
  <2> QED BY <2>1, <2>2
<1>7. Len(s) <= n
  BY <1>1, <1>4
<1> QED BY <1>3, <1>5, <1>6, <1>7 DEF n, s

(* Taking a buffer, pooled or new, hands it over and disturbs no owner.    *)
LEMMA TakeKeeps ==
  ASSUME NEW h, Sound(h, {}), HasSpare(h), NEW t \in Threads, NEW min_cap
  PROVE  LET g == TakePooledBuffer(h, t, min_cap)
             b == TakenBuffer(h, t, min_cap)
         IN  Sound(g, {b}) /\ SeenAsBefore(h, g)
<1> DEFINE g == TakePooledBuffer(h, t, min_cap)
           b == TakenBuffer(h, t, min_cap)
<1>1. CASE Fitting(h, t, min_cap) = {}
  <2>1. g = Allocate(h, min_cap, "u8") /\ b = Unused(h)
    BY <1>1 DEF TakePooledBuffer, TakenBuffer
  <2>2. MayAllocate(min_cap, "u8")
    BY DEF MayAllocate
  <2>3. {} \cup {Unused(h)} = {Unused(h)}
    OBVIOUS
  <2> QED BY <2>1, <2>2, <2>3, AllocateKeeps
<1>2. CASE Fitting(h, t, min_cap) # {}
  <2> DEFINE i == FirstFit(h, t, min_cap)
             s == SwapRemove(h.pool[t], i)
  <2>1. i \in DOMAIN h.pool[t]
    BY <1>2, FirstFitIsPooled
  <2>2. /\ h.pool \in [Threads -> Seq(Buffers)]
        /\ b = h.pool[t][i]
        /\ DOMAIN g = {"memory", "pool"}
        /\ Allocated(g) = Allocated(h)
        /\ g.memory = h.memory
        /\ g.pool = [h.pool EXCEPT ![t] = s]
    BY <1>2 DEF TakePooledBuffer, TakenBuffer, Sound, IsHeap, Allocated
  <2>3. /\ s \in Seq(Buffers)
        /\ Len(s) <= Len(h.pool[t])
        /\ \A j, k \in DOMAIN s : s[j] = s[k] => j = k
        /\ \A c : (\E j \in DOMAIN s : s[j] = c)
                  <=> (\E j \in DOMAIN h.pool[t] : h.pool[t][j] = c) /\ c # b
    <3>1. \A j, k \in DOMAIN h.pool[t] : h.pool[t][j] = h.pool[t][k] => j = k
      BY DEF Sound
    <3>2. h.pool[t] \in Seq(Buffers)
      BY <2>2
    <3> HIDE DEF i, g, b
    <3>3. /\ s \in Seq(Buffers)
          /\ Len(s) <= Len(h.pool[t])
          /\ \A j, k \in DOMAIN s : s[j] = s[k] => j = k
          /\ \A c : (\E j \in DOMAIN s : s[j] = c)
                    <=> (\E j \in DOMAIN h.pool[t] : h.pool[t][j] = c) /\ c # h.pool[t][i]
      BY <2>1, <3>1, <3>2, SwapRemoveRemoves
    <3> HIDE DEF s
    <3> QED BY <2>2, <3>3
  <2> HIDE DEF g, b, i, s
  <2>4. g.pool[t] = s /\ \A u \in Threads \ {t} : g.pool[u] = h.pool[u]
    BY <2>2
  <2>5. ASSUME NEW u \in Threads, NEW c
        PROVE  (\E j \in DOMAIN g.pool[u] : g.pool[u][j] = c)
               <=> (\E j \in DOMAIN h.pool[u] : h.pool[u][j] = c) /\ c # b
    <3>1. CASE u = t
      BY <2>3, <2>4, <3>1
    <3>2. CASE u # t
      <4>1. \A j \in DOMAIN h.pool[u] : h.pool[u][j] # b
        BY <2>1, <2>2, <3>2 DEF Sound
      <4> QED BY <2>4, <3>2, <4>1
    <3> QED BY <3>1, <3>2
  <2>6. \A c : IsPooled(g, c) <=> IsPooled(h, c) /\ c # b
    BY <2>5 DEF IsPooled
  <2>7. PoolEntry(h, b) /\ IsPooled(h, b)
    BY <2>1, <2>2 DEF Sound, IsPooled
  <2>8. IsHeap(g)
    <3>1. g.pool \in [Threads -> Seq(Buffers)]
      BY <2>2, <2>3
    <3> QED BY <2>2, <3>1 DEF IsHeap, Sound
  <2>9. \A u \in Threads : Len(g.pool[u]) <= MAX_POOL_DEPTH
    <3>1. Len(s) \in Nat /\ Len(h.pool[t]) \in Nat /\ Len(h.pool[t]) <= MAX_POOL_DEPTH
      BY <2>2, <2>3 DEF Sound
    <3>2. Len(s) <= MAX_POOL_DEPTH
      BY <2>3, <3>1, PoolOK
    <3> QED BY <2>4, <3>2 DEF Sound
  <2>10. ASSUME NEW u \in Threads, NEW v \in Threads,
               NEW j \in DOMAIN g.pool[u], NEW k \in DOMAIN g.pool[v],
               g.pool[u][j] = g.pool[v][k]
        PROVE  u = v /\ j = k
    <3>1. PICK l \in DOMAIN h.pool[u] : h.pool[u][l] = g.pool[u][j]
      BY <2>5
    <3>2. PICK m \in DOMAIN h.pool[v] : h.pool[v][m] = g.pool[v][k]
      BY <2>5
    <3>3. u = v /\ l = m
      BY <2>10, <3>1, <3>2 DEF Sound
    <3>4. CASE u = t
      BY <2>3, <2>4, <2>10, <3>3, <3>4
    <3>5. CASE u # t
      BY <2>4, <2>10, <3>3, <3>5 DEF Sound
    <3> QED BY <3>4, <3>5
  <2>11. ASSUME NEW u \in Threads, NEW j \in DOMAIN g.pool[u]
         PROVE  PoolEntry(g, g.pool[u][j])
    <3>1. PICK l \in DOMAIN h.pool[u] : h.pool[u][l] = g.pool[u][j]
      BY <2>5
    <3>2. PoolEntry(h, g.pool[u][j])
      BY <3>1 DEF Sound
    <3> QED BY <2>2, <3>2 DEF PoolEntry
  <2>12. b \in Allocated(g) /\ g.memory[b].refs = {} /\ ~IsPooled(g, b)
    BY <2>2, <2>6, <2>7 DEF PoolEntry
  <2>13. \A c \in Allocated(g) : g.memory[c].refs = {} => c \in {b} \/ IsPooled(g, c)
    BY <2>2, <2>6 DEF Sound
  <2>14. \A c \in Allocated(g) :
           g.memory[c].element = "u8" \/ ~(g.memory[c].capacity >= MIN_POOL_CAPACITY)
    BY <2>2 DEF Sound
  <2>15. Sound(g, {b})
    BY <2>8, <2>9, <2>10, <2>11, <2>12, <2>13, <2>14 DEF Sound
  <2>16. SeenAsBefore(h, g)
    BY <2>2 DEF SeenAsBefore, Sees
  <2> QED BY <2>15, <2>16 DEF g, b
<1> QED BY <1>1, <1>2

(* A buffer nobody sees goes to the pool or is freed.                      *)
LEMMA DropEntryKeeps ==
  ASSUME NEW h, NEW b, Sound(h, {b}), NEW t \in Threads
  PROVE  LET g == DropEntry(h, t, b)
         IN  /\ Sound(g, {})
             /\ SeenAsBefore(h, g)
             /\ Allocated(g) \subseteq Allocated(h)
<1> DEFINE g == DropEntry(h, t, b)
<1>1. CASE ~(h.memory[b].capacity >= MIN_POOL_CAPACITY /\ Len(h.pool[t]) < MAX_POOL_DEPTH)
  <2>1. g = Deallocate(h, b)
    BY <1>1 DEF DropEntry
  <2>2. {b} \ {b} = {} /\ b \in {b}
    OBVIOUS
  <2>3. /\ Sound(Deallocate(h, b), {b} \ {b})
        /\ SeenAsBefore(h, Deallocate(h, b))
        /\ Allocated(Deallocate(h, b)) \subseteq Allocated(h)
    BY <2>2, DeallocateKeeps
  <2> QED BY <2>1, <2>2, <2>3
<1>2. CASE h.memory[b].capacity >= MIN_POOL_CAPACITY /\ Len(h.pool[t]) < MAX_POOL_DEPTH
  <2> DEFINE s == Append(h.pool[t], b)
  <2>1. b \in Allocated(h) /\ b \in Buffers /\ h.memory[b].refs = {} /\ ~IsPooled(h, b)
    BY DEF Sound, IsHeap
  <2>2. /\ h.pool \in [Threads -> Seq(Buffers)]
        /\ DOMAIN g = {"memory", "pool"}
        /\ Allocated(g) = Allocated(h)
        /\ \A c \in Allocated(h) \ {b} : g.memory[c] = h.memory[c]
        /\ DOMAIN g.memory[b] = {"capacity", "element", "data", "refs"}
        /\ g.memory[b].refs = {}
        /\ g.memory[b].data = NoData
        /\ g.memory[b].element = h.memory[b].element
        /\ g.memory[b].capacity = h.memory[b].capacity
        /\ g.pool = [h.pool EXCEPT ![t] = s]
    BY <1>2, <2>1 DEF DropEntry, Sound, IsHeap, Allocated
  <2>3. /\ s \in Seq(Buffers)
        /\ Len(h.pool[t]) \in Nat
        /\ Len(s) = Len(h.pool[t]) + 1
        /\ DOMAIN h.pool[t] = 1..Len(h.pool[t])
        /\ DOMAIN s = 1..(Len(h.pool[t]) + 1)
        /\ \A j \in DOMAIN h.pool[t] : s[j] = h.pool[t][j]
        /\ s[Len(h.pool[t]) + 1] = b
    <3>1. h.pool[t] \in Seq(Buffers)
      BY <2>2
    <3> QED BY <2>1, <3>1
  <2> HIDE DEF g, s
  <2>4. g.pool[t] = s /\ \A u \in Threads \ {t} : g.pool[u] = h.pool[u]
    BY <2>2
  <2>5. \A j \in DOMAIN s : j \in DOMAIN h.pool[t] \/ j = Len(h.pool[t]) + 1
    BY <2>3
  <2>6. \A c : IsPooled(g, c) <=> IsPooled(h, c) \/ c = b
    <3>1. \A c : (\E j \in DOMAIN s : s[j] = c)
                 <=> (\E j \in DOMAIN h.pool[t] : h.pool[t][j] = c) \/ c = b
      BY <2>3, <2>5
    <3> QED BY <2>4, <3>1 DEF IsPooled
  <2>7. IsHeap(g)
    <3>1. g.pool \in [Threads -> Seq(Buffers)]
      BY <2>2, <2>3
    <3> QED BY <2>2, <3>1 DEF IsHeap, Sound
  <2>8. \A u \in Threads : Len(g.pool[u]) <= MAX_POOL_DEPTH
    <3>1. Len(s) <= MAX_POOL_DEPTH
      BY <1>2, <2>3, PoolOK
    <3> QED BY <2>4, <3>1 DEF Sound
  <2>9. ASSUME NEW u \in Threads, NEW j \in DOMAIN h.pool[u]
        PROVE  h.pool[u][j] # b /\ PoolEntry(h, h.pool[u][j])
    BY <2>1 DEF IsPooled, Sound
  <2>10. ASSUME NEW u \in Threads, NEW j \in DOMAIN g.pool[u]
         PROVE  \/ j \in DOMAIN h.pool[u] /\ g.pool[u][j] = h.pool[u][j]
                \/ u = t /\ j = Len(h.pool[t]) + 1 /\ g.pool[u][j] = b
    BY <2>3, <2>4, <2>5
  <2>11. ASSUME NEW u \in Threads, NEW v \in Threads,
                NEW j \in DOMAIN g.pool[u], NEW k \in DOMAIN g.pool[v],
                g.pool[u][j] = g.pool[v][k]
         PROVE  u = v /\ j = k
    BY <2>9, <2>10, <2>11 DEF Sound
  <2>12. PoolEntry(g, b)
    BY <1>2, <2>1, <2>2 DEF PoolEntry, Sound
  <2>13. ASSUME NEW u \in Threads, NEW j \in DOMAIN g.pool[u]
         PROVE  PoolEntry(g, g.pool[u][j])
    <3>1. CASE j \in DOMAIN h.pool[u] /\ g.pool[u][j] = h.pool[u][j]
      <4>1. h.pool[u][j] # b /\ PoolEntry(h, h.pool[u][j])
        BY <2>9, <3>1
      <4> QED BY <2>2, <3>1, <4>1 DEF PoolEntry
    <3> QED BY <2>10, <2>12, <3>1
  <2>14. \A c \in Allocated(g) : g.memory[c].refs = {} => IsPooled(g, c)
    BY <2>2, <2>6 DEF Sound
  <2>15. \A c \in Allocated(g) :
           g.memory[c].element = "u8" \/ ~(g.memory[c].capacity >= MIN_POOL_CAPACITY)
    BY <2>2 DEF Sound
  <2>16. Sound(g, {})
    BY <2>7, <2>8, <2>11, <2>13, <2>14, <2>15 DEF Sound
  <2>17. SeenAsBefore(h, g)
    BY <2>1, <2>2 DEF SeenAsBefore, Sees
  <2> QED BY <2>2, <2>16, <2>17 DEF g
<1> QED BY <1>1, <1>2

(* What the owners see when one of them has dropped its slices.            *)
SeenWithout(h, g, owner) ==
  \A o, c, d : Sees(g, o, c, d) <=> Sees(h, o, c, d) /\ o # owner

SeesOneBuffer(h, owner) ==
  \A b, c, d, e : Sees(h, owner, b, d) /\ Sees(h, owner, c, e) => b = c

(* Dropping an owner disturbs no other one.                                *)
LEMMA ReleaseKeeps ==
  ASSUME NEW h, Sound(h, {}), NEW t \in Threads, NEW owner, SeesOneBuffer(h, owner)
  PROVE  LET g == Release(h, t, owner)
         IN  /\ Sound(g, {})
             /\ SeenWithout(h, g, owner)
             /\ Allocated(g) \subseteq Allocated(h)
<1> DEFINE g == Release(h, t, owner)
           b == CHOOSE b \in HeldBy(h, owner) : TRUE
           k == [h EXCEPT !.memory[b].refs = @ \ {owner}]
           loose == IF k.memory[b].refs = {} THEN {b} ELSE {}
<1>1. CASE HeldBy(h, owner) = {}
  <2>1. g = h
    BY <1>1 DEF Release
  <2>2. \A c, d : ~Sees(h, owner, c, d)
    BY <1>1 DEF HeldBy, Sees
  <2> QED BY <2>1, <2>2 DEF SeenWithout
<1>2. CASE HeldBy(h, owner) # {}
  <2>1. b \in Allocated(h) /\ owner \in h.memory[b].refs
    BY <1>2 DEF HeldBy
  <2>2. g = IF k.memory[b].refs = {} THEN DropEntry(k, t, b) ELSE k
    BY <1>2 DEF Release
  <2>3. /\ k.pool = h.pool
        /\ DOMAIN k = {"memory", "pool"}
        /\ Allocated(k) = Allocated(h)
        /\ \A c \in Allocated(h) \ {b} : k.memory[c] = h.memory[c]
        /\ DOMAIN k.memory[b] = {"capacity", "element", "data", "refs"}
        /\ k.memory[b].refs = h.memory[b].refs \ {owner}
        /\ k.memory[b].data = h.memory[b].data
        /\ k.memory[b].element = h.memory[b].element
        /\ k.memory[b].capacity = h.memory[b].capacity
    BY <2>1 DEF Allocated, Sound, IsHeap
  <2>4. loose = IF k.memory[b].refs = {} THEN {b} ELSE {}
    OBVIOUS
  <2> HIDE DEF b, k, g, loose
  <2>5. SeenWithout(h, k, owner)
    <3>1. \A c \in HeldBy(h, owner) : c = b
      BY <2>1 DEF SeesOneBuffer, Sees, HeldBy
    <3>2. \A c \in Allocated(h) : c # b => owner \notin h.memory[c].refs
      BY <3>1 DEF HeldBy
    <3> QED BY <2>1, <2>3, <3>2 DEF SeenWithout, Sees
  <2>6. Sound(k, loose)
    <3>1. \A c : IsPooled(k, c) <=> IsPooled(h, c)
      BY <2>3 DEF IsPooled
    <3>2. IsHeap(k)
      BY <2>3 DEF IsHeap, Sound
    <3>3. ASSUME NEW u \in Threads, NEW i \in DOMAIN h.pool[u]
          PROVE  PoolEntry(h, h.pool[u][i]) /\ h.pool[u][i] # b
      <4>1. PoolEntry(h, h.pool[u][i])
        BY DEF Sound
      <4> QED BY <2>1, <4>1 DEF PoolEntry
    <3>4. ~IsPooled(h, b)
      BY <3>3 DEF IsPooled
    <3>5. ASSUME NEW u \in Threads, NEW i \in DOMAIN k.pool[u]
          PROVE  PoolEntry(k, k.pool[u][i])
      <4>1. PoolEntry(h, k.pool[u][i]) /\ k.pool[u][i] # b
        BY <2>3, <3>3
      <4> QED BY <2>3, <4>1 DEF PoolEntry
    <3>6. \A c \in loose : c \in Allocated(k) /\ k.memory[c].refs = {} /\ ~IsPooled(k, c)
      BY <2>1, <2>3, <2>4, <3>1, <3>4
    <3>7. \A c \in Allocated(k) : k.memory[c].refs = {} => c \in loose \/ IsPooled(k, c)
      BY <2>3, <2>4, <3>1 DEF Sound
    <3>8. \A c \in Allocated(k) :
            k.memory[c].element = "u8" \/ ~(k.memory[c].capacity >= MIN_POOL_CAPACITY)
      BY <2>3 DEF Sound
    <3>9. /\ \A u \in Threads : Len(k.pool[u]) <= MAX_POOL_DEPTH
          /\ \A u, v \in Threads : \A i \in DOMAIN k.pool[u], j \in DOMAIN k.pool[v] :
               k.pool[u][i] = k.pool[v][j] => u = v /\ i = j
      BY <2>3 DEF Sound
    <3> QED BY <3>2, <3>5, <3>6, <3>7, <3>8, <3>9 DEF Sound
  <2>7. CASE k.memory[b].refs = {}
    <3>1. /\ Sound(DropEntry(k, t, b), {})
          /\ SeenAsBefore(k, DropEntry(k, t, b))
          /\ Allocated(DropEntry(k, t, b)) \subseteq Allocated(k)
      BY <2>4, <2>6, <2>7, DropEntryKeeps
    <3>2. SeenWithout(h, DropEntry(k, t, b), owner)
      BY <2>5, <3>1 DEF SeenWithout, SeenAsBefore
    <3> QED BY <2>2, <2>3, <2>7, <3>1, <3>2 DEF g
  <2>8. CASE k.memory[b].refs # {}
    BY <2>2, <2>3, <2>4, <2>5, <2>6, <2>8 DEF g
  <2> QED BY <2>7, <2>8
<1> QED BY <1>1, <1>2

(* A frame decompressed is seen by its owner, or nothing is seen anew.     *)
LEMMA DecompressedKeeps ==
  ASSUME NEW h, Sound(h, {}), HasSpare(h), NEW t \in Threads,
         NEW frame, NEW data, NEW owner
  PROVE  LET g == Decompressed(h, t, frame, data, owner)
         IN  /\ Sound(g, {})
             /\ IF Decompresses(frame)
                THEN \E b : SeenAlsoBy(h, g, owner, b, data)
                ELSE SeenAsBefore(h, g)
<1> DEFINE min_cap == IF HasContentSize(frame) THEN frame.size ELSE 0
           b == TakenBuffer(h, t, min_cap)
           taken == TakePooledBuffer(h, t, min_cap)
           freed == Deallocate(taken, b)
           again == Allocate(freed, frame.all, "u8")
           fits == IsDecompressedInto(taken, b, frame)
           g == Decompressed(h, t, frame, data, owner)
<1>1. g = IF ~Decompresses(frame) THEN freed
          ELSE IF fits THEN FromVec(taken, b, data, owner)
          ELSE FromVec(again, Unused(freed), data, owner)
  BY DEF Decompressed
<1> HIDE DEF fits
<1>2. Sound(taken, {b}) /\ SeenAsBefore(h, taken)
  <2> HIDE DEF min_cap
  <2> QED BY TakeKeeps
<1> HIDE DEF b, taken, min_cap
<1>3. Sound(freed, {}) /\ SeenAsBefore(taken, freed) /\ HasSpare(freed)
  <2>1. {b} \ {b} = {} /\ b \in {b}
    OBVIOUS
  <2>2. /\ Sound(freed, {b} \ {b}) /\ SeenAsBefore(taken, freed)
        /\ HasSpare(freed)
    BY <1>2, <2>1, DeallocateKeeps
  <2> HIDE DEF freed
  <2> QED BY <2>1, <2>2
<1> HIDE DEF freed
<1>4. Sound(again, {Unused(freed)}) /\ SeenAsBefore(freed, again)
  <2>1. MayAllocate(frame.all, "u8") /\ {} \cup {Unused(freed)} = {Unused(freed)}
    BY DEF MayAllocate
  <2> QED BY <1>3, <2>1, AllocateKeeps
<1> HIDE DEF again
<1>5. \A k, c : Sound(k, {c}) =>
        /\ Sound(FromVec(k, c, data, owner), {})
        /\ SeenAlsoBy(k, FromVec(k, c, data, owner), owner, c, data)
  <2> SUFFICES ASSUME NEW k, NEW c, Sound(k, {c})
               PROVE  /\ Sound(FromVec(k, c, data, owner), {})
                      /\ SeenAlsoBy(k, FromVec(k, c, data, owner), owner, c, data)
    OBVIOUS
  <2>1. c \in {c} /\ {c} \ {c} = {}
    OBVIOUS
  <2>2. /\ Sound(FromVec(k, c, data, owner), {c} \ {c})
        /\ SeenAlsoBy(k, FromVec(k, c, data, owner), owner, c, data)
    BY <2>1, FromVecKeeps
  <2> QED BY <2>1, <2>2
<1>6. CASE ~Decompresses(frame)
  <2>1. SeenAsBefore(h, freed)
    BY <1>2, <1>3 DEF SeenAsBefore
  <2> QED BY <1>1, <1>3, <1>6, <2>1 DEF g
<1>7. CASE Decompresses(frame) /\ fits
  <2>1. g = FromVec(taken, b, data, owner)
    BY <1>1, <1>7
  <2>2. Sound(g, {}) /\ SeenAlsoBy(taken, g, owner, b, data)
    BY <1>2, <1>5, <2>1
  <2>3. SeenAlsoBy(h, g, owner, b, data)
    BY <1>2, <2>2 DEF SeenAsBefore, SeenAlsoBy
  <2> QED BY <1>7, <2>2, <2>3 DEF g
<1>8. CASE Decompresses(frame) /\ ~fits
  <2>1. g = FromVec(again, Unused(freed), data, owner)
    BY <1>1, <1>8
  <2>2. Sound(g, {}) /\ SeenAlsoBy(again, g, owner, Unused(freed), data)
    BY <1>4, <1>5, <2>1
  <2>3. SeenAlsoBy(h, g, owner, Unused(freed), data)
    BY <1>2, <1>3, <1>4, <2>2 DEF SeenAsBefore, SeenAlsoBy
  <2> QED BY <1>8, <2>2, <2>3 DEF g
<1> QED BY <1>6, <1>7, <1>8

-----------------------------------------------------------------------------
(* The invariant                                                           *)

(* What a worker refers to at each of its steps: the cursor while a file's *)
(* bytes are read, the region read from it from then on.                   *)
MayHold(step) ==
  IF step \in {"idle", "read", "decompress"} THEN {}
  ELSE IF step = "parse" THEN {"cursor"}
  ELSE IF step \in {"encode", "decompress_encoded"} THEN {"reference"}
  ELSE IF step = "parse_encoded" THEN {"reference", "header", "cursor"}
  ELSE {"reference", "encoded", "array"}

WhatCursorReads(step) == IF step = "parse" THEN "reference" ELSE "encoded"

(* The data an owner must see, of a worker at that step of that file.      *)
DataOf(w, role) ==
  <<IF role = "cursor" THEN WhatCursorReads(w.step) ELSE role, paths[w.at].name>>

ReadsWithCursor(step) == step \in {"parse", "parse_encoded"}

WorkersAre ==
  /\ DOMAIN worker = Threads
  /\ \A t \in Threads : DOMAIN worker[t] = {"step", "at", "result"}

OwnersAreKnown ==
  \A o, b, d : Sees(heap, o, b, d) =>
    \E t \in Threads : \E role \in MayHold(worker[t].step) :
      o = <<t, role>> /\ d = DataOf(worker[t], role)

CursorsHaveBuffers ==
  \A t \in Threads : ReadsWithCursor(worker[t].step) =>
    \E b, d : Sees(heap, <<t, "cursor">>, b, d)

(* The inductive invariant.                                                *)
BInv ==
  /\ WorkersAre
  /\ Sound(heap, {})
  /\ OwnersAreKnown
  /\ \A o : SeesOneBuffer(heap, o)
  /\ CursorsHaveBuffers

(* A worker that sees a buffer is at a step at which it may.               *)
LEMMA OwnersOf ==
  ASSUME BInv, NEW t \in Threads, NEW role, NEW b, NEW d, Sees(heap, <<t, role>>, b, d)
  PROVE  role \in MayHold(worker[t].step) /\ d = DataOf(worker[t], role)
<1>1. PICK u \in Threads : \E r \in MayHold(worker[u].step) :
        <<t, role>> = <<u, r>> /\ d = DataOf(worker[u], r)
  BY DEF BInv, OwnersAreKnown
<1>2. PICK r \in MayHold(worker[u].step) :
        <<t, role>> = <<u, r>> /\ d = DataOf(worker[u], r)
  BY <1>1
<1>3. t = u /\ role = r
  BY <1>2
<1> QED BY <1>2, <1>3

(* Only the worker t takes a step.                                         *)
OnlyMoves(t) ==
  /\ DOMAIN worker' = Threads
  /\ DOMAIN worker'[t] = {"step", "at", "result"}
  /\ \A u \in Threads \ {t} : worker'[u] = worker[u]
  /\ paths' = paths

IsOwnerOf(t, o) == \E role : o = <<t, role>>

OthersSeeTheSame(t, h) ==
  \A o, b, d : ~IsOwnerOf(t, o) => (Sees(h, o, b, d) <=> Sees(heap, o, b, d))

(* What is left to show of each step of a worker.                          *)
LEMMA StepKeeps ==
  ASSUME BInv, NEW t \in Threads, OnlyMoves(t),
         Sound(heap', {}),
         OthersSeeTheSame(t, heap'),
         \A role, b, d : Sees(heap', <<t, role>>, b, d) =>
           role \in MayHold(worker'[t].step) /\ d = DataOf(worker'[t], role),
         \A role : SeesOneBuffer(heap', <<t, role>>),
         ReadsWithCursor(worker'[t].step) => \E b, d : Sees(heap', <<t, "cursor">>, b, d)
  PROVE  BInv'
<1>1. WorkersAre'
  BY DEF WorkersAre, OnlyMoves, BInv
<1>2. ASSUME NEW o, NEW b, NEW d, Sees(heap', o, b, d)
      PROVE  \E u \in Threads : \E role \in MayHold(worker'[u].step) :
               o = <<u, role>> /\ d = DataOf(worker[u], role)'
  <2>1. CASE IsOwnerOf(t, o)
    <3>1. PICK role : o = <<t, role>>
      BY <2>1 DEF IsOwnerOf
    <3>2. role \in MayHold(worker'[t].step) /\ d = DataOf(worker'[t], role)
      BY <1>2, <3>1
    <3>3. DataOf(worker'[t], role) = DataOf(worker[t], role)'
      BY DEF DataOf, OnlyMoves, WhatCursorReads
    <3> QED BY <3>1, <3>2, <3>3
  <2>2. CASE ~IsOwnerOf(t, o)
    <3>1. Sees(heap, o, b, d)
      BY <1>2, <2>2 DEF OthersSeeTheSame
    <3>2. PICK u \in Threads : \E role \in MayHold(worker[u].step) :
            o = <<u, role>> /\ d = DataOf(worker[u], role)
      BY <3>1 DEF BInv, OwnersAreKnown
    <3>3. PICK role \in MayHold(worker[u].step) :
            o = <<u, role>> /\ d = DataOf(worker[u], role)
      BY <3>2
    <3>4. u # t
      BY <2>2, <3>3 DEF IsOwnerOf
    <3>5. worker'[u] = worker[u] /\ DataOf(worker[u], role) = DataOf(worker[u], role)'
      BY <3>4 DEF DataOf, OnlyMoves, WhatCursorReads
    <3> QED BY <3>3, <3>5
  <2> QED BY <2>1, <2>2
<1>3. OwnersAreKnown'
  BY <1>2 DEF OwnersAreKnown
<1>4. ASSUME NEW o
      PROVE  SeesOneBuffer(heap', o)
  <2>1. CASE IsOwnerOf(t, o)
    BY <2>1 DEF IsOwnerOf
  <2>2. CASE ~IsOwnerOf(t, o)
    BY <2>2 DEF OthersSeeTheSame, SeesOneBuffer, BInv
  <2> QED BY <2>1, <2>2
<1>5. ASSUME NEW u \in Threads, ReadsWithCursor(worker'[u].step)
      PROVE  \E b, d : Sees(heap', <<u, "cursor">>, b, d)
  <2>1. CASE u = t
    BY <1>5, <2>1
  <2>2. CASE u # t
    <3>1. PICK b, d : Sees(heap, <<u, "cursor">>, b, d)
      BY <1>5, <2>2 DEF OnlyMoves, BInv, CursorsHaveBuffers
    <3>2. ~IsOwnerOf(t, <<u, "cursor">>)
      BY <2>2 DEF IsOwnerOf
    <3> QED BY <3>1, <3>2 DEF OthersSeeTheSame
  <2> QED BY <2>1, <2>2
<1>6. CursorsHaveBuffers'
  BY <1>5 DEF CursorsHaveBuffers
<1> QED BY <1>1, <1>3, <1>4, <1>6 DEF BInv

(* A step that takes and returns no buffer.                                *)
LEMMA QuietStepKeeps ==
  ASSUME BInv, NEW t \in Threads, OnlyMoves(t), heap' = heap,
         MayHold(worker[t].step) # {} => worker'[t].at = worker[t].at,
         MayHold(worker[t].step) \subseteq MayHold(worker'[t].step),
         "cursor" \notin MayHold(worker[t].step),
         ~ReadsWithCursor(worker'[t].step)
  PROVE  BInv'
<1>1. ASSUME NEW role, NEW b, NEW d, Sees(heap', <<t, role>>, b, d)
      PROVE  role \in MayHold(worker'[t].step) /\ d = DataOf(worker'[t], role)
  <2>1. role \in MayHold(worker[t].step) /\ d = DataOf(worker[t], role)
    BY <1>1, OwnersOf
  <2>2. DataOf(worker[t], role) = DataOf(worker'[t], role)
    BY <2>1 DEF DataOf
  <2> QED BY <2>1, <2>2
<1>2. OthersSeeTheSame(t, heap')
  BY DEF OthersSeeTheSame
<1>3. Sound(heap', {}) /\ \A role : SeesOneBuffer(heap', <<t, role>>)
  BY DEF BInv
<1> QED BY <1>1, <1>2, <1>3, StepKeeps

-----------------------------------------------------------------------------
(* The steps of a worker                                                   *)

(* A step of one worker leaves the others where they are.                  *)
LEMMA GoToMoves ==
  ASSUME WorkersAre, NEW t \in Threads, NEW step, GoTo(t, step), paths' = paths
  PROVE  OnlyMoves(t) /\ worker'[t].step = step /\ worker'[t].at = worker[t].at
BY DEF WorkersAre, GoTo, OnlyMoves

(* So does its last step on a file.                                        *)
LEMMA FinishMoves ==
  ASSUME WorkersAre, NEW t \in Threads, paths' = paths,
         NEW ok, NEW step, NEW integrity_ok, NEW original_bytes, NEW voxels,
         FinishWith(t, ok, step, integrity_ok, original_bytes, voxels)
  PROVE  /\ OnlyMoves(t)
         /\ worker'[t].step \in {"inc_done", "inc_failed"}
         /\ worker'[t].at = worker[t].at
BY DEF WorkersAre, FinishWith, OnlyMoves

(* An empty heap satisfies the invariant.                                  *)
LEMMA BenchStarts == BenchInit => BInv
<1> SUFFICES ASSUME BenchInit
             PROVE  BInv
  OBVIOUS
<1>1. /\ Allocated(heap) = {}
      /\ DOMAIN heap = {"memory", "pool"}
      /\ heap.pool = [t \in Threads |-> <<>>]
  BY DEF BenchInit, EmptyHeap, Allocated
<1>2. /\ <<>> \in Seq(Buffers) /\ DOMAIN <<>> = {} /\ Len(<<>>) = 0
  OBVIOUS
<1>3. Sound(heap, {})
  BY <1>1, <1>2, PoolOK DEF Sound, IsHeap, IsPooled
<1>4. \A o, b, d : ~Sees(heap, o, b, d)
  BY <1>1 DEF Sees
<1>5. \A t \in Threads : worker[t] = Idle
  BY DEF BenchInit
<1>6. WorkersAre
  BY DEF BenchInit, Idle, WorkersAre
<1>7. CursorsHaveBuffers
  BY <1>5 DEF CursorsHaveBuffers, Idle, ReadsWithCursor
<1> QED BY <1>3, <1>4, <1>6, <1>7 DEF BInv, OwnersAreKnown, SeesOneBuffer

(* The next file: nothing is held yet.                                     *)
LEMMA BeginKeeps ==
  ASSUME BInv, NEW t \in Threads, Begin(t)
  PROVE  BInv'
<1>1. PICK i \in (1..Total) \ begun :
         worker' = [worker EXCEPT ![t] = [Idle EXCEPT !.step = "read", !.at = i]]
  BY DEF Begin
<1>2. OnlyMoves(t) /\ worker'[t].step = "read" /\ worker[t].step = "idle" /\ heap' = heap
  BY <1>1 DEF BInv, WorkersAre, Begin, Idle, OnlyMoves, At
<1> QED BY <1>2, QuietStepKeeps DEF MayHold, ReadsWithCursor

(* Reading a file, which may fail.                                         *)
LEMMA ReadFileKeeps ==
  ASSUME BInv, NEW t \in Threads, ReadFile(t)
  PROVE  BInv'
<1>1. WorkersAre /\ paths' = paths /\ heap' = heap /\ worker[t].step = "read"
  BY DEF BInv, ReadFile, At, shared
<1>2. OnlyMoves(t) /\ worker'[t].step \in {"decompress", "inc_done", "inc_failed"}
  BY <1>1, GoToMoves, FinishMoves DEF ReadFile
<1> QED BY <1>1, <1>2, QuietStepKeeps DEF MayHold, ReadsWithCursor

(* After the comparison and its like, a worker keeps its regions.          *)
HasRegions(step) ==
  step \in {"verify", "inc_failed", "inc_done", "add_bytes", "add_voxels", "return"}

(* A counter is increased; the regions stay.                               *)
LEMMA CountKeeps ==
  ASSUME BInv, NEW t \in Threads, NEW from, NEW counter, NEW n, NEW to,
         Count(t, from, counter, n, to), HasRegions(from), HasRegions(to)
  PROVE  BInv'
<1>1. WorkersAre /\ paths' = paths /\ heap' = heap /\ worker[t].step = from
  BY DEF BInv, Count, At
<1>2. OnlyMoves(t) /\ worker'[t].step = to /\ worker'[t].at = worker[t].at
  BY <1>1, GoToMoves DEF Count
<1>3. MayHold(from) = MayHold(to) /\ "cursor" \notin MayHold(from) /\ ~ReadsWithCursor(to)
  BY DEF HasRegions, MayHold, ReadsWithCursor
<1> QED BY <1>1, <1>2, <1>3, QuietStepKeeps

(* The four counters.                                                      *)
LEMMA CountersKeep ==
  ASSUME BInv, NEW t \in Threads,
         IncFailed(t) \/ IncDone(t) \/ AddBytes(t) \/ AddVoxels(t)
  PROVE  BInv'
<1>1. /\ HasRegions("inc_failed") /\ HasRegions("inc_done") /\ HasRegions("add_bytes")
      /\ HasRegions("add_voxels") /\ HasRegions("return")
  BY DEF HasRegions
<1>2. \E from, counter, n, to :
        Count(t, from, counter, n, to) /\ HasRegions(from) /\ HasRegions(to)
  BY <1>1 DEF IncFailed, IncDone, AddBytes, AddVoxels
<1> QED BY <1>2, CountKeeps

(* Encoding, with the regions held.                                        *)
LEMMA EncodeKeeps ==
  ASSUME BInv, NEW t \in Threads, Encode(t)
  PROVE  BInv'
<1>1. WorkersAre /\ paths' = paths /\ heap' = heap /\ worker[t].step = "encode"
  BY DEF BInv, Encode, At, shared
<1>2. /\ OnlyMoves(t)
      /\ worker'[t].step \in {"decompress_encoded", "inc_done", "inc_failed"}
      /\ worker'[t].at = worker[t].at
  BY <1>1, GoToMoves, FinishMoves DEF Encode
<1> QED BY <1>1, <1>2, QuietStepKeeps DEF MayHold, ReadsWithCursor

(* Comparing the two regions.                                              *)
LEMMA VerifyRegionKeeps ==
  ASSUME BInv, NEW t \in Threads, VerifyRegion(t)
  PROVE  BInv'
<1>1. WorkersAre /\ paths' = paths /\ heap' = heap /\ worker[t].step = "verify"
  BY DEF BInv, VerifyRegion, At, shared
<1>2. /\ OnlyMoves(t)
      /\ worker'[t].step \in {"inc_done", "inc_failed"}
      /\ worker'[t].at = worker[t].at
  BY <1>1, FinishMoves DEF VerifyRegion
<1> QED BY <1>1, <1>2, QuietStepKeeps DEF MayHold, ReadsWithCursor

(* The reference file is decompressed for the cursor to read.              *)
LEMMA DecompressReferenceKeeps ==
  ASSUME BInv, NEW t \in Threads, DecompressReference(t)
  PROVE  BInv'
<1> DEFINE frame == FileOf(t).frame
           data == <<"reference", FileOf(t).name>>
           owner == <<t, "cursor">>
<1>1. /\ WorkersAre /\ paths' = paths /\ worker[t].step = "decompress"
      /\ Sound(heap, {}) /\ HasSpare(heap)
      /\ heap' = Decompressed(heap, t, frame, data, owner)
  BY DEF BInv, DecompressReference, At, shared, HasRoom, HasSpare
<1>2. /\ Sound(heap', {})
      /\ IF Decompresses(frame)
         THEN \E b : SeenAlsoBy(heap, heap', owner, b, data)
         ELSE SeenAsBefore(heap, heap')
  <2> HIDE DEF frame, data, owner
  <2> QED BY <1>1, DecompressedKeeps
<1>3. \A role, b, d : ~Sees(heap, <<t, role>>, b, d)
  BY <1>1, OwnersOf DEF MayHold
<1>4. CASE Decompresses(frame)
  <2>1. OnlyMoves(t) /\ worker'[t].step = "parse" /\ worker'[t].at = worker[t].at
    BY <1>1, <1>4, GoToMoves DEF DecompressReference
  <2>2. PICK b : SeenAlsoBy(heap, heap', owner, b, data)
    BY <1>2, <1>4
  <2>3. OthersSeeTheSame(t, heap')
    BY <2>2 DEF SeenAlsoBy, OthersSeeTheSame, IsOwnerOf
  <2>4. \A role, c, d : Sees(heap', <<t, role>>, c, d) => role = "cursor" /\ c = b /\ d = data
    BY <1>3, <2>2 DEF SeenAlsoBy
  <2>5. MayHold(worker'[t].step) = {"cursor"} /\ data = DataOf(worker'[t], "cursor")
    BY <2>1 DEF MayHold, DataOf, WhatCursorReads, FileOf
  <2>6. Sees(heap', owner, b, data)
    BY <2>2 DEF SeenAlsoBy
  <2>7. \A role : SeesOneBuffer(heap', <<t, role>>)
    BY <2>4 DEF SeesOneBuffer
  <2>8. \A role, c, d : Sees(heap', <<t, role>>, c, d) =>
          role \in MayHold(worker'[t].step) /\ d = DataOf(worker'[t], role)
    BY <2>4, <2>5
  <2> QED BY <1>2, <2>1, <2>3, <2>6, <2>7, <2>8, StepKeeps
<1>5. CASE ~Decompresses(frame)
  <2>1. OnlyMoves(t) /\ worker'[t].step \in {"inc_done", "inc_failed"}
    BY <1>1, <1>5, FinishMoves DEF DecompressReference
  <2>2. SeenAsBefore(heap, heap')
    BY <1>2, <1>5
  <2>3. OthersSeeTheSame(t, heap')
    BY <2>2 DEF SeenAsBefore, OthersSeeTheSame
  <2>4. \A role, c, d : ~Sees(heap', <<t, role>>, c, d)
    BY <1>3, <2>2 DEF SeenAsBefore
  <2>5. ~ReadsWithCursor(worker'[t].step)
    BY <2>1 DEF ReadsWithCursor
  <2>6. \A role : SeesOneBuffer(heap', <<t, role>>)
    BY <2>4 DEF SeesOneBuffer
  <2> QED BY <1>2, <2>1, <2>3, <2>4, <2>5, <2>6, StepKeeps
<1> QED BY <1>4, <1>5

(* Slicing a region from the bytes under the cursor, and dropping it.      *)
LEMMA ReadKeeps ==
  ASSUME BInv, NEW t \in Threads, ReadsWithCursor(worker[t].step),
         NEW name, NEW slices, name # "cursor"
  PROVE  LET g == Release(Sliced(t, name, slices), t, <<t, "cursor">>)
         IN  /\ Sound(g, {})
             /\ Allocated(g) \subseteq Allocated(heap)
             /\ \A o, c, d : Sees(heap, o, c, d) /\ o # <<t, "cursor">> => Sees(g, o, c, d)
             /\ \E b : \A o, c, d :
                  Sees(g, o, c, d) =>
                    /\ o # <<t, "cursor">>
                    /\ \/ Sees(heap, o, c, d)
                       \/ /\ o = <<t, name>> /\ c = b
                          /\ d = DataOf(worker[t], "cursor")
<1> DEFINE cursor == <<t, "cursor">>
           h == Sliced(t, name, slices)
           g == Release(h, t, cursor)
           b == TheBuffer(cursor)
           data == DataOf(worker[t], "cursor")
<1>1. Sound(heap, {}) /\ \A o : SeesOneBuffer(heap, o)
  BY DEF BInv
<1>2. Sees(heap, cursor, b, data)
  <2>1. \E c, d : Sees(heap, cursor, c, d)
    BY DEF BInv, CursorsHaveBuffers
  <2>2. \E c : c \in HeldBy(heap, cursor)
    BY <2>1 DEF Sees, HeldBy
  <2>3. b \in HeldBy(heap, cursor)
    BY <2>2 DEF TheBuffer
  <2>4. Sees(heap, cursor, b, heap.memory[b].data)
    BY <2>3 DEF Sees, HeldBy
  <2> QED BY <2>4, OwnersOf
<1> HIDE DEF b, data
<1>3. /\ Sound(h, {})
      /\ Allocated(h) = Allocated(heap)
      /\ \A o, c, d : Sees(heap, o, c, d) => Sees(h, o, c, d)
      /\ \A o, c, d : Sees(h, o, c, d) =>
           Sees(heap, o, c, d) \/ (o = <<t, name>> /\ c = b /\ d = data)
  <2>1. CASE slices
    <3>1. h = Share(heap, b, <<t, name>>)
      BY <2>1 DEF Sliced, b
    <3>2. /\ Sound(h, {})
          /\ SeenAlsoBy(heap, h, <<t, name>>, b, data)
          /\ Allocated(h) = Allocated(heap)
      BY <1>1, <1>2, <3>1, ShareKeeps
    <3> HIDE DEF h
    <3> QED BY <3>2 DEF SeenAlsoBy
  <2>2. CASE ~slices
    <3>1. h = heap
      BY <2>2 DEF Sliced
    <3> QED BY <1>1, <3>1
  <2> QED BY <2>1, <2>2
<1> HIDE DEF h
<1>4. SeesOneBuffer(h, cursor)
  <2>1. \A c, d : Sees(h, cursor, c, d) => Sees(heap, cursor, c, d)
    BY <1>3
  <2> QED BY <1>1, <2>1 DEF SeesOneBuffer
<1>5. Sound(g, {}) /\ SeenWithout(h, g, cursor) /\ Allocated(g) \subseteq Allocated(h)
  BY <1>3, <1>4, ReleaseKeeps
<1> HIDE DEF g
<1>6. \A o, c, d : Sees(heap, o, c, d) /\ o # cursor => Sees(g, o, c, d)
  BY <1>3, <1>5 DEF SeenWithout
<1>7. \A o, c, d : Sees(g, o, c, d) =>
        /\ o # cursor
        /\ Sees(heap, o, c, d) \/ (o = <<t, name>> /\ c = b /\ d = data)
  BY <1>3, <1>5 DEF SeenWithout
<1> QED BY <1>3, <1>5, <1>6, <1>7 DEF g, h, data

(* The region takes slices, and the cursor is dropped.                     *)
LEMMA ParseReferenceKeeps ==
  ASSUME BInv, NEW t \in Threads, ParseReference(t)
  PROVE  BInv'
<1> DEFINE slices == FileOf(t).well_formed /\ FileOf(t).slices
           data == DataOf(worker[t], "cursor")
<1>1. /\ WorkersAre /\ paths' = paths /\ worker[t].step = "parse"
      /\ heap' = Release(Sliced(t, "reference", slices), t, <<t, "cursor">>)
  BY DEF BInv, ParseReference, At, shared
<1> HIDE DEF slices
<1>2. ReadsWithCursor(worker[t].step) /\ "reference" # "cursor"
  BY <1>1 DEF ReadsWithCursor
<1>3. /\ Sound(heap', {})
      /\ \A o, c, d : Sees(heap, o, c, d) /\ o # <<t, "cursor">> => Sees(heap', o, c, d)
      /\ \E b : \A o, c, d :
           Sees(heap', o, c, d) =>
             /\ o # <<t, "cursor">>
             /\ Sees(heap, o, c, d) \/ (o = <<t, "reference">> /\ c = b /\ d = data)
  <2> DEFINE g == Release(Sliced(t, "reference", slices), t, <<t, "cursor">>)
  <2>1. /\ Sound(g, {})
        /\ \A o, c, d : Sees(heap, o, c, d) /\ o # <<t, "cursor">> => Sees(g, o, c, d)
        /\ \E b : \A o, c, d :
             Sees(g, o, c, d) =>
               /\ o # <<t, "cursor">>
               /\ Sees(heap, o, c, d) \/ (o = <<t, "reference">> /\ c = b /\ d = data)
    BY <1>2, ReadKeeps
  <2>2. heap' = g
    BY <1>1
  <2> HIDE DEF g, data
  <2> QED BY <2>1, <2>2
<1>4. PICK b : \A o, c, d :
        Sees(heap', o, c, d) =>
          /\ o # <<t, "cursor">>
          /\ Sees(heap, o, c, d) \/ (o = <<t, "reference">> /\ c = b /\ d = data)
  BY <1>3
<1>5. \A role, c, d : Sees(heap, <<t, role>>, c, d) => role = "cursor"
  BY <1>1, OwnersOf DEF MayHold
<1>6. \A role, c, d : Sees(heap', <<t, role>>, c, d) =>
        role = "reference" /\ c = b /\ d = data
  BY <1>4, <1>5
<1>7. /\ OnlyMoves(t)
      /\ worker'[t].step \in {"encode", "inc_done", "inc_failed"}
      /\ worker'[t].at = worker[t].at
  BY <1>1, GoToMoves, FinishMoves DEF ParseReference
<1>8. "reference" \in MayHold(worker'[t].step) /\ ~ReadsWithCursor(worker'[t].step)
  BY <1>7 DEF MayHold, ReadsWithCursor
<1>9. data = DataOf(worker'[t], "reference")
  BY <1>1, <1>7 DEF DataOf, WhatCursorReads
<1> HIDE DEF data
<1>10. OthersSeeTheSame(t, heap')
  BY <1>3, <1>4 DEF OthersSeeTheSame, IsOwnerOf
<1>11. \A role : SeesOneBuffer(heap', <<t, role>>)
  BY <1>6 DEF SeesOneBuffer
<1>12. \A role, c, d : Sees(heap', <<t, role>>, c, d) =>
         role \in MayHold(worker'[t].step) /\ d = DataOf(worker'[t], role)
  BY <1>6, <1>8, <1>9
<1> QED BY <1>3, <1>7, <1>8, <1>10, <1>11, <1>12, StepKeeps

(* A buffer of a call's own: allocated and filled.                         *)
LEMMA FilledKeeps ==
  ASSUME NEW h, Sound(h, {}), HasSpare(h), NEW capacity, NEW element,
         MayAllocate(capacity, element), NEW data, NEW owner
  PROVE  LET g == FromVec(Allocate(h, capacity, element), Unused(h), data, owner)
         IN  /\ Sound(g, {})
             /\ SeenAlsoBy(h, g, owner, Unused(h), data)
             /\ Allocated(g) = Allocated(h) \cup {Unused(h)}
<1> DEFINE b == Unused(h)
           k == Allocate(h, capacity, element)
           g == FromVec(k, b, data, owner)
<1>1. Sound(k, {} \cup {b}) /\ SeenAsBefore(h, k) /\ Allocated(k) = Allocated(h) \cup {b}
  BY AllocateKeeps
<1> HIDE DEF b, k
<1>2. {} \cup {b} = {b} /\ b \in {b} /\ {b} \ {b} = {}
  OBVIOUS
<1>3. Sound(g, {b} \ {b}) /\ SeenAlsoBy(k, g, owner, b, data) /\ Allocated(g) = Allocated(k)
  BY <1>1, <1>2, FromVecKeeps
<1> HIDE DEF g
<1>4. SeenAlsoBy(h, g, owner, b, data)
  BY <1>1, <1>3 DEF SeenAsBefore, SeenAlsoBy
<1> QED BY <1>1, <1>2, <1>3, <1>4 DEF g, b, k

(* The encoded file: a copy of its header, and its body.                   *)
LEMMA DecompressEncodedKeeps ==
  ASSUME BInv, NEW t \in Threads, DecompressEncoded(t)
  PROVE  BInv'
<1> DEFINE name == FileOf(t).name
           encoded == FileOf(t).encoded
           copy == <<"header", name>>
           body == <<"encoded", name>>
           frame == [kind |-> "sized", size |-> encoded.size, all |-> encoded.size]
           h == FromVec(Allocate(heap, encoded.bytes, "u8"), Unused(heap), copy, <<t, "header">>)
           g == Decompressed(h, t, frame, body, <<t, "cursor">>)
<1>1. /\ WorkersAre /\ paths' = paths /\ worker[t].step = "decompress_encoded"
      /\ Sound(heap, {}) /\ HasRoom(heap) /\ heap' = g
  BY DEF BInv, DecompressEncoded, At, shared
<1>2. /\ Sound(h, {})
      /\ SeenAlsoBy(heap, h, <<t, "header">>, Unused(heap), copy)
      /\ Allocated(h) = Allocated(heap) \cup {Unused(heap)}
  <2>1. HasSpare(heap)
    BY <1>1 DEF HasRoom, HasSpare
  <2>2. MayAllocate(encoded.bytes, "u8")
    BY DEF MayAllocate
  <2> HIDE DEF encoded, copy
  <2> QED BY <1>1, <2>1, <2>2, FilledKeeps
<1>3. HasSpare(h)
  BY <1>1, <1>2 DEF HasRoom, HasSpare
<1>4. Decompresses(frame)
  BY DEF Decompresses
<1> HIDE DEF h, frame
<1>5. Sound(g, {}) /\ \E c : SeenAlsoBy(h, g, <<t, "cursor">>, c, body)
  <2> HIDE DEF body
  <2> QED BY <1>2, <1>3, <1>4, DecompressedKeeps
<1> HIDE DEF g
<1>6. PICK c : SeenAlsoBy(h, heap', <<t, "cursor">>, c, body)
  BY <1>1, <1>5
<1> DEFINE b == Unused(heap)
<1>7. \A o, e, d : Sees(heap', o, e, d) <=>
        \/ Sees(heap, o, e, d)
        \/ o = <<t, "header">> /\ e = b /\ d = copy
        \/ o = <<t, "cursor">> /\ e = c /\ d = body
  BY <1>2, <1>6 DEF SeenAlsoBy
<1> HIDE DEF b
<1>8. /\ OnlyMoves(t)
      /\ worker'[t].step = "parse_encoded" /\ worker'[t].at = worker[t].at
  BY <1>1, GoToMoves DEF DecompressEncoded
<1>9. \A role, e, d : Sees(heap, <<t, role>>, e, d) =>
        role = "reference" /\ d = DataOf(worker[t], role)
  BY <1>1, OwnersOf DEF MayHold
<1>10. /\ MayHold(worker'[t].step) = {"reference", "header", "cursor"}
       /\ copy = DataOf(worker'[t], "header")
       /\ body = DataOf(worker'[t], "cursor")
       /\ DataOf(worker'[t], "reference") = DataOf(worker[t], "reference")
  BY <1>8 DEF MayHold, DataOf, WhatCursorReads, FileOf
<1> HIDE DEF copy, body
<1>11. \A role, e, d : Sees(heap', <<t, role>>, e, d) =>
         role \in MayHold(worker'[t].step) /\ d = DataOf(worker'[t], role)
  BY <1>7, <1>9, <1>10
<1>12. OthersSeeTheSame(t, heap')
  BY <1>7 DEF OthersSeeTheSame, IsOwnerOf
<1>13. \A role : SeesOneBuffer(heap', <<t, role>>)
  <2>1. SeesOneBuffer(heap, <<t, "reference">>)
    BY DEF BInv
  <2>2. \A role, e, d : Sees(heap', <<t, role>>, e, d) =>
          \/ role = "reference" /\ Sees(heap, <<t, "reference">>, e, d)
          \/ role = "header" /\ e = b
          \/ role = "cursor" /\ e = c
    BY <1>7, <1>9
  <2> QED BY <2>1, <2>2 DEF SeesOneBuffer
<1>14. Sees(heap', <<t, "cursor">>, c, body)
  BY <1>7
<1> QED BY <1>1, <1>5, <1>8, <1>11, <1>12, <1>13, <1>14, StepKeeps

(* The second region takes slices, or a packed array of its own.           *)
LEMMA ParseEncodedKeeps ==
  ASSUME BInv, NEW t \in Threads, ParseEncoded(t)
  PROVE  BInv'
<1> DEFINE name == FileOf(t).name
           encoded == FileOf(t).encoded
           slices == encoded.decodes /\ encoded.slices
           packs == encoded.decodes /\ encoded.modeled
           data == DataOf(worker[t], "cursor")
           array == <<"array", name>>
           read == Release(Sliced(t, "encoded", slices), t, <<t, "cursor">>)
           returned == Release(read, t, <<t, "header">>)
           packed == FromVec(Allocate(returned, ArrayBytes, "u64"), Unused(returned),
                             array, <<t, "array">>)
<1>1. /\ WorkersAre /\ paths' = paths /\ worker[t].step = "parse_encoded"
      /\ HasRoom(heap)
      /\ heap' = IF packs THEN packed ELSE returned
  BY DEF BInv, ParseEncoded, At, shared
<1> HIDE DEF slices, packs
<1>2. ReadsWithCursor(worker[t].step) /\ "encoded" # "cursor"
  BY <1>1 DEF ReadsWithCursor
<1>3. /\ Sound(read, {})
      /\ Allocated(read) \subseteq Allocated(heap)
      /\ \A o, c, d : Sees(heap, o, c, d) /\ o # <<t, "cursor">> => Sees(read, o, c, d)
      /\ \E b : \A o, c, d :
           Sees(read, o, c, d) =>
             /\ o # <<t, "cursor">>
             /\ Sees(heap, o, c, d) \/ (o = <<t, "encoded">> /\ c = b /\ d = data)
  BY <1>2, ReadKeeps
<1> HIDE DEF read
<1>4. PICK b : \A o, c, d :
        Sees(read, o, c, d) =>
          /\ o # <<t, "cursor">>
          /\ Sees(heap, o, c, d) \/ (o = <<t, "encoded">> /\ c = b /\ d = data)
  BY <1>3
<1>5. \A role, c, d : Sees(heap, <<t, role>>, c, d) =>
        role \in {"reference", "header", "cursor"} /\ d = DataOf(worker[t], role)
  BY <1>1, OwnersOf DEF MayHold
<1>6. \A role : SeesOneBuffer(heap, <<t, role>>)
  BY DEF BInv
<1>7. SeesOneBuffer(read, <<t, "header">>)
  <2>1. \A c, d : Sees(read, <<t, "header">>, c, d) => Sees(heap, <<t, "header">>, c, d)
    BY <1>4
  <2> QED BY <1>6, <2>1 DEF SeesOneBuffer
<1>8. /\ Sound(returned, {})
      /\ SeenWithout(read, returned, <<t, "header">>)
      /\ Allocated(returned) \subseteq Allocated(read)
  BY <1>3, <1>7, ReleaseKeeps
<1> HIDE DEF returned
<1>9. /\ Sound(packed, {})
      /\ SeenAlsoBy(returned, packed, <<t, "array">>, Unused(returned), array)
  <2>1. HasSpare(returned)
    BY <1>1, <1>3, <1>8 DEF HasRoom, HasSpare
  <2>2. MayAllocate(ArrayBytes, "u64")
    BY BenchOK, PoolOK DEF MayAllocate
  <2> HIDE DEF array
  <2> QED BY <1>8, <2>1, <2>2, FilledKeeps
<1> HIDE DEF packed
<1> DEFINE e == Unused(returned)
<1> HIDE DEF e
<1>10. \A o, c, d : Sees(returned, o, c, d) <=> Sees(read, o, c, d) /\ o # <<t, "header">>
  BY <1>8 DEF SeenWithout
<1>11. /\ Sound(heap', {})
       /\ \A o, c, d : Sees(returned, o, c, d) => Sees(heap', o, c, d)
       /\ \A o, c, d : Sees(heap', o, c, d) =>
            Sees(returned, o, c, d) \/ (o = <<t, "array">> /\ c = e /\ d = array)
  BY <1>1, <1>8, <1>9 DEF SeenAlsoBy, e
<1>12. \A role, c, d : Sees(heap', <<t, role>>, c, d) =>
         \/ role = "reference" /\ Sees(heap, <<t, "reference">>, c, d)
         \/ role = "encoded" /\ c = b /\ d = data
         \/ role = "array" /\ c = e /\ d = array
  BY <1>4, <1>5, <1>10, <1>11
<1>13. /\ OnlyMoves(t)
       /\ worker'[t].step \in {"verify", "inc_done", "inc_failed"}
       /\ worker'[t].at = worker[t].at
  BY <1>1, GoToMoves, FinishMoves DEF ParseEncoded
<1>14. /\ MayHold(worker'[t].step) = {"reference", "encoded", "array"}
       /\ data = DataOf(worker'[t], "encoded")
       /\ array = DataOf(worker'[t], "array")
       /\ DataOf(worker'[t], "reference") = DataOf(worker[t], "reference")
       /\ ~ReadsWithCursor(worker'[t].step)
  BY <1>1, <1>13 DEF MayHold, DataOf, WhatCursorReads, FileOf, ReadsWithCursor
<1> HIDE DEF data, array
<1>15. \A role, c, d : Sees(heap', <<t, role>>, c, d) =>
         role \in MayHold(worker'[t].step) /\ d = DataOf(worker'[t], role)
  BY <1>5, <1>12, <1>14
<1>16. \A role : SeesOneBuffer(heap', <<t, role>>)
  BY <1>6, <1>12 DEF SeesOneBuffer
<1>17. OthersSeeTheSame(t, heap')
  BY <1>3, <1>4, <1>10, <1>11 DEF OthersSeeTheSame, IsOwnerOf
<1> QED BY <1>11, <1>13, <1>14, <1>15, <1>16, <1>17, StepKeeps

(* Return drops all that the worker holds.                                 *)
LEMMA ReturnKeeps ==
  ASSUME BInv, NEW t \in Threads, Return(t)
  PROVE  BInv'
<1> DEFINE h == Release(heap, t, <<t, "array">>)
           k == Release(h, t, <<t, "encoded">>)
           g == Release(k, t, <<t, "reference">>)
<1>1. /\ WorkersAre /\ paths' = paths /\ worker[t].step = "return"
      /\ worker' = [worker EXCEPT ![t] = Idle]
      /\ Sound(heap, {}) /\ \A o : SeesOneBuffer(heap, o)
      /\ heap' = g
  BY DEF BInv, Return, At
<1>2. Sound(h, {}) /\ SeenWithout(heap, h, <<t, "array">>)
  BY <1>1, ReleaseKeeps
<1> HIDE DEF h
<1>3. \A o : SeesOneBuffer(h, o)
  BY <1>1, <1>2 DEF SeenWithout, SeesOneBuffer
<1>4. Sound(k, {}) /\ SeenWithout(h, k, <<t, "encoded">>)
  BY <1>2, <1>3, ReleaseKeeps
<1> HIDE DEF k
<1>5. \A o : SeesOneBuffer(k, o)
  BY <1>3, <1>4 DEF SeenWithout, SeesOneBuffer
<1>6. Sound(g, {}) /\ SeenWithout(k, g, <<t, "reference">>)
  BY <1>4, <1>5, ReleaseKeeps
<1> HIDE DEF g
<1>7. \A o, c, d : Sees(heap', o, c, d) <=>
        Sees(heap, o, c, d) /\ o \notin {<<t, "array">>, <<t, "encoded">>, <<t, "reference">>}
  BY <1>1, <1>2, <1>4, <1>6 DEF SeenWithout
<1>8. \A role, c, d : ~Sees(heap', <<t, role>>, c, d)
  <2>1. \A role, c, d : Sees(heap, <<t, role>>, c, d) =>
          role \in {"reference", "encoded", "array"}
    BY <1>1, OwnersOf DEF MayHold
  <2> QED BY <1>7, <2>1
<1>9. OthersSeeTheSame(t, heap')
  BY <1>7 DEF OthersSeeTheSame, IsOwnerOf
<1>10. OnlyMoves(t) /\ worker'[t].step = "idle"
  BY <1>1 DEF WorkersAre, OnlyMoves, Idle
<1>11. \A role : SeesOneBuffer(heap', <<t, role>>)
  BY <1>8 DEF SeesOneBuffer
<1> QED BY <1>1, <1>6, <1>8, <1>9, <1>10, <1>11, StepKeeps DEF ReadsWithCursor

-----------------------------------------------------------------------------
(* The theorems                                                            *)

(* The invariant speaks of the heap, the workers and the files alone.      *)
LEMMA OtherStepsKeep ==
  ASSUME BInv, heap' = heap, worker' = worker, paths' = paths
  PROVE  BInv'
<1>1. WorkersAre' /\ CursorsHaveBuffers'
  BY DEF BInv, WorkersAre, CursorsHaveBuffers
<1>2. OwnersAreKnown'
  BY DEF BInv, OwnersAreKnown, DataOf, WhatCursorReads
<1> QED BY <1>1, <1>2 DEF BInv

(* Every step preserves the invariant.                                     *)
LEMMA BenchGoesOn == BInv /\ [BenchNext]_bench_vars => BInv'
<1> SUFFICES ASSUME BInv, [BenchNext]_bench_vars
             PROVE  BInv'
  OBVIOUS
<1>1. CASE Reporter
  <2>1. heap' = heap /\ worker' = worker /\ paths' = paths
    BY <1>1 DEF Reporter, CheckStop, LoadDone, PrintAndSleep, Report
  <2> QED BY <2>1, OtherStepsKeep
<1>2. CASE Main
  <2>1. heap' = heap /\ worker' = worker /\ paths' = paths
    BY <1>2 DEF Main, StopReporter, JoinReporter
  <2> QED BY <2>1, OtherStepsKeep
<1>3. ASSUME NEW t \in Threads, Begin(t)
      PROVE  BInv'
  BY <1>3, BeginKeeps
<1>4. ASSUME NEW t \in Threads, Bench(t)
      PROVE  BInv'
  BY <1>4, ReadFileKeeps, DecompressReferenceKeeps, ParseReferenceKeeps, EncodeKeeps,
     DecompressEncodedKeeps, ParseEncodedKeeps, VerifyRegionKeeps, CountersKeep, ReturnKeeps
     DEF Bench
<1>5. CASE UNCHANGED bench_vars
  <2>1. heap' = heap /\ worker' = worker /\ paths' = paths
    BY <1>5 DEF bench_vars
  <2> QED BY <2>1, OtherStepsKeep
<1> QED BY <1>1, <1>2, <1>3, <1>4, <1>5 DEF BenchNext

(* The inductive invariant holds in every reachable state.                 *)
LEMMA BenchInvariance == BenchSpec => []BInv
<1>1. BenchInit => BInv
  BY BenchStarts
<1>2. BInv /\ [BenchNext]_bench_vars => BInv'
  BY BenchGoesOn
<1> QED BY <1>1, <1>2, PTL DEF BenchSpec

(* What a worker's region is read from holds the data of its file.         *)
LEMMA HoldsOwnBytes ==
  ASSUME BInv
  PROVE  RegionsKeepTheirBytes
<1> SUFFICES ASSUME NEW t \in Threads, NEW name \in {"reference", "encoded", "array"},
                    NEW b \in HeldBy(heap, <<t, name>>)
             PROVE  heap.memory[b].data = <<name, FileOf(t).name>>
  BY DEF RegionsKeepTheirBytes, Holds
<1>1. Sees(heap, <<t, name>>, b, heap.memory[b].data)
  BY DEF Sees, HeldBy
<1>2. heap.memory[b].data = DataOf(worker[t], name)
  BY <1>1, OwnersOf
<1> QED BY <1>2 DEF DataOf, FileOf

(***************************************************************************)
(* The bytes under a region's sections are those that were read for it as  *)
(* long as the region lives (RegionsKeepTheirBytes).                       *)
(***************************************************************************)
THEOREM RegionsAreStable == BenchSpec => []RegionsKeepTheirBytes
BY HoldsOwnBytes, BenchInvariance, PTL

(***************************************************************************)
(* The pools are sound, and a worker without a file refers to no buffer    *)
(* (BuffersAreAccounted).                                                  *)
(***************************************************************************)
THEOREM NoBufferIsLost == BenchSpec => []BuffersAreAccounted
<1>1. ASSUME BInv
      PROVE  BuffersAreAccounted
  <2>1. PoolIsSound
    BY <1>1 DEF BInv, Sound, PoolIsSound, PoolEntry, IsPooled
  <2>2. ASSUME NEW b \in Allocated(heap), NEW owner \in heap.memory[b].refs
        PROVE  ~At(owner[1], "idle")
    <3>1. Sees(heap, owner, b, heap.memory[b].data)
      BY DEF Sees
    <3>2. PICK t \in Threads : \E role \in MayHold(worker[t].step) : owner = <<t, role>>
      BY <1>1, <3>1 DEF BInv, OwnersAreKnown
    <3>3. owner[1] = t /\ MayHold(worker[t].step) # {}
      BY <3>2
    <3> QED BY <3>3 DEF MayHold, At
  <2> QED BY <2>1, <2>2 DEF BuffersAreAccounted
<1> QED BY <1>1, BenchInvariance, PTL

-----------------------------------------------------------------------------
(* The results and the counters                                            *)

(* What the result of a file says.                                         *)
BytesOf(file) == IF file.readable THEN file.bytes ELSE 0

VoxelsOf(file) ==
  IF file.readable /\ Decompresses(file.frame) /\ file.well_formed THEN file.voxels ELSE 0

IsRight(result, file) ==
  /\ result.path = file.name
  /\ result.ok <=> Passes(file)
  /\ result.original_bytes = BytesOf(file)
  /\ result.voxels = VoxelsOf(file)

(* What a worker knows of its file by the step it is at.                   *)
Encoding == {"encode", "decompress_encoded", "parse_encoded", "verify"}

Finishing == {"inc_failed", "inc_done", "add_bytes", "add_voxels", "return"}

Knows(t) ==
  LET step == worker[t].step
      file == FileOf(t)
  IN  /\ step \in {"decompress", "parse"} \cup Encoding => file.readable
      /\ step \in {"parse"} \cup Encoding => Decompresses(file.frame)
      /\ step \in Encoding => file.well_formed
      /\ step \in {"decompress_encoded", "parse_encoded", "verify"} => file.encodes
      /\ step = "verify" => file.encoded.decodes /\ verify
      /\ step \in Finishing => IsRight(worker[t].result, file)
      /\ step = "inc_failed" => ~Passes(file)

Has(t, i) == ~At(t, "idle") /\ worker[t].at = i

(* The files handed out that have come to one of the steps, or further.    *)
Past(steps) ==
  {i \in begun : \A t \in Threads : Has(t, i) => worker[t].step \in steps}

Counted == {"add_bytes", "add_voxels", "return"}

FailedFiles == {i \in Past({"inc_done"} \cup Counted) : ~Passes(paths[i])}

AddedBytes ==
  [i \in 1..Total |-> IF i \in Past({"add_voxels", "return"}) THEN BytesOf(paths[i]) ELSE 0]

AddedVoxels ==
  [i \in 1..Total |-> IF i \in Past({"return"}) THEN VoxelsOf(paths[i]) ELSE 0]

FilesAre ==
  /\ Total \in Nat
  /\ \A i \in 1..Total : paths[i].bytes \in Nat /\ paths[i].voxels \in Nat
  /\ \A i, j \in 1..Total : i # j => paths[i].name # paths[j].name

FilesAreShared ==
  /\ begun \subseteq 1..Total
  /\ \A t \in Threads : ~At(t, "idle") => worker[t].at \in begun
  /\ \A t, u \in Threads : \A i \in begun : Has(t, i) /\ Has(u, i) => t = u

ResultsAreRight ==
  /\ DOMAIN results = 1..Total
  /\ \A i \in 1..Total : IF i \in Past({}) THEN IsRight(results[i], paths[i])
                                           ELSE results[i] = None

CountersAreRight ==
  progress = [done |-> Cardinality(Past(Counted)),
              failed |-> Cardinality(FailedFiles),
              bytes_in |-> SumTo(AddedBytes, Total),
              voxels_in |-> SumTo(AddedVoxels, Total)]

(* What is invariant beside BInv.                                          *)
RInv ==
  /\ FilesAre
  /\ FilesAreShared
  /\ \A t \in Threads : Knows(t)
  /\ ResultsAreRight
  /\ CountersAreRight
  /\ reporter.done <= Total
  /\ main # "collect" => 1..Total \subseteq Past({})

-----------------------------------------------------------------------------
(* The files of the run                                                    *)

LEMMA Quotient ==
  ASSUME NEW a \in Nat, NEW n \in Nat, n >= 1
  PROVE  /\ a \div n \in Nat
         /\ n * (a \div n) <= a
         /\ a < n * (a \div n) + n
BY SMTT(30)

(* An even sample of n files takes n of them.                              *)
LEMMA SampleIsSpread ==
  ASSUME NEW n \in Nat, NEW m \in Nat, n >= 1, n <= m
  PROVE  /\ \A i \in 1..n : ((i - 1) * m) \div n + 1 \in 1..m
         /\ \A i, j \in 1..n : i < j => ((i - 1) * m) \div n # ((j - 1) * m) \div n
<1> DEFINE a(i) == (i - 1) * m
           q(i) == a(i) \div n
<1>1. ASSUME NEW i \in 1..n
      PROVE  /\ a(i) \in Nat /\ q(i) \in Nat
             /\ n * q(i) <= a(i) /\ a(i) < n * q(i) + n
  <2>1. i - 1 \in Nat
    OBVIOUS
  <2>2. a(i) \in Nat
    BY <2>1
  <2> HIDE DEF a
  <2> QED BY <2>2, Quotient
<1>2. ASSUME NEW i \in 1..n
      PROVE  q(i) + 1 \in 1..m
  <2>1. a(i) <= (n - 1) * m
    BY SMTT(30)
  <2>2. (n - 1) * m = n * m - m /\ n * m \in Nat
    OBVIOUS
  <2>3. ASSUME q(i) >= m
        PROVE  FALSE
    <3>1. q(i) \in Nat /\ n * q(i) <= a(i) /\ a(i) \in Nat
      BY <1>1
    <3> HIDE DEF q, a
    <3>2. n * q(i) >= n * m
      BY <2>3, <3>1, SMTT(30)
    <3> QED BY <2>1, <2>2, <3>1, <3>2
  <2>4. q(i) \in Nat
    BY <1>1
  <2> HIDE DEF q
  <2> QED BY <2>3, <2>4
<1>3. ASSUME NEW i \in 1..n, NEW j \in 1..n, i < j
      PROVE  q(i) # q(j)
  <2>1. a(j) - a(i) >= m
    <3>1. a(j) - a(i) = (j - i) * m
      BY SMTT(30)
    <3>2. j - i >= 1 /\ j - i \in Nat
      BY <1>3
    <3>3. (j - i) * m >= m
      BY <3>2, SMTT(30)
    <3> QED BY <3>1, <3>3
  <2>2. /\ a(i) \in Nat /\ a(j) \in Nat /\ q(i) \in Nat /\ q(j) \in Nat
        /\ n * q(i) <= a(i) /\ a(i) < n * q(i) + n
        /\ n * q(j) <= a(j) /\ a(j) < n * q(j) + n
    BY <1>1
  <2> HIDE DEF a, q
  <2>3. n * q(i) \in Nat
    BY <2>2
  <2> QED BY <2>1, <2>2, <2>3
<1> QED BY <1>2, <1>3

(* The sample has each of its files once.                                  *)
LEMMA DiscoveredFiles ==
  ASSUME NEW files \in Directories, NEW sample \in Samples,
         paths = Discover(files, sample), paths # <<>>
  PROVE  FilesAre
<1>1. /\ files \in Seq({files[i] : i \in DOMAIN files})
      /\ Len(files) \in Nat /\ DOMAIN files = 1..Len(files)
      /\ \A i \in 1..Len(files) : files[i].bytes \in Nat /\ files[i].voxels \in Nat
      /\ \A i, j \in 1..Len(files) : i # j => files[i].name # files[j].name
  <2>1. files \in Seq({files[i] : i \in DOMAIN files})
    BY DirectoriesOK
  <2>2. Len(files) \in Nat /\ DOMAIN files = 1..Len(files)
    BY <2>1
  <2> QED BY <2>1, <2>2, DirectoriesOK
<1>2. CASE sample = All \/ sample >= Len(files)
  BY <1>1, <1>2 DEF Discover, FilesAre, Total
<1>3. CASE ~(sample = All \/ sample >= Len(files))
  <2> DEFINE n == sample
             m == Len(files)
             at(i) == ((i - 1) * m) \div n + 1
  <2>1. n \in Nat /\ m \in Nat /\ n <= m
    BY <1>1, <1>3, BenchOK
  <2>2. paths = [i \in 1..n |-> files[at(i)]]
    BY <1>3 DEF Discover, SampleEvenly
  <2>3. n >= 1
    <3>1. CASE n = 0
      <4>1. 1..n = {}
        BY <3>1
      <4>2. paths = <<>>
        BY <2>2, <4>1
      <4> QED BY <4>2
    <3> QED BY <2>1, <3>1
  <2>4. /\ \A i \in 1..n : at(i) \in 1..m
        /\ \A i, j \in 1..n : i < j => at(i) # at(j)
    <3>1. /\ \A i \in 1..n : ((i - 1) * m) \div n + 1 \in 1..m
          /\ \A i, j \in 1..n : i < j => ((i - 1) * m) \div n # ((j - 1) * m) \div n
      BY <2>1, <2>3, SampleIsSpread
    <3>2. \A i \in 1..n : ((i - 1) * m) \div n \in Int
      BY <2>1, <2>3
    <3> QED BY <3>1, <3>2
  <2> HIDE DEF at, n, m
  <2>5. \A i, j \in 1..n : i # j => at(i) # at(j)
    <3>1. \A i, j \in 1..n : i # j => i < j \/ j < i
      BY <2>1
    <3> QED BY <2>4, <3>1
  <2>6. Len(paths) = n
    BY <2>1, <2>2
  <2>7. \A i \in 1..n : paths[i] = files[at(i)]
    BY <2>2
  <2>8. \A i \in 1..n : paths[i].bytes \in Nat /\ paths[i].voxels \in Nat
    BY <1>1, <2>4, <2>7 DEF m
  <2>9. ASSUME NEW i \in 1..n, NEW j \in 1..n, i # j
        PROVE  paths[i].name # paths[j].name
    <3>1. at(i) \in 1..m /\ at(j) \in 1..m /\ at(i) # at(j)
      BY <2>4, <2>5, <2>9
    <3>2. files[at(i)].name # files[at(j)].name
      BY <1>1, <3>1 DEF m
    <3> QED BY <2>7, <3>2
  <2>10. Total = n
    BY <2>6 DEF Total
  <2> QED BY <2>1, <2>8, <2>9, <2>10 DEF FilesAre
<1> QED BY <1>2, <1>3

-----------------------------------------------------------------------------
(* The steps and the counters                                              *)

LEMMA FilesAreFinite ==
  ASSUME FilesAre, FilesAreShared, NEW S \in SUBSET begun
  PROVE  IsFiniteSet(S) /\ Cardinality(S) \in Nat /\ Cardinality(S) <= Total
<1>1. S \subseteq 1..Total /\ Total \in Nat
  BY DEF FilesAreShared, FilesAre
<1>2. PICK n \in Nat : n = Total
  BY <1>1
<1>3. IsFiniteSet(1..n) /\ Cardinality(1..n) = n
  BY FS_Interval
<1>4. IsFiniteSet(S) /\ Cardinality(S) <= n
  BY <1>1, <1>2, <1>3, FS_Subset
<1>5. Cardinality(S) \in Nat
  BY <1>4, FS_CardinalityType
<1> QED BY <1>2, <1>4, <1>5

LEMMA CountersAgain ==
  ASSUME progress' = [done |-> Cardinality(Past(Counted)'),
                      failed |-> Cardinality(FailedFiles'),
                      bytes_in |-> SumTo(AddedBytes', Total'),
                      voxels_in |-> SumTo(AddedVoxels', Total')]
  PROVE  CountersAreRight'
BY DEF CountersAreRight

(* A run has not handed out a file.                                        *)
LEMMA NothingCountedAtFirst ==
  ASSUME BenchInit
  PROVE  RInv
<1>1. FilesAre
  BY DiscoveredFiles DEF BenchInit
<1>2. Total \in Nat
  BY <1>1 DEF FilesAre
<1>3. begun = {} /\ \A t \in Threads : At(t, "idle") /\ worker[t].step = "idle"
  BY DEF BenchInit, Idle, At
<1>4. FilesAreShared
  BY <1>2, <1>3 DEF FilesAreShared
<1>5. \A steps : Past(steps) = {}
  BY <1>3 DEF Past
<1>6. \A t \in Threads : Knows(t)
  BY <1>3 DEF Knows, Encoding, Finishing
<1>7. ResultsAreRight
  BY <1>5 DEF BenchInit, ResultsAreRight
<1>8. CountersAreRight
  <2>1. Past(Counted) = {} /\ FailedFiles = {}
    BY <1>5 DEF FailedFiles
  <2>2. SumTo(AddedBytes, Total) = 0
    <3>1. \A i \in 1..Total : AddedBytes[i] = 0
      BY <1>5 DEF AddedBytes
    <3> QED BY <1>2, <3>1, SumOfZeros
  <2>3. SumTo(AddedVoxels, Total) = 0
    <3>1. \A i \in 1..Total : AddedVoxels[i] = 0
      BY <1>5 DEF AddedVoxels
    <3> QED BY <1>2, <3>1, SumOfZeros
  <2>4. progress = [done |-> 0, failed |-> 0, bytes_in |-> 0, voxels_in |-> 0]
    BY DEF BenchInit
  <2> QED BY <2>1, <2>2, <2>3, <2>4, FS_EmptySet DEF CountersAreRight
<1>9. reporter.done <= Total /\ main = "collect"
  BY <1>2 DEF BenchInit
<1> QED BY <1>1, <1>4, <1>6, <1>7, <1>8, <1>9 DEF RInv

(* A worker goes on with its file.                                         *)
GoesOn(t) ==
  /\ OnlyMoves(t)
  /\ begun' = begun
  /\ ~At(t, "idle")
  /\ worker'[t].step # "idle"
  /\ worker'[t].at = worker[t].at

LEMMA PastMoves ==
  ASSUME FilesAreShared, NEW t \in Threads, GoesOn(t)
  PROVE  /\ worker[t].at \in begun
         /\ FilesAreShared'
         /\ \A steps : /\ worker[t].at \in Past(steps) <=> worker[t].step \in steps
                       /\ worker[t].at \in Past(steps)' <=> worker'[t].step \in steps
                       /\ \A i : i # worker[t].at => (i \in Past(steps)' <=> i \in Past(steps))
<1>1. worker[t].at \in begun
  BY DEF FilesAreShared, GoesOn
<1>2. \A u \in Threads : \A i : Has(u, i)' <=> Has(u, i)
  BY DEF Has, At, GoesOn, OnlyMoves
<1>3. FilesAreShared'
  <2>1. \A u \in Threads : ~At(u, "idle")' => worker'[u].at \in begun
    BY <1>1 DEF FilesAreShared, GoesOn, OnlyMoves, At
  <2>2. begun' = begun /\ Total' = Total
    BY DEF GoesOn, OnlyMoves, Total
  <2> QED BY <1>2, <2>1, <2>2 DEF FilesAreShared
<1>4. \A u \in Threads : Has(u, worker[t].at) <=> u = t
  BY <1>1 DEF FilesAreShared, GoesOn, Has
<1>5. \A u \in Threads \ {t} : worker'[u] = worker[u]
  BY DEF GoesOn, OnlyMoves
<1>6. ASSUME NEW steps
      PROVE  /\ worker[t].at \in Past(steps) <=> worker[t].step \in steps
             /\ worker[t].at \in Past(steps)' <=> worker'[t].step \in steps
  BY <1>1, <1>2, <1>4 DEF Past, GoesOn
<1>7. ASSUME NEW steps, NEW i, i # worker[t].at
      PROVE  i \in Past(steps)' <=> i \in Past(steps)
  <2>1. ~Has(t, i)
    BY <1>7 DEF Has
  <2> QED BY <1>2, <1>5, <2>1 DEF Past, GoesOn
<1> QED BY <1>1, <1>3, <1>6, <1>7

(* What is told of the files and the workers after a step of t.            *)
LEMMA OthersKnow ==
  ASSUME RInv, NEW t \in Threads, OnlyMoves(t), verify' = verify, Knows(t)'
  PROVE  /\ FilesAre'
         /\ \A u \in Threads : Knows(u)'
         /\ \A file : Passes(file)' <=> Passes(file)
<1>1. \A file : Passes(file)' <=> Passes(file)
  BY DEF Passes
<1>2. FilesAre' /\ Total' = Total
  BY DEF RInv, FilesAre, OnlyMoves, Total
<1>3. ASSUME NEW u \in Threads, u # t
      PROVE  Knows(u)'
  <2>1. worker'[u] = worker[u] /\ FileOf(u)' = FileOf(u) /\ Knows(u)
    BY <1>3 DEF OnlyMoves, FileOf, RInv
  <2> QED BY <1>1, <2>1 DEF Knows, IsRight
<1> QED BY <1>1, <1>2, <1>3

(* A step before the result is known, or that finds it.                    *)
LEMMA UncountedStep ==
  ASSUME RInv, NEW t \in Threads, GoesOn(t), Knows(t)',
         UNCHANGED <<verify, progress, results, reporter, main>>,
         worker[t].step \notin Finishing,
         worker'[t].step \notin Counted,
         worker'[t].step = "inc_done" => Passes(FileOf(t))
  PROVE  RInv'
<1> DEFINE at == worker[t].at
<1>1. FilesAreShared /\ OnlyMoves(t) /\ paths' = paths /\ begun' = begun
  BY DEF RInv, GoesOn, OnlyMoves
<1>2. /\ at \in begun /\ FilesAreShared'
      /\ \A steps : /\ at \in Past(steps) <=> worker[t].step \in steps
                    /\ at \in Past(steps)' <=> worker'[t].step \in steps
                    /\ \A i : i # at => (i \in Past(steps)' <=> i \in Past(steps))
  BY <1>1, PastMoves
<1>3. /\ FilesAre' /\ \A u \in Threads : Knows(u)'
      /\ \A file : Passes(file)' <=> Passes(file)
      /\ Total' = Total
  BY <1>1, OthersKnow DEF Total
<1>4. ASSUME NEW steps, steps \subseteq Counted
      PROVE  Past(steps)' = Past(steps)
  <2>1. worker[t].step \notin steps /\ worker'[t].step \notin steps
    BY <1>4 DEF Counted, Finishing
  <2> QED BY <1>2, <2>1
<1>5. Past({})' = Past({}) /\ Past(Counted)' = Past(Counted)
      /\ Past({"add_voxels", "return"})' = Past({"add_voxels", "return"})
      /\ Past({"return"})' = Past({"return"})
  BY <1>4 DEF Counted
<1>6. FailedFiles' = FailedFiles
  <2>1. at \notin FailedFiles
    <3>1. at \notin Past({"inc_done"} \cup Counted)
      BY <1>2 DEF Finishing, Counted
    <3> QED BY <3>1 DEF FailedFiles
  <2>2. at \notin FailedFiles'
    <3>1. at \in Past({"inc_done"} \cup Counted)' => worker'[t].step = "inc_done"
      BY <1>2
    <3>2. paths'[at] = FileOf(t)
      BY <1>1 DEF FileOf
    <3> QED BY <1>3, <3>1, <3>2 DEF FailedFiles
  <2>3. \A i : i # at => (i \in FailedFiles' <=> i \in FailedFiles)
    BY <1>1, <1>2, <1>3 DEF FailedFiles
  <2> QED BY <2>1, <2>2, <2>3
<1>7. AddedBytes' = AddedBytes /\ AddedVoxels' = AddedVoxels
  BY <1>1, <1>3, <1>5 DEF AddedBytes, AddedVoxels
<1>8. CountersAreRight'
  BY <1>3, <1>5, <1>6, <1>7, CountersAgain DEF RInv, CountersAreRight
<1>9. ResultsAreRight'
  BY <1>1, <1>3, <1>5 DEF RInv, ResultsAreRight, IsRight
<1> QED BY <1>2, <1>3, <1>5, <1>8, <1>9 DEF RInv

(* The next step on a file.                                                *)
LEMMA GoToGoesOn ==
  ASSUME BInv, RInv, NEW t \in Threads, worker[t].step \notin Finishing \cup {"idle"},
         NEW step, step \notin Finishing \cup {"idle"}, GoTo(t, step), UNCHANGED shared,
         Knows(t)'
  PROVE  RInv'
<1>1. UNCHANGED <<paths, verify, begun, progress, results, reporter, main>>
  BY DEF shared
<1>2. OnlyMoves(t) /\ worker'[t].step = step /\ worker'[t].at = worker[t].at
  BY <1>1, GoToMoves DEF BInv
<1>3. GoesOn(t) /\ worker'[t].step \notin Counted /\ worker'[t].step # "inc_done"
  BY <1>1, <1>2 DEF GoesOn, At, Finishing, Counted
<1> QED BY <1>1, <1>3, UncountedStep

(* The step that finds the result.                                         *)
LEMMA FinishIsRight ==
  ASSUME BInv, RInv, NEW t \in Threads, worker[t].step \notin Finishing \cup {"idle"},
         NEW ok \in BOOLEAN, NEW step, NEW integrity_ok, NEW original_bytes, NEW voxels,
         FinishWith(t, ok, step, integrity_ok, original_bytes, voxels), UNCHANGED shared,
         ok <=> Passes(FileOf(t)),
         original_bytes = BytesOf(FileOf(t)), voxels = VoxelsOf(FileOf(t))
  PROVE  RInv'
<1>1. UNCHANGED <<paths, verify, begun, progress, results, reporter, main>>
  BY DEF shared
<1>2. OnlyMoves(t) /\ worker'[t].at = worker[t].at
  BY <1>1, FinishMoves DEF BInv
<1>3. /\ worker'[t].step = IF ok THEN "inc_done" ELSE "inc_failed"
      /\ worker'[t].result = [path |-> FileOf(t).name, ok |-> ok, step |-> step,
                              integrity_ok |-> integrity_ok,
                              original_bytes |-> original_bytes, voxels |-> voxels]
  BY DEF FinishWith, BInv, WorkersAre
<1>4. FileOf(t)' = FileOf(t) /\ (Passes(FileOf(t))' <=> Passes(FileOf(t)))
  BY <1>1, <1>2 DEF FileOf, Passes
<1>5. IsRight(worker'[t].result, FileOf(t))
  BY <1>3 DEF IsRight
<1>6. IsRight(worker[t].result, FileOf(t))'
  BY <1>4, <1>5 DEF IsRight
<1>7. worker'[t].step \in {"inc_done", "inc_failed"}
      /\ (worker'[t].step = "inc_done" <=> Passes(FileOf(t)))
  BY <1>3
<1>8. Knows(t)'
  BY <1>4, <1>6, <1>7 DEF Knows, Encoding
<1>9. GoesOn(t) /\ worker[t].step \notin Finishing /\ worker'[t].step \notin Counted
  BY <1>1, <1>2, <1>7 DEF GoesOn, At, Counted
<1> QED BY <1>1, <1>7, <1>8, <1>9, UncountedStep

(* The steps of a worker up to its result.                                 *)
LEMMA WorkIsRight ==
  ASSUME BInv, RInv, NEW t \in Threads,
         \/ ReadFile(t) \/ DecompressReference(t) \/ ParseReference(t) \/ Encode(t)
         \/ DecompressEncoded(t) \/ ParseEncoded(t) \/ VerifyRegion(t)
  PROVE  RInv'
<1> DEFINE file == FileOf(t)
<1>1. UNCHANGED shared /\ UNCHANGED <<paths, verify>>
  BY DEF ReadFile, DecompressReference, ParseReference, Encode, DecompressEncoded,
         ParseEncoded, VerifyRegion, shared
<1>2. Knows(t)
  BY DEF RInv
<1>3. ASSUME NEW step, GoTo(t, step)
      PROVE  FileOf(t)' = FileOf(t) /\ worker'[t].step = step
  BY <1>1, <1>3, GoToMoves DEF BInv, FileOf
<1>4. CASE ReadFile(t)
  <2>1. worker[t].step = "read"
    BY <1>4 DEF ReadFile, At
  <2>2. CASE file.readable
    <3>1. GoTo(t, "decompress")
      BY <1>4, <2>2 DEF ReadFile
    <3>2. Knows(t)'
      BY <1>3, <2>2, <3>1 DEF Knows, Encoding, Finishing
    <3> QED BY <1>1, <2>1, <3>1, <3>2, GoToGoesOn DEF Finishing
  <2>3. CASE ~file.readable
    <3>1. FinishWith(t, FALSE, "reference read", None, 0, 0)
      BY <1>4, <2>3 DEF ReadFile
    <3>2. ~Passes(file) /\ BytesOf(file) = 0 /\ VoxelsOf(file) = 0
      BY <2>3 DEF Passes, BytesOf, VoxelsOf
    <3> QED BY <1>1, <2>1, <3>1, <3>2, FinishIsRight DEF Finishing
  <2> QED BY <2>2, <2>3
<1>5. CASE DecompressReference(t)
  <2>1. worker[t].step = "decompress" /\ file.readable
    BY <1>2, <1>5 DEF DecompressReference, At, Knows
  <2>2. CASE Decompresses(file.frame)
    <3>1. GoTo(t, "parse")
      BY <1>5, <2>2 DEF DecompressReference
    <3>2. Knows(t)'
      BY <1>3, <2>1, <2>2, <3>1 DEF Knows, Encoding, Finishing
    <3> QED BY <1>1, <2>1, <3>1, <3>2, GoToGoesOn DEF Finishing
  <2>3. CASE ~Decompresses(file.frame)
    <3>1. FinishWith(t, FALSE, "reference read", None, file.bytes, 0)
      BY <1>5, <2>3 DEF DecompressReference
    <3>2. ~Passes(file) /\ BytesOf(file) = file.bytes /\ VoxelsOf(file) = 0
      BY <2>1, <2>3 DEF Passes, BytesOf, VoxelsOf
    <3> QED BY <1>1, <2>1, <3>1, <3>2, FinishIsRight DEF Finishing
  <2> QED BY <2>2, <2>3
<1>6. CASE ParseReference(t)
  <2>1. worker[t].step = "parse" /\ file.readable /\ Decompresses(file.frame)
    BY <1>2, <1>6 DEF ParseReference, At, Knows
  <2>2. CASE file.well_formed
    <3>1. GoTo(t, "encode")
      BY <1>6, <2>2 DEF ParseReference
    <3>2. Knows(t)'
      BY <1>3, <2>1, <2>2, <3>1 DEF Knows, Encoding, Finishing
    <3> QED BY <1>1, <2>1, <3>1, <3>2, GoToGoesOn DEF Finishing
  <2>3. CASE ~file.well_formed
    <3>1. FinishWith(t, FALSE, "reference read", None, file.bytes, 0)
      BY <1>6, <2>3 DEF ParseReference
    <3>2. ~Passes(file) /\ BytesOf(file) = file.bytes /\ VoxelsOf(file) = 0
      BY <2>1, <2>3 DEF Passes, BytesOf, VoxelsOf
    <3> QED BY <1>1, <2>1, <3>1, <3>2, FinishIsRight DEF Finishing
  <2> QED BY <2>2, <2>3
<1>7. ASSUME worker[t].step \in Encoding
      PROVE  /\ file.readable /\ Decompresses(file.frame) /\ file.well_formed
             /\ BytesOf(file) = file.bytes /\ VoxelsOf(file) = file.voxels
  BY <1>2, <1>7 DEF Knows, BytesOf, VoxelsOf
<1>8. CASE Encode(t)
  <2>1. worker[t].step = "encode" /\ worker[t].step \in Encoding
    BY <1>8 DEF Encode, At, Encoding
  <2>2. CASE file.encodes
    <3>1. GoTo(t, "decompress_encoded")
      BY <1>8, <2>2 DEF Encode
    <3>2. Knows(t)'
      BY <1>3, <1>7, <2>1, <2>2, <3>1 DEF Knows, Finishing
    <3> QED BY <1>1, <2>1, <3>1, <3>2, GoToGoesOn DEF Finishing
  <2>3. CASE ~file.encodes
    <3>1. FinishWith(t, FALSE, "experimental write", None, file.bytes, file.voxels)
      BY <1>8, <2>3 DEF Encode
    <3>2. ~Passes(file)
      BY <2>3 DEF Passes
    <3> QED BY <1>1, <1>7, <2>1, <3>1, <3>2, FinishIsRight DEF Finishing
  <2> QED BY <2>2, <2>3
<1>9. CASE DecompressEncoded(t)
  <2>1. worker[t].step = "decompress_encoded" /\ worker[t].step \in Encoding
    BY <1>9 DEF DecompressEncoded, At, Encoding
  <2>2. file.encodes
    BY <1>2, <2>1 DEF Knows
  <2>3. GoTo(t, "parse_encoded")
    BY <1>9 DEF DecompressEncoded
  <2>4. Knows(t)'
    BY <1>3, <1>7, <2>1, <2>2, <2>3 DEF Knows, Finishing
  <2> QED BY <1>1, <2>1, <2>3, <2>4, GoToGoesOn DEF Finishing
<1>10. CASE ParseEncoded(t)
  <2>1. worker[t].step = "parse_encoded" /\ worker[t].step \in Encoding
    BY <1>10 DEF ParseEncoded, At, Encoding
  <2>2. file.encodes
    BY <1>2, <2>1 DEF Knows
  <2>3. CASE ~file.encoded.decodes
    <3>1. FinishWith(t, FALSE, "experimental decode", None, file.bytes, file.voxels)
      BY <1>10, <2>3 DEF ParseEncoded
    <3>2. ~Passes(file)
      BY <2>3 DEF Passes
    <3> QED BY <1>1, <1>7, <2>1, <3>1, <3>2, FinishIsRight DEF Finishing
  <2>4. CASE file.encoded.decodes /\ ~verify
    <3>1. FinishWith(t, TRUE, "decode", None, file.bytes, file.voxels)
      BY <1>10, <2>4 DEF ParseEncoded
    <3>2. Passes(file)
      BY <1>7, <2>1, <2>2, <2>4 DEF Passes
    <3> QED BY <1>1, <1>7, <2>1, <3>1, <3>2, FinishIsRight DEF Finishing
  <2>5. CASE file.encoded.decodes /\ verify
    <3>1. GoTo(t, "verify")
      BY <1>10, <2>5 DEF ParseEncoded
    <3>2. Knows(t)'
      BY <1>1, <1>3, <1>7, <2>1, <2>2, <2>5, <3>1 DEF Knows, Finishing
    <3> QED BY <1>1, <2>1, <3>1, <3>2, GoToGoesOn DEF Finishing
  <2> QED BY <2>3, <2>4, <2>5
<1>11. CASE VerifyRegion(t)
  <2> DEFINE equal == SemanticallyEqual(t)
  <2>1. worker[t].step = "verify" /\ worker[t].step \in Encoding
    BY <1>11 DEF VerifyRegion, At, Encoding
  <2>2. file.encodes /\ file.encoded.decodes /\ verify
    BY <1>2, <2>1 DEF Knows
  <2>3. FinishWith(t, equal, "integrity", equal, file.bytes, file.voxels)
    BY <1>11 DEF VerifyRegion
  <2>4. equal \in BOOLEAN /\ (equal <=> file.faithful)
    BY HoldsOwnBytes DEF SemanticallyEqual, RegionsKeepTheirBytes
  <2>5. equal <=> Passes(file)
    BY <1>7, <2>1, <2>2, <2>4 DEF Passes
  <2> HIDE DEF equal
  <2> QED BY <1>1, <1>7, <2>1, <2>3, <2>4, <2>5, FinishIsRight DEF Finishing
<1> QED BY <1>4, <1>5, <1>6, <1>8, <1>9, <1>10, <1>11

(* Counting a file leaves its result and its files alone.                  *)
LEMMA CountMoves ==
  ASSUME BInv, RInv, NEW t \in Threads, NEW from \in Finishing, NEW to \in Finishing,
         NEW counter, NEW n, Count(t, from, counter, n, to), to # "inc_failed"
  PROVE  /\ worker[t].at \in begun
         /\ CountersAreRight' => RInv'
         /\ worker[t].step = from
         /\ IsRight(worker[t].result, FileOf(t))
         /\ paths' = paths /\ Total' = Total
         /\ \A file : Passes(file)' <=> Passes(file)
         /\ \A steps : /\ worker[t].at \in Past(steps) <=> from \in steps
                       /\ worker[t].at \in Past(steps)' <=> to \in steps
                       /\ \A i : i # worker[t].at => (i \in Past(steps)' <=> i \in Past(steps))
<1>1. /\ worker[t].step = from /\ GoTo(t, to)
      /\ UNCHANGED <<paths, verify, begun, results, reporter, main>>
  BY DEF Count, At
<1>2. /\ OnlyMoves(t) /\ worker'[t].step = to /\ worker'[t].at = worker[t].at
      /\ worker'[t].result = worker[t].result
  <2>1. WorkersAre
    BY DEF BInv
  <2>2. OnlyMoves(t) /\ worker'[t].step = to /\ worker'[t].at = worker[t].at
    BY <1>1, <2>1, GoToMoves
  <2>3. worker'[t].result = worker[t].result
    BY <1>1, <2>1 DEF GoTo, WorkersAre
  <2> QED BY <2>2, <2>3
<1>3. GoesOn(t)
  BY <1>1, <1>2 DEF GoesOn, At, Finishing
<1>4. FileOf(t)' = FileOf(t)
  BY <1>1, <1>2 DEF FileOf
<1>5. Knows(t) /\ IsRight(worker[t].result, FileOf(t))
  BY <1>1 DEF RInv, Knows
<1>6. Knows(t)'
  <2>1. IsRight(worker[t].result, FileOf(t))'
    BY <1>1, <1>2, <1>4, <1>5 DEF IsRight, Passes
  <2>2. worker'[t].step \notin {"decompress", "parse"} \cup Encoding
    BY <1>2 DEF Finishing, Encoding
  <2> QED BY <1>2, <2>1, <2>2 DEF Knows, Encoding
<1>7. /\ FilesAre' /\ \A u \in Threads : Knows(u)'
      /\ \A file : Passes(file)' <=> Passes(file)
      /\ Total' = Total
  BY <1>1, <1>2, <1>6, OthersKnow DEF Total
<1>8. /\ worker[t].at \in begun /\ FilesAreShared'
      /\ \A steps : /\ worker[t].at \in Past(steps) <=> from \in steps
                    /\ worker[t].at \in Past(steps)' <=> to \in steps
                    /\ \A i : i # worker[t].at => (i \in Past(steps)' <=> i \in Past(steps))
  BY <1>1, <1>2, <1>3, PastMoves DEF RInv
<1>9. Past({})' = Past({})
  <2>1. worker[t].at \notin Past({}) /\ worker[t].at \notin Past({})'
    BY <1>8
  <2>2. \A i : i \in Past({})' <=> i \in Past({})
    BY <1>8, <2>1
  <2> QED BY <2>2
<1>10. ResultsAreRight'
  BY <1>1, <1>7, <1>9 DEF RInv, ResultsAreRight, IsRight
<1> QED BY <1>1, <1>5, <1>7, <1>8, <1>9, <1>10 DEF RInv

LEMMA IncFailedIsRight ==
  ASSUME BInv, RInv, NEW t \in Threads, IncFailed(t)
  PROVE  RInv'
<1> DEFINE at == worker[t].at
<1>1. /\ "inc_failed" \in Finishing /\ "inc_done" \in Finishing
      /\ Count(t, "inc_failed", "failed", 1, "inc_done")
  BY DEF Finishing, IncFailed
<1>2. /\ at \in begun
      /\ CountersAreRight' => RInv'
      /\ worker[t].step = "inc_failed"
      /\ paths' = paths /\ Total' = Total
      /\ \A file : Passes(file)' <=> Passes(file)
      /\ \A steps : /\ at \in Past(steps) <=> "inc_failed" \in steps
                    /\ at \in Past(steps)' <=> "inc_done" \in steps
                    /\ \A i : i # at => (i \in Past(steps)' <=> i \in Past(steps))
  BY <1>1, CountMoves
<1>3. progress' = [progress EXCEPT !["failed"] = @ + 1]
  BY DEF IncFailed, Count
<1>4. /\ Past(Counted)' = Past(Counted)
      /\ Past({"add_voxels", "return"})' = Past({"add_voxels", "return"})
      /\ Past({"return"})' = Past({"return"})
  <2>1. \A steps : steps \subseteq Counted => at \notin Past(steps) /\ at \notin Past(steps)'
    BY <1>2 DEF Counted
  <2>2. \A steps : steps \subseteq Counted => Past(steps)' = Past(steps)
    <3> SUFFICES ASSUME NEW steps, steps \subseteq Counted
                 PROVE  Past(steps)' = Past(steps)
      OBVIOUS
    <3>1. at \notin Past(steps) /\ at \notin Past(steps)'
      BY <2>1
    <3>2. \A i : i # at => (i \in Past(steps)' <=> i \in Past(steps))
      BY <1>2
    <3> QED BY ONLY <3>1, <3>2
  <2> QED BY <2>2 DEF Counted
<1>5. AddedBytes' = AddedBytes /\ AddedVoxels' = AddedVoxels
  BY <1>2, <1>4 DEF AddedBytes, AddedVoxels
<1>6. FailedFiles' = FailedFiles \cup {at} /\ at \notin FailedFiles
  <2>1. ~Passes(paths[at])
    BY <1>2 DEF RInv, Knows, FileOf
  <2>2. at \in Past({"inc_done"} \cup Counted)' /\ at \notin Past({"inc_done"} \cup Counted)
    BY <1>2 DEF Counted
  <2>3. at \in FailedFiles' /\ at \notin FailedFiles
    BY <1>2, <2>1, <2>2 DEF FailedFiles
  <2>4. \A i : i # at => (i \in FailedFiles' <=> i \in FailedFiles)
    BY <1>2 DEF FailedFiles
  <2> QED BY <2>3, <2>4
<1>7. Cardinality(FailedFiles') = Cardinality(FailedFiles) + 1
  <2>1. FailedFiles \subseteq begun
    BY DEF FailedFiles, Past
  <2>2. IsFiniteSet(FailedFiles)
    BY <2>1, FilesAreFinite DEF RInv
  <2> QED BY <1>6, <2>2, FS_AddElement
<1>8. progress' = [done |-> Cardinality(Past(Counted)),
                   failed |-> Cardinality(FailedFiles) + 1,
                   bytes_in |-> SumTo(AddedBytes, Total),
                   voxels_in |-> SumTo(AddedVoxels, Total)]
  BY <1>3 DEF RInv, CountersAreRight
<1> QED BY <1>2, <1>4, <1>5, <1>7, <1>8, CountersAgain

LEMMA IncDoneIsRight ==
  ASSUME BInv, RInv, NEW t \in Threads, IncDone(t)
  PROVE  RInv'
<1> DEFINE at == worker[t].at
<1>1. /\ "add_bytes" \in Finishing /\ "inc_done" \in Finishing
      /\ Count(t, "inc_done", "done", 1, "add_bytes")
  BY DEF Finishing, IncDone
<1>2. /\ at \in begun
      /\ CountersAreRight' => RInv'
      /\ paths' = paths /\ Total' = Total
      /\ \A file : Passes(file)' <=> Passes(file)
      /\ \A steps : /\ at \in Past(steps) <=> "inc_done" \in steps
                    /\ at \in Past(steps)' <=> "add_bytes" \in steps
                    /\ \A i : i # at => (i \in Past(steps)' <=> i \in Past(steps))
  BY <1>1, CountMoves
<1>3. progress' = [progress EXCEPT !["done"] = @ + 1]
  BY DEF IncDone, Count
<1>4. ASSUME NEW steps, "inc_done" \in steps <=> "add_bytes" \in steps
      PROVE  Past(steps)' = Past(steps)
  <2>1. \A i : i \in Past(steps)' <=> i \in Past(steps)
    BY <1>2, <1>4
  <2> QED BY <2>1
<1>5. /\ Past({"inc_done"} \cup Counted)' = Past({"inc_done"} \cup Counted)
      /\ Past({"add_voxels", "return"})' = Past({"add_voxels", "return"})
      /\ Past({"return"})' = Past({"return"})
  BY <1>4 DEF Counted
<1>6. /\ AddedBytes' = AddedBytes /\ AddedVoxels' = AddedVoxels
      /\ FailedFiles' = FailedFiles
  BY <1>2, <1>5 DEF AddedBytes, AddedVoxels, FailedFiles
<1>7. Past(Counted)' = Past(Counted) \cup {at} /\ at \notin Past(Counted)
  <2>1. at \in Past(Counted)' /\ at \notin Past(Counted)
    BY <1>2 DEF Counted
  <2> QED BY <1>2, <2>1
<1>8. Cardinality(Past(Counted)') = Cardinality(Past(Counted)) + 1
  <2>1. Past(Counted) \subseteq begun
    BY DEF Past
  <2>2. IsFiniteSet(Past(Counted))
    BY <2>1, FilesAreFinite DEF RInv
  <2> QED BY <1>7, <2>2, FS_AddElement
<1>9. progress' = [done |-> Cardinality(Past(Counted)) + 1,
                   failed |-> Cardinality(FailedFiles),
                   bytes_in |-> SumTo(AddedBytes, Total),
                   voxels_in |-> SumTo(AddedVoxels, Total)]
  BY <1>3 DEF RInv, CountersAreRight
<1> QED BY <1>2, <1>6, <1>8, <1>9, CountersAgain

(* What the files may add to the counters.                                 *)
LEMMA NumbersOf ==
  ASSUME RInv, NEW i \in 1..Total
  PROVE  /\ BytesOf(paths[i]) \in Int /\ VoxelsOf(paths[i]) \in Int
         /\ AddedBytes[i] \in Int /\ AddedVoxels[i] \in Int
<1>1. BytesOf(paths[i]) \in Int /\ VoxelsOf(paths[i]) \in Int
  BY DEF RInv, FilesAre, BytesOf, VoxelsOf
<1> QED BY <1>1 DEF AddedBytes, AddedVoxels

LEMMA AddBytesIsRight ==
  ASSUME BInv, RInv, NEW t \in Threads, AddBytes(t)
  PROVE  RInv'
<1> DEFINE at == worker[t].at
           n == worker[t].result.original_bytes
<1>1. /\ "add_bytes" \in Finishing /\ "add_voxels" \in Finishing
      /\ Count(t, "add_bytes", "bytes_in", n, "add_voxels")
  BY DEF Finishing, AddBytes, Count
<1>2. /\ at \in begun
      /\ CountersAreRight' => RInv'
      /\ IsRight(worker[t].result, FileOf(t))
      /\ paths' = paths /\ Total' = Total
      /\ \A file : Passes(file)' <=> Passes(file)
      /\ \A steps : /\ at \in Past(steps) <=> "add_bytes" \in steps
                    /\ at \in Past(steps)' <=> "add_voxels" \in steps
                    /\ \A i : i # at => (i \in Past(steps)' <=> i \in Past(steps))
  BY <1>1, CountMoves
<1>3. progress' = [progress EXCEPT !["bytes_in"] = @ + n]
  BY <1>1 DEF Count
<1>4. n = BytesOf(paths[at]) /\ at \in 1..Total /\ Total \in Nat
  <2>1. begun \subseteq 1..Total /\ Total \in Nat
    BY DEF RInv, FilesAreShared, FilesAre
  <2> QED BY <1>2, <2>1 DEF IsRight, FileOf
<1>5. ASSUME NEW steps, "add_bytes" \in steps <=> "add_voxels" \in steps
      PROVE  Past(steps)' = Past(steps)
  <2>1. \A i : i \in Past(steps)' <=> i \in Past(steps)
    BY <1>2, <1>5
  <2> QED BY <2>1
<1>6. /\ Past({"inc_done"} \cup Counted)' = Past({"inc_done"} \cup Counted)
      /\ Past(Counted)' = Past(Counted)
      /\ Past({"return"})' = Past({"return"})
  BY <1>5 DEF Counted
<1>7. AddedVoxels' = AddedVoxels /\ FailedFiles' = FailedFiles
  BY <1>2, <1>6 DEF AddedVoxels, FailedFiles
<1>8. /\ at \in Past({"add_voxels", "return"})' /\ at \notin Past({"add_voxels", "return"})
      /\ \A i : i # at =>
           (i \in Past({"add_voxels", "return"})' <=> i \in Past({"add_voxels", "return"}))
  BY <1>2
<1>9. ASSUME NEW i \in 1..Total
      PROVE  /\ AddedBytes[i] \in Int
             /\ AddedBytes'[i] = IF i = at THEN AddedBytes[i] + n ELSE AddedBytes[i]
  <2>1. BytesOf(paths[i]) \in Int /\ AddedBytes[i] \in Int
    BY NumbersOf
  <2>2. /\ AddedBytes[i] = IF i \in Past({"add_voxels", "return"}) THEN BytesOf(paths[i]) ELSE 0
        /\ AddedBytes'[i] = IF i \in Past({"add_voxels", "return"})' THEN BytesOf(paths[i]) ELSE 0
    BY <1>2 DEF AddedBytes
  <2> HIDE DEF n
  <2> QED BY <1>4, <1>8, <2>1, <2>2
<1>10. n \in Int
  BY <1>4, NumbersOf
<1> HIDE DEF n
<1>11. SumTo(AddedBytes', Total) = SumTo(AddedBytes, Total) + n
  <2> DEFINE f == AddedBytes
             g == AddedBytes'
  <2>1. \A i \in 1..Total : f[i] \in Int /\ g[i] = IF i = at THEN f[i] + n ELSE f[i]
    BY <1>9
  <2> HIDE DEF f, g, at
  <2>2. SumTo(g, Total) = SumTo(f, Total) + n
    BY <1>4, <1>10, <2>1, SumChanges
  <2> QED BY <2>2 DEF f, g
<1>12. progress' = [done |-> Cardinality(Past(Counted)),
                    failed |-> Cardinality(FailedFiles),
                    bytes_in |-> SumTo(AddedBytes, Total) + n,
                    voxels_in |-> SumTo(AddedVoxels, Total)]
  BY <1>3 DEF RInv, CountersAreRight
<1> QED BY <1>2, <1>6, <1>7, <1>11, <1>12, CountersAgain

LEMMA AddVoxelsIsRight ==
  ASSUME BInv, RInv, NEW t \in Threads, AddVoxels(t)
  PROVE  RInv'
<1> DEFINE at == worker[t].at
           n == worker[t].result.voxels
<1>1. /\ "add_voxels" \in Finishing /\ "return" \in Finishing
      /\ Count(t, "add_voxels", "voxels_in", n, "return")
  BY DEF Finishing, AddVoxels, Count
<1>2. /\ at \in begun
      /\ CountersAreRight' => RInv'
      /\ IsRight(worker[t].result, FileOf(t))
      /\ paths' = paths /\ Total' = Total
      /\ \A file : Passes(file)' <=> Passes(file)
      /\ \A steps : /\ at \in Past(steps) <=> "add_voxels" \in steps
                    /\ at \in Past(steps)' <=> "return" \in steps
                    /\ \A i : i # at => (i \in Past(steps)' <=> i \in Past(steps))
  BY <1>1, CountMoves
<1>3. progress' = [progress EXCEPT !["voxels_in"] = @ + n]
  BY <1>1 DEF Count
<1>4. n = VoxelsOf(paths[at]) /\ at \in 1..Total /\ Total \in Nat
  <2>1. begun \subseteq 1..Total /\ Total \in Nat
    BY DEF RInv, FilesAreShared, FilesAre
  <2> QED BY <1>2, <2>1 DEF IsRight, FileOf
<1>5. ASSUME NEW steps, "add_voxels" \in steps <=> "return" \in steps
      PROVE  Past(steps)' = Past(steps)
  <2>1. \A i : i \in Past(steps)' <=> i \in Past(steps)
    BY <1>2, <1>5
  <2> QED BY <2>1
<1>6. /\ Past({"inc_done"} \cup Counted)' = Past({"inc_done"} \cup Counted)
      /\ Past(Counted)' = Past(Counted)
      /\ Past({"add_voxels", "return"})' = Past({"add_voxels", "return"})
  BY <1>5 DEF Counted
<1>7. AddedBytes' = AddedBytes /\ FailedFiles' = FailedFiles
  BY <1>2, <1>6 DEF AddedBytes, FailedFiles
<1>8. /\ at \in Past({"return"})' /\ at \notin Past({"return"})
      /\ \A i : i # at => (i \in Past({"return"})' <=> i \in Past({"return"}))
  BY <1>2
<1>9. ASSUME NEW i \in 1..Total
      PROVE  /\ AddedVoxels[i] \in Int
             /\ AddedVoxels'[i] = IF i = at THEN AddedVoxels[i] + n ELSE AddedVoxels[i]
  <2>1. VoxelsOf(paths[i]) \in Int /\ AddedVoxels[i] \in Int
    BY NumbersOf
  <2>2. /\ AddedVoxels[i] = IF i \in Past({"return"}) THEN VoxelsOf(paths[i]) ELSE 0
        /\ AddedVoxels'[i] = IF i \in Past({"return"})' THEN VoxelsOf(paths[i]) ELSE 0
    BY <1>2 DEF AddedVoxels
  <2> HIDE DEF n
  <2> QED BY <1>4, <1>8, <2>1, <2>2
<1>10. n \in Int
  BY <1>4, NumbersOf
<1> HIDE DEF n
<1>11. SumTo(AddedVoxels', Total) = SumTo(AddedVoxels, Total) + n
  <2> DEFINE f == AddedVoxels
             g == AddedVoxels'
  <2>1. \A i \in 1..Total : f[i] \in Int /\ g[i] = IF i = at THEN f[i] + n ELSE f[i]
    BY <1>9
  <2> HIDE DEF f, g, at
  <2>2. SumTo(g, Total) = SumTo(f, Total) + n
    BY <1>4, <1>10, <2>1, SumChanges
  <2> QED BY <2>2 DEF f, g
<1>12. progress' = [done |-> Cardinality(Past(Counted)),
                    failed |-> Cardinality(FailedFiles),
                    bytes_in |-> SumTo(AddedBytes, Total),
                    voxels_in |-> SumTo(AddedVoxels, Total) + n]
  BY <1>3 DEF RInv, CountersAreRight
<1> QED BY <1>2, <1>6, <1>7, <1>11, <1>12, CountersAgain

(* The worker returns the result and is idle again.                        *)
LEMMA ReturnIsRight ==
  ASSUME BInv, RInv, NEW t \in Threads, Return(t)
  PROVE  RInv'
<1> DEFINE at == worker[t].at
<1>1. /\ worker[t].step = "return" /\ ~At(t, "idle")
      /\ results' = [results EXCEPT ![at] = worker[t].result]
      /\ worker' = [worker EXCEPT ![t] = Idle]
      /\ UNCHANGED <<paths, verify, begun, progress, reporter, main>>
  BY DEF Return, At
<1>2. OnlyMoves(t) /\ worker'[t].step = "idle"
  BY <1>1 DEF BInv, WorkersAre, OnlyMoves, Idle
<1>3. Knows(t)'
  BY <1>2 DEF Knows, Encoding, Finishing
<1>4. /\ FilesAre' /\ \A u \in Threads : Knows(u)'
      /\ \A file : Passes(file)' <=> Passes(file)
      /\ Total' = Total
  BY <1>1, <1>2, <1>3, OthersKnow DEF Total
<1>5. at \in begun /\ at \in 1..Total /\ Total \in Nat
  BY <1>1 DEF RInv, FilesAreShared, FilesAre
<1>6. /\ \A u \in Threads : \A i : Has(u, i)' <=> Has(u, i) /\ u # t
      /\ \A u \in Threads : u # t => worker'[u] = worker[u]
  BY <1>2 DEF Has, At, OnlyMoves
<1>7. \A u \in Threads : Has(u, at) <=> u = t
  BY <1>1, <1>5 DEF RInv, FilesAreShared, Has
<1>8. FilesAreShared'
  <2>1. FilesAreShared
    BY DEF RInv
  <2>2. \A u \in Threads : ~At(u, "idle")' => ~At(u, "idle") /\ worker'[u].at = worker[u].at
    BY <1>2 DEF At, OnlyMoves
  <2> QED BY <1>1, <1>4, <1>6, <2>1, <2>2 DEF FilesAreShared
<1>9. ASSUME NEW steps
      PROVE  Past(steps)' = Past(steps) \cup {at}
  <2>1. at \in Past(steps)'
    BY <1>1, <1>5, <1>6, <1>7 DEF Past
  <2>2. ASSUME NEW i, i # at
        PROVE  i \in Past(steps)' <=> i \in Past(steps)
    <3>1. ~Has(t, i)
      BY <2>2 DEF Has
    <3> QED BY <1>1, <1>6, <3>1 DEF Past
  <2> QED BY <2>1, <2>2
<1>10. ASSUME NEW steps, "return" \in steps
       PROVE  Past(steps)' = Past(steps)
  <2>1. at \in Past(steps)
    BY <1>1, <1>5, <1>7, <1>10 DEF Past
  <2> QED BY <1>9, <2>1
<1>11. /\ Past(Counted)' = Past(Counted)
       /\ Past({"inc_done"} \cup Counted)' = Past({"inc_done"} \cup Counted)
       /\ Past({"add_voxels", "return"})' = Past({"add_voxels", "return"})
       /\ Past({"return"})' = Past({"return"})
  BY <1>10 DEF Counted
<1>12. CountersAreRight'
  <2>1. AddedBytes' = AddedBytes /\ AddedVoxels' = AddedVoxels /\ FailedFiles' = FailedFiles
    BY <1>1, <1>4, <1>11 DEF AddedBytes, AddedVoxels, FailedFiles
  <2> QED BY <1>1, <1>4, <1>11, <2>1, CountersAgain DEF RInv, CountersAreRight
<1>13. ResultsAreRight'
  <2>1. ResultsAreRight
    BY DEF RInv
  <2>2. DOMAIN results' = 1..Total /\ results'[at] = worker[t].result
        /\ \A i \in 1..Total : i # at => results'[i] = results[i]
    BY <1>1, <1>5, <2>1 DEF ResultsAreRight
  <2>3. IsRight(results'[at], paths[at])
    BY <1>1, <2>2 DEF RInv, Knows, Finishing, FileOf
  <2>4. \A i \in 1..Total : IF i \in Past({})' THEN IsRight(results'[i], paths[i])
                                               ELSE results'[i] = None
    BY <1>9, <2>1, <2>2, <2>3 DEF ResultsAreRight
  <2>5. \A i \in 1..Total : IsRight(results'[i], paths[i]) => IsRight(results[i], paths[i])'
    BY <1>1, <1>4 DEF IsRight
  <2> QED BY <1>4, <2>2, <2>4, <2>5 DEF ResultsAreRight
<1>14. main' # "collect" => 1..Total' \subseteq Past({})'
  BY <1>1, <1>4, <1>9 DEF RInv
<1>15. reporter'.done <= Total'
  BY <1>1, <1>4 DEF RInv
<1> QED BY <1>4, <1>8, <1>12, <1>13, <1>14, <1>15 DEF RInv

(* The next file is handed out.                                            *)
LEMMA BeginIsRight ==
  ASSUME BInv, RInv, NEW t \in Threads, Begin(t)
  PROVE  RInv'
<1>1. PICK new \in (1..Total) \ begun :
         /\ At(t, "idle") /\ begun' = begun \cup {new}
         /\ worker' = [worker EXCEPT ![t] = [Idle EXCEPT !.step = "read", !.at = new]]
         /\ UNCHANGED <<paths, verify, progress, results, reporter, main>>
  BY DEF Begin
<1>2. OnlyMoves(t) /\ worker'[t].step = "read" /\ worker'[t].at = new
  BY <1>1 DEF BInv, WorkersAre, OnlyMoves, Idle
<1>3. Knows(t)'
  BY <1>2 DEF Knows, Encoding, Finishing
<1>4. /\ FilesAre' /\ \A u \in Threads : Knows(u)'
      /\ \A file : Passes(file)' <=> Passes(file)
      /\ Total' = Total
  BY <1>1, <1>2, <1>3, OthersKnow DEF Total
<1>5. /\ begun' = begun \cup {new} /\ new \notin begun
      /\ begun \subseteq 1..Total /\ new \in 1..Total
  BY <1>1 DEF RInv, FilesAreShared
<1>6. \A u \in Threads : \A i \in begun : Has(u, i)' <=> Has(u, i)
  BY <1>1, <1>2, <1>5 DEF Has, At, OnlyMoves
<1>7. \A u \in Threads : Has(u, new)' <=> u = t
  <2>1. \A u \in Threads : ~Has(u, new)
    BY <1>5 DEF RInv, FilesAreShared, Has
  <2>2. Has(t, new)'
    BY <1>2, <1>5 DEF Has, At
  <2>3. \A u \in Threads : u # t => (Has(u, new)' <=> Has(u, new))
    BY <1>2 DEF Has, At, OnlyMoves
  <2> QED BY <2>1, <2>2, <2>3
<1>8. FilesAreShared'
  <2>1. \A u \in Threads : ~At(u, "idle")' => worker'[u].at \in begun'
    BY <1>1, <1>2, <1>5 DEF RInv, FilesAreShared, OnlyMoves, At
  <2>2. ASSUME NEW u \in Threads, NEW v \in Threads, NEW i \in begun', Has(u, i)', Has(v, i)'
        PROVE  u = v
    <3>1. CASE i = new
      BY <1>7, <2>2, <3>1
    <3>2. CASE i \in begun
      BY <1>6, <2>2, <3>2 DEF RInv, FilesAreShared
    <3> QED BY <1>5, <3>1, <3>2
  <2>3. begun' \subseteq 1..Total'
    BY <1>4, <1>5
  <2> QED BY <2>1, <2>2, <2>3 DEF FilesAreShared
<1>9. ASSUME NEW steps, "read" \notin steps
      PROVE  Past(steps)' = Past(steps)
  <2>1. new \notin Past(steps)'
    BY <1>2, <1>7, <1>9 DEF Past
  <2>2. ASSUME NEW i \in begun
        PROVE  i \in Past(steps)' <=> i \in Past(steps)
    <3>1. \A u \in Threads : Has(u, i) => worker'[u] = worker[u]
      BY <1>1, <1>2 DEF Has, OnlyMoves
    <3>2. i \in begun'
      BY <1>5
    <3> QED BY <1>6, <3>1, <3>2 DEF Past
  <2>3. Past(steps)' \subseteq begun' /\ Past(steps) \subseteq begun
    BY DEF Past
  <2> QED BY <1>5, <2>1, <2>2, <2>3
<1>10. /\ Past({})' = Past({})
       /\ Past(Counted)' = Past(Counted)
       /\ Past({"inc_done"} \cup Counted)' = Past({"inc_done"} \cup Counted)
       /\ Past({"add_voxels", "return"})' = Past({"add_voxels", "return"})
       /\ Past({"return"})' = Past({"return"})
  BY <1>9 DEF Counted
<1>11. CountersAreRight'
  <2>1. AddedBytes' = AddedBytes /\ AddedVoxels' = AddedVoxels /\ FailedFiles' = FailedFiles
    BY <1>1, <1>4, <1>10 DEF AddedBytes, AddedVoxels, FailedFiles
  <2> QED BY <1>1, <1>4, <1>10, <2>1, CountersAgain DEF RInv, CountersAreRight
<1>12. ResultsAreRight'
  BY <1>1, <1>4, <1>10 DEF RInv, ResultsAreRight, IsRight
<1> QED BY <1>1, <1>4, <1>8, <1>10, <1>11, <1>12 DEF RInv

(* What the reporter and the main thread do leaves the workers alone.      *)
LEMMA OthersAreRight ==
  ASSUME RInv, UNCHANGED <<paths, verify, begun, worker, progress, results>>,
         reporter'.done <= Total,
         main' # "collect" => 1..Total \subseteq Past({})
  PROVE  RInv'
<1>1. \A steps : Past(steps)' = Past(steps)
  BY DEF Past, Has, At
<1>2. Total' = Total /\ FilesAre' /\ \A file : Passes(file)' <=> Passes(file)
  BY DEF RInv, FilesAre, Total, Passes
<1>3. FilesAreShared'
  BY <1>2 DEF RInv, FilesAreShared, Has, At
<1>4. \A t \in Threads : Knows(t)'
  BY <1>2 DEF RInv, Knows, IsRight, FileOf
<1>5. ResultsAreRight'
  BY <1>1, <1>2 DEF RInv, ResultsAreRight, IsRight
<1>6. CountersAreRight'
  <2>1. AddedBytes' = AddedBytes /\ AddedVoxels' = AddedVoxels /\ FailedFiles' = FailedFiles
    BY <1>1, <1>2 DEF AddedBytes, AddedVoxels, FailedFiles
  <2> QED BY <1>1, <1>2, <2>1, CountersAgain DEF RInv, CountersAreRight
<1> QED BY <1>1, <1>2, <1>3, <1>4, <1>5, <1>6 DEF RInv

LEMMA ReporterIsRight ==
  ASSUME RInv, Reporter
  PROVE  RInv'
<1>1. UNCHANGED <<paths, verify, begun, worker, progress, results, main>>
  BY DEF Reporter, CheckStop, LoadDone, PrintAndSleep, Report
<1>2. Past(Counted) \subseteq begun /\ Total \in Nat
  BY DEF Past, RInv, FilesAre
<1>3. progress.done <= Total
  BY <1>2, FilesAreFinite DEF RInv, CountersAreRight
<1>4. reporter'.done \in {0, progress.done}
  BY DEF Reporter, CheckStop, LoadDone, PrintAndSleep, Report
<1>5. reporter'.done <= Total
  BY <1>2, <1>3, <1>4
<1> QED BY <1>1, <1>5, OthersAreRight DEF RInv

LEMMA MainIsRight ==
  ASSUME RInv, Main
  PROVE  RInv'
<1>1. UNCHANGED <<paths, verify, begun, worker, progress, results, reporter>>
  BY DEF Main, StopReporter, JoinReporter
<1>2. CASE StopReporter
  <2>1. \A i \in 1..Total : results[i] # None
    BY <1>2 DEF StopReporter
  <2>2. 1..Total \subseteq Past({})
    BY <2>1 DEF RInv, ResultsAreRight
  <2> QED BY <1>1, <2>2, OthersAreRight DEF RInv
<1>3. CASE JoinReporter
  <2>1. main # "collect"
    BY <1>3 DEF JoinReporter
  <2> QED BY <1>1, <2>1, OthersAreRight DEF RInv
<1> QED BY <1>2, <1>3 DEF Main

LEMMA ResultsStayRight == BInv /\ RInv /\ [BenchNext]_bench_vars => RInv'
<1> SUFFICES ASSUME BInv, RInv, [BenchNext]_bench_vars
             PROVE  RInv'
  OBVIOUS
<1>1. ASSUME NEW t \in Threads, Bench(t)
      PROVE  RInv'
  BY <1>1, WorkIsRight, IncFailedIsRight, IncDoneIsRight, AddBytesIsRight, AddVoxelsIsRight,
     ReturnIsRight DEF Bench
<1>2. CASE UNCHANGED bench_vars
  BY <1>2, OthersAreRight DEF bench_vars, RInv
<1> QED BY <1>1, <1>2, BeginIsRight, ReporterIsRight, MainIsRight DEF BenchNext

LEMMA ResultsInvariance == BenchSpec => []RInv
<1>1. BenchInit => RInv
  BY NothingCountedAtFirst
<1>2. BInv /\ RInv /\ [BenchNext]_bench_vars => RInv'
  BY ResultsStayRight
<1> QED BY <1>1, <1>2, BenchInvariance, PTL DEF BenchSpec

(* Once all have returned, the counters are the sums over the results.     *)
LEMMA SumOfResults ==
  ASSUME FilesAre, NEW field, NEW f,
         \A i \in 1..Total : f[i] \in Int /\ results[i][field] = f[i]
  PROVE  SumOf(field) = SumTo(f, Total)
<1> DEFINE n == Total
           Sums(u) == u = [k \in 0..n |-> IF k = 0 THEN 0 ELSE u[k - 1] + results[k][field]]
           sum == CHOOSE u : Sums(u)
<1>1. SumOf(field) = sum[n]
  BY DEF SumOf
<1>2. n \in Nat
  BY DEF FilesAre
<1> HIDE DEF n
<1>3. PICK s : IsSum(s, f, n) /\ s = [k \in 0..n |-> IF k = 0 THEN 0 ELSE s[k - 1] + f[k]]
  <2>1. \A k \in 1..n : f[k] \in Int
    BY DEF n
  <2> QED BY <1>2, <2>1, SumExists
<1>4. Sums(s)
  <2>1. \A k \in 0..n : k = 0 \/ k \in 1..n
    BY <1>2
  <2>2. \A k \in 1..n : results[k][field] = f[k]
    BY DEF n
  <2>3. \A k \in 0..n : s[k] = IF k = 0 THEN 0 ELSE s[k - 1] + f[k]
    BY <1>3
  <2>4. \A k \in 0..n : s[k] = IF k = 0 THEN 0 ELSE s[k - 1] + results[k][field]
    BY <2>1, <2>2, <2>3
  <2> QED BY <1>3, <2>4 DEF IsSum
<1>5. Sums(sum)
  BY <1>4
<1> HIDE DEF sum
<1>6. IsSum(sum, f, n)
  <2>1. \A k \in 1..n : k \in 0..n /\ k # 0 /\ results[k][field] = f[k] /\ f[k] \in Int
    BY <1>2 DEF n
  <2>2. sum[0] = 0 /\ \A k \in 1..n : sum[k] = sum[k - 1] + f[k]
    BY <1>2, <1>5, <2>1
  <2> DEFINE Good == {k \in 0..n : sum[k] \in Int}
  <2>3. 0 \in Good
    BY <1>2, <2>2
  <2>4. ASSUME NEW k \in 0..(n - 1), k \in Good
        PROVE  k + 1 \in Good
    <3>1. k + 1 \in 1..n /\ k + 1 \in 0..n /\ (k + 1) - 1 = k
      BY <1>2
    <3>2. sum[k + 1] = sum[k] + f[k + 1]
      BY <2>2, <3>1
    <3> QED BY <2>1, <2>4, <3>1, <3>2
  <2> HIDE DEF Good
  <2>5. 0..n \subseteq Good
    BY <1>2, <2>3, <2>4, AllUpTo
  <2>6. sum \in [0..n -> Int]
    BY <1>5, <2>5 DEF Good
  <2> QED BY <2>2, <2>6 DEF IsSum
<1>7. SumTo(f, n) = sum[n]
  <2>1. \A k \in 1..n : f[k] \in Int
    BY DEF n
  <2> QED BY <1>2, <1>6, <2>1, SumIsUnique
<1> QED BY <1>1, <1>7 DEF n

(***************************************************************************)
(* At the summary every file of the sample has its result, which is that   *)
(* of the file whatever the other threads did meanwhile, and the shared    *)
(* counters agree with the results; the reporter never loaded more done    *)
(* files than there are.                                                   *)
(***************************************************************************)
THEOREM BenchResultsAreExact == BenchSpec => []ResultsAreExact
<1>1. ASSUME RInv
      PROVE  ResultsAreExact
  <2>1. /\ FilesAre /\ FilesAreShared /\ ResultsAreRight /\ CountersAreRight
        /\ reporter.done <= Total /\ Total \in Nat
    BY <1>1 DEF RInv, FilesAre
  <2> SUFFICES ASSUME main = "summary"
               PROVE  /\ \A i \in 1..Total : /\ results[i].path = paths[i].name
                                             /\ results[i].ok <=> Passes(paths[i])
                      /\ progress = [done |-> Total,
                                     failed |-> Cardinality({i \in 1..Total : ~results[i].ok}),
                                     bytes_in |-> SumOf("original_bytes"),
                                     voxels_in |-> SumOf("voxels")]
    BY <2>1 DEF ResultsAreExact, FilesAre
  <2>2. 1..Total \subseteq Past({})
    BY <1>1 DEF RInv
  <2>3. \A i \in 1..Total : IsRight(results[i], paths[i])
    BY <2>1, <2>2 DEF ResultsAreRight
  <2>4. ASSUME NEW steps
        PROVE  Past(steps) = 1..Total
    <3>1. Past({}) \subseteq Past(steps) /\ Past(steps) \subseteq begun
      BY DEF Past
    <3>2. begun \subseteq 1..Total
      BY <2>1 DEF FilesAreShared
    <3> QED BY <2>2, <3>1, <3>2
  <2>5. Cardinality(Past(Counted)) = Total
    <3>1. Cardinality(1..Total) = Total
      BY <2>1, FS_Interval
    <3> QED BY <2>4, <3>1
  <2>6. FailedFiles = {i \in 1..Total : ~results[i].ok}
    <3>1. FailedFiles = {i \in 1..Total : ~Passes(paths[i])}
      BY <2>4 DEF FailedFiles
    <3> QED BY <2>3, <3>1 DEF IsRight
  <2>7. SumOf("original_bytes") = SumTo(AddedBytes, Total)
    <3>1. ASSUME NEW i \in 1..Total
          PROVE  AddedBytes[i] \in Int /\ results[i]["original_bytes"] = AddedBytes[i]
      <4>1. AddedBytes[i] = BytesOf(paths[i])
        BY <2>4 DEF AddedBytes
      <4> QED BY <1>1, <2>3, <4>1, NumbersOf DEF IsRight
    <3> QED BY <2>1, <3>1, SumOfResults
  <2>8. SumOf("voxels") = SumTo(AddedVoxels, Total)
    <3>1. ASSUME NEW i \in 1..Total
          PROVE  AddedVoxels[i] \in Int /\ results[i]["voxels"] = AddedVoxels[i]
      <4>1. AddedVoxels[i] = VoxelsOf(paths[i])
        BY <2>4 DEF AddedVoxels
      <4> QED BY <1>1, <2>3, <4>1, NumbersOf DEF IsRight
    <3> QED BY <2>1, <3>1, SumOfResults
  <2> QED BY <2>1, <2>3, <2>5, <2>6, <2>7, <2>8 DEF CountersAreRight, IsRight
<1> QED BY <1>1, ResultsInvariance, PTL

=============================================================================
