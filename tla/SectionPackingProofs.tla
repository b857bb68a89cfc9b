----------------------- MODULE SectionPackingProofs -----------------------
(***************************************************************************)
(* Proofs about SectionPacking, for sections of any size, bytes and words  *)
(* of any width, any number of stamps and any sequence of sections.        *)
(*                                                                         *)
(* The stamps: a table never holds a stamp above the one it gave out last. *)
(* So the next one is new; and when the next one would be lower the table  *)
(* has just been cleared.                                                  *)
(*                                                                         *)
(* The packed sections, in four layers:                                    *)
(*  - bits: fields that are joined in a number are its fields, a field of  *)
(*    a field is a field, and so what was packed in words or bytes is      *)
(*    unpacked from either;                                                *)
(*  - palettes: the first cells, in any order of their atoms, list every   *)
(*    atom of the section once, and an index of the width they need fits;  *)
(*  - tables: for a table without marks of the section the palette is that *)
(*    of the first cells, and searches for ranks end where they were put;  *)
(*  - actions: each leaves a packed section that unpacks to the cells.     *)
(***************************************************************************)
EXTENDS SectionPacking, NaturalSets, FiniteSetTheorems, TLAPS

(* A table whose stamps are none above the last one it gave out.           *)
IsTable(table, keys) ==
  /\ table = [f \in DOMAIN table |-> table[f]]
  /\ {"seen", "seen_gen"} \subseteq DOMAIN table
  /\ table.seen \in [keys -> 0..(STAMPS - 1)]
  /\ table.seen_gen \in 0..(STAMPS - 1)
  /\ \A k \in keys : table.seen[k] <= table.seen_gen

(* None of its entries bears the stamp of the section at hand.             *)
IsUnmarked(table, keys) == \A k \in keys : table.seen[k] # table.seen_gen

(* The inductive invariant.                                                *)
StampsBehind ==
  /\ IsTable(scratch, Atoms)
  /\ IsTable(pack, Atoms)
  /\ IsTable(members, Atoms)
  /\ IsTable(ranks, TablePositions)

-----------------------------------------------------------------------------

(* The stamp after the last is the next number or zero.                    *)
LEMMA NextStamp ==
  ASSUME NEW gen \in 0..(STAMPS - 1)
  PROVE  (gen + 1) % STAMPS = IF gen + 1 = STAMPS THEN 0 ELSE gen + 1
<1>1. STAMPS \in Nat /\ STAMPS > 1
  BY StampsOK
<1>2. gen \in Nat /\ gen + 1 <= STAMPS
  BY <1>1
<1>3. CASE gen + 1 = STAMPS
  <2>1. STAMPS % STAMPS = 0
    BY <1>1, SMTT(30)
  <2> QED BY <2>1, <1>3
<1>4. CASE gen + 1 < STAMPS
  BY <1>1, <1>2, <1>4, SMTT(30)
<1> QED BY <1>1, <1>2, <1>3, <1>4

(* The table of the next section is a table again, with no entry of the    *)
(* section's stamp, which is never the zero of cleared entries.            *)
LEMMA NextGenerationIsNew ==
  ASSUME NEW table, NEW keys, IsTable(table, keys)
  PROVE  /\ IsTable(NextGeneration(table), keys)
         /\ IsUnmarked(NextGeneration(table), keys)
<1> DEFINE gen == (table.seen_gen + 1) % STAMPS
           next == NextGeneration(table)
<1>1. STAMPS \in Nat /\ STAMPS > 1 /\ table.seen_gen \in 0..(STAMPS - 1)
  BY StampsOK DEF IsTable
<1>2. gen = IF table.seen_gen + 1 = STAMPS THEN 0 ELSE table.seen_gen + 1
  BY <1>1, NextStamp
<1>3. DOMAIN table.seen = keys
  BY DEF IsTable
<1>4. CASE gen = 0
  <2>1. next = [table EXCEPT !.seen = [k \in keys |-> 0], !.seen_gen = 1]
    BY <1>3, <1>4 DEF NextGeneration
  <2>2. DOMAIN next = DOMAIN table /\ next.seen = [k \in keys |-> 0] /\ next.seen_gen = 1
    BY <2>1 DEF IsTable
  <2>3. next = [f \in DOMAIN next |-> next[f]]
    BY <2>1
  <2> HIDE DEF next
  <2>4. IsTable(next, keys)
    BY <1>1, <2>2, <2>3 DEF IsTable
  <2>5. IsUnmarked(next, keys)
    BY <2>2 DEF IsUnmarked
  <2> QED BY <2>4, <2>5 DEF next
<1>5. CASE gen # 0
  <2>1. next = [table EXCEPT !.seen_gen = gen]
    BY <1>5 DEF NextGeneration
  <2>2. DOMAIN next = DOMAIN table /\ next.seen = table.seen /\ next.seen_gen = table.seen_gen + 1
    BY <2>1, <1>2, <1>5 DEF IsTable
  <2>3. next = [f \in DOMAIN next |-> next[f]]
    BY <2>1
  <2>4. table.seen_gen + 1 \in 0..(STAMPS - 1)
    BY <1>1, <1>2, <1>5
  <2> HIDE DEF next
  <2>5. IsTable(next, keys)
    BY <1>1, <2>2, <2>3, <2>4 DEF IsTable
  <2>6. IsUnmarked(next, keys)
    BY <1>1, <2>2, <2>4 DEF IsUnmarked, IsTable
  <2> QED BY <2>5, <2>6 DEF next
<1> QED BY <1>4, <1>5

(* Marking entries with the stamp at hand keeps a table one.               *)
LEMMA MarkedTableIsTable ==
  ASSUME NEW table, NEW cells, NEW indexed, IsTable(table, Atoms)
  PROVE  IsTable(MarkedTable(table, cells, indexed), Atoms)
<1> DEFINE marked == MarkedTable(table, cells, indexed)
<1>1. DOMAIN table.seen = Atoms
  BY DEF IsTable
<1>2. /\ marked = [f \in DOMAIN marked |-> marked[f]]
      /\ DOMAIN marked = DOMAIN table
      /\ marked.seen_gen = table.seen_gen
  BY DEF MarkedTable, IsTable
<1>3. marked.seen = [a \in Atoms |->
        IF a \in MarkedAtoms(table, cells) THEN table.seen_gen ELSE table.seen[a]]
  BY <1>1 DEF MarkedTable, IsTable
<1> HIDE DEF marked
<1>4. IsTable(marked, Atoms)
  BY <1>2, <1>3, StampsOK DEF IsTable
<1> QED BY <1>4 DEF marked

(* So does placing ranks.                                                  *)
LEMMA RankTableIsTable ==
  ASSUME NEW table, NEW placed, NEW indexed, IsTable(table, TablePositions)
  PROVE  IsTable(RankTable(table, placed, indexed), TablePositions)
<1> DEFINE filled == RankTable(table, placed, indexed)
<1>1. DOMAIN table.seen = TablePositions
  BY DEF IsTable
<1>2. /\ filled = [f \in DOMAIN filled |-> filled[f]]
      /\ DOMAIN filled = DOMAIN table
      /\ filled.seen_gen = table.seen_gen
  BY DEF RankTable, IsTable
<1>3. filled.seen = [at \in TablePositions |->
        IF at \in DOMAIN placed THEN table.seen_gen ELSE table.seen[at]]
  BY <1>1 DEF RankTable, IsTable
<1> HIDE DEF filled
<1>4. IsTable(filled, TablePositions)
  BY <1>2, <1>3, StampsOK DEF IsTable
<1> QED BY <1>4 DEF filled

(* The table of ranks for the next section.                                *)
LEMMA NextRankTableIsTable ==
  ASSUME NEW table, IsTable(table, TablePositions)
  PROVE  IsTable(NextRankTable(table), TablePositions)
<1> DEFINE next == NextGeneration(table)
           cleared == NextRankTable(table)
<1>1. IsTable(next, TablePositions)
  BY NextGenerationIsNew
<1> HIDE DEF next
<1>2. /\ cleared = [f \in DOMAIN cleared |-> cleared[f]]
      /\ DOMAIN cleared = DOMAIN next
      /\ cleared.seen_gen = next.seen_gen
      /\ cleared.seen = next.seen
  BY <1>1 DEF NextRankTable, IsTable, next
<1> HIDE DEF cleared
<1>3. IsTable(cleared, TablePositions)
  BY <1>1, <1>2 DEF IsTable
<1> QED BY <1>3 DEF cleared

-----------------------------------------------------------------------------
(* The stamps                                                              *)

LEMMA StampsBehindInit == Init => StampsBehind
<1> SUFFICES ASSUME Init PROVE StampsBehind
  OBVIOUS
<1>1. STAMPS \in Nat /\ STAMPS > 1
  BY StampsOK
<1>2. ASSUME NEW keys PROVE IsTable(NewTable(keys), keys)
  BY <1>1 DEF IsTable, NewTable
<1>3. IsTable(ranks, TablePositions)
  BY <1>1 DEF Init, IsTable
<1> QED BY <1>2, <1>3 DEF Init, StampsBehind

LEMMA PackWithKeepsStamps ==
  ASSUME StampsBehind, NEW cells, PackWith(cells)
  PROVE  StampsBehind'
<1> DEFINE table == NextGeneration(scratch)
<1>1. IsTable(table, Atoms)
  BY NextGenerationIsNew DEF StampsBehind
<1>2. \E indexed : scratch' = MarkedTable(table, cells, indexed)
  <2>1. CASE IsDirect(table, cells)
    BY <2>1 DEF PackWith
  <2>2. CASE ~IsDirect(table, cells)
    BY <2>2 DEF PackWith
  <2> QED BY <2>1, <2>2
<1> HIDE DEF table
<1>3. IsTable(scratch', Atoms)
  BY <1>1, <1>2, MarkedTableIsTable
<1> QED BY <1>3 DEF StampsBehind, PackWith

LEMMA RepackKeepsStamps ==
  ASSUME StampsBehind, Repack
  PROVE  StampsBehind'
<1>1. IsTable(NextGeneration(pack), Atoms)
  BY NextGenerationIsNew DEF StampsBehind
<1>2. IsTable(pack', Atoms)
  <2>1. CASE EmitFromAtoms
    <3>1. \E cells, indexed : pack' = MarkedTable(NextGeneration(pack), cells, indexed)
      BY <2>1 DEF EmitFromAtoms
    <3> QED BY <1>1, <3>1, MarkedTableIsTable
  <2>2. CASE EmitFromIndices
    BY <2>2 DEF EmitFromIndices, StampsBehind
  <2> QED BY <2>1, <2>2 DEF Repack
<1> QED BY <1>2 DEF StampsBehind, Repack

LEMMA PackModeledKeepsStamps ==
  ASSUME StampsBehind, NEW cells, PackModeled(cells)
  PROVE  StampsBehind'
<1> DEFINE table == NextRankTable(ranks)
           result == RanksPlaced(table, cells)
<1>1. IsTable(table, TablePositions)
  BY NextRankTableIsTable DEF StampsBehind
<1>2. \E placed, indexed : ranks' = RankTable(table, placed, indexed)
  <2>1. CASE result.direct
    BY <2>1 DEF PackModeled
  <2>2. CASE ~result.direct
    BY <2>2 DEF PackModeled
  <2> QED BY <2>1, <2>2
<1> HIDE DEF table
<1>3. IsTable(ranks', TablePositions)
  BY <1>1, <1>2, RankTableIsTable
<1> QED BY <1>3 DEF StampsBehind, PackModeled

(* What MarkPalette does to the stamps and the places of atoms.            *)
LEMMA MarkPaletteTable ==
  ASSUME StampsBehind, NEW atoms, MarkPalette(atoms)
  PROVE  /\ IsTable(members', Atoms)
         /\ \A a \in Atoms :
              members.seen'[a] = members.seen_gen' <=> \E k \in DOMAIN atoms : atoms[k] = a
<1> DEFINE table == NextGeneration(members)
           IsIn(a) == \E k \in DOMAIN atoms : atoms[k] = a
<1>1. IsTable(table, Atoms) /\ IsUnmarked(table, Atoms)
  BY NextGenerationIsNew DEF StampsBehind
<1>2. DOMAIN table.seen = Atoms
  BY <1>1 DEF IsTable
<1> HIDE DEF table
<1>3. /\ members' = [f \in DOMAIN members' |-> members'[f]]
      /\ DOMAIN members' = DOMAIN table
      /\ members.seen_gen' = table.seen_gen
      /\ members.seen' = [a \in Atoms |-> IF IsIn(a) THEN table.seen_gen ELSE table.seen[a]]
  BY <1>1, <1>2 DEF MarkPalette, IsTable, table
<1> HIDE DEF IsIn
<1>4. IsTable(members', Atoms)
  BY <1>1, <1>3, StampsOK DEF IsTable
<1>5. \A a \in Atoms : members.seen'[a] = members.seen_gen' <=> IsIn(a)
  BY <1>1, <1>3 DEF IsTable, IsUnmarked
<1> QED BY <1>4, <1>5 DEF IsIn

LEMMA StampsBehindNext == StampsBehind /\ [Next]_vars => StampsBehind'
<1> SUFFICES ASSUME StampsBehind, [Next]_vars PROVE StampsBehind'
  OBVIOUS
<1>1. ASSUME NEW cells \in Packable, PackWith(cells) PROVE StampsBehind'
  BY <1>1, PackWithKeepsStamps
<1>2. ASSUME NEW data \in Foreign, Load(data) PROVE StampsBehind'
  BY <1>2 DEF Load, StampsBehind
<1>3. ASSUME Repack PROVE StampsBehind'
  BY <1>3, RepackKeepsStamps
<1>4. ASSUME NEW cells \in Grids, PackModeled(cells) PROVE StampsBehind'
  BY <1>4, PackModeledKeepsStamps
<1>5. ASSUME NEW atoms \in Palettes, MarkPalette(atoms) PROVE StampsBehind'
  <2>1. IsTable(members', Atoms)
    BY <1>5, MarkPaletteTable
  <2> QED BY <1>5, <2>1 DEF MarkPalette, StampsBehind
<1>6. CASE UNCHANGED vars
  BY <1>6 DEF vars, StampsBehind
<1> QED BY <1>1, <1>2, <1>3, <1>4, <1>5, <1>6 DEF Next

(***************************************************************************)
(* Whatever sections came before, and however often the stamps came round: *)
(* the next section's stamp is on no entry of any of the tables.           *)
(***************************************************************************)
THEOREM StampsAreFresh == Spec => []NextStampIsUnused
<1>1. StampsBehind => NextStampIsUnused
  <2> SUFFICES ASSUME StampsBehind,
                      NEW table \in {NextGeneration(scratch), NextGeneration(pack),
                                     NextGeneration(members), NextGeneration(ranks)}
               PROVE  \A k \in DOMAIN table.seen : table.seen[k] # table.seen_gen
    BY DEF NextStampIsUnused
  <2>1. PICK keys : IsTable(table, keys) /\ IsUnmarked(table, keys)
    BY NextGenerationIsNew DEF StampsBehind
  <2> QED BY <2>1 DEF IsTable, IsUnmarked
<1> QED BY <1>1, StampsBehindInit, StampsBehindNext, PTL DEF Spec

-----------------------------------------------------------------------------
(* The model's members                                                     *)

HasPlaces == "indices" \in DOMAIN members /\ DOMAIN members.indices = Atoms

(* The inductive invariant of the members.                                 *)
MembersInv == StampsBehind /\ HasPlaces /\ MembersAreThePalette

(* Marking a palette makes its atoms the members.                          *)
LEMMA MarkPaletteMakesMembers ==
  ASSUME MembersInv, NEW atoms \in Palettes, MarkPalette(atoms)
  PROVE  HasPlaces' /\ MembersAreThePalette'
<1> DEFINE table == NextGeneration(members)
           IsIn(a) == \E k \in DOMAIN atoms : atoms[k] = a
<1>1. /\ "indices" \in DOMAIN table
      /\ table.indices = members.indices
      /\ table = [f \in DOMAIN table |-> table[f]]
  BY DEF MembersInv, HasPlaces, StampsBehind, IsTable, NextGeneration
<1> HIDE DEF table
<1>2. /\ DOMAIN members' = DOMAIN table
      /\ members.indices' = [a \in Atoms |-> IF IsIn(a) THEN IndexIn(atoms, a) - 1
                                             ELSE table.indices[a]]
  BY <1>1 DEF MarkPalette, MembersInv, HasPlaces, table
<1>3. HasPlaces'
  BY <1>1, <1>2 DEF HasPlaces
<1>4. atoms \in Seq(Atoms) /\ palette' = atoms
  BY ParametersOK DEF MarkPalette
<1>5. ASSUME NEW a \in Atoms, IsIn(a)
      PROVE  IndexIn(atoms, a) \in 1..Len(atoms) /\ atoms[IndexIn(atoms, a)] = a
  BY <1>4, <1>5 DEF IndexIn
<1>6. \A a \in Atoms : members.seen'[a] = members.seen_gen' <=> IsIn(a)
  BY MarkPaletteTable DEF MembersInv
<1>7. ASSUME NEW a \in Atoms, IsIn(a)
      PROVE  palette'[members.indices'[a] + 1] = a
  <2>1. members.indices'[a] = IndexIn(atoms, a) - 1
    BY <1>2, <1>7
  <2>2. (IndexIn(atoms, a) - 1) + 1 = IndexIn(atoms, a)
    BY <1>5, <1>7
  <2> QED BY <2>1, <2>2, <1>4, <1>5, <1>7
<1> QED BY <1>3, <1>4, <1>6, <1>7 DEF MembersAreThePalette, IsMember, SlotOf

(***************************************************************************)
(* For any palettes, one after the other: the atoms that are told to be    *)
(* members are those of the palette marked last, each with its place.      *)
(***************************************************************************)
THEOREM MembersAreExact == Spec => []MembersAreThePalette
<1>1. Init => MembersInv
  BY StampsBehindInit DEF Init, MembersInv, HasPlaces, MembersAreThePalette, NewTable
<1>2. MembersInv /\ [Next]_vars => MembersInv'
  <2> SUFFICES ASSUME MembersInv, [Next]_vars PROVE MembersInv'
    OBVIOUS
  <2>1. StampsBehind'
    BY StampsBehindNext DEF MembersInv
  <2>2. ASSUME UNCHANGED <<members, palette>>
        PROVE  HasPlaces' /\ MembersAreThePalette'
    BY <2>2 DEF MembersInv, HasPlaces, MembersAreThePalette, IsMember, SlotOf
  <2>3. CASE \E atoms \in Palettes : MarkPalette(atoms)
    BY <2>1, <2>3, MarkPaletteMakesMembers DEF MembersInv
  <2>4. CASE ~ \E atoms \in Palettes : MarkPalette(atoms)
    <3>1. UNCHANGED <<members, palette>>
      BY <2>4 DEF Next, PackWith, Load, Repack, PackModeled, vars
    <3> QED BY <2>1, <2>2, <3>1 DEF MembersInv
  <2> QED BY <2>3, <2>4
<1>3. MembersInv => MembersAreThePalette
  BY DEF MembersInv
<1> QED BY <1>1, <1>2, <1>3, PTL DEF Spec

-----------------------------------------------------------------------------
(* Fields of numbers                                                       *)

(* A field, in terms of the named powers.                                  *)
LEMMA FieldIs ==
  ASSUME NEW number, NEW n, NEW bits
  PROVE  Field(number, n, bits) = (number \div Pow(bits * n)) % Pow(bits)
  BY DEF Field, Pow

(* A field of so many bits is below their power.                           *)
LEMMA FieldType ==
  ASSUME NEW number \in Nat, NEW n \in Nat, NEW bits \in Nat
  PROVE  Field(number, n, bits) \in 0..(Pow(bits) - 1)
<1>1. bits * n \in Nat
  BY ProductType
<1>2. Pow(bits * n) \in Nat \ {0} /\ Pow(bits) \in Nat \ {0}
  BY <1>1, PowType
<1>3. number \div Pow(bits * n) \in Nat
  BY <1>2, Division
<1> QED BY <1>2, <1>3, Division, FieldIs

(* A number with a given field.                                            *)
LEMMA FieldInside ==
  ASSUME NEW n \in Nat, NEW bits \in Nat, NEW low \in 0..(Pow(bits * n) - 1),
         NEW digit \in 0..(Pow(bits) - 1), NEW above \in Nat
  PROVE  Field(low + (digit + above * Pow(bits)) * Pow(bits * n), n, bits) = digit
<1> DEFINE p == Pow(bits * n)
           base == Pow(bits)
           rest == digit + above * base
           number == low + rest * p
<1>1. bits * n \in Nat
  BY ProductType
<1>2. p \in Nat \ {0} /\ base \in Nat \ {0} /\ low \in 0..(p - 1) /\ digit \in 0..(base - 1)
  BY <1>1, PowType
<1>3. Field(number, n, bits) = (number \div p) % base
  BY FieldIs
<1> HIDE DEF p, base
<1>4. above * base \in Nat
  BY <1>2, ProductType
<1>5. rest \in Nat /\ rest = base * above + digit
  BY <1>2, <1>4, SMTT(30)
<1>6. rest % base = digit
  BY <1>2, <1>5, DivisionIsUnique
<1> HIDE DEF rest
<1>7. rest * p \in Nat /\ rest * p = p * rest
  BY <1>2, <1>5, SMTT(30)
<1>8. number \in Nat /\ number = p * rest + low
  BY <1>2, <1>7
<1> HIDE DEF number
<1>9. number \div p = rest
  BY <1>2, <1>5, <1>8, DivisionIsUnique
<1>10. Field(number, n, bits) = digit
  BY <1>3, <1>6, <1>9
<1> QED BY <1>10 DEF number, rest, p, base

(* Every number is one.                                                    *)
LEMMA FieldSplits ==
  ASSUME NEW number \in Nat, NEW n \in Nat, NEW bits \in Nat
  PROVE  /\ number % Pow(bits * n) \in 0..(Pow(bits * n) - 1)
         /\ \E above \in Nat :
              number = (number % Pow(bits * n))
                         + (Field(number, n, bits) + above * Pow(bits)) * Pow(bits * n)
<1> DEFINE p == Pow(bits * n)
           base == Pow(bits)
           rest == number \div p
           above == rest \div base
<1>1. bits * n \in Nat
  BY ProductType
<1>2. p \in Nat \ {0} /\ base \in Nat \ {0}
  BY <1>1, PowType
<1>3. Field(number, n, bits) = rest % base
  BY FieldIs
<1> HIDE DEF p, base
<1>4. rest \in Nat /\ number % p \in 0..(p - 1) /\ number = p * rest + (number % p)
  BY <1>2, Division
<1> HIDE DEF rest
<1>5. above \in Nat /\ rest % base \in 0..(base - 1) /\ rest = base * above + (rest % base)
  BY <1>2, <1>4, Division
<1> HIDE DEF above
<1> DEFINE digit == rest % base
           low == number % p
<1>6. digit \in Nat /\ low \in Nat /\ rest = base * above + digit /\ number = p * rest + low
  BY <1>2, <1>4, <1>5
<1> HIDE DEF digit, low
<1>7. base * above = above * base /\ above * base \in Nat
  BY <1>2, <1>5, SMTT(30)
<1>8. rest = digit + above * base /\ rest \in Nat
  BY <1>6, <1>7
<1>9. p * rest = rest * p
  BY <1>2, <1>8, SMTT(30)
<1>10. number = low + (digit + above * base) * p
  <2>1. rest * p \in Nat
    BY <1>2, <1>8, ProductType
  <2>2. number = low + rest * p
    BY <1>6, <1>9, <2>1
  <2> QED BY <1>8, <2>2
<1>11. number = (number % p) + (Field(number, n, bits) + above * base) * p
  BY <1>3, <1>10 DEF digit, low
<1> QED BY <1>4, <1>5, <1>11 DEF p, base

-----------------------------------------------------------------------------
(* Joined fields                                                           *)

(* Digits of so many bits; the digits that Joined takes from values.       *)
AreDigits(digits, count, bits) == digits \in [1..count -> 0..(Pow(bits) - 1)]

AreDigitsOf(digits, values, first, count, bits) ==
  \A n \in 1..count :
    digits[n] = IF first + n - 1 > Len(values) THEN 0
                ELSE values[first + n - 1] % Pow(bits)

(* Partial sums of digits.                                                 *)
AreJoined(s, digits, count, bits) ==
  /\ s \in [0..count -> Int]
  /\ s[0] = 0
  /\ \A n \in 1..count : s[n] = s[n - 1] + digits[n] * Pow(bits * (n - 1))

(* What Joined computes are sums of its digits at their places.            *)
LEMMA JoinedIs ==
  ASSUME NEW values, NEW first, NEW count \in Nat, NEW bits \in Nat,
         NEW digits, AreDigits(digits, count, bits),
         AreDigitsOf(digits, values, first, count, bits)
  PROVE  \E s : AreJoined(s, digits, count, bits) /\ Joined(values, first, count, bits) = s[count]
<1> DEFINE f == [n \in 1..count |-> digits[n] * Pow(bits * (n - 1))]
           Sums(u) == u = [n \in 0..count |->
                             IF n = 0 THEN 0
                             ELSE IF first + n - 1 > Len(values) THEN u[n - 1]
                             ELSE u[n - 1] + (values[first + n - 1] % Pow(bits)) * Pow(bits * (n - 1))]
<1>0. /\ \A n \in 1..count : digits[n] \in Nat
      /\ \A n \in 1..count :
           digits[n] = IF first + n - 1 > Len(values) THEN 0
                       ELSE values[first + n - 1] % Pow(bits)
  <2>1. Pow(bits) \in Nat
    BY PowType
  <2> QED BY <2>1 DEF AreDigits, AreDigitsOf
<1>1. \A n \in 1..count : f[n] \in Int /\ f[n] = digits[n] * Pow(bits * (n - 1))
  <2>1. TAKE n \in 1..count
  <2>2. n - 1 \in Nat
    OBVIOUS
  <2>3. bits * (n - 1) \in Nat
    BY <2>2, ProductType
  <2>4. Pow(bits * (n - 1)) \in Nat
    BY <2>3, PowType
  <2>5. digits[n] * Pow(bits * (n - 1)) \in Nat
    BY <1>0, <2>4, ProductType
  <2> QED BY <2>5
<1> HIDE DEF f
<1>2. PICK s : IsSum(s, f, count)
  BY <1>1, SumExists
<1>3. AreJoined(s, digits, count, bits)
  BY <1>1, <1>2 DEF AreJoined, IsSum
<1>4. Joined(values, first, count, bits) = (CHOOSE u : Sums(u))[count]
  BY DEF Joined, Pow
<1>5. \A n \in 1..count : n - 1 \in 0..count /\ n \in 0..count /\ n # 0 /\ s[n - 1] \in Int
  BY <1>3 DEF AreJoined
<1>6. Sums(s)
  <2>1. ASSUME NEW n \in 1..count
        PROVE  s[n] = IF first + n - 1 > Len(values) THEN s[n - 1]
                      ELSE s[n - 1] + (values[first + n - 1] % Pow(bits)) * Pow(bits * (n - 1))
    <3>1. s[n] = s[n - 1] + digits[n] * Pow(bits * (n - 1)) /\ s[n - 1] \in Int
      BY <1>3, <1>5 DEF AreJoined
    <3>2. CASE first + n - 1 > Len(values)
      <4>1. n - 1 \in Nat
        OBVIOUS
      <4>2. bits * (n - 1) \in Nat
        BY <4>1, ProductType
      <4>3. Pow(bits * (n - 1)) \in Nat
        BY <4>2, PowType
      <4> QED BY <1>0, <3>1, <3>2, <4>3
    <3>3. CASE ~(first + n - 1 > Len(values))
      BY <1>0, <3>1, <3>3
    <3> QED BY <3>2, <3>3
  <2>2. \A n \in 0..count : n = 0 \/ n \in 1..count
    OBVIOUS
  <2> QED BY <1>3, <2>1, <2>2 DEF AreJoined
<1> DEFINE t == CHOOSE u : Sums(u)
<1>7. Sums(t)
  <2> HIDE DEF Sums
  <2> QED BY <1>6
<1> HIDE DEF t
<1> DEFINE Agree == {k \in 0..count : t[k] = s[k]}
<1>8. 0 \in Agree
  BY <1>6, <1>7
<1>9. ASSUME NEW k \in 0..(count - 1), k \in Agree
      PROVE  k + 1 \in Agree
  <2>1. k + 1 \in 0..count /\ k + 1 # 0 /\ (k + 1) - 1 = k /\ t[k] = s[k]
    BY <1>9
  <2>2. /\ t[k + 1] = IF first + (k + 1) - 1 > Len(values) THEN t[(k + 1) - 1]
                      ELSE t[(k + 1) - 1] + (values[first + (k + 1) - 1] % Pow(bits)) * Pow(bits * ((k + 1) - 1))
        /\ s[k + 1] = IF first + (k + 1) - 1 > Len(values) THEN s[(k + 1) - 1]
                      ELSE s[(k + 1) - 1] + (values[first + (k + 1) - 1] % Pow(bits)) * Pow(bits * ((k + 1) - 1))
    BY <1>6, <1>7, <2>1
  <2>3. t[k + 1] = s[k + 1]
    BY <2>1, <2>2
  <2> QED BY <2>1, <2>3
<1> HIDE DEF Agree
<1>10. 0..count \subseteq Agree
  BY <1>8, <1>9, AllUpTo
<1>11. count \in Agree
  BY <1>10
<1>12. t[count] = s[count]
  BY <1>11 DEF Agree
<1> QED BY <1>3, <1>4, <1>12 DEF t

(* The place of the next digit.                                            *)
LEMMA NextPower ==
  ASSUME NEW bits \in Nat, NEW k \in Nat
  PROVE  /\ bits * k \in Nat
         /\ Pow(bits * k) \in Nat \ {0} /\ Pow(bits) \in Nat \ {0}
         /\ Pow(bits * (k + 1)) = Pow(bits * k) * Pow(bits)
<1>1. bits * k \in Nat /\ bits * (k + 1) = bits * k + bits
  BY ProductType, SMTT(30)
<1> QED BY <1>1, PowType, PowOfSum

(* A digit above a number.                                                 *)
LEMMA DigitAbove ==
  ASSUME NEW p \in Nat \ {0}, NEW base \in Nat \ {0}, NEW low \in 0..(p - 1),
         NEW digit \in 0..(base - 1)
  PROVE  low + digit * p \in 0..(p * base - 1)
<1>1. digit * p \in Nat /\ digit * p = p * digit
  BY SMTT(30)
<1>2. digit + 1 <= base
  OBVIOUS
<1>3. p * (digit + 1) <= p * base
  BY <1>2, SMTT(30)
<1>4. p * (digit + 1) = p * digit + p
  BY SMTT(30)
<1>5. p * base \in Nat
  BY ProductType
<1> DEFINE a == p * digit
           b == p * base
<1>6. a \in Nat /\ b \in Nat /\ a + p <= b
  BY <1>1, <1>3, <1>4, <1>5
<1> HIDE DEF a, b
<1>7. low + a \in 0..(b - 1)
  BY <1>6
<1> QED BY <1>1, <1>7 DEF a, b

(* Digits that are joined are the fields of the number.                    *)
LEMMA JoinedFields ==
  ASSUME NEW count \in Nat, NEW bits \in Nat, NEW digits, AreDigits(digits, count, bits),
         NEW s, AreJoined(s, digits, count, bits)
  PROVE  /\ s[count] \in 0..(Pow(bits * count) - 1)
         /\ \A n \in 0..(count - 1) : Field(s[count], n, bits) = digits[n + 1]
<1> DEFINE base == Pow(bits)
           P(k) == Pow(bits * k)
<1>1. base \in Nat \ {0}
  BY PowType
<1>2. \A k \in Nat : P(k) \in Nat \ {0} /\ P(k + 1) = P(k) * base
  BY NextPower
<1>3. \A k \in 0..(count - 1) : s[k + 1] = s[k] + digits[k + 1] * P(k)
                                /\ digits[k + 1] \in 0..(base - 1)
  <2>1. TAKE k \in 0..(count - 1)
  <2>2. k + 1 \in 1..count /\ (k + 1) - 1 = k
    OBVIOUS
  <2>3. s[k + 1] = s[(k + 1) - 1] + digits[k + 1] * Pow(bits * ((k + 1) - 1))
    BY <2>2 DEF AreJoined
  <2> QED BY <2>2, <2>3 DEF AreDigits
<1>4. \A m, n \in Nat : P(m + n) = P(m) * P(n)
  <2>1. TAKE m, n \in Nat
  <2>2. bits * m \in Nat /\ bits * n \in Nat /\ bits * (m + n) = bits * m + bits * n
    BY ProductType, SMTT(30)
  <2> QED BY <2>2, PowOfSum
<1>5. P(0) = 1
  <2>1. bits * 0 = 0
    BY SMTT(30)
  <2> QED BY <2>1, PowOfZero
<1>6. s[0] = 0 /\ s \in [0..count -> Int]
  BY DEF AreJoined
<1> HIDE DEF P, base
<1> DEFINE Below == {k \in 0..count : s[k] \in 0..(P(k) - 1)}
<1>7. 0..count \subseteq Below
  <2>1. 0 \in Below
    BY <1>5, <1>6
  <2>2. ASSUME NEW k \in 0..(count - 1), k \in Below
        PROVE  k + 1 \in Below
    <3>1. s[k] \in 0..(P(k) - 1) /\ P(k) \in Nat \ {0} /\ digits[k + 1] \in 0..(base - 1)
      BY <1>2, <1>3, <2>2
    <3>2. s[k] + digits[k + 1] * P(k) \in 0..(P(k) * base - 1)
      BY <1>1, <3>1, DigitAbove
    <3>3. k \in Nat /\ k + 1 \in 0..count /\ P(k + 1) = P(k) * base
      BY <1>2
    <3> QED BY <1>3, <3>2, <3>3
  <2> HIDE DEF Below
  <2> QED BY <2>1, <2>2, AllUpTo
<1>8. \A k \in 0..count : s[k] \in 0..(P(k) - 1)
  BY <1>7
<1>9. ASSUME NEW n \in 0..(count - 1)
      PROVE  Field(s[count], n, bits) = digits[n + 1]
  <2> DEFINE Holds(m) == \E q \in Nat : s[m] = s[n] + (digits[n + 1] + q * base) * P(n)
             Above == {m \in (n + 1)..count : Holds(m)}
  <2>1. n \in Nat /\ n + 1 \in Nat /\ n + 1 \in 0..count /\ n \in 0..count
        /\ P(n) \in Nat \ {0} /\ digits[n + 1] \in Nat /\ s[n] \in Int
    <3>1. n \in Nat /\ n + 1 \in Nat /\ n + 1 \in 0..count /\ n \in 0..count
      OBVIOUS
    <3>2. digits[n + 1] \in 0..(base - 1)
      BY <1>3
    <3>3. digits[n + 1] \in Nat
      BY <1>1, <3>2
    <3> QED BY <1>2, <1>6, <3>1, <3>3
  <2>2. n + 1 <= count => n + 1 \in Above
    <3>1. 0 * base = 0 /\ digits[n + 1] + 0 = digits[n + 1]
      BY <1>1, <2>1
    <3>2. s[n + 1] = s[n] + (digits[n + 1] + 0 * base) * P(n)
      BY <1>3, <3>1
    <3>3. n + 1 \in (n + 1)..count /\ Holds(n + 1)
      BY <3>2
    <3> HIDE DEF Holds
    <3> QED BY <3>3
  <2>3. ASSUME NEW m \in (n + 1)..(count - 1), m \in Above
        PROVE  m + 1 \in Above
    <3>1. PICK q \in Nat : s[m] = s[n] + (digits[n + 1] + q * base) * P(n)
      BY <2>3
    <3> DEFINE j == m - (n + 1)
               r == digits[m + 1] * P(j)
               d == digits[n + 1]
               e == digits[m + 1]
    <3>2. j \in Nat /\ m \in 0..(count - 1) /\ m = j + (n + 1) /\ m + 1 \in (n + 1)..count
      OBVIOUS
    <3>3. P(m) = P(j) * (P(n) * base)
      BY <1>2, <1>4, <2>1, <3>2
    <3>4. s[m + 1] = s[m] + e * P(m) /\ e \in Nat /\ d \in Nat /\ P(j) \in Nat
      <4>1. s[m + 1] = s[m] + digits[m + 1] * P(m) /\ digits[m + 1] \in 0..(base - 1)
        BY <1>3, <3>2
      <4>2. P(j) \in Nat
        BY <1>2, <3>2
      <4>3. digits[m + 1] \in Nat
        BY <1>1, <4>1
      <4> QED BY <2>1, <4>1, <4>2, <4>3
    <3>5. r \in Nat
      BY <3>4, ProductType
    <3> DEFINE pn == P(n)
               pj == P(j)
               sn == s[n]
    <3>6. pn \in Nat /\ pj \in Nat /\ sn \in Int
      BY <2>1, <3>4
    <3>7. s[m + 1] = (sn + (d + q * base) * pn) + e * (pj * (pn * base))
      BY <3>1, <3>3, <3>4
    <3> HIDE DEF pn, pj, sn, d, e, j
    <3>8. (sn + (d + q * base) * pn) + e * (pj * (pn * base)) = sn + (d + (q + e * pj) * base) * pn
      <4>1. (q + e * pj) * base = q * base + (e * pj) * base
        BY <1>1, <3>4, <3>6, SMTT(30)
      <4>2. e * (pj * (pn * base)) = ((e * pj) * base) * pn
        BY <1>1, <3>4, <3>6, SMTT(30)
      <4> DEFINE u == q * base
                 v == (e * pj) * base
      <4>3. u \in Nat /\ v \in Nat
        <5>1. e * pj \in Nat
          BY <3>4, <3>6, ProductType
        <5> QED BY <1>1, <5>1, ProductType
      <4> HIDE DEF u, v
      <4>4. (sn + (d + u) * pn) + v * pn = sn + (d + (u + v)) * pn
        BY <3>4, <3>6, <4>3, SMTT(30)
      <4> QED BY <4>1, <4>2, <4>4 DEF u, v
    <3>9. Holds(m + 1)
      <4>1. q + e * pj \in Nat
        BY <3>5 DEF e, pj
      <4>2. s[m + 1] = sn + (d + (q + e * pj) * base) * pn
        BY <3>7, <3>8
      <4> QED BY <4>1, <4>2 DEF sn, d, pn
    <3> HIDE DEF Holds
    <3> QED BY <3>2, <3>9
  <2> HIDE DEF Above
  <2>4. (n + 1)..count \subseteq Above
    BY <2>1, <2>2, <2>3, AllUpTo
  <2>5. count \in Above
    BY <2>4
  <2>6. PICK q \in Nat : s[count] = s[n] + (digits[n + 1] + q * base) * P(n)
    BY <2>5 DEF Above
  <2>7. s[n] \in 0..(P(n) - 1) /\ digits[n + 1] \in 0..(base - 1)
    BY <1>3, <1>8, <2>1
  <2> DEFINE digit == digits[n + 1]
             low == s[n]
             number == s[count]
  <2>8. /\ low \in 0..(Pow(bits * n) - 1) /\ digit \in 0..(Pow(bits) - 1)
        /\ number = low + (digit + q * Pow(bits)) * Pow(bits * n)
    BY <2>6, <2>7 DEF P, base
  <2> HIDE DEF digit, low, number
  <2>9. Field(low + (digit + q * Pow(bits)) * Pow(bits * n), n, bits) = digit
    BY <2>1, <2>8, FieldInside
  <2>10. Field(number, n, bits) = digit
    BY <2>8, <2>9, Zenon
  <2> QED BY <2>10 DEF digit, number
<1>10. s[count] \in 0..(P(count) - 1)
  BY <1>8
<1> QED BY <1>9, <1>10 DEF P

(* A number whose fields are joined is itself again.                       *)
AreFields(digits, number, count, bits) ==
  \A n \in 1..count : digits[n] = Field(number, n - 1, bits)

(* A number is the sum of its own fields.                                  *)
LEMMA FieldsRejoin ==
  ASSUME NEW count \in Nat, NEW bits \in Nat, NEW number \in 0..(Pow(bits * count) - 1),
         NEW digits, AreFields(digits, number, count, bits),
         NEW s, AreJoined(s, digits, count, bits)
  PROVE  s[count] = number
<1> DEFINE base == Pow(bits)
           P(k) == Pow(bits * k)
           Same == {k \in 0..count : s[k] = number % P(k)}
<1>1. base \in Nat \ {0} /\ number \in Nat
  BY PowType
<1>2. \A k \in Nat : P(k) \in Nat \ {0} /\ P(k + 1) = P(k) * base
  BY NextPower
<1>3. P(0) = 1
  <2>1. bits * 0 = 0
    BY SMTT(30)
  <2> QED BY <2>1, PowOfZero
<1>4. 0 \in Same
  <2>1. s[0] = 0
    BY DEF AreJoined
  <2>2. number % 1 = 0
    BY <1>1
  <2> QED BY <1>3, <2>1, <2>2
<1>5. ASSUME NEW k \in 0..(count - 1), k \in Same
      PROVE  k + 1 \in Same
  <2> DEFINE low == number % P(k)
             digit == Field(number, k, bits)
  <2>1. k \in Nat /\ k + 1 \in 1..count /\ (k + 1) - 1 = k /\ k + 1 \in 0..count
    OBVIOUS
  <2>2. /\ number % Pow(bits * k) \in 0..(Pow(bits * k) - 1)
        /\ \E above \in Nat :
             number = (number % Pow(bits * k))
                        + (Field(number, k, bits) + above * Pow(bits)) * Pow(bits * k)
    <3>1. k \in Nat /\ number \in Nat
      BY <1>1, <2>1
    <3> QED BY ONLY <3>1, bits \in Nat, FieldSplits
  <2>3. PICK above \in Nat : number = low + (digit + above * base) * P(k)
    BY ONLY <2>2
  <2>4. digit \in 0..(base - 1)
    BY <1>1, <2>1, FieldType
  <2>5. s[k + 1] = s[k] + digits[k + 1] * P(k)
    <3>1. s[k + 1] = s[(k + 1) - 1] + digits[k + 1] * Pow(bits * ((k + 1) - 1))
      BY <2>1 DEF AreJoined
    <3> QED BY <2>1, <3>1
  <2>6. s[k + 1] = low + digit * P(k)
    <3>1. digits[k + 1] = digit /\ s[k] = low
      BY <1>5, <2>1 DEF AreFields
    <3> QED BY <2>5, <3>1
  <2>7. P(k) \in Nat \ {0} /\ P(k + 1) = P(k) * base /\ P(k + 1) \in Nat \ {0}
    <3>1. k \in Nat /\ k + 1 \in Nat
      BY <2>1
    <3> HIDE DEF P, base
    <3> QED BY <1>2, <3>1
  <2> DEFINE p == P(k)
             next == P(k + 1)
  <2>8. p \in Nat \ {0} /\ next = p * base /\ next \in Nat \ {0}
    BY <2>7
  <2>9. low \in 0..(p - 1) /\ number = low + (digit + above * base) * p /\ s[k + 1] = low + digit * p
    BY <2>2, <2>3, <2>6
  <2> HIDE DEF base, P, p, next, low, digit
  <2>10. low + digit * p \in 0..(next - 1)
    BY <1>1, <2>4, <2>8, <2>9, DigitAbove
  <2>11. (digit + above * base) * p = digit * p + next * above
    <3>1. digit \in Nat
      BY <1>1, <2>4
    <3>2. (digit + above * base) * p = digit * p + (above * base) * p
      <4>1. above * base \in Nat
        BY <1>1, ProductType
      <4> DEFINE u == above * base
      <4> HIDE DEF u
      <4>2. (digit + u) * p = digit * p + u * p
        BY <2>8, <3>1, <4>1, SMTT(30) DEF u
      <4> QED BY <4>2 DEF u
    <3>3. (above * base) * p = (p * base) * above
      BY <1>1, <2>8, SMTT(30)
    <3> QED BY <2>8, <3>2, <3>3
  <2>12. number = next * above + (low + digit * p)
    <3>1. digit * p \in Nat /\ next * above \in Nat /\ low \in Nat
      BY <1>1, <2>4, <2>8, <2>9, ProductType
    <3> QED BY <2>9, <2>11, <3>1
  <2>13. number % next = low + digit * p
    <3> DEFINE rest == low + digit * p
    <3>1. rest \in 0..(next - 1) /\ number = next * above + rest
      BY <2>10, <2>12
    <3> HIDE DEF rest
    <3>2. number % next = rest
      BY <1>1, <2>8, <3>1, DivisionIsUnique
    <3> QED BY <3>2 DEF rest
  <2> QED BY <2>1, <2>9, <2>13 DEF next
<1> HIDE DEF Same
<1>6. 0..count \subseteq Same
  BY <1>4, <1>5, AllUpTo
<1>7. count \in Same
  BY <1>6
<1>8. s[count] = number % P(count)
  BY <1>7 DEF Same
<1>9. number \in 0..(P(count) - 1) /\ P(count) \in Nat \ {0}
  BY <1>2
<1>10. number = P(count) * 0 + number
  BY <1>1, <1>9
<1> HIDE DEF P
<1>11. number % P(count) = number
  BY <1>1, <1>9, <1>10, DivisionIsUnique
<1> QED BY <1>8, <1>11

(* Wide fields that hold e others; the place of one in the p-th of them.   *)
HoldFields(wide, bits, e) == wide = bits * e
IsPlace(at, p, e, t) == e \in Nat \ {0} /\ t \in 0..(e - 1) /\ at = p * e + t

(* A field of a field.                                                     *)
LEMMA FieldOfField ==
  ASSUME NEW number \in Nat, NEW bits \in Nat, NEW e, NEW p \in Nat, NEW t,
         NEW wide, HoldFields(wide, bits, e), NEW at, IsPlace(at, p, e, t)
  PROVE  Field(Field(number, p, wide), t, bits) = Field(number, at, bits)
<1> DEFINE f == Field(number, p, wide)
           g == Field(f, t, bits)
           outer == Pow(wide * p)
           inner == Pow(bits * t)
           base == Pow(bits)
           more == Pow(bits * (e - (t + 1)))
           lo == number % outer
           lo2 == f % inner
<1>0. wide = bits * e /\ e \in Nat \ {0} /\ t \in 0..(e - 1) /\ at = p * e + t
  BY DEF HoldFields, IsPlace
<1>1. wide \in Nat /\ t \in Nat /\ e - (t + 1) \in Nat
  BY <1>0, ProductType
<1>2. /\ wide * p \in Nat /\ bits * t \in Nat /\ bits * (e - (t + 1)) \in Nat /\ p * e + t \in Nat
      /\ bits * t + bits \in Nat
      /\ wide * p + bits * t = bits * (p * e + t)
      /\ (bits * t + bits) + bits * (e - (t + 1)) = wide
  <2>1. wide * p \in Nat /\ bits * t \in Nat /\ bits * (e - (t + 1)) \in Nat /\ p * e \in Nat
    BY <1>0, <1>1, ProductType
  <2>2. wide * p = bits * (p * e)
    BY <1>0, SMTT(30)
  <2>3. bits * (p * e) + bits * t = bits * (p * e + t)
    BY <1>0, <1>1, <2>1, SMTT(30)
  <2>4. (bits * t + bits) + bits * (e - (t + 1)) = bits * e
    BY <1>0, <1>1, SMTT(30)
  <2> QED BY <1>0, <1>1, <2>1, <2>2, <2>3, <2>4
<1>3. /\ outer \in Nat \ {0} /\ inner \in Nat \ {0} /\ base \in Nat \ {0} /\ more \in Nat \ {0}
      /\ Pow(bits * (p * e + t)) = outer * inner
      /\ Pow(wide) = (inner * base) * more
  <2>1. Pow(wide * p + bits * t) = outer * inner
    BY <1>2, PowOfSum
  <2>2. Pow((bits * t + bits) + bits * (e - (t + 1))) = Pow(bits * t + bits) * more
    BY <1>2, PowOfSum
  <2>3. Pow(bits * t + bits) = inner * base
    BY <1>2, PowOfSum
  <2>4. outer \in Nat \ {0} /\ inner \in Nat \ {0} /\ base \in Nat \ {0} /\ more \in Nat \ {0}
    BY <1>2, PowType
  <2>5. Pow(bits * (p * e + t)) = outer * inner
    BY <1>2, <2>1
  <2>6. Pow(wide) = (inner * base) * more
    BY <1>2, <2>2, <2>3
  <2> QED BY <2>4, <2>5, <2>6
<1>4. /\ lo \in 0..(outer - 1)
      /\ \E a \in Nat : number = lo + (f + a * Pow(wide)) * outer
  BY ONLY <1>1, number \in Nat, p \in Nat, FieldSplits
<1>5. f \in Nat
  <2>1. f \in 0..(Pow(wide) - 1)
    BY <1>1, FieldType
  <2> QED BY <2>1
<1>6. /\ lo2 \in 0..(inner - 1)
      /\ \E c \in Nat : f = lo2 + (g + c * base) * inner
  <2> HIDE DEF f
  <2> QED BY <1>1, <1>5, FieldSplits
<1>7. g \in 0..(base - 1)
  <2> HIDE DEF f
  <2> QED BY <1>1, <1>5, FieldType
<1>8. PICK a \in Nat : number = lo + (f + a * Pow(wide)) * outer
  BY <1>4
<1>9. PICK c \in Nat : f = lo2 + (g + c * base) * inner
  BY <1>6
<1> DEFINE low == lo + lo2 * outer
           above == c + a * more
           whole == outer * inner
           wp == Pow(wide)
<1>10. /\ wp = (inner * base) * more
       /\ number = lo + (f + a * wp) * outer
  BY <1>3, <1>8
<1> HIDE DEF outer, inner, base, more, lo, lo2, g, wp
<1> HIDE DEF f
<1>11. low \in 0..(whole - 1)
  BY <1>3, <1>4, <1>6, DigitAbove
<1>12. above \in Nat
  BY <1>3, ProductType
<1>13. number = low + (g + above * base) * whole
  <2> DEFINE u == g + c * base
             v == a * more
  <2>1. g \in Nat /\ lo \in Nat /\ lo2 \in Nat /\ v \in Nat /\ u \in Nat /\ c * base \in Nat
    BY <1>3, <1>4, <1>6, <1>7, ProductType
  <2>2. a * wp = (v * base) * inner
    BY <1>3, <1>10, SMTT(30)
  <2>3. f = lo2 + u * inner
    BY <1>9
  <2>4. above * base = c * base + v * base
    BY <1>3, <2>1, SMTT(30)
  <2> DEFINE w == v * base
  <2>5. w \in Nat
    BY <1>3, <2>1, ProductType
  <2>6. g + above * base = u + w
    BY <2>1, <2>4, <2>5
  <2>7. number = lo + ((lo2 + u * inner) + w * inner) * outer
    BY <1>10, <2>2, <2>3
  <2> HIDE DEF u, w, v, low, above
  <2>8. ((lo2 + u * inner) + w * inner) * outer = lo2 * outer + (u + w) * (outer * inner)
    <3>1. u * inner + w * inner = (u + w) * inner
      BY <1>3, <2>1, <2>5, SMTT(30)
    <3>2. ((u + w) * inner) * outer = (u + w) * (outer * inner)
      BY <1>3, <2>1, <2>5, SMTT(30)
    <3> DEFINE z == (u + w) * inner
    <3>3. z \in Nat /\ u * inner \in Nat /\ w * inner \in Nat
      BY <1>3, <2>1, <2>5, ProductType
    <3>4. (lo2 + u * inner) + w * inner = lo2 + z
      BY <2>1, <3>1, <3>3
    <3> HIDE DEF z
    <3>5. (lo2 + z) * outer = lo2 * outer + z * outer
      BY <1>3, <2>1, <3>3, SMTT(30)
    <3> QED BY <3>2, <3>4, <3>5 DEF z
  <2>9. lo2 * outer \in Nat /\ (u + w) * (outer * inner) \in Nat
    BY <1>3, <2>1, <2>5, ProductType
  <2>10. number = (lo + lo2 * outer) + (u + w) * (outer * inner)
    BY <2>1, <2>7, <2>8, <2>9
  <2> QED BY <2>6, <2>10 DEF low
<1> HIDE DEF low, above
<1>14. Field(number, p * e + t, bits) = g
  <2> DEFINE n == p * e + t
  <2>1. n \in Nat
    BY <1>2
  <2>2. low \in 0..(Pow(bits * n) - 1) /\ number = low + (g + above * Pow(bits)) * Pow(bits * n)
    BY <1>3, <1>11, <1>13 DEF base
  <2>3. g \in 0..(Pow(bits) - 1)
    BY <1>7 DEF base
  <2> HIDE DEF n
  <2>4. Field(low + (g + above * Pow(bits)) * Pow(bits * n), n, bits) = g
    BY <1>12, <2>1, <2>2, <2>3, FieldInside
  <2>5. Field(number, n, bits) = g
    BY <2>2, <2>4, Zenon
  <2> QED BY <2>5 DEF n
<1> QED BY <1>0, <1>14, Zenon DEF g, f

(* A field of twice the width.                                             *)
LEMMA DoubleField ==
  ASSUME NEW number \in Nat, NEW bits \in Nat, NEW p \in Nat
  PROVE  Field(number, p, 2 * bits)
           = Field(number, 2 * p, bits) + Field(number, 2 * p + 1, bits) * Pow(bits)
<1> DEFINE f == Field(number, p, bits * 2)
           base == Pow(bits)
           second == Field(f, 1, bits)
<1>1. bits * 2 \in Nat /\ 2 * bits = bits * 2
  OBVIOUS
<1>2. base \in Nat \ {0} /\ Pow(bits * 2) = base * base
  <2>1. bits * 2 = bits + bits
    OBVIOUS
  <2> QED BY <2>1, PowType, PowOfSum
<1>3. f \in 0..(base * base - 1)
  BY <1>1, <1>2, FieldType
<1>4. f \in Nat
  BY <1>3
<1>5. Field(f, 0, bits) = Field(number, 2 * p, bits) /\ second = Field(number, 2 * p + 1, bits)
  <2> DEFINE wide == bits * 2
             m == 2 * p
             n == 2 * p + 1
  <2>1. HoldFields(wide, bits, 2) /\ IsPlace(m, p, 2, 0) /\ IsPlace(n, p, 2, 1)
    BY DEF HoldFields, IsPlace
  <2> HIDE DEF wide, m, n
  <2>2. /\ Field(Field(number, p, wide), 0, bits) = Field(number, m, bits)
        /\ Field(Field(number, p, wide), 1, bits) = Field(number, n, bits)
    BY <2>1, FieldOfField
  <2> QED BY <2>2 DEF wide, m, n
<1> HIDE DEF f
<1>6. Field(f, 0, bits) = f % base
  <2>1. bits * 0 = 0
    BY SMTT(30)
  <2>2. Field(f, 0, bits) = (f \div 1) % base
    BY <2>1, FieldIs, PowOfZero
  <2>3. f \div 1 = f
    BY <1>4
  <2> QED BY <2>2, <2>3
<1>7. bits * 1 = bits
  BY SMTT(30)
<1>8. PICK above \in Nat : f = (f % base) + (second + above * base) * base
  BY <1>4, <1>7, FieldSplits
<1>9. second \in 0..(base - 1) /\ f % base \in 0..(base - 1)
  BY <1>2, <1>4, FieldType, Division
<1> HIDE DEF base, second
<1>10. above = 0
  <2>1. SUFFICES ASSUME above >= 1 PROVE FALSE
    OBVIOUS
  <2> DEFINE x == second + above * base
  <2>2. above * base >= base
    BY <1>2, <2>1, SMTT(30)
  <2>3. above * base \in Nat /\ second \in Nat
    BY <1>2, <1>9, ProductType
  <2>4. x \in Nat /\ x >= base
    BY <1>2, <2>2, <2>3
  <2> HIDE DEF x
  <2>5. x * base >= base * base
    BY <1>2, <2>4, SMTT(30)
  <2>6. x * base \in Nat /\ base * base \in Nat
    BY <1>2, <2>4, ProductType
  <2>7. f = (f % base) + x * base
    BY <1>8 DEF x
  <2> QED BY <1>2, <1>3, <1>9, <2>5, <2>6, <2>7
<1>11. 0 * base = 0 /\ second + 0 = second
  BY <1>2, <1>9
<1>12. f = (f % base) + second * base
  BY <1>8, <1>10, <1>11
<1> QED BY <1>1, <1>5, <1>6, <1>12 DEF f, base

-----------------------------------------------------------------------------
(* Places in words                                                         *)

(* The sections fill so many words with every bit of the index.            *)
Turns == UNPACKED_SIZE \div WORD_BITS

Digits(bits) == 0..(Pow(bits) - 1)

Widths == IndexWidths \cup {2 * BYTE_BITS}

(* The sizes of sections, words and bytes.                                 *)
LEMMA Sizes ==
  /\ BYTE_BITS \in Nat \ {0} /\ WORD_BYTES \in Nat \ {0} /\ UNPACKED_SIZE \in Nat \ {0}
  /\ WORD_BITS \in Nat \ {0} /\ WORD_BITS = BYTE_BITS * WORD_BYTES
  /\ Turns \in Nat \ {0} /\ UNPACKED_SIZE = WORD_BITS * Turns
  /\ UNPACKED_SIZE \div BYTE_BITS = WORD_BYTES * Turns
<1>1. BYTE_BITS \in Nat \ {0} /\ WORD_BYTES \in Nat \ {0} /\ UNPACKED_SIZE \in Nat \ {0}
      /\ UNPACKED_SIZE % WORD_BITS = 0
  BY ParametersOK
<1>2. WORD_BITS \in Nat \ {0} /\ WORD_BITS = BYTE_BITS * WORD_BYTES
  <2>1. BYTE_BITS * WORD_BYTES \in Nat \ {0}
    BY <1>1, SMTT(30)
  <2> QED BY <2>1 DEF WORD_BITS
<1>3. Turns \in Nat /\ UNPACKED_SIZE = WORD_BITS * Turns + 0
  <2>1. UNPACKED_SIZE \in Nat /\ WORD_BITS \in Nat \ {0}
    BY <1>1, <1>2
  <2>2. /\ UNPACKED_SIZE \div WORD_BITS \in Nat
        /\ UNPACKED_SIZE = WORD_BITS * (UNPACKED_SIZE \div WORD_BITS) + (UNPACKED_SIZE % WORD_BITS)
    BY <2>1, Division
  <2> QED BY <1>1, <2>2 DEF Turns
<1>4. Turns # 0 /\ UNPACKED_SIZE = WORD_BITS * Turns
  <2>1. WORD_BITS * 0 = 0 /\ WORD_BITS * Turns \in Nat
    BY <1>2, <1>3, ProductType
  <2> QED BY <1>1, <1>3, <2>1
<1>5. UNPACKED_SIZE \div BYTE_BITS = WORD_BYTES * Turns
  <2>1. WORD_BYTES * Turns \in Nat
    BY <1>1, <1>3, ProductType
  <2>2. UNPACKED_SIZE = BYTE_BITS * (WORD_BYTES * Turns) + 0
    <3>1. UNPACKED_SIZE = (BYTE_BITS * WORD_BYTES) * Turns
      BY <1>2, <1>4
    <3>2. (BYTE_BITS * WORD_BYTES) * Turns = BYTE_BITS * (WORD_BYTES * Turns)
      BY <1>1, <1>3, SMTT(30)
    <3>3. BYTE_BITS * (WORD_BYTES * Turns) \in Nat
      BY <1>1, <2>1, ProductType
    <3> QED BY <3>1, <3>2, <3>3
  <2>3. 0 \in 0..(BYTE_BITS - 1) /\ UNPACKED_SIZE \in Nat
    BY <1>1
  <2> DEFINE q == WORD_BYTES * Turns
  <2> HIDE DEF q
  <2>4. UNPACKED_SIZE \div BYTE_BITS = q
    BY <1>1, <2>1, <2>2, <2>3, DivisionIsUnique DEF q
  <2> QED BY <2>4 DEF q
<1> QED BY <1>1, <1>2, <1>3, <1>4, <1>5

(* An index's width divides a byte; an atom's, a word.                     *)
LEMMA WidthsDivide ==
  /\ \A bits \in IndexWidths : \E e \in Nat \ {0} : BYTE_BITS = bits * e
  /\ \A bits \in Widths : /\ bits \in Nat \ {0}
                          /\ \E e \in Nat \ {0} : WORD_BITS = bits * e
<1>1. PICK m \in 0..BYTE_BITS : BYTE_BITS = Pow(m)
  BY ParametersOK DEF Pow
<1>2. ASSUME NEW bits \in IndexWidths
      PROVE  bits \in Nat \ {0} /\ \E e \in Nat \ {0} : BYTE_BITS = bits * e
  <2>1. PICK k \in 0..BYTE_BITS : bits = Pow(k)
    BY DEF IndexWidths, Pow
  <2>2. bits \in 1..BYTE_BITS
    BY DEF IndexWidths
  <2>3. k \in Nat /\ m \in Nat /\ bits \in Nat \ {0} /\ bits <= BYTE_BITS
    BY <2>2, Sizes
  <2>4. ~(m < k)
    BY <1>1, <2>1, <2>3, PowGrows, Sizes
  <2>5. m - k \in Nat /\ m = k + (m - k)
    BY <2>3, <2>4
  <2>6. Pow(m) = Pow(k) * Pow(m - k)
    BY <2>3, <2>5, PowOfSum
  <2>7. Pow(m - k) \in Nat \ {0}
    BY <2>5, PowType
  <2> QED BY <1>1, <2>1, <2>3, <2>6, <2>7
<1>3. ASSUME NEW bits \in IndexWidths
      PROVE  \E e \in Nat \ {0} : WORD_BITS = bits * e
  <2>1. PICK e \in Nat \ {0} : BYTE_BITS = bits * e
    BY <1>2
  <2>2. WORD_BITS = (bits * e) * WORD_BYTES /\ WORD_BYTES \in Nat \ {0} /\ bits \in Nat \ {0}
    BY <1>2, <2>1, Sizes
  <2>3. (bits * e) * WORD_BYTES = bits * (e * WORD_BYTES) /\ e * WORD_BYTES \in Nat \ {0}
    BY <2>2, SMTT(30)
  <2> QED BY <2>2, <2>3
<1>4. 2 * BYTE_BITS \in Nat \ {0} /\ \E e \in Nat \ {0} : WORD_BITS = (2 * BYTE_BITS) * e
  <2>1. WORD_BYTES % 2 = 0 /\ WORD_BYTES \in Nat \ {0} /\ BYTE_BITS \in Nat \ {0}
    BY ParametersOK, Sizes
  <2>2. PICK h \in Nat \ {0} : WORD_BYTES = 2 * h
    <3>1. WORD_BYTES \div 2 \in Nat \ {0} /\ WORD_BYTES = 2 * (WORD_BYTES \div 2)
      BY <2>1
    <3> QED BY <3>1
  <2>3. WORD_BITS = (2 * BYTE_BITS) * h
    <3>1. BYTE_BITS * (2 * h) = (2 * BYTE_BITS) * h
      BY <2>1, SMTT(30)
    <3> QED BY <2>2, <3>1, Sizes
  <2> QED BY <2>1, <2>3
<1> QED BY <1>2, <1>3, <1>4 DEF Widths

(* Where entry i is if each group holds e of them.                         *)
LEMMA Places ==
  ASSUME NEW e \in Nat \ {0}, NEW count \in Nat, NEW i \in 1..(e * count)
  PROVE  /\ (i - 1) \div e \in 0..(count - 1)
         /\ (i - 1) % e \in 0..(e - 1)
         /\ i - 1 = e * ((i - 1) \div e) + ((i - 1) % e)
         /\ ((i - 1) \div e) * e = e * ((i - 1) \div e)
<1> DEFINE q == (i - 1) \div e
           r == (i - 1) % e
<1>1. e * count \in Nat /\ i - 1 \in Nat /\ i - 1 < e * count
  BY ProductType
<1>2. q \in Nat /\ r \in 0..(e - 1) /\ i - 1 = e * q + r
  BY <1>1, Division
<1> HIDE DEF q, r
<1>3. e * q \in Nat /\ q * e = e * q
  BY <1>2, ProductType, SMTT(30)
<1>4. e * q < e * count
  BY <1>1, <1>2, <1>3
<1>5. q < count
  <2>1. SUFFICES ASSUME count <= q PROVE FALSE
    BY <1>2
  <2>2. e * count <= e * q
    BY <1>2, <2>1, SMTT(30)
  <2> QED BY <1>1, <1>3, <1>4, <2>2
<1> QED BY <1>2, <1>3, <1>5 DEF q, r

(* A function on the first numbers is a sequence of that length.           *)
LEMMA LenOf ==
  ASSUME NEW len \in Nat, NEW S, NEW f \in [1..len -> S]
  PROVE  f \in Seq(S) /\ Len(f) = len
  OBVIOUS

AreNumbers(values, len) == values \in [1..len -> Nat]

HaveFields(values, first, number, count, bits) ==
  \A n \in 0..(count - 1) : values[first + n] = Field(number, n, bits)

(* Joined and fields, of sequences.                                        *)
LEMMA JoinedOf ==
  ASSUME NEW len \in Nat, NEW values, AreNumbers(values, len), NEW first \in Nat \ {0},
         NEW count \in Nat, NEW bits \in Nat
  PROVE  /\ Joined(values, first, count, bits) \in 0..(Pow(bits * count) - 1)
         /\ \A n \in 0..(count - 1) :
              first + n <= len =>
                Field(Joined(values, first, count, bits), n, bits) = values[first + n] % Pow(bits)
<1> DEFINE digits == [n \in 1..count |-> IF first + n - 1 > Len(values) THEN 0
                                         ELSE values[first + n - 1] % Pow(bits)]
<1>1. Len(values) = len /\ values \in [1..len -> Nat]
  BY LenOf DEF AreNumbers
<1>2. digits \in [1..count -> 0..(Pow(bits) - 1)]
  <2>1. Pow(bits) \in Nat \ {0}
    BY PowType
  <2>2. ASSUME NEW n \in 1..count
        PROVE  (IF first + n - 1 > Len(values) THEN 0 ELSE values[first + n - 1] % Pow(bits))
                 \in 0..(Pow(bits) - 1)
    <3>1. CASE first + n - 1 > Len(values)
      BY <2>1, <3>1
    <3>2. CASE ~(first + n - 1 > Len(values))
      <4>1. first + n - 1 \in 1..len
        BY <1>1, <3>2
      <4>2. values[first + n - 1] \in Nat
        BY <1>1, <4>1
      <4>3. values[first + n - 1] % Pow(bits) \in 0..(Pow(bits) - 1)
        BY <2>1, <4>2, Division
      <4> QED BY <3>2, <4>3
    <3> QED BY <3>1, <3>2
  <2> QED BY <2>2
<1>3. AreDigits(digits, count, bits) /\ AreDigitsOf(digits, values, first, count, bits)
  BY <1>2 DEF AreDigits, AreDigitsOf
<1> HIDE DEF digits
<1>4. PICK s : AreJoined(s, digits, count, bits) /\ Joined(values, first, count, bits) = s[count]
  BY <1>3, JoinedIs
<1>5. /\ s[count] \in 0..(Pow(bits * count) - 1)
      /\ \A n \in 0..(count - 1) : Field(s[count], n, bits) = digits[n + 1]
  BY <1>3, <1>4, JoinedFields
<1>6. \A n \in 0..(count - 1) :
        first + n <= len => digits[n + 1] = values[first + n] % Pow(bits)
  <2>1. TAKE n \in 0..(count - 1)
  <2>2. n + 1 \in 1..count /\ first + (n + 1) - 1 = first + n
    OBVIOUS
  <2> QED BY <1>1, <1>3, <2>2 DEF AreDigitsOf
<1> QED BY <1>4, <1>5, <1>6

(* Joined of the fields of a number is the number.                         *)
LEMMA RejoinedOf ==
  ASSUME NEW len \in Nat, NEW values, AreNumbers(values, len), NEW first \in Nat \ {0},
         NEW count \in Nat, NEW bits \in Nat, NEW number \in 0..(Pow(bits * count) - 1),
         first + count - 1 <= len,
         HaveFields(values, first, number, count, bits)
  PROVE  Joined(values, first, count, bits) = number
<1> DEFINE digits == [n \in 1..count |-> Field(number, n - 1, bits)]
<1>1. Len(values) = len /\ number \in Nat
  BY LenOf DEF AreNumbers
<1>2. ASSUME NEW n \in 1..count
      PROVE  /\ Field(number, n - 1, bits) \in 0..(Pow(bits) - 1)
             /\ ~(first + n - 1 > Len(values))
             /\ values[first + n - 1] % Pow(bits) = Field(number, n - 1, bits)
  <2>1. n - 1 \in 0..(count - 1) /\ n - 1 \in Nat /\ first + (n - 1) = first + n - 1
        /\ first + n - 1 <= len
    OBVIOUS
  <2>2. Field(number, n - 1, bits) \in 0..(Pow(bits) - 1)
    BY <1>1, <2>1, FieldType
  <2>3. values[first + n - 1] = Field(number, n - 1, bits)
    BY <2>1 DEF HaveFields
  <2> DEFINE d == Field(number, n - 1, bits)
             base == Pow(bits)
  <2>4. base \in Nat \ {0}
    BY PowType
  <2>5. d \in 0..(base - 1)
    BY <2>2
  <2> HIDE DEF d, base
  <2>6. d % base = d
    <3>1. d \in Nat /\ d = base * 0 + d /\ 0 \in Nat
      BY <2>4, <2>5
    <3> QED BY ONLY <2>4, <2>5, <3>1, DivisionIsUnique
  <2> QED BY <1>1, <2>1, <2>3, <2>5, <2>6 DEF d, base
<1>3. /\ AreDigits(digits, count, bits)
      /\ AreFields(digits, number, count, bits)
      /\ \A n \in 1..count : digits[n] = Field(number, n - 1, bits)
  BY <1>2 DEF AreDigits, AreFields
<1> HIDE DEF digits
<1>4. AreDigitsOf(digits, values, first, count, bits)
  BY <1>2, <1>3 DEF AreDigitsOf
<1>5. PICK s : AreJoined(s, digits, count, bits) /\ Joined(values, first, count, bits) = s[count]
  BY <1>3, <1>4, JoinedIs
<1>6. s[count] = number
  BY <1>3, <1>5, FieldsRejoin
<1> QED BY <1>5, <1>6

(* A number below the divisor is the remainder.                            *)
LEMMA SmallRemainder ==
  ASSUME NEW d \in Nat \ {0}, NEW n \in 0..(d - 1)
  PROVE  n % d = n /\ n \in Nat
<1>1. n \in Nat /\ n = d * 0 + n /\ 0 \in Nat
  OBVIOUS
<1> QED BY ONLY <1>1, d \in Nat \ {0}, n \in 0..(d - 1), DivisionIsUnique

(* A multiple of the divisor, divided.                                     *)
LEMMA ExactQuotient ==
  ASSUME NEW d \in Nat \ {0}, NEW q \in Nat, NEW n, n = d * q
  PROVE  n \div d = q /\ DivCeil(n, d) = q /\ n \in Nat
<1>1. n \in Nat /\ n = d * q + 0 /\ 0 \in 0..(d - 1)
  BY ProductType
<1>2. n \div d = q
  BY ONLY <1>1, d \in Nat \ {0}, q \in Nat, DivisionIsUnique
<1>3. n + d - 1 = d * q + (d - 1) /\ d - 1 \in 0..(d - 1) /\ n + d - 1 \in Nat
  BY <1>1
<1>4. (n + d - 1) \div d = q
  BY ONLY <1>3, d \in Nat \ {0}, q \in Nat, DivisionIsUnique
<1> QED BY <1>1, <1>2, <1>4 DEF DivCeil

(* The bytes of words, joined, are the words.                              *)
LEMMA BytesOfWords ==
  ASSUME NEW count \in Nat, NEW words \in [1..count -> Digits(WORD_BITS)],
         NEW bytes, bytes = [n \in 1..(count * WORD_BYTES) |->
                               Field(words[(n - 1) \div WORD_BYTES + 1], (n - 1) % WORD_BYTES, BYTE_BITS)]
  PROVE  /\ bytes \in [1..(count * WORD_BYTES) -> Digits(BYTE_BITS)]
         /\ Words(bytes) = words
<1> DEFINE len == count * WORD_BYTES
           wb == WORD_BYTES
<1>1. wb \in Nat \ {0} /\ BYTE_BITS \in Nat \ {0} /\ WORD_BITS = BYTE_BITS * wb
      /\ Pow(WORD_BITS) \in Nat \ {0} /\ Pow(BYTE_BITS) \in Nat \ {0}
  BY Sizes, PowType
<1>2. len \in Nat /\ len = wb * count
  BY <1>1, ProductType, SMTT(30)
<1>3. \A n \in 1..len : /\ (n - 1) \div wb + 1 \in 1..count
                        /\ (n - 1) % wb \in 0..(wb - 1)
                        /\ bytes[n] = Field(words[(n - 1) \div wb + 1], (n - 1) % wb, BYTE_BITS)
                        /\ bytes[n] \in Digits(BYTE_BITS)
  <2>1. TAKE n \in 1..len
  <2>2. (n - 1) \div wb \in 0..(count - 1) /\ (n - 1) % wb \in 0..(wb - 1)
    BY <1>1, <1>2, Places
  <2>3. (n - 1) \div wb + 1 \in 1..count
    BY <2>2
  <2>4. bytes[n] = Field(words[(n - 1) \div wb + 1], (n - 1) % wb, BYTE_BITS)
    OBVIOUS
  <2>5. words[(n - 1) \div wb + 1] \in Nat
    BY <1>1, <2>3 DEF Digits
  <2>6. (n - 1) % wb \in Nat
    BY <1>1, <2>2
  <2>7. Field(words[(n - 1) \div wb + 1], (n - 1) % wb, BYTE_BITS) \in 0..(Pow(BYTE_BITS) - 1)
    BY <1>1, <2>5, <2>6, FieldType
  <2> QED BY <2>2, <2>3, <2>4, <2>7 DEF Digits
<1>4. bytes \in [1..len -> Digits(BYTE_BITS)]
  BY <1>3
<1>5. AreNumbers(bytes, len)
  BY <1>1, <1>4 DEF Digits, AreNumbers
<1>6. Len(bytes) = len
  BY <1>2, <1>4, LenOf
<1>7. Len(bytes) \div wb = count
  BY <1>1, <1>2, <1>6, ExactQuotient
<1>8. ASSUME NEW k \in 1..count
      PROVE  Joined(bytes, (k - 1) * wb + 1, wb, BYTE_BITS) = words[k]
  <2> DEFINE first == (k - 1) * wb + 1
  <2>1. (k - 1) * wb \in Nat /\ k - 1 \in Nat /\ k \in Nat
    BY <1>1, ProductType
  <2>2. first \in Nat \ {0}
    BY <2>1
  <2>3. first + wb - 1 <= len
    <3>1. (k - 1) * wb + wb = k * wb
      BY <1>1, <2>1, SMTT(30)
    <3>2. k * wb <= count * wb
      BY <1>1, <2>1, SMTT(30)
    <3>3. k * wb \in Nat
      BY <1>1, <2>1, ProductType
    <3> QED BY <1>1, <1>2, <2>1, <3>1, <3>2, <3>3
  <2>4. words[k] \in 0..(Pow(BYTE_BITS * wb) - 1)
    BY <1>1 DEF Digits
  <2>5. ASSUME NEW m \in 0..(wb - 1)
        PROVE  bytes[first + m] = Field(words[k], m, BYTE_BITS)
    <3>1. first + m \in 1..len /\ (first + m) - 1 = wb * (k - 1) + m /\ m \in Nat
          /\ (first + m) - 1 \in Nat
      <4> DEFINE x == (k - 1) * wb
      <4>1. (k - 1) * wb = wb * (k - 1)
        BY <1>1, <2>1, SMTT(30)
      <4>2. x \in Nat /\ first = x + 1 /\ wb * (k - 1) = x
        BY <2>1, <4>1
      <4> HIDE DEF x, first, wb, len
      <4> QED BY <1>1, <1>2, <2>3, <4>2
    <3>2. ((first + m) - 1) \div wb = k - 1 /\ ((first + m) - 1) % wb = m
      BY <1>1, <2>1, <3>1, DivisionIsUnique
    <3>3. (k - 1) + 1 = k
      BY <2>1
    <3> HIDE DEF first
    <3> QED BY <1>3, <3>1, <3>2, <3>3
  <2> HIDE DEF first, wb, len
  <2>6. HaveFields(bytes, first, words[k], wb, BYTE_BITS)
    BY <2>5 DEF HaveFields
  <2>7. Joined(bytes, first, wb, BYTE_BITS) = words[k]
    BY <1>1, <1>2, <1>5, <2>2, <2>3, <2>4, <2>6, RejoinedOf
  <2> QED BY <2>7 DEF first
<1>9. Words(bytes) = [k \in 1..count |-> words[k]]
  BY <1>7, <1>8 DEF Words
<1> QED BY <1>4, <1>9

(* How an array of indices or atoms is divided.                            *)
LEMMA WordsOfWidth ==
  ASSUME NEW bits \in Widths
  PROVE  \E e \in Nat \ {0} : /\ WORD_BITS = bits * e /\ WORD_BITS \div bits = e
                              /\ UNPACKED_SIZE = e * (bits * Turns)
                              /\ DivCeil(UNPACKED_SIZE, e) = bits * Turns
                              /\ bits * Turns \in Nat
                              /\ (bits * Turns) * WORD_BYTES = (UNPACKED_SIZE \div BYTE_BITS) * bits
<1>1. PICK e \in Nat \ {0} : WORD_BITS = bits * e
  BY WidthsDivide
<1>2. bits \in Nat \ {0} /\ Turns \in Nat \ {0}
  BY WidthsDivide, Sizes
<1>3. WORD_BITS \div bits = e
  BY <1>1, <1>2, ExactQuotient
<1>4. bits * Turns \in Nat /\ (bits * e) * Turns = e * (bits * Turns)
  BY <1>2, ProductType, SMTT(30)
<1>5. UNPACKED_SIZE = e * (bits * Turns)
  BY <1>1, <1>4, Sizes
<1>6. DivCeil(UNPACKED_SIZE, e) = bits * Turns
  BY <1>4, <1>5, ExactQuotient
<1>7. (bits * Turns) * WORD_BYTES = (WORD_BYTES * Turns) * bits
  BY <1>2, Sizes, SMTT(30)
<1> QED BY <1>1, <1>3, <1>4, <1>5, <1>6, <1>7, Sizes

(* Words with the values of the cells have them at their places.           *)
LEMMA FieldOfCell ==
  ASSUME NEW bits \in Nat, NEW e \in Nat \ {0}, NEW values, values \in [Cells -> Digits(bits)],
         NEW i \in Cells
  PROVE  Field(Joined(values, (((i - 1) \div e) * e) + 1, e, bits), (i - 1) % e, bits) = values[i]
<1> DEFINE q == (i - 1) \div e
           r == (i - 1) % e
           first == q * e + 1
           size == UNPACKED_SIZE
<1>1. i \in 1..size /\ size \in Nat /\ values \in [1..size -> Digits(bits)] /\ Pow(bits) \in Nat \ {0}
  BY Sizes, PowType DEF Cells
<1>2. AreNumbers(values, size) /\ values[i] \in 0..(Pow(bits) - 1)
  BY <1>1 DEF Digits, AreNumbers
<1>3. i - 1 \in Nat
  BY <1>1
<1>4. q \in Nat /\ r \in 0..(e - 1) /\ i - 1 = e * q + r
  BY <1>3, Division
<1>5. q * e = e * q /\ q * e \in Nat
  BY <1>4, ProductType, SMTT(30)
<1>6. first \in Nat \ {0} /\ first + r = i
  BY <1>1, <1>4, <1>5
<1> HIDE DEF q, r, first, size
<1>7. first + r <= size =>
        Field(Joined(values, first, e, bits), r, bits) = values[first + r] % Pow(bits)
  <2>1. size \in Nat /\ AreNumbers(values, size) /\ first \in Nat \ {0} /\ e \in Nat
    BY <1>1, <1>2, <1>6
  <2>2. \A n \in 0..(e - 1) : first + n <= size =>
          Field(Joined(values, first, e, bits), n, bits) = values[first + n] % Pow(bits)
    BY ONLY <2>1, bits \in Nat, JoinedOf
  <2> QED BY <2>2, <1>4
<1>8. Field(Joined(values, first, e, bits), r, bits) = values[i] % Pow(bits)
  BY <1>1, <1>6, <1>7
<1>9. values[i] % Pow(bits) = values[i]
  BY <1>1, <1>2, SmallRemainder
<1> QED BY <1>8, <1>9 DEF first, q, r

(* Arrays of bytes for indices or atoms of a width.                        *)
ByteArrays(bits) == [1..((UNPACKED_SIZE \div BYTE_BITS) * bits) -> Digits(BYTE_BITS)]

(* What was packed in words is unpacked.                                   *)
LEMMA UnpackOfPack ==
  ASSUME NEW bits \in Widths, NEW values \in [Cells -> Digits(bits)]
  PROVE  /\ PackBits(values, bits) \in ByteArrays(bits)
         /\ UnpackBits(PackBits(values, bits), bits) = values
<1>1. PICK e \in Nat \ {0} : /\ WORD_BITS = bits * e /\ WORD_BITS \div bits = e
                             /\ UNPACKED_SIZE = e * (bits * Turns)
                             /\ DivCeil(UNPACKED_SIZE, e) = bits * Turns
                             /\ bits * Turns \in Nat
                             /\ (bits * Turns) * WORD_BYTES = (UNPACKED_SIZE \div BYTE_BITS) * bits
  BY WordsOfWidth
<1> DEFINE count == bits * Turns
           size == UNPACKED_SIZE
           words == [k \in 1..count |-> Joined(values, (k - 1) * e + 1, e, bits)]
           bytes == [n \in 1..(count * WORD_BYTES) |->
                       Field(words[(n - 1) \div WORD_BYTES + 1], (n - 1) % WORD_BYTES, BYTE_BITS)]
<1>2. bits \in Nat /\ count \in Nat /\ size \in Nat /\ AreNumbers(values, size)
  <2>1. bits \in Nat /\ size \in Nat /\ values \in [1..size -> Digits(bits)]
    BY WidthsDivide, Sizes DEF Cells
  <2>2. Pow(bits) \in Nat
    BY <2>1, PowType
  <2> QED BY <1>1, <2>1, <2>2 DEF Digits, AreNumbers
<1>3. words \in [1..count -> Digits(WORD_BITS)]
  <2>1. ASSUME NEW k \in 1..count
        PROVE  Joined(values, (k - 1) * e + 1, e, bits) \in Digits(WORD_BITS)
    <3>1. k - 1 \in Nat
      BY <1>2
    <3>2. (k - 1) * e + 1 \in Nat \ {0}
      <4>1. (k - 1) * e \in Nat
        BY <3>1, ProductType
      <4> QED BY <4>1
    <3> HIDE DEF size
    <3>3. Joined(values, (k - 1) * e + 1, e, bits) \in 0..(Pow(bits * e) - 1)
      BY <1>2, <3>2, JoinedOf
    <3> QED BY <1>1, <3>3 DEF Digits
  <2> QED BY <2>1
<1>4. Len(words) = count
  BY <1>2, <1>3, LenOf
<1>5. PackBits(values, bits) = bytes
  <2>1. PackBits(values, bits)
          = [n \in 1..(Len(words) * WORD_BYTES) |->
               Field(words[(n - 1) \div WORD_BYTES + 1], (n - 1) % WORD_BYTES, BYTE_BITS)]
    BY <1>1 DEF PackBits
  <2> QED BY <1>4, <2>1
<1>6. bytes \in [1..(count * WORD_BYTES) -> Digits(BYTE_BITS)] /\ Words(bytes) = words
  <2> DEFINE w == words
             b == bytes
  <2>1. w \in [1..count -> Digits(WORD_BITS)]
    BY <1>3
  <2>2. b = [n \in 1..(count * WORD_BYTES) |->
               Field(w[(n - 1) \div WORD_BYTES + 1], (n - 1) % WORD_BYTES, BYTE_BITS)]
    OBVIOUS
  <2> HIDE DEF w, b, count
  <2>3. b \in [1..(count * WORD_BYTES) -> Digits(BYTE_BITS)] /\ Words(b) = w
    BY <1>2, <2>1, <2>2, BytesOfWords
  <2> QED BY <2>3 DEF w, b
<1>7. bytes \in ByteArrays(bits)
  BY <1>1, <1>6 DEF ByteArrays
<1>8. ASSUME NEW i \in Cells
      PROVE  Field(words[(i - 1) \div e + 1], (i - 1) % e, bits) = values[i]
  <2>1. i \in 1..(e * count)
    BY <1>1 DEF Cells
  <2>2. (i - 1) \div e \in 0..(count - 1)
    BY <1>2, <2>1, Places
  <2> DEFINE q == (i - 1) \div e
  <2>3. q + 1 \in 1..count /\ (q + 1) - 1 = q
    BY <1>2, <2>2
  <2>4. words[q + 1] = Joined(values, (q * e) + 1, e, bits)
    BY <2>3
  <2>5. Field(Joined(values, (q * e) + 1, e, bits), (i - 1) % e, bits) = values[i]
    BY <1>2, FieldOfCell
  <2> QED BY <2>4, <2>5
<1>9. UnpackBits(bytes, bits) = [i \in Cells |-> Field(words[(i - 1) \div e + 1], (i - 1) % e, bits)]
  <2> HIDE DEF bytes
  <2> DEFINE w == words
  <2>1. Words(bytes) = w
    BY <1>6
  <2> HIDE DEF w
  <2>2. UnpackBits(bytes, bits) = [i \in Cells |-> Field(w[(i - 1) \div e + 1], (i - 1) % e, bits)]
    BY <1>1, <2>1 DEF UnpackBits
  <2> QED BY <2>2 DEF w
<1>10. UnpackBits(bytes, bits) = [i \in Cells |-> values[i]]
  <2> HIDE DEF bytes, words
  <2> QED BY <1>8, <1>9
<1>11. UnpackBits(bytes, bits) = values
  <2> HIDE DEF bytes
  <2> QED BY <1>10
<1> HIDE DEF bytes
<1> QED BY <1>5, <1>7, <1>11

(* The length of an array of bytes, and its words.                         *)
LEMMA ByteArrayIs ==
  ASSUME NEW bits \in Widths, NEW bytes \in ByteArrays(bits)
  PROVE  LET len == (UNPACKED_SIZE \div BYTE_BITS) * bits
         IN  /\ len \in Nat /\ len = (bits * Turns) * WORD_BYTES
             /\ AreNumbers(bytes, len) /\ Len(bytes) = len
             /\ Len(bytes) \div WORD_BYTES = bits * Turns
             /\ bytes \in [1..len -> Digits(BYTE_BITS)]
<1> DEFINE len == (UNPACKED_SIZE \div BYTE_BITS) * bits
<1>1. bits * Turns \in Nat /\ len = (bits * Turns) * WORD_BYTES
  BY WordsOfWidth
<1>2. bytes \in [1..len -> Digits(BYTE_BITS)]
  BY DEF ByteArrays
<1> HIDE DEF len
<1>3. WORD_BYTES \in Nat \ {0} /\ Pow(BYTE_BITS) \in Nat
  BY Sizes, PowType
<1> DEFINE count == bits * Turns
<1> HIDE DEF count
<1>4. count \in Nat /\ len = count * WORD_BYTES
  BY <1>1 DEF count
<1>5. len \in Nat /\ len = WORD_BYTES * count
  BY <1>3, <1>4, ProductType, SMTT(30)
<1>6. AreNumbers(bytes, len)
  BY <1>2, <1>3 DEF AreNumbers, Digits
<1>7. Len(bytes) = len
  BY <1>2, <1>5, LenOf
<1>8. Len(bytes) \div WORD_BYTES = count
  BY <1>3, <1>4, <1>5, <1>7, ExactQuotient
<1> QED BY <1>1, <1>2, <1>5, <1>6, <1>7, <1>8 DEF len, count

(* The words of an array have its bytes, and are in it.                    *)
LEMMA WordsOfBytes ==
  ASSUME NEW bits \in Widths, NEW bytes, bytes \in ByteArrays(bits), NEW k \in 1..(bits * Turns)
  PROVE  /\ Words(bytes)[k] \in 0..(Pow(WORD_BITS) - 1)
         /\ \A n \in 0..(WORD_BYTES - 1) :
              /\ (k - 1) * WORD_BYTES + n + 1 \in 1..((UNPACKED_SIZE \div BYTE_BITS) * bits)
              /\ Field(Words(bytes)[k], n, BYTE_BITS) = bytes[(k - 1) * WORD_BYTES + n + 1]
<1> DEFINE len == (UNPACKED_SIZE \div BYTE_BITS) * bits
           count == bits * Turns
           wb == WORD_BYTES
           x == (k - 1) * wb
<1>1. /\ len \in Nat /\ len = count * wb
      /\ AreNumbers(bytes, len) /\ Len(bytes) \div wb = count
      /\ bytes \in [1..len -> Digits(BYTE_BITS)]
  BY ByteArrayIs
<1>2. wb \in Nat \ {0} /\ BYTE_BITS \in Nat \ {0} /\ WORD_BITS = BYTE_BITS * wb
      /\ Pow(BYTE_BITS) \in Nat \ {0} /\ count \in Nat
  BY Sizes, PowType, WordsOfWidth
<1>3. k - 1 \in Nat /\ k \in 1..count
  BY <1>2
<1>4. x \in Nat /\ x + wb <= len
  <2>1. x \in Nat /\ (k - 1) * wb + wb = k * wb
    BY <1>2, <1>3, ProductType, SMTT(30)
  <2>2. k * wb <= count * wb
    BY <1>2, <1>3, SMTT(30)
  <2> QED BY <1>1, <2>1, <2>2
<1>5. Words(bytes)[k] = Joined(bytes, x + 1, wb, BYTE_BITS)
  BY <1>1, <1>3 DEF Words
<1> HIDE DEF len, wb, x, count
<1>6. x + 1 \in Nat \ {0}
  BY <1>4
<1>7. /\ Joined(bytes, x + 1, wb, BYTE_BITS) \in 0..(Pow(BYTE_BITS * wb) - 1)
      /\ \A n \in 0..(wb - 1) : (x + 1) + n <= len =>
           Field(Joined(bytes, x + 1, wb, BYTE_BITS), n, BYTE_BITS)
             = bytes[(x + 1) + n] % Pow(BYTE_BITS)
  <2>1. len \in Nat /\ AreNumbers(bytes, len) /\ wb \in Nat /\ BYTE_BITS \in Nat
    BY <1>1, <1>2
  <2> DEFINE first == x + 1
  <2>2. first \in Nat \ {0}
    BY <1>6
  <2> HIDE DEF first
  <2>3. /\ Joined(bytes, first, wb, BYTE_BITS) \in 0..(Pow(BYTE_BITS * wb) - 1)
        /\ \A n \in 0..(wb - 1) : first + n <= len =>
             Field(Joined(bytes, first, wb, BYTE_BITS), n, BYTE_BITS)
               = bytes[first + n] % Pow(BYTE_BITS)
    BY <2>1, <2>2, JoinedOf
  <2> QED BY <2>3 DEF first
<1>8. ASSUME NEW n \in 0..(wb - 1)
      PROVE  /\ x + n + 1 \in 1..len
             /\ Field(Words(bytes)[k], n, BYTE_BITS) = bytes[x + n + 1]
  <2>1. x + n + 1 = (x + 1) + n /\ (x + 1) + n \in 1..len /\ (x + 1) + n <= len
    BY <1>1, <1>2, <1>4
  <2> DEFINE m == (x + 1) + n
             b == bytes[m]
  <2>2. b \in 0..(Pow(BYTE_BITS) - 1)
    BY <1>1, <2>1 DEF Digits
  <2>3. b % Pow(BYTE_BITS) = b
    <3> HIDE DEF b
    <3> QED BY <1>2, <2>2, SmallRemainder
  <2>4. Field(Joined(bytes, x + 1, wb, BYTE_BITS), n, BYTE_BITS) = b % Pow(BYTE_BITS)
    BY <1>7, <2>1
  <2> QED BY <1>5, <2>1, <2>3, <2>4
<1> QED BY <1>2, <1>5, <1>7, <1>8 DEF x, len, wb

(* Indices that are unpacked fit into their width.                         *)
LEMMA UnpackBitsType ==
  ASSUME NEW bits \in Widths, NEW bytes \in ByteArrays(bits)
  PROVE  UnpackBits(bytes, bits) \in [Cells -> Digits(bits)]
<1>1. PICK e \in Nat \ {0} : /\ WORD_BITS \div bits = e
                             /\ UNPACKED_SIZE = e * (bits * Turns)
                             /\ bits * Turns \in Nat
  BY WordsOfWidth
<1>2. bits \in Nat /\ Pow(WORD_BITS) \in Nat \ {0}
  BY WidthsDivide, Sizes, PowType
<1>3. UnpackBits(bytes, bits)
        = [i \in Cells |-> Field(Words(bytes)[(i - 1) \div e + 1], (i - 1) % e, bits)]
  BY <1>1 DEF UnpackBits
<1>4. ASSUME NEW i \in Cells
      PROVE  Field(Words(bytes)[(i - 1) \div e + 1], (i - 1) % e, bits) \in Digits(bits)
  <2>1. i \in 1..(e * (bits * Turns))
    BY <1>1 DEF Cells
  <2>2. (i - 1) \div e \in 0..((bits * Turns) - 1) /\ (i - 1) % e \in 0..(e - 1)
    BY <1>1, <2>1, Places
  <2>3. (i - 1) \div e + 1 \in 1..(bits * Turns) /\ (i - 1) % e \in Nat
    BY <1>1, <2>2
  <2>4. Words(bytes)[(i - 1) \div e + 1] \in 0..(Pow(WORD_BITS) - 1)
    BY <2>3, WordsOfBytes
  <2>5. Words(bytes)[(i - 1) \div e + 1] \in Nat
    BY <1>2, <2>4
  <2>6. Field(Words(bytes)[(i - 1) \div e + 1], (i - 1) % e, bits) \in 0..(Pow(bits) - 1)
    BY <1>2, <2>3, <2>5, FieldType
  <2> QED BY <2>6 DEF Digits
<1> QED BY <1>3, <1>4

(* Reading indices byte by byte is reading them word by word.              *)
LEMMA ByteByByte ==
  ASSUME NEW bits \in IndexWidths, NEW bytes, bytes \in ByteArrays(bits)
  PROVE  ExtractIndices(bytes, bits) = UnpackBits(bytes, bits)
<1>1. bits \in Widths
  BY DEF Widths
<1>2. PICK e \in Nat \ {0} : /\ WORD_BITS = bits * e /\ WORD_BITS \div bits = e
                             /\ UNPACKED_SIZE = e * (bits * Turns)
                             /\ bits * Turns \in Nat
  BY <1>1, WordsOfWidth
<1>3. PICK small \in Nat \ {0} : BYTE_BITS = bits * small
  BY WidthsDivide
<1>4. bits \in Nat \ {0} /\ WORD_BYTES \in Nat \ {0} /\ WORD_BITS = BYTE_BITS * WORD_BYTES
  BY <1>1, WidthsDivide, Sizes
<1>5. BYTE_BITS \div bits = small
  BY <1>3, <1>4, ExactQuotient
<1>6. e = WORD_BYTES * small
  <2>1. (bits * small) * WORD_BYTES = bits * (WORD_BYTES * small)
    BY <1>4, SMTT(30)
  <2> DEFINE q == WORD_BYTES * small
  <2>2. q \in Nat
    BY <1>4, ProductType
  <2>3. WORD_BITS = bits * q
    BY <1>3, <1>4, <2>1
  <2> HIDE DEF q
  <2>4. WORD_BITS \div bits = q
    BY <1>4, <2>2, <2>3, ExactQuotient
  <2> QED BY <1>2, <2>4 DEF q
<1>7. ASSUME NEW i \in Cells
      PROVE  Field(bytes[(i - 1) \div small + 1], (i - 1) % small, bits)
               = Field(Words(bytes)[(i - 1) \div e + 1], (i - 1) % e, bits)
  <2> DEFINE q == (i - 1) \div e
             r == (i - 1) % e
             p == r \div small
             t == r % small
             wb == WORD_BYTES
             word == Words(bytes)[q + 1]
  <2>1. i \in 1..(e * (bits * Turns)) /\ i - 1 \in Nat
    BY <1>2, Sizes DEF Cells
  <2>2. q \in 0..((bits * Turns) - 1) /\ r \in 0..(e - 1) /\ i - 1 = e * q + r
    BY <1>2, <2>1, Places
  <2>3. q + 1 \in 1..(bits * Turns) /\ (q + 1) - 1 = q /\ q \in Nat /\ r \in Nat
    BY <1>2, <2>2
  <2> HIDE DEF q, r
  <2>4. r \in 1..0 \/ (p \in Nat /\ t \in 0..(small - 1) /\ r = small * p + t)
    BY <2>3, Division
  <2>5. r + 1 \in 1..(small * wb) /\ (r + 1) - 1 = r
    <3>1. small * wb = e
      BY <1>4, <1>6, SMTT(30)
    <3> QED BY <2>2, <3>1
  <2>6. p \in 0..(wb - 1) /\ t \in 0..(small - 1) /\ r = small * p + t
    <3>1. wb \in Nat
      BY <1>4
    <3>2. ((r + 1) - 1) \div small \in 0..(wb - 1) /\ ((r + 1) - 1) % small \in 0..(small - 1)
          /\ (r + 1) - 1 = small * (((r + 1) - 1) \div small) + (((r + 1) - 1) % small)
      <4> DEFINE j == r + 1
      <4>1. j \in 1..(small * wb)
        BY <2>5
      <4> HIDE DEF j
      <4>2. (j - 1) \div small \in 0..(wb - 1) /\ (j - 1) % small \in 0..(small - 1)
            /\ j - 1 = small * ((j - 1) \div small) + ((j - 1) % small)
        BY <3>1, <4>1, Places
      <4> QED BY <4>2 DEF j
    <3> QED BY <2>5, <3>2
  <2> HIDE DEF p, t
  <2>7. /\ word \in 0..(Pow(WORD_BITS) - 1)
        /\ (q * wb) + p + 1 \in 1..((UNPACKED_SIZE \div BYTE_BITS) * bits)
        /\ Field(word, p, BYTE_BITS) = bytes[(q * wb) + p + 1]
    BY <1>1, <2>3, <2>6, WordsOfBytes
  <2>8. word \in Nat
    <3>1. Pow(WORD_BITS) \in Nat
      BY Sizes, PowType
    <3> QED BY <2>7, <3>1
  <2> HIDE DEF word
  <2>9. p \in Nat /\ t \in Nat
    BY <1>3, <1>4, <2>6
  <2>10. Field(Field(word, p, BYTE_BITS), t, bits) = Field(word, p * small + t, bits)
    <3> DEFINE at == p * small + t
    <3>1. HoldFields(BYTE_BITS, bits, small) /\ IsPlace(at, p, small, t)
      BY <1>3, <2>6 DEF HoldFields, IsPlace
    <3> HIDE DEF at
    <3>2. Field(Field(word, p, BYTE_BITS), t, bits) = Field(word, at, bits)
      BY <1>4, <2>8, <2>9, <3>1, FieldOfField
    <3> QED BY <3>2 DEF at
  <2>11. p * small = small * p
    BY <2>9, SMTT(30)
  <2>12. Field(word, r, bits) = Field(bytes[(q * wb) + p + 1], t, bits)
    <3>1. p * small + t = r
      BY <2>6, <2>11
    <3> QED BY <2>7, <2>10, <3>1
  <2>13. (i - 1) \div small = q * wb + p /\ (i - 1) % small = t
    <3> DEFINE x == q * wb
    <3>1. x \in Nat /\ (wb * small) * q = small * x
      BY <1>4, <2>3, ProductType, SMTT(30)
    <3>2. small * (x + p) = small * x + small * p
      <4> HIDE DEF x
      <4> QED BY <2>9, <3>1, SMTT(30)
    <3>3. small * x \in Nat /\ small * p \in Nat
      BY <2>9, <3>1, ProductType
    <3>4. i - 1 = small * (x + p) + t
      <4>1. i - 1 = small * x + (small * p + t)
        BY <1>6, <2>2, <2>6, <3>1
      <4> QED BY <2>9, <3>2, <3>3, <4>1
    <3>5. x + p \in Nat
      BY <2>9, <3>1
    <3> HIDE DEF x
    <3>6. (i - 1) \div small = x + p /\ (i - 1) % small = t
      BY <2>1, <2>6, <3>4, <3>5, DivisionIsUnique
    <3> QED BY <3>6 DEF x
  <2> QED BY <2>12, <2>13 DEF word, q, r
<1>8. ExtractIndices(bytes, bits)
        = [i \in Cells |-> Field(bytes[(i - 1) \div small + 1], (i - 1) % small, bits)]
  BY <1>5 DEF ExtractIndices
<1>9. UnpackBits(bytes, bits)
        = [i \in Cells |-> Field(Words(bytes)[(i - 1) \div e + 1], (i - 1) % e, bits)]
  BY <1>2 DEF UnpackBits
<1> QED BY <1>7, <1>8, <1>9

(* What pack_values packs in bytes is unpacked from words.                 *)
LEMMA UnpackOfValues ==
  ASSUME NEW bits \in IndexWidths, NEW values \in [Cells -> Digits(bits)]
  PROVE  /\ PackValues(values, bits) \in ByteArrays(bits)
         /\ UnpackBits(PackValues(values, bits), bits) = values
<1> DEFINE len == (UNPACKED_SIZE \div BYTE_BITS) * bits
           size == UNPACKED_SIZE
<1>1. PICK small \in Nat \ {0} : BYTE_BITS = bits * small
  BY WidthsDivide
<1> DEFINE bytes == [n \in 1..len |-> Joined(values, (n - 1) * small + 1, small, bits)]
<1>2. bits \in Nat \ {0} /\ size \in Nat /\ UNPACKED_SIZE \div BYTE_BITS = WORD_BYTES * Turns
      /\ WORD_BYTES * Turns \in Nat /\ Pow(bits) \in Nat
  BY WidthsDivide, Sizes, PowType, ProductType DEF Widths
<1>3. BYTE_BITS \div bits = small
  BY <1>1, <1>2, ExactQuotient
<1>4. len \in Nat /\ size = small * len
  <2> DEFINE x == WORD_BYTES * Turns
  <2>1. size = (BYTE_BITS * WORD_BYTES) * Turns /\ (BYTE_BITS * WORD_BYTES) * Turns = BYTE_BITS * x
    BY Sizes, SMTT(30)
  <2>2. x \in Nat /\ len = x * bits
    BY <1>2
  <2> HIDE DEF x, size, len
  <2>3. (bits * small) * x = small * (x * bits)
    BY <1>2, <2>2, SMTT(30)
  <2>4. size = small * len
    BY <1>1, <2>1, <2>2, <2>3
  <2> QED BY <1>2, <2>2, <2>4, ProductType
<1>5. size \div small = len
  <2> HIDE DEF len, size
  <2> QED BY <1>4, ExactQuotient
<1>6. PackValues(values, bits) = bytes
  BY <1>3, <1>5 DEF PackValues
<1>7. AreNumbers(values, size)
  BY <1>2 DEF Digits, AreNumbers, Cells
<1>8. bytes \in ByteArrays(bits)
  <2>1. ASSUME NEW n \in 1..len
        PROVE  Joined(values, (n - 1) * small + 1, small, bits) \in Digits(BYTE_BITS)
    <3> DEFINE first == (n - 1) * small + 1
    <3>1. first \in Nat \ {0}
      <4>1. n - 1 \in Nat
        BY <1>4
      <4>2. (n - 1) * small \in Nat
        BY <4>1, ProductType
      <4> QED BY <4>2
    <3> HIDE DEF first, size
    <3>2. Joined(values, first, small, bits) \in 0..(Pow(bits * small) - 1)
      BY <1>2, <1>7, <3>1, JoinedOf
    <3> QED BY <1>1, <3>2 DEF Digits, first
  <2> HIDE DEF len
  <2>2. bytes \in [1..len -> Digits(BYTE_BITS)]
    BY <2>1
  <2> HIDE DEF bytes
  <2> QED BY <2>2 DEF ByteArrays, len
<1>9. ASSUME NEW i \in Cells
      PROVE  Field(bytes[(i - 1) \div small + 1], (i - 1) % small, bits) = values[i]
  <2> DEFINE q == (i - 1) \div small
  <2>1. i \in 1..(small * len)
    <3> HIDE DEF len
    <3> QED BY <1>4 DEF Cells
  <2>2. q \in 0..(len - 1)
    <3> HIDE DEF len
    <3> QED BY <1>4, <2>1, Places
  <2>3. q + 1 \in 1..len /\ (q + 1) - 1 = q
    <3> HIDE DEF len, q
    <3> QED BY <1>4, <2>2
  <2>4. bytes[q + 1] = Joined(values, (q * small) + 1, small, bits)
    <3> HIDE DEF len, q
    <3> QED BY <2>3
  <2>5. Field(Joined(values, (q * small) + 1, small, bits), (i - 1) % small, bits) = values[i]
    BY <1>2, FieldOfCell
  <2> QED BY <2>4, <2>5
<1> HIDE DEF bytes
<1>10. ExtractIndices(bytes, bits) = [i \in Cells |-> values[i]]
  BY <1>3, <1>9 DEF ExtractIndices
<1>11. UnpackBits(bytes, bits) = values
  BY <1>8, <1>10, ByteByByte
<1> QED BY <1>6, <1>8, <1>11

(* Reading atoms in pairs of bytes is reading them word by word.           *)
LEMMA AtomByAtom ==
  ASSUME NEW bytes, bytes \in ByteArrays(2 * BYTE_BITS)
  PROVE  ExtractDirectAtoms(bytes) = UnpackBits(bytes, 2 * BYTE_BITS)
<1> DEFINE bits == 2 * BYTE_BITS
           count == bits * Turns
<1>1. bits \in Widths /\ BYTE_BITS \in Nat /\ WORD_BYTES \in Nat
  BY Sizes DEF Widths
<1>2. PICK e \in Nat \ {0} : /\ WORD_BITS = bits * e /\ WORD_BITS \div bits = e
                             /\ UNPACKED_SIZE = e * count
                             /\ count \in Nat
  BY <1>1, WordsOfWidth
<1>3. WORD_BYTES = 2 * e
  <2> DEFINE b == BYTE_BITS
             x == 2 * e
  <2>1. b \in Nat \ {0} /\ x \in Nat /\ WORD_BYTES \in Nat /\ WORD_BITS = b * WORD_BYTES
    BY Sizes
  <2>2. WORD_BITS = b * x
    <3>1. (2 * b) * e = b * (2 * e)
      BY <2>1, SMTT(30)
    <3> QED BY <1>2, <3>1
  <2> HIDE DEF b, x
  <2>3. WORD_BITS \div b = x /\ WORD_BITS \div b = WORD_BYTES
    BY <2>1, <2>2, ExactQuotient
  <2> QED BY <2>3 DEF x
<1>4. ASSUME NEW i \in Cells
      PROVE  bytes[2 * i - 1] + bytes[2 * i] * Pow(BYTE_BITS)
               = Field(Words(bytes)[(i - 1) \div e + 1], (i - 1) % e, bits)
  <2> DEFINE q == (i - 1) \div e
             r == (i - 1) % e
             word == Words(bytes)[q + 1]
  <2>1. i \in 1..(e * count) /\ i \in Nat
    BY <1>2, Sizes DEF Cells
  <2>2. q \in 0..(count - 1) /\ r \in 0..(e - 1) /\ i - 1 = e * q + r
    <3> HIDE DEF count
    <3> QED BY <1>2, <2>1, Places
  <2>3. q + 1 \in 1..(bits * Turns) /\ (q + 1) - 1 = q /\ q \in Nat /\ r \in Nat
    <3> HIDE DEF q, r
    <3>1. q + 1 \in 1..count /\ (q + 1) - 1 = q /\ q \in Nat /\ r \in Nat
      <4> HIDE DEF count
      <4> QED BY <1>2, <2>2
    <3> QED BY <3>1
  <2> HIDE DEF q, r
  <2>4. word \in 0..(Pow(WORD_BITS) - 1)
        /\ \A n \in 0..(WORD_BYTES - 1) : Field(word, n, BYTE_BITS) = bytes[q * WORD_BYTES + n + 1]
    BY <1>1, <2>3, WordsOfBytes
  <2>5. word \in Nat
    <3>1. Pow(WORD_BITS) \in Nat
      BY Sizes, PowType
    <3> QED BY <2>4, <3>1
  <2> HIDE DEF word
  <2>6. 2 * r \in 0..(WORD_BYTES - 1) /\ 2 * r + 1 \in 0..(WORD_BYTES - 1)
    BY <1>3, <2>2, <2>3
  <2>7. q * WORD_BYTES + 2 * r + 1 = 2 * i - 1 /\ q * WORD_BYTES + (2 * r + 1) + 1 = 2 * i
    <3> DEFINE x == e * q
    <3>1. q * (2 * e) = 2 * x /\ x \in Nat
      BY <2>3, ProductType, SMTT(30)
    <3>2. i = x + r + 1
      BY <2>1, <2>2, <2>3, <3>1
    <3> HIDE DEF x
    <3>3. q * WORD_BYTES = 2 * x
      BY <1>3, <3>1
    <3> QED BY <2>3, <3>1, <3>2, <3>3
  <2>8. Field(word, 2 * r, BYTE_BITS) = bytes[q * WORD_BYTES + 2 * r + 1]
        /\ Field(word, 2 * r + 1, BYTE_BITS) = bytes[q * WORD_BYTES + (2 * r + 1) + 1]
    BY <2>4, <2>6
  <2>9. Field(word, 2 * r, BYTE_BITS) = bytes[2 * i - 1] /\ Field(word, 2 * r + 1, BYTE_BITS) = bytes[2 * i]
    BY <2>7, <2>8
  <2>10. Field(word, r, 2 * BYTE_BITS)
           = Field(word, 2 * r, BYTE_BITS) + Field(word, 2 * r + 1, BYTE_BITS) * Pow(BYTE_BITS)
    BY <1>1, <2>3, <2>5, DoubleField
  <2> QED BY <2>9, <2>10 DEF word, q, r
<1>5. ExtractDirectAtoms(bytes) = [i \in Cells |-> bytes[2 * i - 1] + bytes[2 * i] * Pow(BYTE_BITS)]
  BY DEF ExtractDirectAtoms, Pow
<1>6. UnpackBits(bytes, bits)
        = [i \in Cells |-> Field(Words(bytes)[(i - 1) \div e + 1], (i - 1) % e, bits)]
  BY <1>2 DEF UnpackBits
<1> QED BY <1>4, <1>5, <1>6

(* Bytes of zeros: the array of a palette of one entry.                    *)
LEMMA UnpackOfZeros ==
  LET bytes == [n \in 1..(UNPACKED_SIZE \div BYTE_BITS) |-> 0]
  IN  /\ 1 \in IndexWidths
      /\ bytes \in ByteArrays(1)
      /\ UnpackBits(bytes, 1) = [i \in Cells |-> 0]
<1> DEFINE len == UNPACKED_SIZE \div BYTE_BITS
           bytes == [n \in 1..len |-> 0]
<1>1. BYTE_BITS \in Nat \ {0} /\ len \in Nat /\ UNPACKED_SIZE = BYTE_BITS * len
  <2>1. WORD_BYTES * Turns \in Nat /\ (BYTE_BITS * WORD_BYTES) * Turns = BYTE_BITS * (WORD_BYTES * Turns)
    BY Sizes, ProductType, SMTT(30)
  <2> QED BY Sizes, <2>1
<1>2. 1 \in IndexWidths
  <2>1. 0 \in 0..BYTE_BITS /\ 1 \in 1..BYTE_BITS /\ Pow(0) = 1
    BY <1>1, PowOfZero
  <2> QED BY <2>1 DEF IndexWidths, Pow
<1>3. bytes \in ByteArrays(1)
  <2>1. len * 1 = len
    BY <1>1
  <2>2. 0 \in Digits(BYTE_BITS)
    BY <1>1, PowType DEF Digits
  <2> HIDE DEF len
  <2>3. bytes \in [1..len -> Digits(BYTE_BITS)]
    BY <2>2
  <2> HIDE DEF bytes
  <2> QED BY <2>1, <2>3 DEF ByteArrays, len
<1>4. BYTE_BITS \div 1 = BYTE_BITS
  BY <1>1
<1>5. ASSUME NEW i \in Cells
      PROVE  Field(bytes[(i - 1) \div BYTE_BITS + 1], (i - 1) % BYTE_BITS, 1) = 0
  <2> DEFINE q == (i - 1) \div BYTE_BITS
             r == (i - 1) % BYTE_BITS
  <2>1. i \in 1..(BYTE_BITS * len)
    BY <1>1 DEF Cells
  <2>2. q \in 0..(len - 1) /\ r \in 0..(BYTE_BITS - 1)
    <3> HIDE DEF len
    <3> QED BY <1>1, <2>1, Places
  <2> HIDE DEF q, r, len
  <2>3. bytes[q + 1] = 0
    BY <1>1, <2>2
  <2>4. Field(0, r, 1) = 0
    <3> DEFINE p == Pow(1 * r)
               two == Pow(1)
    <3>1. p \in Nat \ {0} /\ two \in Nat \ {0}
      <4>1. r \in Nat /\ 1 * r \in Nat
        BY <1>1, <2>2
      <4> QED BY <4>1, PowType
    <3>2. Field(0, r, 1) = (0 \div p) % two
      BY FieldIs
    <3> HIDE DEF p, two
    <3>3. 0 = p * 0 /\ 0 \in 0..(two - 1)
      BY <3>1
    <3>4. 0 \div p = 0
      BY <3>1, <3>3, ExactQuotient
    <3>5. 0 % two = 0
      BY <3>1, <3>3, SmallRemainder
    <3> QED BY <3>2, <3>4, <3>5
  <2> QED BY <2>3, <2>4 DEF q, r
<1> HIDE DEF bytes
<1>6. ExtractIndices(bytes, 1) = [i \in Cells |-> 0]
  BY <1>4, <1>5 DEF ExtractIndices
<1>7. UnpackBits(bytes, 1) = [i \in Cells |-> 0]
  BY <1>2, <1>3, <1>6, ByteByByte
<1> QED BY <1>2, <1>3, <1>7 DEF bytes

-----------------------------------------------------------------------------
(* Palettes                                                                *)

(* The elements of a finite set of numbers, by their places, are a list of *)
(* all of them.                                                            *)
Nth(S, k) == CHOOSE i \in S : Before(S, i) = k - 1

LEMMA ListOf ==
  ASSUME NEW S, S \in SUBSET Nat, IsFiniteSet(S)
  PROVE  /\ Cardinality(S) \in Nat
         /\ \A k \in 1..Cardinality(S) : Nth(S, k) \in S /\ Before(S, Nth(S, k)) = k - 1
         /\ \A i \in S : Before(S, i) \in 0..(Cardinality(S) - 1) /\ i = Nth(S, Before(S, i) + 1)
         /\ \A k, l \in 1..Cardinality(S) : Nth(S, k) = Nth(S, l) => k = l
<1> DEFINE R == {pair \in Nat \X Nat : pair[1] < pair[2]}
           n == Cardinality(S)
<1>1. \A x, y \in S : <<x, y>> \in R <=> x < y
  OBVIOUS
<1>2. Orders(R, S)
  <2> HIDE DEF R
  <2>1. S \subseteq Nat
    OBVIOUS
  <2>2. \A x \in S : <<x, x>> \notin R
    BY <1>1, <2>1
  <2>3. \A x, y, z \in S : <<x, y>> \in R /\ <<y, z>> \in R => <<x, z>> \in R
    BY <1>1, <2>1
  <2>4. \A x, y \in S : x # y => <<x, y>> \in R \/ <<y, x>> \in R
    BY <1>1, <2>1
  <2> QED BY <2>2, <2>3, <2>4 DEF Orders
<1>3. \A x \in S : Rank(R, S, x) = Before(S, x)
  <2> HIDE DEF R
  <2>1. TAKE x \in S
  <2>2. {y \in S : <<y, x>> \in R} = {y \in S : y < x}
    BY <1>1
  <2> QED BY <2>2 DEF Rank, Before
<1> HIDE DEF R
<1>4. /\ n \in Nat
      /\ \A x \in S : Before(S, x) \in 0..(n - 1)
      /\ \A x, y \in S : Before(S, x) = Before(S, y) => x = y
      /\ \A k \in 0..(n - 1) : \E x \in S : Before(S, x) = k
  <2>1. /\ Cardinality(S) \in Nat
        /\ \A x \in S : Rank(R, S, x) \in 0..(Cardinality(S) - 1)
        /\ \A x, y \in S : Rank(R, S, x) = Rank(R, S, y) => x = y
        /\ \A k \in 0..(Cardinality(S) - 1) : \E x \in S : Rank(R, S, x) = k
    BY ONLY <1>2, IsFiniteSet(S), RanksAreDistinct
  <2> QED BY <1>3, <2>1
<1> HIDE DEF n
<1>5. \A k \in 1..n : Nth(S, k) \in S /\ Before(S, Nth(S, k)) = k - 1
  <2>1. TAKE k \in 1..n
  <2>2. k - 1 \in 0..(n - 1)
    BY <1>4
  <2>3. \E i \in S : Before(S, i) = k - 1
    BY <1>4, <2>2
  <2> QED BY <2>3 DEF Nth
<1>6. ASSUME NEW i \in S
      PROVE  Before(S, i) \in 0..(n - 1) /\ i = Nth(S, Before(S, i) + 1)
  <2>1. Before(S, i) \in 0..(n - 1)
    BY <1>4
  <2>2. Before(S, i) + 1 \in 1..n /\ (Before(S, i) + 1) - 1 = Before(S, i)
    BY <1>4, <2>1
  <2>3. Nth(S, Before(S, i) + 1) \in S /\ Before(S, Nth(S, Before(S, i) + 1)) = Before(S, i)
    BY <1>5, <2>2
  <2> QED BY <1>4, <2>1, <2>3
<1>7. ASSUME NEW k \in 1..n, NEW l \in 1..n, Nth(S, k) = Nth(S, l)
      PROVE  k = l
  <2>1. k - 1 = l - 1
    BY <1>5, <1>7
  <2> QED BY <2>1
<1> QED BY <1>4, <1>5, <1>6, <1>7 DEF n

(* A list of the members of a set, each once.                              *)
IsPalette(atoms, n, A) ==
  /\ n \in Nat
  /\ atoms \in [1..n -> A]
  /\ \A k, l \in 1..n : atoms[k] = atoms[l] => k = l
  /\ \A a \in A : \E k \in 1..n : atoms[k] = a

(* A palette has each of its members at the place that IndexIn finds.      *)
LEMMA PaletteIs ==
  ASSUME NEW atoms, NEW n, NEW A, IsPalette(atoms, n, A)
  PROVE  /\ n \in Nat /\ DOMAIN atoms = 1..n /\ Len(atoms) = n
         /\ {atoms[k] : k \in DOMAIN atoms} = A
         /\ \A a \in A : /\ IndexIn(atoms, a) \in 1..n
                         /\ atoms[IndexIn(atoms, a)] = a
                         /\ \E k \in DOMAIN atoms : atoms[k] = a
<1>1. n \in Nat /\ atoms \in [1..n -> A] /\ DOMAIN atoms = 1..n
  BY DEF IsPalette
<1>2. Len(atoms) = n
  BY <1>1, LenOf
<1>3. ASSUME NEW a \in A
      PROVE  /\ IndexIn(atoms, a) \in 1..n
             /\ atoms[IndexIn(atoms, a)] = a
             /\ \E k \in DOMAIN atoms : atoms[k] = a
  <2>1. \E k \in DOMAIN atoms : atoms[k] = a
    BY <1>1 DEF IsPalette
  <2> QED BY <1>1, <2>1 DEF IndexIn
<1>4. {atoms[k] : k \in DOMAIN atoms} = A
  BY <1>1, <1>3
<1> QED BY <1>1, <1>2, <1>3, <1>4

(* A palette is as long as it has members.                                 *)
LEMMA PaletteSize ==
  ASSUME NEW atoms, NEW n, NEW A, IsPalette(atoms, n, A)
  PROVE  IsFiniteSet(A) /\ Cardinality(A) = n
<1>1. n \in Nat /\ atoms \in [1..n -> A]
      /\ (\A k, l \in 1..n : atoms[k] = atoms[l] => k = l)
      /\ \A a \in A : \E k \in 1..n : atoms[k] = a
  BY DEF IsPalette
<1> DEFINE D == 1..n
<1>2. IsFiniteSet(D) /\ Cardinality(D) = n
  BY <1>1, FS_Interval
<1>3. atoms \in Injection(D, A)
  BY <1>1, IsInjection
<1>4. atoms \in Surjection(D, A)
  BY <1>1 DEF Surjection
<1>5. ExistsBijection(D, A)
  <2> HIDE DEF D
  <2> QED BY <1>3, <1>4 DEF ExistsBijection, Bijection
<1> HIDE DEF D
<1>6. IsFiniteSet(A) /\ Cardinality(A) = Cardinality(D)
  BY <1>2, <1>5, FS_Bijection
<1> QED BY <1>2, <1>6

(* A palette in any order is one.                                          *)
LEMMA SortedIsPalette ==
  ASSUME NEW atoms, NEW n, NEW A, IsPalette(atoms, n, A), NEW cells,
         NEW sorted \in SortedByCount(atoms, cells)
  PROVE  IsPalette(sorted, n, A)
<1>1. /\ sorted \in [DOMAIN atoms -> {atoms[k] : k \in DOMAIN atoms}]
      /\ \A k, l \in DOMAIN atoms : k # l => sorted[k] # sorted[l]
  BY DEF SortedByCount
<1>2. n \in Nat /\ DOMAIN atoms = 1..n /\ {atoms[k] : k \in DOMAIN atoms} = A
  BY PaletteIs
<1> DEFINE D == 1..n
<1>3. sorted \in [D -> A] /\ \A k, l \in D : sorted[k] = sorted[l] => k = l
  BY <1>1, <1>2
<1>4. IsFiniteSet(D) /\ Cardinality(D) = n /\ IsFiniteSet(A) /\ Cardinality(A) = n
  BY <1>2, FS_Interval, PaletteSize
<1> HIDE DEF D
<1>5. sorted \in Injection(D, A)
  BY <1>3, IsInjection
<1>6. sorted \in Surjection(D, A)
  BY <1>4, <1>5, FS_Injection
<1>7. \A a \in A : \E k \in D : sorted[k] = a
  BY <1>6 DEF Surjection
<1> QED BY <1>2, <1>3, <1>7 DEF IsPalette, D

-----------------------------------------------------------------------------
(* First cells                                                             *)

(* Cells are finitely many numbers, and there is one.                      *)
LEMMA CellsAre ==
  /\ Cells \in SUBSET Nat /\ IsFiniteSet(Cells) /\ 1 \in Cells
<1>1. UNPACKED_SIZE \in Nat \ {0}
  BY Sizes
<1>2. IsFiniteSet(1..UNPACKED_SIZE)
  BY <1>1, FS_Interval
<1> QED BY <1>1, <1>2 DEF Cells

(* The atoms of a section.                                                 *)
Contents(cells) == {cells[i] : i \in Cells}

(* The atoms of the first cells, in their order, are the palette of a      *)
(* section.                                                                *)
LEMMA FirstCellsList ==
  ASSUME NEW cells
  PROVE  /\ Cardinality(FirstCells(cells)) \in Nat \ {0}
         /\ IsPalette([k \in 1..Cardinality(FirstCells(cells)) |-> cells[Nth(FirstCells(cells), k)]],
                      Cardinality(FirstCells(cells)), Contents(cells))
<1> DEFINE S == FirstCells(cells)
           n == Cardinality(S)
           atoms == [k \in 1..n |-> cells[Nth(S, k)]]
<1>1. S \in SUBSET Cells /\ S \in SUBSET Nat /\ IsFiniteSet(S)
  <2>1. S \in SUBSET Cells
    BY DEF FirstCells
  <2> HIDE DEF S
  <2> QED BY <2>1, CellsAre, FS_Subset
<1>2. \A i \in S : \A j \in 1..(i - 1) : cells[j] # cells[i]
  BY DEF FirstCells
<1>3. ASSUME NEW a \in Contents(cells)
      PROVE  \E i \in S : cells[i] = a
  <2> DEFINE T == {i \in Cells : cells[i] = a}
  <2>1. T \in SUBSET Nat /\ T # {}
    BY CellsAre DEF Contents
  <2> HIDE DEF T
  <2>2. PICK i \in T : \A k \in T : i <= k
    BY <2>1, LeastExists
  <2>3. i \in Cells /\ cells[i] = a /\ i \in Nat
    BY <2>1, <2>2 DEF T
  <2>4. ASSUME NEW j \in 1..(i - 1) PROVE cells[j] # cells[i]
    <3>1. j \in Cells /\ j < i /\ j \in Nat
      BY <2>3, Sizes DEF Cells
    <3>2. j \notin T
      BY <2>2, <2>3, <3>1
    <3> QED BY <2>3, <3>1, <3>2 DEF T
  <2>5. i \in S
    BY <2>3, <2>4 DEF FirstCells
  <2> QED BY <2>3, <2>5
<1> HIDE DEF S
<1>4. ASSUME NEW i \in S, NEW j \in S, cells[i] = cells[j]
      PROVE  i = j
  <2>1. i \in Nat /\ j \in Nat /\ i \in Cells /\ j \in Cells /\ i >= 1 /\ j >= 1
    BY <1>1, Sizes DEF Cells
  <2>2. ~(i < j)
    <3>1. SUFFICES ASSUME i < j PROVE FALSE
      OBVIOUS
    <3>2. i \in 1..(j - 1)
      BY <2>1, <3>1
    <3> QED BY <1>2, <1>4, <3>2
  <2>3. ~(j < i)
    <3>1. SUFFICES ASSUME j < i PROVE FALSE
      OBVIOUS
    <3>2. j \in 1..(i - 1)
      BY <2>1, <3>1
    <3> QED BY <1>2, <1>4, <3>2
  <2> QED BY <2>1, <2>2, <2>3
<1>5. /\ n \in Nat
      /\ \A k \in 1..n : Nth(S, k) \in S
      /\ \A i \in S : Before(S, i) \in 0..(n - 1) /\ i = Nth(S, Before(S, i) + 1)
      /\ \A k, l \in 1..n : Nth(S, k) = Nth(S, l) => k = l
  BY <1>1, ListOf
<1> HIDE DEF n
<1>6. atoms \in [1..n -> Contents(cells)]
  <2>1. \A k \in 1..n : cells[Nth(S, k)] \in Contents(cells)
    BY <1>1, <1>5 DEF Contents
  <2> QED BY <2>1
<1>7. ASSUME NEW k \in 1..n, NEW l \in 1..n, atoms[k] = atoms[l]
      PROVE  k = l
  <2>1. cells[Nth(S, k)] = cells[Nth(S, l)]
    BY <1>7
  <2> QED BY <1>4, <1>5, <2>1
<1>8. ASSUME NEW a \in Contents(cells)
      PROVE  \E k \in 1..n : atoms[k] = a
  <2>1. PICK i \in S : cells[i] = a
    BY <1>3
  <2>2. Before(S, i) + 1 \in 1..n /\ Nth(S, Before(S, i) + 1) = i
    BY <1>5
  <2> QED BY <2>1, <2>2
<1>9. IsPalette(atoms, n, Contents(cells))
  BY <1>5, <1>6, <1>7, <1>8 DEF IsPalette
<1>10. n # 0
  <2>1. cells[1] \in Contents(cells)
    BY CellsAre DEF Contents
  <2>2. \E k \in 1..n : atoms[k] = cells[1]
    BY <1>8, <2>1
  <2> QED BY <2>2
<1> QED BY <1>5, <1>9, <1>10 DEF n, S

(* The longest palette has as many atoms as a byte has values.             *)
LEMMA SizeLimit == MAX_INDIRECT_PALETTE_SIZE = Pow(BYTE_BITS) /\ Pow(BYTE_BITS) \in Nat \ {0}
  BY Sizes, PowType DEF MAX_INDIRECT_PALETTE_SIZE, Pow

(* The palette that a table of a new generation finds.                     *)
LEMMA FirstSeenList ==
  ASSUME NEW table, NEW cells, \A i \in Cells : table.seen[cells[i]] # table.seen_gen,
         ~IsDirect(table, cells)
  PROVE  /\ Cardinality(FirstCells(cells)) \in 1..MAX_INDIRECT_PALETTE_SIZE
         /\ IsPalette(FirstSeen(table, cells), Cardinality(FirstCells(cells)), Contents(cells))
<1> DEFINE S == FirstCells(cells)
           n == Cardinality(S)
           limit == MAX_INDIRECT_PALETTE_SIZE
           new == NewCells(table, cells)
           taken == {i \in new : Before(new, i) < limit}
<1>1. new = S
  BY DEF NewCells, FirstCells
<1>2. /\ n \in Nat \ {0}
      /\ IsPalette([k \in 1..n |-> cells[Nth(S, k)]], n, Contents(cells))
  BY FirstCellsList
<1>3. limit \in Nat /\ n <= limit
  <2>1. ~(n > limit)
    BY <1>1 DEF IsDirect
  <2> HIDE DEF n
  <2> QED BY <1>2, <2>1, SizeLimit
<1>4. FirstSeen(table, cells)
        = [k \in 1..Cardinality(taken) |-> cells[CHOOSE i \in taken : Before(new, i) = k - 1]]
  BY DEF FirstSeen
<1> HIDE DEF new
<1>5. \A i \in S : Before(S, i) \in 0..(n - 1)
  <2>1. S \in SUBSET Nat /\ IsFiniteSet(S)
    <3>1. S \in SUBSET Cells
      BY DEF FirstCells
    <3> HIDE DEF S
    <3> QED BY <3>1, CellsAre, FS_Subset
  <2> HIDE DEF S
  <2> QED BY <2>1, ListOf
<1> HIDE DEF S, n, limit
<1>6. taken = S
  <2>1. \A i \in S : Before(S, i) < limit
    BY <1>2, <1>3, <1>5
  <2> QED BY <1>1, <2>1
<1> HIDE DEF taken
<1>7. FirstSeen(table, cells) = [k \in 1..n |-> cells[Nth(S, k)]]
  BY <1>1, <1>4, <1>6 DEF Nth, n
<1>8. n \in 1..limit
  BY <1>2, <1>3
<1> QED BY <1>2, <1>7, <1>8 DEF n, S, limit

(* The indices of a table in which a section was marked.                   *)
LEMMA MarkedIndices ==
  ASSUME NEW table, "indices" \in DOMAIN table, DOMAIN table.indices = Atoms,
         NEW cells, NEW atoms, NEW n, NEW A, A \subseteq Atoms, IsPalette(atoms, n, A),
         NEW a \in A
  PROVE  MarkedTable(table, cells, atoms).indices[a] = IndexIn(atoms, a) - 1
<1>1. MarkedTable(table, cells, atoms).indices
        = [b \in DOMAIN table.indices |->
             IF \E k \in DOMAIN atoms : atoms[k] = b THEN IndexIn(atoms, b) - 1 ELSE table.indices[b]]
  BY DEF MarkedTable
<1>2. \E k \in DOMAIN atoms : atoms[k] = a
  BY PaletteIs
<1> QED BY <1>1, <1>2

(* The width of an index into a palette.                                   *)
LEMMA BitsPerEntryIs ==
  ASSUME NEW n \in 1..MAX_INDIRECT_PALETTE_SIZE
  PROVE  BitsPerEntry(n) \in IndexWidths /\ n <= Pow(BitsPerEntry(n))
<1> DEFINE Enough == {w \in IndexWidths : n <= Pow(w)}
<1>1. n \in Nat /\ n <= Pow(BYTE_BITS) /\ ~(n > MAX_INDIRECT_PALETTE_SIZE)
  BY SizeLimit
<1>2. BYTE_BITS \in IndexWidths
  <2>1. BYTE_BITS \in 1..BYTE_BITS
    BY Sizes
  <2> QED BY <2>1, ParametersOK DEF IndexWidths
<1>3. Enough \in SUBSET Nat /\ Enough # {}
  <2>1. BYTE_BITS \in Enough
    BY <1>1, <1>2
  <2>2. IndexWidths \subseteq Nat
    BY WidthsDivide DEF Widths
  <2> QED BY <2>1, <2>2
<1>4. PICK w \in Enough : \A v \in Enough : w <= v
  BY <1>3, LeastExists
<1>5. w \in IndexWidths /\ n <= Pow(w) /\ \A v \in IndexWidths : n <= Pow(v) => w <= v
  BY <1>4
<1>6. BitsPerEntry(n) = CHOOSE x \in IndexWidths :
                          n <= Pow(x) /\ \A v \in IndexWidths : n <= Pow(v) => x <= v
  BY <1>1 DEF BitsPerEntry, Pow
<1> HIDE DEF Enough
<1> QED BY <1>5, <1>6

-----------------------------------------------------------------------------
(* Packed sections                                                         *)

(* A section of a single atom.                                             *)
LEMMA SingleIs ==
  ASSUME NEW atom \in Atoms
  PROVE  IsPacked(Single(atom)) /\ Unpack(Single(atom)) = [i \in Cells |-> atom]
<1>1. Single(atom).kind = "single" /\ Single(atom).atom = atom
  BY DEF Single
<1> QED BY <1>1 DEF IsPacked, Unpack

(* A packed section with a palette, or without.                            *)
LEMMA PalettedIs ==
  ASSUME NEW bits \in IndexWidths, NEW bytes, bytes \in ByteArrays(bits),
         NEW n \in Nat \ {0}, NEW atoms, atoms \in [1..n -> Atoms],
         NEW values, values = UnpackBits(bytes, bits), \A i \in Cells : values[i] < n
  PROVE  /\ IsPacked(Paletted(atoms, bits, bytes))
         /\ Unpack(Paletted(atoms, bits, bytes)) = [i \in Cells |-> atoms[values[i] + 1]]
<1> DEFINE data == Paletted(atoms, bits, bytes)
<1>1. /\ data.kind = "paletted" /\ data.palette = atoms /\ data.bits = bits /\ data.bytes = bytes
      /\ "paletted" # "single"
  BY DEF Paletted
<1>2. atoms \in Seq(Atoms) /\ Len(atoms) = n /\ atoms # <<>>
  <2>1. atoms \in Seq(Atoms) /\ Len(atoms) = n
    BY LenOf
  <2> QED BY <2>1
<1>3. bytes \in [1..((UNPACKED_SIZE \div BYTE_BITS) * bits) -> 0..(2 ^ BYTE_BITS - 1)]
  BY DEF ByteArrays, Digits, Pow
<1>4. data = Paletted(data.palette, bits, data.bytes)
  BY <1>1
<1> HIDE DEF data
<1>5. IsPacked(data)
  BY <1>1, <1>2, <1>3, <1>4 DEF IsPacked
<1>6. Unpack(data) = [i \in Cells |-> atoms[values[i] + 1]]
  BY <1>1, <1>2 DEF Unpack, AtomAt
<1> QED BY <1>5, <1>6 DEF data

(* A section of atoms without a palette.                                   *)
LEMMA DirectIs ==
  ASSUME NEW bytes, bytes \in ByteArrays(2 * BYTE_BITS)
  PROVE  /\ IsPacked(Direct(bytes))
         /\ Unpack(Direct(bytes)) = UnpackBits(bytes, 2 * BYTE_BITS)
<1> DEFINE bits == 2 * BYTE_BITS
           data == Direct(bytes)
<1>1. /\ data.kind = "paletted" /\ data.palette = <<>> /\ data.bits = bits /\ data.bytes = bytes
      /\ "paletted" # "single"
  BY DEF Direct, Paletted
<1>2. data = Paletted(data.palette, bits, data.bytes)
  BY <1>1 DEF Direct
<1>3. bytes \in [1..((UNPACKED_SIZE \div BYTE_BITS) * bits) -> 0..(2 ^ BYTE_BITS - 1)]
  BY DEF ByteArrays, Digits, Pow
<1> HIDE DEF data
<1>4. IsPacked(data)
  <2> HIDE DEF bits
  <2>1. bits \in IndexWidths \cup {bits} /\ bits = 2 * BYTE_BITS
    BY DEF bits
  <2> QED BY <1>1, <1>2, <1>3, <2>1 DEF IsPacked
<1>5. Unpack(data) = [i \in Cells |-> UnpackBits(bytes, bits)[i]]
  BY <1>1 DEF Unpack, AtomAt
<1>6. UnpackBits(bytes, bits) \in [Cells -> Digits(bits)]
  <2>1. bits \in Widths
    BY DEF Widths
  <2> QED BY <2>1, UnpackBitsType
<1>7. Unpack(data) = UnpackBits(bytes, bits)
  <2> DEFINE f == UnpackBits(bytes, bits)
  <2> HIDE DEF f
  <2>1. f \in [Cells -> Digits(bits)] /\ Unpack(data) = [i \in Cells |-> f[i]]
    BY <1>5, <1>6 DEF f
  <2>2. Unpack(data) = f
    BY <2>1
  <2> QED BY <2>2 DEF f
<1> QED BY <1>4, <1>7 DEF data

(* Cells' places in a list, and the bytes of values. *)
PlacesIn(list, cells) == [i \in Cells |-> IndexIn(list, cells[i]) - 1]
AreBytesOf(bytes, values, bits) == bytes \in {PackBits(values, bits), PackValues(values, bits)}
AreAtoms(atoms, n) == atoms \in [1..n -> Atoms]

(* Cells whose places in a list were packed, with atoms in the same places.*)
LEMMA PackedByPlaces ==
  ASSUME NEW cells, NEW n \in 1..MAX_INDIRECT_PALETTE_SIZE,
         NEW list, IsPalette(list, n, Contents(cells)),
         NEW atoms, AreAtoms(atoms, n),
         NEW bytes, AreBytesOf(bytes, PlacesIn(list, cells), BitsPerEntry(n))
  PROVE  /\ IsPacked(Paletted(atoms, BitsPerEntry(n), bytes))
         /\ Unpack(Paletted(atoms, BitsPerEntry(n), bytes))
              = [i \in Cells |-> atoms[IndexIn(list, cells[i])]]
<1> DEFINE bits == BitsPerEntry(n)
           values == PlacesIn(list, cells)
<1>1. bits \in IndexWidths /\ n <= Pow(bits) /\ bits \in Widths /\ Pow(bits) \in Nat /\ n \in Nat \ {0}
  <2>1. bits \in IndexWidths /\ n <= Pow(bits)
    BY BitsPerEntryIs
  <2>2. bits \in Nat /\ bits \in Widths
    BY <2>1, WidthsDivide DEF Widths
  <2>3. n \in Nat \ {0}
    BY SizeLimit
  <2> HIDE DEF bits
  <2> QED BY <2>1, <2>2, <2>3, PowType
<1> HIDE DEF bits
<1>2. \A i \in Cells : IndexIn(list, cells[i]) \in 1..n
  <2>1. \A i \in Cells : cells[i] \in Contents(cells)
    BY DEF Contents
  <2> QED BY <2>1, PaletteIs
<1>3. \A i \in Cells : /\ values[i] \in 0..(n - 1) /\ values[i] \in Digits(bits) /\ values[i] < n
                       /\ values[i] + 1 = IndexIn(list, cells[i])
  <2>1. TAKE i \in Cells
  <2> DEFINE k == IndexIn(list, cells[i])
  <2>2. values[i] = k - 1 /\ k \in 1..n
    BY <1>2 DEF PlacesIn
  <2> HIDE DEF k
  <2>3. values[i] \in 0..(n - 1) /\ values[i] < n /\ values[i] + 1 = k
    BY <1>1, <2>2
  <2>4. values[i] \in Digits(bits)
    BY <1>1, <2>3 DEF Digits
  <2> QED BY <2>2, <2>3, <2>4 DEF k
<1>4. values \in [Cells -> Digits(bits)]
  <2>1. values = [i \in Cells |-> values[i]]
    BY DEF PlacesIn
  <2> HIDE DEF values
  <2> QED BY <1>3, <2>1
<1> HIDE DEF values
<1>5. bytes \in ByteArrays(bits) /\ values = UnpackBits(bytes, bits)
  <2>1. PackBits(values, bits) \in ByteArrays(bits) /\ UnpackBits(PackBits(values, bits), bits) = values
    BY <1>1, <1>4, UnpackOfPack
  <2>2. PackValues(values, bits) \in ByteArrays(bits) /\ UnpackBits(PackValues(values, bits), bits) = values
    BY <1>1, <1>4, UnpackOfValues
  <2>3. bytes = PackBits(values, bits) \/ bytes = PackValues(values, bits)
    BY DEF bits, values, AreBytesOf
  <2> QED BY <2>1, <2>2, <2>3
<1>6. /\ IsPacked(Paletted(atoms, bits, bytes))
      /\ Unpack(Paletted(atoms, bits, bytes)) = [i \in Cells |-> atoms[values[i] + 1]]
  <2>1. \A i \in Cells : values[i] < n
    BY <1>3
  <2>2. atoms \in [1..n -> Atoms]
    BY DEF AreAtoms
  <2> QED BY ONLY <1>1, <1>5, <2>1, <2>2, PalettedIs
<1>7. [i \in Cells |-> atoms[values[i] + 1]] = [i \in Cells |-> atoms[IndexIn(list, cells[i])]]
  BY <1>3
<1> QED BY <1>6, <1>7 DEF bits

(* Cells whose indices into their palette were packed.                     *)
LEMMA PackedByPalette ==
  ASSUME NEW cells, cells \in [Cells -> Atoms], NEW n \in 1..MAX_INDIRECT_PALETTE_SIZE,
         NEW atoms, IsPalette(atoms, n, Contents(cells)),
         NEW bytes, AreBytesOf(bytes, PlacesIn(atoms, cells), BitsPerEntry(n))
  PROVE  /\ IsPacked(Paletted(atoms, BitsPerEntry(n), bytes))
         /\ Unpack(Paletted(atoms, BitsPerEntry(n), bytes)) = cells
<1>1. AreAtoms(atoms, n)
  BY DEF IsPalette, Contents, AreAtoms
<1>2. /\ IsPacked(Paletted(atoms, BitsPerEntry(n), bytes))
      /\ Unpack(Paletted(atoms, BitsPerEntry(n), bytes))
           = [i \in Cells |-> atoms[IndexIn(atoms, cells[i])]]
  BY <1>1, PackedByPlaces
<1>3. \A i \in Cells : atoms[IndexIn(atoms, cells[i])] = cells[i]
  <2>1. \A i \in Cells : cells[i] \in Contents(cells)
    BY DEF Contents
  <2> QED BY <2>1, PaletteIs
<1> QED BY <1>2, <1>3

-----------------------------------------------------------------------------
(* Packing                                                                 *)

(* The table's places, one for each atom. *)
HasIndices(table) == "indices" \in DOMAIN table /\ DOMAIN table.indices = Atoms

(* Any section.                                                            *)
IsSection(cells) == cells \in [Cells -> Atoms]

(* The table of the next section has its places, and no mark on its atoms. *)
LEMMA NextHasIndices ==
  ASSUME NEW table, IsTable(table, Atoms), HasIndices(table), NEW cells, IsSection(cells)
  PROVE  /\ HasIndices(NextGeneration(table))
         /\ \A i \in Cells : NextGeneration(table).seen[cells[i]] # NextGeneration(table).seen_gen
<1> DEFINE next == NextGeneration(table)
<1>1. DOMAIN next = DOMAIN table /\ next.indices = table.indices
  BY DEF NextGeneration, IsTable, HasIndices
<1>2. IsUnmarked(next, Atoms)
  BY NextGenerationIsNew
<1> HIDE DEF next
<1>3. HasIndices(next)
  BY <1>1 DEF HasIndices
<1>4. \A i \in Cells : next.seen[cells[i]] # next.seen_gen
  BY <1>2 DEF IsUnmarked, IsSection
<1> QED BY <1>3, <1>4 DEF next

(* Marking a section keeps the places of other atoms.                      *)
LEMMA MarkedHasIndices ==
  ASSUME NEW table, HasIndices(table), NEW cells, NEW indexed
  PROVE  HasIndices(MarkedTable(table, cells, indexed))
  BY DEF HasIndices, MarkedTable

(* Every atom fits into two bytes. *)
LEMMA AtomsAreDigits == Atoms = Digits(2 * BYTE_BITS) /\ 2 * BYTE_BITS \in Widths
  BY DEF Atoms, Digits, ATOM_COUNT, Pow, Widths

(* The atoms of a section are atoms.                                       *)
LEMMA ContentsAreAtoms ==
  ASSUME NEW cells, IsSection(cells)
  PROVE  Contents(cells) \subseteq Atoms
  BY DEF Contents, IsSection

(* Atoms that are packed without a palette are unpacked.                   *)
LEMMA DirectPacks ==
  ASSUME NEW cells, IsSection(cells)
  PROVE  /\ IsPacked(Direct(PackBits(cells, 2 * BYTE_BITS)))
         /\ Unpack(Direct(PackBits(cells, 2 * BYTE_BITS))) = cells
<1> DEFINE bits == 2 * BYTE_BITS
           bytes == PackBits(cells, bits)
<1>1. cells \in [Cells -> Digits(bits)] /\ bits \in Widths
  BY AtomsAreDigits DEF IsSection
<1>2. bytes \in ByteArrays(bits) /\ UnpackBits(bytes, bits) = cells
  <2> HIDE DEF bits
  <2> QED BY <1>1, UnpackOfPack
<1> HIDE DEF bytes
<1> QED BY <1>2, DirectIs DEF bytes

(* A palette of one atom is the whole section's. *)
LEMMA OneAtom ==
  ASSUME NEW cells, IsSection(cells), NEW atoms, IsPalette(atoms, 1, Contents(cells))
  PROVE  atoms[1] \in Atoms /\ [i \in Cells |-> atoms[1]] = cells
<1>1. atoms[1] \in Contents(cells)
  BY DEF IsPalette
<1>2. \A i \in Cells : cells[i] = atoms[1]
  <2>1. TAKE i \in Cells
  <2>2. \E k \in 1..1 : atoms[k] = cells[i]
    BY DEF IsPalette, Contents
  <2> QED BY <2>2
<1> QED BY <1>1, <1>2, ContentsAreAtoms DEF IsSection

(* pack_with packs the cells, whatever earlier sections left in its table. *)
LEMMA PackWithPacks ==
  ASSUME StampsBehind, HasIndices(scratch), NEW cells, IsSection(cells), PackWith(cells)
  PROVE  /\ HasIndices(scratch')
         /\ IsPacked(packed') /\ Unpack(packed') = cells
<1> DEFINE table == NextGeneration(scratch)
           first_seen == FirstSeen(table, cells)
           n == Cardinality(FirstCells(cells))
           A == Contents(cells)
<1>1. HasIndices(table) /\ \A i \in Cells : table.seen[cells[i]] # table.seen_gen
  BY NextHasIndices DEF StampsBehind
<1>2. CASE IsDirect(table, cells)
  <2>1. /\ scratch' = MarkedTable(table, cells, first_seen)
        /\ packed' = Direct(PackBits(cells, 2 * BYTE_BITS))
    BY <1>2 DEF PackWith
  <2> HIDE DEF table
  <2> QED BY <1>1, <2>1, MarkedHasIndices, DirectPacks
<1>3. CASE ~IsDirect(table, cells)
  <2>1. PICK sorted \in SortedByCount(first_seen, cells) :
          /\ scratch' = MarkedTable(table, cells, sorted)
          /\ packed' = IF Len(sorted) = 1 THEN Single(sorted[1])
                       ELSE Paletted(sorted, BitsPerEntry(Len(sorted)),
                              PackBits([i \in Cells |-> MarkedTable(table, cells, sorted).indices[cells[i]]],
                                       BitsPerEntry(Len(sorted))))
    BY <1>3 DEF PackWith
  <2> HIDE DEF table
  <2>2. n \in 1..MAX_INDIRECT_PALETTE_SIZE /\ IsPalette(first_seen, n, A)
    BY <1>1, <1>3, FirstSeenList
  <2> HIDE DEF first_seen, n
  <2>3. IsPalette(sorted, n, A)
    BY <2>2, SortedIsPalette
  <2>4. Len(sorted) = n
    BY <2>3, PaletteIs
  <2>5. HasIndices(scratch')
    BY <1>1, <2>1, MarkedHasIndices
  <2>6. CASE n = 1
    <3>1. packed' = Single(sorted[1])
      BY <2>1, <2>4, <2>6
    <3>2. sorted[1] \in Atoms /\ [i \in Cells |-> sorted[1]] = cells
      BY <2>3, <2>6, OneAtom
    <3> QED BY <2>5, <3>1, <3>2, SingleIs
  <2>7. CASE n # 1
    <3> DEFINE values == PlacesIn(sorted, cells)
               bytes == PackBits(values, BitsPerEntry(n))
    <3>1. [i \in Cells |-> MarkedTable(table, cells, sorted).indices[cells[i]]] = values
      <4>1. ASSUME NEW i \in Cells
            PROVE  MarkedTable(table, cells, sorted).indices[cells[i]] = IndexIn(sorted, cells[i]) - 1
        <5>1. cells[i] \in A
          BY DEF Contents
        <5> HIDE DEF A
        <5>2. A \subseteq Atoms
          BY ContentsAreAtoms DEF A
        <5> QED BY <1>1, <2>3, <5>1, <5>2, MarkedIndices DEF HasIndices
      <4> QED BY <4>1 DEF PlacesIn
    <3>2. packed' = Paletted(sorted, BitsPerEntry(n), bytes)
      BY <2>1, <2>4, <2>7, <3>1
    <3>3. AreBytesOf(bytes, values, BitsPerEntry(n))
      BY DEF AreBytesOf
    <3> HIDE DEF bytes
    <3>4. /\ IsPacked(Paletted(sorted, BitsPerEntry(n), bytes))
          /\ Unpack(Paletted(sorted, BitsPerEntry(n), bytes)) = cells
      <4>1. cells \in [Cells -> Atoms]
        BY DEF IsSection
      <4> QED BY ONLY <2>2, <2>3, <3>3, <4>1, PackedByPalette
    <3> QED BY <2>5, <3>2, <3>4
  <2> QED BY <2>6, <2>7
<1> QED BY <1>2, <1>3

-----------------------------------------------------------------------------
(* Repacking                                                               *)

(* Rankings have every entry once: the keys tell ties apart. *)
AreKeys(keys, n) == keys \in [1..n -> Nat] /\ \A k, l \in 1..n : keys[k] = keys[l] => k = l

(* The ranks are the places of a list, each once.                          *)
LEMMA RankedByIs ==
  ASSUME NEW n \in Nat, NEW counts, AreNumbers(counts, n), NEW keys, AreKeys(keys, n)
  PROVE  IsPalette(RankedBy(counts, keys), n, 1..n)
<1> DEFINE S == 1..n
           precedes(k, l) == \/ counts[k] > counts[l]
                             \/ counts[k] = counts[l] /\ keys[k] < keys[l]
           R == {pair \in S \X S : precedes(pair[1], pair[2])}
           before(k) == Cardinality({l \in S : precedes(l, k)})
           ranked == RankedBy(counts, keys)
<1>1. DOMAIN counts = S /\ \A k \in S : counts[k] \in Nat /\ keys[k] \in Nat
  BY DEF AreNumbers, AreKeys
<1>2. \A k, l \in S : <<k, l>> \in R <=> precedes(k, l)
  OBVIOUS
<1>3. Orders(R, S)
  <2> HIDE DEF R
  <2>1. \A x \in S : <<x, x>> \notin R
    BY <1>1, <1>2
  <2>2. \A x, y, z \in S : <<x, y>> \in R /\ <<y, z>> \in R => <<x, z>> \in R
    <3>1. \A x, y, z \in S : precedes(x, y) /\ precedes(y, z) => precedes(x, z)
      <4> HIDE DEF S
      <4> QED BY <1>1
    <3> HIDE DEF precedes
    <3> QED BY <1>2, <3>1
  <2>3. \A x, y \in S : x # y => <<x, y>> \in R \/ <<y, x>> \in R
    <3>1. \A x, y \in S : x # y => keys[x] # keys[y]
      BY DEF AreKeys
    <3> QED BY <1>1, <1>2, <3>1
  <2> QED BY <2>1, <2>2, <2>3 DEF Orders
<1>4. \A k \in S : Rank(R, S, k) = before(k)
  <2>1. TAKE k \in S
  <2>2. {l \in S : <<l, k>> \in R} = {l \in S : precedes(l, k)}
    BY <1>2
  <2> QED BY <2>2 DEF Rank
<1>5. ranked = [m \in S |-> CHOOSE k \in S : before(k) = m - 1]
  BY <1>1 DEF RankedBy
<1> HIDE DEF R, before
<1>6. IsFiniteSet(S) /\ Cardinality(S) = n
  BY FS_Interval
<1>7. /\ \A k \in S : Rank(R, S, k) \in 0..(n - 1)
      /\ \A k, l \in S : Rank(R, S, k) = Rank(R, S, l) => k = l
      /\ \A r \in 0..(n - 1) : \E k \in S : Rank(R, S, k) = r
  <2>1. /\ \A k \in S : Rank(R, S, k) \in 0..(Cardinality(S) - 1)
        /\ \A k, l \in S : Rank(R, S, k) = Rank(R, S, l) => k = l
        /\ \A r \in 0..(Cardinality(S) - 1) : \E k \in S : Rank(R, S, k) = r
    BY ONLY <1>3, <1>6, RanksAreDistinct
  <2> QED BY <1>6, <2>1
<1> HIDE DEF ranked
<1>8. \A m \in S : ranked[m] \in S /\ Rank(R, S, ranked[m]) = m - 1
  <2>1. TAKE m \in S
  <2>2. m - 1 \in 0..(n - 1)
    OBVIOUS
  <2>3. \E k \in S : before(k) = m - 1
    BY <1>4, <1>7, <2>2
  <2>4. ranked[m] \in S /\ before(ranked[m]) = m - 1
    BY <1>5, <2>3
  <2> QED BY <1>4, <2>4
<1>9. ranked \in [1..n -> 1..n]
  BY <1>5, <1>8
<1>10. \A k, l \in 1..n : ranked[k] = ranked[l] => k = l
  <2>1. \A k, l \in 1..n : k - 1 = l - 1 => k = l
    OBVIOUS
  <2> QED BY <1>8, <2>1
<1>11. ASSUME NEW a \in 1..n
       PROVE  \E k \in 1..n : ranked[k] = a
  <2>1. Rank(R, S, a) \in 0..(n - 1)
    BY <1>7
  <2> DEFINE k == Rank(R, S, a) + 1
  <2>2. k \in 1..n /\ k - 1 = Rank(R, S, a)
    BY <2>1
  <2> HIDE DEF k
  <2>3. Rank(R, S, ranked[k]) = Rank(R, S, a) /\ ranked[k] \in S
    BY <1>8, <2>2
  <2> QED BY <1>7, <2>2, <2>3
<1> QED BY <1>9, <1>10, <1>11 DEF IsPalette, ranked

(* A list taken in another order, as ranks say. *)
LEMMA ReorderedIs ==
  ASSUME NEW n, NEW A, NEW list, IsPalette(list, n, A), NEW order, IsPalette(order, n, 1..n),
         NEW new, new = [k \in 1..n |-> list[order[k]]]
  PROVE  IsPalette(new, n, A)
<1>1. n \in Nat /\ list \in [1..n -> A] /\ order \in [1..n -> 1..n]
  BY DEF IsPalette
<1>2. new \in [1..n -> A]
  BY <1>1
<1>3. \A k, l \in 1..n : new[k] = new[l] => k = l
  BY <1>1 DEF IsPalette
<1>4. ASSUME NEW a \in A
      PROVE  \E k \in 1..n : new[k] = a
  <2>1. PICK l \in 1..n : list[l] = a
    BY DEF IsPalette
  <2>2. PICK k \in 1..n : order[k] = l
    BY DEF IsPalette
  <2> QED BY <2>1, <2>2
<1> QED BY <1>1, <1>2, <1>3, <1>4 DEF IsPalette

(* A palette of one atom, packed with zeros. *)
LEMMA ZerosPack ==
  ASSUME NEW atoms, atoms \in [1..1 -> Atoms]
  PROVE  LET data == Paletted(atoms, 1, [n \in 1..(UNPACKED_SIZE \div BYTE_BITS) |-> 0])
         IN  IsPacked(data) /\ Unpack(data) = [i \in Cells |-> atoms[1]]
<1> DEFINE bytes == [n \in 1..(UNPACKED_SIZE \div BYTE_BITS) |-> 0]
           values == UnpackBits(bytes, 1)
<1>1. 1 \in IndexWidths /\ bytes \in ByteArrays(1) /\ values = [i \in Cells |-> 0]
  BY UnpackOfZeros
<1> HIDE DEF bytes
<1>2. \A i \in Cells : values[i] = 0 /\ values[i] < 1 /\ values[i] + 1 = 1
  BY <1>1
<1>3. /\ IsPacked(Paletted(atoms, 1, bytes))
      /\ Unpack(Paletted(atoms, 1, bytes)) = [i \in Cells |-> atoms[values[i] + 1]]
  <2> HIDE DEF values
  <2>1. PICK one : one = 1
    OBVIOUS
  <2>2. values = UnpackBits(bytes, one) /\ one \in IndexWidths /\ bytes \in ByteArrays(one)
    BY <1>1, <2>1 DEF values
  <2>3. atoms \in [1..one -> Atoms] /\ one \in Nat \ {0} /\ \A i \in Cells : values[i] < one
    BY <1>2, <2>1
  <2>4. /\ IsPacked(Paletted(atoms, one, bytes))
        /\ Unpack(Paletted(atoms, one, bytes)) = [i \in Cells |-> atoms[values[i] + 1]]
    BY ONLY <2>2, <2>3, PalettedIs
  <2> QED BY <2>1, <2>4
<1>4. [i \in Cells |-> atoms[values[i] + 1]] = [i \in Cells |-> atoms[1]]
  <2> HIDE DEF values
  <2> QED BY <1>2
<1> QED BY <1>3, <1>4 DEF bytes

(* A packed section of indices, or of atoms, in its parts.                 *)
LEMMA PackedParts ==
  ASSUME NEW data, IsPacked(data), data.kind = "paletted"
  PROVE  IF data.palette = <<>>
         THEN /\ data.bytes \in ByteArrays(2 * BYTE_BITS)
              /\ Unpack(data) = UnpackBits(data.bytes, 2 * BYTE_BITS)
         ELSE /\ data.bits \in Widths
              /\ data.bytes \in ByteArrays(data.bits)
              /\ data.palette \in Seq(Atoms)
              /\ \A i \in Cells : UnpackBits(data.bytes, data.bits)[i] < Len(data.palette)
              /\ Unpack(data) = [i \in Cells |-> data.palette[UnpackBits(data.bytes, data.bits)[i] + 1]]
<1>1. \A atom : Single(atom).kind # "paletted"
  BY DEF Single
<1>2. PICK bits \in IndexWidths \cup {2 * BYTE_BITS} :
         /\ data.bits = bits
         /\ data = Paletted(data.palette, bits, data.bytes)
         /\ data.bytes \in [1..((UNPACKED_SIZE \div BYTE_BITS) * bits) -> 0..(2 ^ BYTE_BITS - 1)]
         /\ data.palette = <<>> => bits = 2 * BYTE_BITS
         /\ data.palette # <<>> =>
              /\ data.palette \in Seq(Atoms)
              /\ \A i \in Cells : UnpackBits(data.bytes, bits)[i] < Len(data.palette)
  BY <1>1 DEF IsPacked
<1>3. data.bytes \in ByteArrays(bits)
  BY <1>2 DEF ByteArrays, Digits, Pow
<1>4. Unpack(data) = [i \in Cells |-> AtomAt(data, i)]
  <2>1. data.kind # "single"
    OBVIOUS
  <2> QED BY <2>1 DEF Unpack
<1>5. CASE data.palette = <<>>
  <2>1. bits = 2 * BYTE_BITS
    BY <1>2, <1>5
  <2> DEFINE f == UnpackBits(data.bytes, bits)
  <2>2. f \in [Cells -> Digits(bits)]
    <3>1. bits \in Widths
      BY <2>1, AtomsAreDigits
    <3> QED BY <1>3, <3>1, UnpackBitsType
  <2>3. Unpack(data) = [i \in Cells |-> f[i]]
    BY <1>2, <1>4, <1>5 DEF AtomAt
  <2> HIDE DEF f
  <2>4. Unpack(data) = f
    BY <2>2, <2>3
  <2> QED BY <1>3, <1>5, <2>1, <2>4 DEF f
<1>6. CASE data.palette # <<>>
  <2>1. /\ data.palette \in Seq(Atoms) /\ data.palette # <<>> /\ bits \in Widths
        /\ \A i \in Cells : UnpackBits(data.bytes, bits)[i] < Len(data.palette)
    BY <1>2, <1>6 DEF Widths
  <2>2. Unpack(data) = [i \in Cells |-> data.palette[UnpackBits(data.bytes, bits)[i] + 1]]
    BY <1>2, <1>4, <2>1 DEF AtomAt
  <2> QED BY <1>2, <1>3, <2>1, <2>2
<1> QED BY <1>5, <1>6

-----------------------------------------------------------------------------

(* What is counted occurs. *)
LEMMA CountOfIs ==
  ASSUME NEW values, NEW value
  PROVE  /\ CountOf(values, value) \in Nat
         /\ CountOf(values, value) # 0 <=> \E i \in Cells : values[i] = value
<1> DEFINE S == {i \in Cells : values[i] = value}
<1>1. S \in SUBSET Cells
  OBVIOUS
<1>2. IsFiniteSet(S)
  BY <1>1, CellsAre, FS_Subset
<1>3. Cardinality(S) \in Nat /\ (Cardinality(S) = 0 <=> S = {})
  BY <1>2, FS_CardinalityType, FS_EmptySet
<1> QED BY <1>3 DEF CountOf

(* Indices into a list of atoms.                                           *)
IndexCells(values, len) == /\ len \in Nat
                           /\ values \in [Cells -> Nat]
                           /\ \A i \in Cells : values[i] < len

(* What is emitted for indices unpacks to the atoms they stood for: unused *)
(* entries and repeated atoms of the old palette make no difference.       *)
LEMMA EmittedPacks ==
  ASSUME NEW bits \in IndexWidths, NEW values, values \in [Cells -> Digits(bits)],
         NEW atoms \in Seq(Atoms), \A i \in Cells : values[i] < Len(atoms)
  PROVE  /\ IsPacked(Emitted(values, atoms))
         /\ Unpack(Emitted(values, atoms)) = [i \in Cells |-> atoms[values[i] + 1]]
<1> DEFINE cells == [i \in Cells |-> values[i] + 1]
           used == {k \in DOMAIN atoms : CountOf(values, k - 1) # 0}
           m == Cardinality(used)
           distinct == [n \in 1..m |-> Nth(used, n)]
           counts == [n \in DOMAIN distinct |-> CountOf(values, distinct[n] - 1)]
           order == RankedBy(counts, distinct)
           chosen == [n \in DOMAIN order |-> distinct[order[n]]]
           rank_atoms == [n \in DOMAIN order |-> atoms[distinct[order[n]]]]
           remap == [k \in used |-> IndexIn(chosen, k) - 1]
<1>1. bits \in Nat \ {0} /\ Pow(bits) \in Nat /\ Pow(bits) <= MAX_INDIRECT_PALETTE_SIZE
  <2>1. bits \in Nat \ {0} /\ bits <= BYTE_BITS /\ BYTE_BITS \in Nat
    BY WidthsDivide, Sizes DEF IndexWidths, Widths
  <2> QED BY <2>1, PowType, PowGrows, SizeLimit
<1>2. \A i \in Cells : /\ values[i] \in Nat /\ values[i] < Pow(bits) /\ cells[i] = values[i] + 1
                       /\ cells[i] \in 1..Pow(bits) /\ cells[i] \in DOMAIN atoms
                       /\ cells[i] - 1 = values[i]
  <2>1. TAKE i \in Cells
  <2>2. values[i] \in 0..(Pow(bits) - 1) /\ values[i] < Len(atoms) /\ Len(atoms) \in Nat
    BY DEF Digits
  <2>3. DOMAIN atoms = 1..Len(atoms)
    OBVIOUS
  <2> QED BY <1>1, <2>2, <2>3
<1>3. \A k \in DOMAIN atoms : k \in Nat /\ (k - 1) + 1 = k
  OBVIOUS
<1>4. used = Contents(cells) /\ used \subseteq DOMAIN atoms
  <2>1. \A k \in DOMAIN atoms : k \in used <=> \E i \in Cells : values[i] = k - 1
    BY CountOfIs
  <2>2. \A k \in DOMAIN atoms : \A i \in Cells : values[i] = k - 1 <=> cells[i] = k
    BY <1>2, <1>3
  <2> HIDE DEF cells
  <2>3. \A i \in Cells : cells[i] \in DOMAIN atoms
    BY <1>2
  <2>4. used \subseteq DOMAIN atoms
    OBVIOUS
  <2> HIDE DEF used
  <2>5. used \subseteq Contents(cells)
    BY <2>1, <2>2, <2>4 DEF Contents
  <2>6. Contents(cells) \subseteq used
    BY <2>1, <2>2, <2>3 DEF Contents
  <2> QED BY <2>4, <2>5, <2>6
<1>5. used \in SUBSET Nat /\ used \subseteq 1..Pow(bits) /\ used # {}
  <2> HIDE DEF used, cells
  <2>1. used \subseteq 1..Pow(bits)
    BY <1>2, <1>4 DEF Contents
  <2>2. used # {}
    BY <1>4, CellsAre DEF Contents
  <2> QED BY <2>1, <2>2
<1> HIDE DEF used
<1>6. IsFiniteSet(used) /\ m \in 1..MAX_INDIRECT_PALETTE_SIZE /\ m \in Nat \ {0}
  <2>1. IsFiniteSet(1..Pow(bits)) /\ Cardinality(1..Pow(bits)) = Pow(bits)
    <3> DEFINE p == Pow(bits)
    <3>1. p \in Nat
      BY <1>1
    <3> HIDE DEF p
    <3>2. IsFiniteSet(1..p) /\ Cardinality(1..p) = p
      BY <3>1, FS_Interval
    <3> QED BY <3>2 DEF p
  <2>2. IsFiniteSet(used) /\ m <= Pow(bits)
    BY <1>5, <2>1, FS_Subset
  <2>3. m \in Nat /\ m # 0
    BY <1>5, <2>2, FS_CardinalityType, FS_EmptySet
  <2> HIDE DEF m
  <2> QED BY <1>1, <2>2, <2>3, SizeLimit
<1>7. IsPalette(distinct, m, used) /\ AreKeys(distinct, m)
  <2>1. /\ m \in Nat
        /\ \A k \in 1..m : Nth(used, k) \in used
        /\ \A i \in used : Before(used, i) \in 0..(m - 1) /\ i = Nth(used, Before(used, i) + 1)
        /\ \A k, l \in 1..m : Nth(used, k) = Nth(used, l) => k = l
    BY <1>5, <1>6, ListOf
  <2> HIDE DEF m
  <2>2. distinct \in [1..m -> used] /\ \A k, l \in 1..m : distinct[k] = distinct[l] => k = l
    BY <2>1
  <2>3. \A a \in used : \E k \in 1..m : distinct[k] = a
    <3>1. TAKE a \in used
    <3>2. Before(used, a) + 1 \in 1..m
      BY <2>1
    <3> QED BY <2>1, <3>2
  <2>4. distinct \in [1..m -> Nat]
    BY <1>5, <2>2
  <2> HIDE DEF distinct
  <2> QED BY <2>1, <2>2, <2>3, <2>4 DEF IsPalette, AreKeys
<1>8. IsPalette(order, m, 1..m)
  <2>1. AreNumbers(counts, m)
    <3>1. DOMAIN distinct = 1..m
      OBVIOUS
    <3> HIDE DEF distinct, m
    <3>2. counts = [n \in 1..m |-> CountOf(values, distinct[n] - 1)]
      BY <3>1
    <3> QED BY <3>2, CountOfIs DEF AreNumbers
  <2> HIDE DEF counts, distinct, m
  <2> QED BY <1>6, <1>7, <2>1, RankedByIs
<1>9. Emitted(values, atoms)
        = IF Len(order) = 1
          THEN Paletted(rank_atoms, 1, [n \in 1..(UNPACKED_SIZE \div BYTE_BITS) |-> 0])
          ELSE Paletted(rank_atoms, BitsPerEntry(Len(order)),
                        PackValues([i \in Cells |-> remap[values[i] + 1]], BitsPerEntry(Len(order))))
  BY DEF Emitted, Nth, Before, used
<1> HIDE DEF order
<1>10. DOMAIN order = 1..m /\ Len(order) = m
  BY <1>8, PaletteIs
<1>11. IsPalette(chosen, m, used)
  <2> HIDE DEF distinct, m
  <2>1. chosen = [k \in 1..m |-> distinct[order[k]]]
    BY <1>10
  <2> HIDE DEF chosen
  <2> QED BY <1>7, <1>8, <2>1, ReorderedIs
<1>12. rank_atoms = [k \in 1..m |-> atoms[chosen[k]]] /\ rank_atoms \in [1..m -> Atoms]
  <2> HIDE DEF distinct, m
  <2>1. rank_atoms = [k \in 1..m |-> atoms[chosen[k]]]
    BY <1>10
  <2> HIDE DEF chosen, rank_atoms
  <2>2. \A k \in 1..m : chosen[k] \in used
    BY <1>11 DEF IsPalette
  <2>3. \A k \in 1..m : atoms[chosen[k]] \in Atoms
    BY <1>4, <2>2
  <2> QED BY <2>1, <2>3
<1> HIDE DEF chosen, rank_atoms, distinct, counts
<1>13. \A i \in Cells : /\ cells[i] \in used
                        /\ IndexIn(chosen, cells[i]) \in 1..m
                        /\ chosen[IndexIn(chosen, cells[i])] = cells[i]
                        /\ rank_atoms[IndexIn(chosen, cells[i])] = atoms[cells[i]]
  <2> HIDE DEF cells, m
  <2>1. \A i \in Cells : cells[i] \in used
    BY <1>4 DEF Contents
  <2>2. \A a \in used : IndexIn(chosen, a) \in 1..m /\ chosen[IndexIn(chosen, a)] = a
    BY <1>11, PaletteIs
  <2> QED BY <1>12, <2>1, <2>2
<1>14. CASE m = 1
  <2> DEFINE data == Paletted(rank_atoms, 1, [n \in 1..(UNPACKED_SIZE \div BYTE_BITS) |-> 0])
  <2>1. Emitted(values, atoms) = data
    BY <1>9, <1>10, <1>14
  <2>2. IsPacked(data) /\ Unpack(data) = [i \in Cells |-> rank_atoms[1]]
    <3>1. rank_atoms \in [1..1 -> Atoms]
      BY <1>12, <1>14
    <3> QED BY <3>1, ZerosPack
  <2> HIDE DEF data
  <2>3. \A i \in Cells : rank_atoms[1] = atoms[values[i] + 1]
    <3>1. TAKE i \in Cells
    <3>2. IndexIn(chosen, cells[i]) = 1
      <4> HIDE DEF m, cells
      <4>1. IndexIn(chosen, cells[i]) \in 1..m
        BY <1>13
      <4> QED BY <1>14, <4>1
    <3>3. cells[i] = values[i] + 1
      OBVIOUS
    <3> HIDE DEF cells, m
    <3>4. rank_atoms[1] = atoms[cells[i]]
      BY <1>13, <3>2
    <3> QED BY <3>3, <3>4
  <2> QED BY <2>1, <2>2, <2>3
<1>15. CASE m # 1
  <2> DEFINE list == PlacesIn(chosen, cells)
             bytes == PackValues(list, BitsPerEntry(m))
  <2>1. Emitted(values, atoms) = Paletted(rank_atoms, BitsPerEntry(m), bytes)
    <3>1. [i \in Cells |-> remap[values[i] + 1]] = list
      <4>1. \A i \in Cells : values[i] + 1 = cells[i] /\ cells[i] \in used
        BY <1>13
      <4> HIDE DEF cells
      <4>2. \A i \in Cells : remap[values[i] + 1] = IndexIn(chosen, cells[i]) - 1
        BY <4>1
      <4> HIDE DEF remap
      <4> QED BY <4>2 DEF PlacesIn
    <3> HIDE DEF list, remap, m
    <3> QED BY <1>9, <1>10, <1>15, <3>1
  <2>2. AreBytesOf(bytes, list, BitsPerEntry(m)) /\ AreAtoms(rank_atoms, m)
    BY <1>12 DEF AreBytesOf, AreAtoms
  <2> HIDE DEF bytes, m, cells
  <2>3. IsPalette(chosen, m, Contents(cells))
    BY <1>4, <1>11
  <2>5. /\ IsPacked(Paletted(rank_atoms, BitsPerEntry(m), bytes))
        /\ Unpack(Paletted(rank_atoms, BitsPerEntry(m), bytes))
             = [i \in Cells |-> rank_atoms[IndexIn(chosen, cells[i])]]
    BY <1>6, <2>2, <2>3, PackedByPlaces
  <2>6. \A i \in Cells : rank_atoms[IndexIn(chosen, cells[i])] = atoms[values[i] + 1]
    <3>1. \A i \in Cells : cells[i] = values[i] + 1
      BY DEF cells
    <3> QED BY <1>13, <3>1
  <2> QED BY <2>1, <2>5, <2>6
<1> QED BY <1>14, <1>15

(* Repacking a section with a palette keeps its atoms.                     *)
LEMMA EmitFromIndicesPacks ==
  ASSUME IsPacked(packed), packed.kind = "paletted", HasNarrowPalette, EmitFromIndices
  PROVE  IsPacked(packed') /\ Unpack(packed') = Unpack(packed)
<1> DEFINE bits == packed.bits
           values == UnpackBits(packed.bytes, bits)
<1>1. /\ bits \in IndexWidths
      /\ packed.bytes \in ByteArrays(bits)
      /\ packed.palette \in Seq(Atoms)
      /\ \A i \in Cells : values[i] < Len(packed.palette)
      /\ Unpack(packed) = [i \in Cells |-> packed.palette[values[i] + 1]]
  BY PackedParts DEF HasNarrowPalette
<1>2. values \in [Cells -> Digits(bits)]
  <2>1. bits \in Widths
    BY <1>1 DEF Widths
  <2> HIDE DEF bits
  <2> QED BY <1>1, <2>1, UnpackBitsType
<1>3. packed' = Emitted(values, packed.palette)
  BY <1>1, ByteByByte DEF EmitFromIndices
<1> HIDE DEF values, bits
<1> QED BY <1>1, <1>2, <1>3, EmittedPacks

(* Atoms written as two bytes each are read again.                         *)
LEMMA PackAtomsLeIs ==
  ASSUME NEW cells, IsSection(cells)
  PROVE  /\ PackAtomsLe(cells) \in ByteArrays(2 * BYTE_BITS)
         /\ ExtractDirectAtoms(PackAtomsLe(cells)) = cells
<1> DEFINE bytes == PackAtomsLe(cells)
<1>1. BYTE_BITS \in Nat \ {0} /\ UNPACKED_SIZE \in Nat \ {0}
  BY Sizes
<1>2. (UNPACKED_SIZE \div BYTE_BITS) * (2 * BYTE_BITS) = 2 * UNPACKED_SIZE
  <2> DEFINE q == WORD_BYTES * Turns
  <2>1. q \in Nat /\ UNPACKED_SIZE \div BYTE_BITS = q
    BY Sizes, ProductType
  <2>2. UNPACKED_SIZE = BYTE_BITS * q
    <3>1. (BYTE_BITS * WORD_BYTES) * Turns = BYTE_BITS * (WORD_BYTES * Turns)
      BY Sizes, SMTT(30)
    <3> QED BY <3>1, Sizes
  <2> HIDE DEF q
  <2>3. q * (2 * BYTE_BITS) = 2 * (BYTE_BITS * q)
    BY <1>1, <2>1, SMTT(30)
  <2> QED BY <2>1, <2>2, <2>3
<1>3. \A i \in Cells : cells[i] \in Nat /\ cells[i] \in 0..(Pow(2 * BYTE_BITS) - 1)
  BY AtomsAreDigits DEF IsSection, Digits
<1>4. ASSUME NEW n \in 1..(2 * UNPACKED_SIZE)
      PROVE  (n + 1) \div 2 \in Cells /\ (n + 1) % 2 \in {0, 1}
  BY <1>1 DEF Cells
<1>5. ASSUME NEW n \in 1..(2 * UNPACKED_SIZE)
      PROVE  Field(cells[(n + 1) \div 2], (n + 1) % 2, BYTE_BITS) \in Digits(BYTE_BITS)
  BY <1>1, <1>3, <1>4, FieldType DEF Digits
<1>6. bytes \in [1..(2 * UNPACKED_SIZE) -> Digits(BYTE_BITS)]
  BY <1>5 DEF PackAtomsLe
<1>7. ASSUME NEW i \in Cells
      PROVE  bytes[2 * i - 1] + bytes[2 * i] * Pow(BYTE_BITS) = cells[i]
  <2>1. /\ 2 * i - 1 \in 1..(2 * UNPACKED_SIZE) /\ 2 * i \in 1..(2 * UNPACKED_SIZE)
        /\ ((2 * i - 1) + 1) \div 2 = i /\ ((2 * i - 1) + 1) % 2 = 0
        /\ (2 * i + 1) \div 2 = i /\ (2 * i + 1) % 2 = 1
    BY <1>1 DEF Cells
  <2>2. bytes[2 * i - 1] = Field(cells[i], 0, BYTE_BITS) /\ bytes[2 * i] = Field(cells[i], 1, BYTE_BITS)
    BY <2>1 DEF PackAtomsLe
  <2>3. Field(cells[i], 0, 2 * BYTE_BITS)
          = Field(cells[i], 0, BYTE_BITS) + Field(cells[i], 1, BYTE_BITS) * Pow(BYTE_BITS)
    <3>1. 0 \in Nat /\ BYTE_BITS \in Nat /\ cells[i] \in Nat
      BY <1>1, <1>3
    <3>2. Field(cells[i], 0, 2 * BYTE_BITS)
            = Field(cells[i], 2 * 0, BYTE_BITS) + Field(cells[i], 2 * 0 + 1, BYTE_BITS) * Pow(BYTE_BITS)
      BY <3>1, DoubleField
    <3>3. 2 * 0 = 0 /\ 2 * 0 + 1 = 1
      OBVIOUS
    <3> QED BY <3>2, <3>3
  <2>4. Field(cells[i], 0, 2 * BYTE_BITS) = cells[i]
    <3> DEFINE two == 2 * BYTE_BITS
               c == cells[i]
    <3>1. two \in Nat /\ two * 0 = 0 /\ Pow(0) = 1 /\ c \in Nat /\ c \in 0..(Pow(two) - 1)
      BY <1>1, <1>3, PowOfZero
    <3> HIDE DEF two, c
    <3>2. Field(c, 0, two) = (c \div 1) % Pow(two) /\ c \div 1 = c
      BY <3>1, FieldIs
    <3>3. Pow(two) \in Nat \ {0}
      BY <3>1, PowType
    <3>4. c % Pow(two) = c
      BY <3>1, <3>3, SmallRemainder
    <3> QED BY <3>2, <3>4 DEF two, c
  <2> QED BY <2>2, <2>3, <2>4
<1>8. ExtractDirectAtoms(bytes) = [i \in Cells |-> bytes[2 * i - 1] + bytes[2 * i] * Pow(BYTE_BITS)]
  BY DEF ExtractDirectAtoms, Pow
<1>9. ExtractDirectAtoms(bytes) = [i \in Cells |-> cells[i]]
  BY <1>7, <1>8
<1>10. bytes \in ByteArrays(2 * BYTE_BITS)
  BY <1>2, <1>6 DEF ByteArrays
<1> QED BY <1>9, <1>10 DEF IsSection

(* Repacking a section without a palette, or with a wide one, keeps its    *)
(* atoms, whatever earlier sections left in the table.                     *)
LEMMA EmitFromAtomsPacks ==
  ASSUME StampsBehind, HasIndices(pack),
         IsPacked(packed), packed.kind = "paletted",
         NEW cells, IsSection(cells), Unpack(packed) = cells, EmitFromAtoms
  PROVE  /\ HasIndices(pack')
         /\ IsPacked(packed') /\ Unpack(packed') = cells
<1> DEFINE table == NextGeneration(pack)
           atoms == FirstSeen(table, cells)
           marked == MarkedTable(table, cells, atoms)
           counts == [k \in DOMAIN atoms |-> CountOf(cells, atoms[k])]
           order == RankedBy(counts, atoms)
           ranked == [k \in DOMAIN order |-> atoms[order[k]]]
           bits == BitsPerEntry(Len(atoms))
           n == Cardinality(FirstCells(cells))
<1>1. WideAtoms = cells
  <2>1. CASE packed.palette = <<>>
    <3>1. packed.bytes \in ByteArrays(2 * BYTE_BITS) /\ Unpack(packed) = UnpackBits(packed.bytes, 2 * BYTE_BITS)
      BY <2>1, PackedParts
    <3> QED BY <2>1, <3>1, AtomByAtom DEF WideAtoms
  <2>2. CASE packed.palette # <<>>
    <3>1. packed.kind # "single"
      OBVIOUS
    <3> QED BY <2>2, <3>1 DEF WideAtoms, Unpack
  <2> QED BY <2>1, <2>2
<1>2. /\ pack' = marked
      /\ packed' =
           IF IsDirect(table, cells)
           THEN IF packed.palette = <<>> THEN packed ELSE Direct(PackAtomsLe(cells))
           ELSE IF Len(atoms) = 1
           THEN Paletted(atoms, 1, [k \in 1..(UNPACKED_SIZE \div BYTE_BITS) |-> 0])
           ELSE Paletted(ranked, bits,
                  PackValues([i \in Cells |->
                                IndexIn(order, marked.indices[cells[i]] + 1) - 1], bits))
  BY <1>1 DEF EmitFromAtoms
<1>3. HasIndices(table) /\ \A i \in Cells : table.seen[cells[i]] # table.seen_gen
  BY NextHasIndices DEF StampsBehind
<1> HIDE DEF table
<1>4. HasIndices(pack')
  BY <1>2, <1>3, MarkedHasIndices
<1>5. CASE IsDirect(table, cells)
  <2>1. IsPacked(Direct(PackAtomsLe(cells))) /\ Unpack(Direct(PackAtomsLe(cells))) = cells
    BY PackAtomsLeIs, AtomByAtom, DirectIs
  <2> QED BY <1>2, <1>4, <1>5, <2>1
<1>6. CASE ~IsDirect(table, cells)
  <2>1. n \in 1..MAX_INDIRECT_PALETTE_SIZE /\ IsPalette(atoms, n, Contents(cells))
    BY <1>3, <1>6, FirstSeenList
  <2> HIDE DEF atoms, n
  <2>2. DOMAIN atoms = 1..n /\ Len(atoms) = n /\ n \in Nat
    BY <2>1, PaletteIs
  <2>3. \A i \in Cells : /\ cells[i] \in Contents(cells)
                         /\ IndexIn(atoms, cells[i]) \in 1..n
                         /\ atoms[IndexIn(atoms, cells[i])] = cells[i]
                         /\ marked.indices[cells[i]] + 1 = IndexIn(atoms, cells[i])
    <3>1. TAKE i \in Cells
    <3>2. cells[i] \in Contents(cells)
      BY DEF Contents
    <3>3. IndexIn(atoms, cells[i]) \in 1..n /\ atoms[IndexIn(atoms, cells[i])] = cells[i]
      BY <2>1, <3>2, PaletteIs
    <3>4. marked.indices[cells[i]] = IndexIn(atoms, cells[i]) - 1
      <4>1. Contents(cells) \subseteq Atoms
        BY ContentsAreAtoms
      <4> QED BY <1>3, <2>1, <3>2, <4>1, MarkedIndices DEF HasIndices
    <3> HIDE DEF marked
    <3> QED BY <2>2, <3>2, <3>3, <3>4
  <2> HIDE DEF marked
  <2>4. CASE n = 1
    <3>1. atoms[1] \in Atoms /\ [i \in Cells |-> atoms[1]] = cells
      BY <2>1, <2>4, OneAtom
    <3>2. atoms \in [1..1 -> Atoms]
      <4>1. atoms \in [1..1 -> Contents(cells)]
        BY <2>1, <2>4 DEF IsPalette
      <4> QED BY <4>1, ContentsAreAtoms
    <3> DEFINE data == Paletted(atoms, 1, [k \in 1..(UNPACKED_SIZE \div BYTE_BITS) |-> 0])
    <3>3. packed' = data
      BY <1>2, <1>6, <2>2, <2>4
    <3>4. IsPacked(data) /\ Unpack(data) = [i \in Cells |-> atoms[1]]
      BY <3>2, ZerosPack
    <3> HIDE DEF data
    <3> QED BY <1>4, <3>1, <3>3, <3>4
  <2>5. CASE n # 1
    <3> DEFINE places == [i \in Cells |-> IndexIn(atoms, cells[i])]
               list == PlacesIn(order, places)
               bytes == PackValues(list, BitsPerEntry(n))
    <3>1. IsPalette(order, n, 1..n)
      <4>1. AreNumbers(counts, n)
        BY <2>2, CountOfIs DEF AreNumbers
      <4>2. AreKeys(atoms, n)
        <5>1. atoms \in [1..n -> Contents(cells)] /\ \A k, l \in 1..n : atoms[k] = atoms[l] => k = l
          BY <2>1 DEF IsPalette
        <5>2. Contents(cells) \subseteq Nat
          <6>1. Atoms \subseteq Nat
            BY DEF Atoms
          <6> QED BY <6>1, ContentsAreAtoms
        <5> QED BY <5>1, <5>2 DEF AreKeys
      <4> HIDE DEF counts
      <4> QED BY <2>2, <4>1, <4>2, RankedByIs
    <3> HIDE DEF order
    <3>2. Contents(places) = 1..n
      <4>1. Contents(places) \subseteq 1..n
        BY <2>3 DEF Contents
      <4>2. ASSUME NEW k \in 1..n PROVE k \in Contents(places)
        <5>1. atoms[k] \in Contents(cells)
          BY <2>1 DEF IsPalette
        <5>2. PICK i \in Cells : cells[i] = atoms[k]
          BY <5>1 DEF Contents
        <5>3. IndexIn(atoms, cells[i]) = k
          BY <2>1, <2>3, <5>2 DEF IsPalette
        <5> QED BY <5>3 DEF Contents
      <4> QED BY <4>1, <4>2
    <3>3. DOMAIN order = 1..n /\ \A k \in 1..n : IndexIn(order, k) \in 1..n /\ order[IndexIn(order, k)] = k
      BY <3>1, PaletteIs
    <3>4. AreAtoms(ranked, n)
      <4>1. order \in [1..n -> 1..n] /\ atoms \in [1..n -> Contents(cells)]
        BY <2>1, <3>1 DEF IsPalette
      <4>2. \A k \in 1..n : atoms[order[k]] \in Atoms
        BY <4>1, ContentsAreAtoms
      <4> QED BY <3>3, <4>2 DEF AreAtoms
    <3>5. packed' = Paletted(ranked, BitsPerEntry(n), bytes)
      <4>1. [i \in Cells |-> IndexIn(order, marked.indices[cells[i]] + 1) - 1] = list
        <5>1. \A i \in Cells : marked.indices[cells[i]] + 1 = places[i]
          BY <2>3
        <5> HIDE DEF places
        <5> QED BY <5>1 DEF PlacesIn
      <4> HIDE DEF list, ranked
      <4> QED BY <1>2, <1>6, <2>2, <2>5, <4>1
    <3>6. AreBytesOf(bytes, PlacesIn(order, places), BitsPerEntry(n))
      BY DEF AreBytesOf
    <3> HIDE DEF bytes, places
    <3>7. /\ IsPacked(Paletted(ranked, BitsPerEntry(n), bytes))
          /\ Unpack(Paletted(ranked, BitsPerEntry(n), bytes))
               = [i \in Cells |-> ranked[IndexIn(order, places[i])]]
      <4> HIDE DEF ranked
      <4>1. IsPalette(order, n, Contents(places))
        BY <3>1, <3>2
      <4> QED BY <2>1, <3>4, <3>6, <4>1, PackedByPlaces
    <3>8. \A i \in Cells : ranked[IndexIn(order, places[i])] = cells[i]
      <4>1. \A i \in Cells : places[i] \in 1..n /\ atoms[places[i]] = cells[i]
        BY <2>3 DEF places
      <4>2. \A k \in 1..n : ranked[k] = atoms[order[k]]
        BY <3>3
      <4> QED BY <3>3, <4>1, <4>2
    <3>9. [i \in Cells |-> ranked[IndexIn(order, places[i])]] = cells
      BY <3>8 DEF IsSection
    <3> QED BY <1>4, <3>5, <3>7, <3>9
  <2> QED BY <2>4, <2>5
<1> QED BY <1>5, <1>6

(* Repacking keeps the section.                                            *)
LEMMA RepackPacks ==
  ASSUME StampsBehind, HasIndices(pack), IsPacked(packed), IsSection(grid),
         Unpack(packed) = grid, Repack
  PROVE  /\ HasIndices(pack')
         /\ IsPacked(packed') /\ Unpack(packed') = grid
<1>1. CASE ~HasNarrowPalette
  BY <1>1, EmitFromAtomsPacks DEF Repack
<1>2. CASE HasNarrowPalette
  <2>1. pack' = pack
    BY <1>2 DEF Repack, EmitFromIndices
  <2> QED BY <1>2, <2>1, EmitFromIndicesPacks DEF Repack
<1> QED BY <1>1, <1>2

-----------------------------------------------------------------------------
(* Ranks placed in a table                                                 *)

(* The d-th position that a search for a rank looks at.                    *)
Probe(rank, d) == (Hash[rank] + d) % RANK_TABLE_SLOTS

(* Searches look at positions of the table, and at every one of them.      *)
LEMMA Probes ==
  ASSUME NEW rank \in Atoms
  PROVE  /\ \A d \in Nat : Probe(rank, d) \in TablePositions
         /\ \A at \in TablePositions : \E d \in TablePositions : Probe(rank, d) = at
<1> DEFINE N == RANK_TABLE_SLOTS
           h == Hash[rank]
<1>1. N \in Nat \ {0} /\ h \in Nat /\ h < N /\ TablePositions = 0..(N - 1)
  BY ParametersOK DEF TablePositions
<1>2. \A d \in Nat : Probe(rank, d) = (h + d) % N
  BY DEF Probe
<1> HIDE DEF N, h
<1>3. \A d \in Nat : (h + d) % N \in 0..(N - 1)
  <2>1. TAKE d \in Nat
  <2> DEFINE s == h + d
  <2>2. s \in Nat
    BY <1>1
  <2> HIDE DEF s
  <2>3. s % N \in 0..(N - 1)
    BY <1>1, <2>2, Division
  <2> QED BY <2>3 DEF s
<1>4. ASSUME NEW at \in 0..(N - 1)
      PROVE  \E d \in 0..(N - 1) : (h + d) % N = at
  <2>0. at \in Nat /\ at < N
    BY <1>1
  <2>1. CASE at >= h
    <3> DEFINE d == at - h
    <3>1. d \in 0..(N - 1) /\ h + d = at
      BY <1>1, <2>0, <2>1
    <3>2. at % N = at
      BY <1>1, SmallRemainder
    <3> HIDE DEF d
    <3>3. (h + d) % N = at
      BY <3>1, <3>2
    <3> QED BY <3>1, <3>3
  <2>2. CASE at < h
    <3> DEFINE d == (at + N) - h
               s == h + d
    <3>1. d \in 0..(N - 1) /\ s = N * 1 + at /\ s \in Nat
      BY <1>1, <2>0, <2>2
    <3> HIDE DEF d, s
    <3>2. s % N = at
      <4>1. 1 \in Nat
        OBVIOUS
      <4> QED BY <1>1, <3>1, <4>1, DivisionIsUnique
    <3> QED BY <3>1, <3>2 DEF s
  <2> QED BY <1>1, <2>0, <2>1, <2>2
<1>5. \A d \in Nat : Probe(rank, d) \in TablePositions
  BY <1>1, <1>2, <1>3
<1>6. ASSUME NEW at \in TablePositions
      PROVE  \E d \in TablePositions : Probe(rank, d) = at
  <2>1. PICK d \in 0..(N - 1) : (h + d) % N = at
    BY <1>1, <1>4
  <2>2. d \in Nat /\ d \in TablePositions
    BY <1>1
  <2> QED BY <1>2, <2>1, <2>2
<1> QED BY <1>5, <1>6

(* A rank's position, and those before it on the way, which hold others.   *)
Reaches(placed, rank, at) ==
  \E d \in Nat : /\ at = Probe(rank, d)
                 /\ \A e \in 0..(d - 1) : /\ Probe(rank, e) \in DOMAIN placed
                                          /\ placed[Probe(rank, e)] # rank

(* No position but those of this section bears its stamp.                  *)
IsFreeBeside(table, placed) ==
  \A at \in TablePositions \ DOMAIN placed : table.seen[at] # table.seen_gen

(* Ranks are where searches for them get, and some position is left.       *)
ArePositions(placed) ==
  /\ DOMAIN placed \subseteq TablePositions
  /\ DOMAIN placed # TablePositions
  /\ \A at \in DOMAIN placed : Reaches(placed, placed[at], at)

(* A search ends at the position of the rank if it was placed, and         *)
(* otherwise at a free one.                                                *)
LEMMA RankSlotIs ==
  ASSUME NEW table, NEW placed, ArePositions(placed), IsFreeBeside(table, placed),
         NEW rank \in Atoms
  PROVE  LET at == RankSlot(table, placed, rank)
         IN  /\ at \in TablePositions
             /\ at \in DOMAIN placed => placed[at] = rank
             /\ at \notin DOMAIN placed => \A p \in DOMAIN placed : placed[p] # rank
             /\ Reaches(placed, rank, at)
<1> DEFINE ends(p) == IF p \in DOMAIN placed THEN placed[p] = rank
                      ELSE table.seen[p] # table.seen_gen \/ table.key[p] = rank
           stop(d) == ends(Probe(rank, d))
           Stops == {d \in TablePositions : stop(d)}
           found == CHOOSE d \in TablePositions : stop(d) /\ \A e \in 0..(d - 1) : ~stop(e)
           at == Probe(rank, found)
<1>1. TablePositions \in SUBSET Nat /\ \A d \in TablePositions : 0..(d - 1) \subseteq TablePositions
  BY ParametersOK DEF TablePositions
<1>2. /\ \A d \in Nat : Probe(rank, d) \in TablePositions
      /\ \A p \in TablePositions : \E d \in TablePositions : Probe(rank, d) = p
  BY Probes
<1>3. RankSlot(table, placed, rank) = at
  BY DEF RankSlot, Probe
<1>4. \A p \in TablePositions : ~ends(p) => p \in DOMAIN placed /\ placed[p] # rank
  BY DEF IsFreeBeside
<1>5. \A p \in DOMAIN placed : ends(p) <=> placed[p] = rank
  OBVIOUS
<1> HIDE DEF ends
<1>6. Stops \in SUBSET Nat /\ Stops # {}
  <2>1. PICK p \in TablePositions : p \notin DOMAIN placed
    BY DEF ArePositions
  <2>2. PICK d \in TablePositions : Probe(rank, d) = p
    BY <1>2
  <2>3. stop(d)
    BY <1>4, <2>1, <2>2
  <2> QED BY <1>1, <2>3
<1>7. PICK least \in Stops : \A d \in Stops : least <= d
  BY <1>6, LeastExists
<1>8. /\ least \in TablePositions /\ stop(least)
      /\ \A e \in 0..(least - 1) : ~stop(e)
  <2>1. \A e \in 0..(least - 1) : e \in TablePositions /\ ~(least <= e)
    BY <1>1, <1>7
  <2> QED BY <1>7, <2>1
<1> HIDE DEF stop, Stops
<1>9. /\ found \in TablePositions /\ stop(found)
      /\ \A e \in 0..(found - 1) : ~stop(e)
  BY <1>8
<1> HIDE DEF found
<1>10. found \in Nat /\ at \in TablePositions
  BY <1>1, <1>2, <1>9
<1>11. \A e \in 0..(found - 1) : Probe(rank, e) \in DOMAIN placed /\ placed[Probe(rank, e)] # rank
  <2>1. TAKE e \in 0..(found - 1)
  <2>2. e \in Nat /\ ~stop(e)
    BY <1>9, <1>10
  <2> QED BY <1>2, <1>4, <2>2 DEF stop
<1>12. Reaches(placed, rank, at)
  BY <1>10, <1>11 DEF Reaches
<1>13. at \in DOMAIN placed => placed[at] = rank
  BY <1>5, <1>9 DEF stop
<1>14. ASSUME at \notin DOMAIN placed, NEW p \in DOMAIN placed, placed[p] = rank
       PROVE  FALSE
  <2>1. Reaches(placed, rank, p)
    BY <1>14 DEF ArePositions
  <2>2. PICK d \in Nat : /\ p = Probe(rank, d)
                         /\ \A e \in 0..(d - 1) : Probe(rank, e) \in DOMAIN placed
    BY <2>1 DEF Reaches
  <2>3. CASE found < d
    <3>1. found \in 0..(d - 1)
      BY <1>10, <2>3
    <3> QED BY <1>14, <2>2, <3>1
  <2>4. CASE found = d
    BY <1>14, <2>2, <2>4
  <2>5. CASE found > d
    <3>1. d \in 0..(found - 1)
      BY <1>10, <2>5
    <3> QED BY <1>11, <1>14, <2>2, <3>1
  <2> QED BY <1>10, <2>3, <2>4, <2>5
<1> QED BY <1>3, <1>10, <1>12, <1>13, <1>14

(* The ranks that were placed.                                             *)
RanksIn(placed) == {placed[p] : p \in DOMAIN placed}

(* What is in the table and in the palette after some cells.               *)
ArePlaced(placed, first_seen) ==
  /\ DOMAIN placed \subseteq TablePositions
  /\ placed \in [DOMAIN placed -> Atoms]
  /\ first_seen \in Seq(Atoms)
  /\ Len(first_seen) <= MAX_INDIRECT_PALETTE_SIZE
  /\ IsPalette(first_seen, Len(first_seen), RanksIn(placed))
  /\ Cardinality(DOMAIN placed) = Len(first_seen)
  /\ \A at \in DOMAIN placed : Reaches(placed, placed[at], at)

(* There are as many positions as the table has slots.                     *)
LEMMA PositionsAre == IsFiniteSet(TablePositions) /\ Cardinality(TablePositions) = RANK_TABLE_SLOTS
<1>1. RANK_TABLE_SLOTS \in Nat
  BY ParametersOK
<1>2. RANK_TABLE_SLOTS - 1 \in Int /\ 0 \in Int
  BY <1>1
<1> DEFINE last == RANK_TABLE_SLOTS - 1
<1>3. last \in Int /\ last - 0 + 1 = RANK_TABLE_SLOTS /\ (0 > last <=> RANK_TABLE_SLOTS = 0)
  BY <1>1
<1> HIDE DEF last
<1>4. IsFiniteSet(0..last) /\ Cardinality(0..last) = IF 0 > last THEN 0 ELSE last - 0 + 1
  BY <1>3, FS_Interval
<1>5. Cardinality(0..last) = RANK_TABLE_SLOTS
  BY <1>3, <1>4
<1> QED BY <1>4, <1>5 DEF TablePositions, last

(* A position is always left. *)
LEMMA SomeAreFree ==
  ASSUME NEW placed, NEW first_seen, ArePlaced(placed, first_seen)
  PROVE  ArePositions(placed) /\ IsFiniteSet(DOMAIN placed)
<1>1. IsFiniteSet(DOMAIN placed)
  BY PositionsAre, FS_Subset DEF ArePlaced
<1>2. Cardinality(DOMAIN placed) # Cardinality(TablePositions)
  <2>1. RANK_TABLE_SLOTS > MAX_INDIRECT_PALETTE_SIZE /\ RANK_TABLE_SLOTS \in Nat
    BY ParametersOK
  <2>2. Cardinality(DOMAIN placed) <= MAX_INDIRECT_PALETTE_SIZE
    BY DEF ArePlaced
  <2>3. MAX_INDIRECT_PALETTE_SIZE \in Nat /\ Cardinality(DOMAIN placed) \in Nat
    BY <1>1, SizeLimit, FS_CardinalityType
  <2> QED BY <2>1, <2>2, <2>3, PositionsAre
<1> QED BY <1>1, <1>2 DEF ArePlaced, ArePositions

(* A rank placed at a free position is on no way to another one.           *)
LEMMA StillReaches ==
  ASSUME NEW placed, NEW rank, NEW at, Reaches(placed, rank, at), NEW new, NEW atom,
         new \notin DOMAIN placed
  PROVE  Reaches(With(placed, new, atom), rank, at)
<1> DEFINE more == With(placed, new, atom)
<1>1. DOMAIN more = DOMAIN placed \cup {new}
  BY DEF With
<1>2. \A p \in DOMAIN placed : p \in DOMAIN more /\ more[p] = placed[p]
  BY DEF With
<1> HIDE DEF more
<1>3. PICK d \in Nat : /\ at = Probe(rank, d)
                       /\ \A e \in 0..(d - 1) : /\ Probe(rank, e) \in DOMAIN placed
                                                /\ placed[Probe(rank, e)] # rank
  BY DEF Reaches
<1>4. \A e \in 0..(d - 1) : Probe(rank, e) \in DOMAIN more /\ more[Probe(rank, e)] # rank
  BY <1>2, <1>3
<1> QED BY <1>3, <1>4 DEF Reaches, more

(* One more rank, at the position a search for it ends at.                 *)
LEMMA OneMorePlaced ==
  ASSUME NEW placed, NEW first_seen, ArePlaced(placed, first_seen),
         Len(first_seen) # MAX_INDIRECT_PALETTE_SIZE,
         NEW rank \in Atoms, NEW at \in TablePositions, at \notin DOMAIN placed,
         \A p \in DOMAIN placed : placed[p] # rank,
         Reaches(placed, rank, at)
  PROVE  /\ ArePlaced(With(placed, at, rank), Append(first_seen, rank))
         /\ RanksIn(With(placed, at, rank)) = RanksIn(placed) \cup {rank}
<1> DEFINE more == With(placed, at, rank)
           longer == Append(first_seen, rank)
           n == Len(first_seen)
           A == RanksIn(placed)
<1>1. /\ DOMAIN more = DOMAIN placed \cup {at}
      /\ more[at] = rank
      /\ \A p \in DOMAIN placed : more[p] = placed[p]
      /\ more = [p \in DOMAIN more |-> more[p]]
  BY DEF With
<1>2. \A p \in DOMAIN more : Reaches(more, more[p], p)
  <2>1. Reaches(more, rank, at)
    BY StillReaches
  <2>2. \A p \in DOMAIN placed : Reaches(more, placed[p], p)
    BY StillReaches DEF ArePlaced
  <2> HIDE DEF more
  <2> QED BY <1>1, <2>1, <2>2
<1> HIDE DEF more
<1>3. RanksIn(more) = A \cup {rank}
  <2>1. RanksIn(more) \subseteq A \cup {rank}
    BY <1>1 DEF RanksIn
  <2>2. A \subseteq RanksIn(more)
    BY <1>1 DEF RanksIn
  <2>3. rank \in RanksIn(more)
    BY <1>1 DEF RanksIn
  <2> QED BY <2>1, <2>2, <2>3
<1>4. rank \notin A
  BY DEF RanksIn
<1>5. n \in Nat /\ n + 1 <= MAX_INDIRECT_PALETTE_SIZE /\ IsPalette(first_seen, n, A)
  <2>1. n \in Nat /\ n <= MAX_INDIRECT_PALETTE_SIZE
    BY DEF ArePlaced
  <2> HIDE DEF n
  <2>2. n # MAX_INDIRECT_PALETTE_SIZE
    BY DEF n
  <2>3. IsPalette(first_seen, n, A)
    BY DEF n, ArePlaced
  <2> QED BY <2>1, <2>2, <2>3, SizeLimit
<1>6. /\ longer \in Seq(Atoms) /\ Len(longer) = n + 1
      /\ \A k \in 1..n : longer[k] = first_seen[k]
      /\ longer[n + 1] = rank
      /\ DOMAIN longer = 1..(n + 1)
  BY DEF ArePlaced
<1> HIDE DEF longer, n, A
<1>7. IsPalette(longer, n + 1, A \cup {rank})
  <2>1. \A k \in 1..(n + 1) : k \in 1..n \/ k = n + 1
    BY <1>5
  <2>2. /\ \A k \in 1..n : first_seen[k] \in A
        /\ \A k, l \in 1..n : first_seen[k] = first_seen[l] => k = l
        /\ \A a \in A : \E k \in 1..n : first_seen[k] = a
    BY <1>5 DEF IsPalette
  <2>3. \A k \in 1..(n + 1) : longer[k] \in A \cup {rank}
    BY <1>6, <2>1, <2>2
  <2>4. longer \in [1..(n + 1) -> A \cup {rank}]
    BY <1>6, <2>3
  <2>5. \A k, l \in 1..(n + 1) : longer[k] = longer[l] => k = l
    <3>1. TAKE k, l \in 1..(n + 1)
    <3>2. CASE k \in 1..n /\ l \in 1..n
      BY <1>6, <2>2, <3>2
    <3>3. CASE k \in 1..n /\ l = n + 1
      BY <1>4, <1>6, <2>2, <3>3
    <3>4. CASE k = n + 1 /\ l \in 1..n
      BY <1>4, <1>6, <2>2, <3>4
    <3> QED BY <2>1, <3>2, <3>3, <3>4
  <2>6. \A a \in A \cup {rank} : \E k \in 1..(n + 1) : longer[k] = a
    <3>1. \A k \in 1..n : k \in 1..(n + 1)
      BY <1>5
    <3>2. n + 1 \in 1..(n + 1)
      BY <1>5
    <3> QED BY <1>6, <2>2, <3>1, <3>2
  <2>7. n + 1 \in Nat
    BY <1>5
  <2> QED BY <2>4, <2>5, <2>6, <2>7 DEF IsPalette
<1>8. Cardinality(DOMAIN more) = n + 1
  <2>1. IsFiniteSet(DOMAIN placed)
    BY SomeAreFree
  <2>2. Cardinality(DOMAIN placed) = n
    BY DEF ArePlaced, n
  <2> QED BY <1>1, <2>1, <2>2, FS_AddElement
<1>9. DOMAIN more \subseteq TablePositions /\ more \in [DOMAIN more -> Atoms]
  <2>1. DOMAIN placed \subseteq TablePositions /\ \A p \in DOMAIN placed : placed[p] \in Atoms
    BY DEF ArePlaced
  <2> QED BY <1>1, <2>1
<1>10. ArePlaced(more, longer)
  <2>1. Len(longer) <= MAX_INDIRECT_PALETTE_SIZE
    BY <1>5, <1>6
  <2> QED BY <1>2, <1>3, <1>6, <1>7, <1>8, <1>9, <2>1 DEF ArePlaced
<1> QED BY <1>3, <1>10 DEF more, longer, A

(* What the loop over the cells may have put together.                     *)
Placings ==
  {s \in [placed : UNION {[D -> Atoms] : D \in SUBSET TablePositions},
          first_seen : Seq(Atoms), direct : BOOLEAN] :
     ArePlaced(s.placed, s.first_seen)}

(* The loop's start.                                                       *)
NonePlaced == [placed |-> [p \in {} |-> 0], first_seen |-> <<>>, direct |-> FALSE]

(* What the loop does with a cell.                                         *)
PlacedNext(table, s, rank) ==
  LET at == RankSlot(table, s.placed, rank)
  IN  IF s.direct \/ at \in DOMAIN s.placed \/ table.seen[at] = table.seen_gen THEN s
      ELSE IF Len(s.first_seen) = MAX_INDIRECT_PALETTE_SIZE
      THEN [s EXCEPT !.direct = TRUE]
      ELSE [s EXCEPT !.placed = With(@, at, rank),
                     !.first_seen = Append(@, rank)]

(* A state of the loop in its parts.                                       *)
LEMMA PlacingIs ==
  ASSUME NEW placed, NEW first_seen, ArePlaced(placed, first_seen), NEW direct \in BOOLEAN
  PROVE  [placed |-> placed, first_seen |-> first_seen, direct |-> direct] \in Placings
<1>1. placed \in UNION {[D -> Atoms] : D \in SUBSET TablePositions}
  <2>1. DOMAIN placed \in SUBSET TablePositions /\ placed \in [DOMAIN placed -> Atoms]
    BY DEF ArePlaced
  <2> QED BY <2>1
<1>2. first_seen \in Seq(Atoms)
  BY DEF ArePlaced
<1> DEFINE s == [placed |-> placed, first_seen |-> first_seen, direct |-> direct]
<1>3. s \in [placed : UNION {[D -> Atoms] : D \in SUBSET TablePositions},
             first_seen : Seq(Atoms), direct : BOOLEAN]
  BY <1>1, <1>2
<1>4. ArePlaced(s.placed, s.first_seen)
  OBVIOUS
<1> QED BY <1>3, <1>4 DEF Placings

(* At the start nothing is placed.                                         *)
LEMMA NonePlacedIs == NonePlaced \in Placings /\ RanksIn(NonePlaced.placed) = {}
<1> DEFINE none == [p \in {} |-> 0]
           empty == <<>>
<1>1. DOMAIN none = {} /\ none \in [{} -> Atoms]
  OBVIOUS
<1>2. RanksIn(none) = {}
  BY DEF RanksIn
<1>3. empty \in Seq(Atoms) /\ Len(empty) = 0 /\ empty \in [1..0 -> {}]
  OBVIOUS
<1>4. Cardinality(DOMAIN none) = 0
  BY <1>1, FS_EmptySet
<1>5. IsPalette(empty, 0, {})
  <2> HIDE DEF empty
  <2> QED BY <1>3 DEF IsPalette
<1>6. MAX_INDIRECT_PALETTE_SIZE \in Nat
  BY SizeLimit
<1> HIDE DEF none, empty
<1>7. ArePlaced(none, empty)
  BY <1>1, <1>2, <1>3, <1>4, <1>5, <1>6 DEF ArePlaced
<1>8. NonePlaced = [placed |-> none, first_seen |-> empty, direct |-> FALSE]
  BY DEF NonePlaced, none, empty
<1> QED BY <1>2, <1>7, <1>8, PlacingIs

(* One step of the loop: the cell's rank is among those placed, or the     *)
(* section has too many.                                                   *)
LEMMA PlacedNextIs ==
  ASSUME NEW table, IsUnmarked(table, TablePositions), NEW s \in Placings, NEW rank \in Atoms
  PROVE  LET next == PlacedNext(table, s, rank)
         IN  /\ next \in Placings
             /\ ~next.direct => /\ ~s.direct
                                /\ RanksIn(next.placed) = RanksIn(s.placed) \cup {rank}
<1> DEFINE at == RankSlot(table, s.placed, rank)
           next == PlacedNext(table, s, rank)
           placed == s.placed
           first_seen == s.first_seen
<1>1. /\ s = [placed |-> placed, first_seen |-> first_seen, direct |-> s.direct]
      /\ s.direct \in BOOLEAN
      /\ ArePlaced(placed, first_seen)
  BY DEF Placings
<1>2. ArePositions(placed)
  BY <1>1, SomeAreFree
<1>3. IsFreeBeside(table, placed)
  BY DEF IsUnmarked, IsFreeBeside
<1>4. /\ at \in TablePositions
      /\ at \in DOMAIN placed => placed[at] = rank
      /\ at \notin DOMAIN placed => \A p \in DOMAIN placed : placed[p] # rank
      /\ Reaches(placed, rank, at)
  <2> HIDE DEF placed
  <2>1. /\ RankSlot(table, placed, rank) \in TablePositions
        /\ RankSlot(table, placed, rank) \in DOMAIN placed => placed[RankSlot(table, placed, rank)] = rank
        /\ RankSlot(table, placed, rank) \notin DOMAIN placed => \A p \in DOMAIN placed : placed[p] # rank
        /\ Reaches(placed, rank, RankSlot(table, placed, rank))
    BY <1>2, <1>3, RankSlotIs
  <2> QED BY <2>1 DEF placed
<1>5. table.seen[at] # table.seen_gen
  BY <1>4 DEF IsUnmarked
<1> HIDE DEF at
<1>6. CASE s.direct
  <2>1. next = s
    BY <1>6 DEF PlacedNext
  <2> QED BY <1>6, <2>1
<1>7. CASE ~s.direct /\ at \in DOMAIN placed
  <2>1. next = s
    BY <1>7 DEF PlacedNext, at
  <2>2. rank \in RanksIn(placed)
    BY <1>4, <1>7 DEF RanksIn
  <2>3. RanksIn(s.placed) = RanksIn(s.placed) \cup {rank}
    BY <2>2
  <2> QED BY <1>7, <2>1, <2>3
<1>8. CASE ~s.direct /\ at \notin DOMAIN placed /\ Len(first_seen) = MAX_INDIRECT_PALETTE_SIZE
  <2>1. next = [s EXCEPT !.direct = TRUE]
    BY <1>5, <1>8 DEF PlacedNext, at
  <2>2. next = [placed |-> placed, first_seen |-> first_seen, direct |-> TRUE]
    BY <1>1, <2>1
  <2> HIDE DEF next, placed, first_seen
  <2>3. next \in Placings
    BY <1>1, <2>2, PlacingIs
  <2>4. next.direct
    BY <2>2
  <2> QED BY <2>3, <2>4 DEF next
<1>9. CASE ~s.direct /\ at \notin DOMAIN placed /\ Len(first_seen) # MAX_INDIRECT_PALETTE_SIZE
  <2> DEFINE more == With(placed, at, rank)
             longer == Append(first_seen, rank)
  <2>1. next = [s EXCEPT !.placed = With(@, at, rank), !.first_seen = Append(@, rank)]
    BY <1>5, <1>9 DEF PlacedNext, at
  <2>2. next = [placed |-> more, first_seen |-> longer, direct |-> s.direct]
    BY <1>1, <2>1
  <2>3. /\ ArePlaced(more, longer)
        /\ RanksIn(more) = RanksIn(placed) \cup {rank}
    <3> HIDE DEF placed, first_seen
    <3> QED BY <1>1, <1>4, <1>9, OneMorePlaced
  <2> HIDE DEF next, more, longer
  <2>4. next \in Placings
    BY <1>1, <2>2, <2>3, PlacingIs
  <2>5. next.placed = more
    BY <2>2
  <2> QED BY <1>9, <2>3, <2>4, <2>5 DEF next
<1> QED BY <1>6, <1>7, <1>8, <1>9

(* The loop over the cells.                                                *)
LEMMA RanksPlacedIs ==
  ASSUME NEW table, IsUnmarked(table, TablePositions), NEW cells, IsSection(cells)
  PROVE  LET result == RanksPlaced(table, cells)
         IN  /\ result \in Placings
             /\ ~result.direct => RanksIn(result.placed) = Contents(cells)
<1> DEFINE n == UNPACKED_SIZE
           Loops(u) == u = [i \in 0..n |-> IF i = 0 THEN NonePlaced
                                           ELSE PlacedNext(table, u[i - 1], cells[i])]
           loop == CHOOSE u : Loops(u)
<1>1. RanksPlaced(table, cells) = loop[n]
  BY DEF RanksPlaced, NonePlaced, PlacedNext
<1>2. n \in Nat /\ \A i \in 1..n : cells[i] \in Atoms
  BY Sizes DEF IsSection, Cells
<1>3. NonePlaced \in Placings /\ RanksIn(NonePlaced.placed) = {}
  BY NonePlacedIs
<1>4. Contents(cells) = {cells[i] : i \in 1..n}
  BY DEF Contents, Cells
<1> HIDE DEF n, loop
<1>5. \E u : Loops(u)
  <2> DEFINE step == [i \in 1..n |-> [s \in Placings |-> PlacedNext(table, s, cells[i])]]
  <2>1. \A i \in 1..n : \A s \in Placings : PlacedNext(table, s, cells[i]) \in Placings
    BY <1>2, PlacedNextIs
  <2>2. step \in StepsUpTo(n, Placings)
    BY <2>1 DEF StepsUpTo
  <2>3. \A i \in 1..n : \A s \in Placings : step[i][s] = PlacedNext(table, s, cells[i])
    OBVIOUS
  <2> HIDE DEF step
  <2>4. PICK u : IsRecursion(u, n, Placings, NonePlaced, step)
    BY <1>2, <1>3, <2>2, RecursionExists
  <2>5. u \in [0..n -> Placings] /\ u[0] = NonePlaced /\ \A i \in 1..n : u[i] = step[i][u[i - 1]]
    BY <2>4 DEF IsRecursion
  <2>6. \A i \in 0..n : i = 0 \/ (i # 0 /\ i \in 1..n)
    BY <1>2
  <2>7. \A i \in 1..n : i - 1 \in 0..n
    BY <1>2
  <2>8. \A i \in 1..n : u[i] = PlacedNext(table, u[i - 1], cells[i])
    BY <2>3, <2>5, <2>7
  <2>9. \A i \in 0..n : u[i] = IF i = 0 THEN NonePlaced ELSE PlacedNext(table, u[i - 1], cells[i])
    BY <2>5, <2>6, <2>8
  <2>10. u = [i \in 0..n |-> u[i]]
    BY <2>5
  <2>11. Loops(u)
    BY <2>9, <2>10
  <2> QED BY <2>11
<1>6. Loops(loop)
  <2> HIDE DEF Loops
  <2> QED BY <1>5 DEF loop
<1>7. loop[0] = NonePlaced /\ \A i \in 1..n : loop[i] = PlacedNext(table, loop[i - 1], cells[i])
  <2>1. \A i \in 1..n : i \in 0..n /\ i # 0
    BY <1>2
  <2>2. 0 \in 0..n
    BY <1>2
  <2> QED BY <1>6, <2>1, <2>2
<1> DEFINE Upto(i) == {cells[j] : j \in 1..i}
           Good == {i \in 0..n : /\ loop[i] \in Placings
                                 /\ ~loop[i].direct => RanksIn(loop[i].placed) = Upto(i)}
<1> HIDE DEF Loops
<1>8. 0 \in Good
  <2>1. Upto(0) = {} /\ 0 \in 0..n
    BY <1>2
  <2> QED BY <1>3, <1>7, <2>1
<1>9. \A i \in 0..(n - 1) : i \in Good => i + 1 \in Good
  <2> SUFFICES ASSUME NEW i \in 0..(n - 1), i \in Good PROVE i + 1 \in Good
    OBVIOUS
  <2> DEFINE next == loop[i + 1]
  <2>1. i + 1 \in 1..n /\ i + 1 \in 0..n /\ (i + 1) - 1 = i /\ i \in Nat
    BY <1>2
  <2>2. next = PlacedNext(table, loop[i], cells[i + 1])
    BY <1>7, <2>1
  <2>3. cells[i + 1] \in Atoms
    BY <1>2, <2>1
  <2>4. /\ next \in Placings
        /\ ~next.direct => /\ ~loop[i].direct
                           /\ RanksIn(next.placed) = RanksIn(loop[i].placed) \cup {cells[i + 1]}
    <3> DEFINE s == loop[i]
               rank == cells[i + 1]
    <3>1. s \in Placings /\ rank \in Atoms /\ next = PlacedNext(table, s, rank)
      BY <2>2, <2>3
    <3> HIDE DEF s, rank, next
    <3>2. /\ next \in Placings
          /\ ~next.direct => /\ ~s.direct
                             /\ RanksIn(next.placed) = RanksIn(s.placed) \cup {rank}
      BY <3>1, PlacedNextIs
    <3> QED BY <3>2 DEF s, rank
  <2>5. Upto(i + 1) = Upto(i) \cup {cells[i + 1]}
    <3>1. \A j : j \in 1..(i + 1) <=> j \in 1..i \/ j = i + 1
      BY <2>1
    <3> QED BY <3>1
  <2> HIDE DEF next, Upto
  <2>6. ~next.direct => RanksIn(next.placed) = Upto(i + 1)
    BY <2>4, <2>5
  <2> QED BY <2>1, <2>4, <2>6 DEF next
<1>10. n \in Good
  <2> HIDE DEF Good
  <2>1. 0..n \subseteq Good
    BY <1>2, <1>8, <1>9, AllUpTo
  <2> QED BY <1>2, <2>1
<1> QED BY <1>1, <1>4, <1>10

(* The keys and values of the positions.                                   *)
HasRanks(table) == {"key", "val"} \subseteq DOMAIN table

(* The table of the next section of ranks bears no mark.                   *)
LEMMA NextRankTableIsNew ==
  ASSUME NEW table, IsTable(table, TablePositions), HasRanks(table)
  PROVE  IsUnmarked(NextRankTable(table), TablePositions) /\ HasRanks(NextRankTable(table))
<1> DEFINE next == NextGeneration(table)
           cleared == NextRankTable(table)
<1>1. IsTable(next, TablePositions) /\ IsUnmarked(next, TablePositions)
  BY NextGenerationIsNew
<1>2. DOMAIN next = DOMAIN table
  BY DEF NextGeneration, IsTable
<1> HIDE DEF next
<1>3. /\ DOMAIN cleared = DOMAIN next
      /\ cleared.seen_gen = next.seen_gen
      /\ cleared.seen = next.seen
  BY <1>1 DEF NextRankTable, IsTable, next
<1> HIDE DEF cleared
<1>4. IsUnmarked(cleared, TablePositions) /\ HasRanks(cleared)
  BY <1>1, <1>2, <1>3 DEF IsUnmarked, HasRanks
<1> QED BY <1>4 DEF cleared

(* The table that the loop leaves.                                         *)
LEMMA RankTableIs ==
  ASSUME NEW table, IsTable(table, TablePositions), HasRanks(table),
         IsUnmarked(table, TablePositions),
         NEW placed, DOMAIN placed \subseteq TablePositions, NEW indexed
  PROVE  LET filled == RankTable(table, placed, indexed)
         IN  /\ HasRanks(filled)
             /\ IsFreeBeside(filled, placed)
             /\ \A at \in DOMAIN placed : filled.val[at] = IndexIn(indexed, placed[at]) - 1
<1> DEFINE filled == RankTable(table, placed, indexed)
<1>1. /\ DOMAIN table.seen = TablePositions
      /\ {"seen", "seen_gen", "key", "val"} \subseteq DOMAIN table
  BY DEF IsTable, HasRanks
<1>2. /\ DOMAIN filled = DOMAIN table
      /\ filled.seen_gen = table.seen_gen
      /\ filled.seen = [at \in TablePositions |->
                          IF at \in DOMAIN placed THEN table.seen_gen ELSE table.seen[at]]
  BY <1>1 DEF RankTable
<1>3. filled.val = [at \in TablePositions |->
                      IF at \in DOMAIN placed THEN IndexIn(indexed, placed[at]) - 1
                      ELSE table.val[at]]
  BY <1>1 DEF RankTable
<1> HIDE DEF filled
<1>4. HasRanks(filled) /\ IsFreeBeside(filled, placed)
  BY <1>2 DEF HasRanks, IsFreeBeside, IsUnmarked
<1>5. \A at \in DOMAIN placed : filled.val[at] = IndexIn(indexed, placed[at]) - 1
  BY <1>3
<1> QED BY <1>4, <1>5 DEF filled

(* pack_modeled_section packs the atoms of the ranks, wherever the         *)
(* searches of earlier and of other ranks end.                             *)
LEMMA PackModeledPacks ==
  ASSUME StampsBehind, HasRanks(ranks), NEW cells, IsSection(cells), PackModeled(cells)
  PROVE  /\ HasRanks(ranks')
         /\ IsSection(grid')
         /\ IsPacked(packed') /\ Unpack(packed') = grid'
<1> DEFINE table == NextRankTable(ranks)
           result == RanksPlaced(table, cells)
           atoms == [i \in Cells |-> Remap[cells[i]]]
<1>1. /\ IsTable(table, TablePositions) /\ HasRanks(table)
      /\ IsUnmarked(table, TablePositions)
  BY NextRankTableIsTable, NextRankTableIsNew DEF StampsBehind
<1>2. grid' = atoms /\ IsSection(atoms)
  <2>1. Remap \in [Atoms -> Atoms]
    BY ParametersOK
  <2>2. \A i \in Cells : Remap[cells[i]] \in Atoms
    BY <2>1 DEF IsSection
  <2> QED BY <2>2 DEF PackModeled, IsSection
<1>3. result.direct =>
        /\ ranks' = RankTable(table, result.placed, result.first_seen)
        /\ packed' = Direct(PackBits(atoms, 2 * BYTE_BITS))
  BY DEF PackModeled
<1>4. ~result.direct =>
        \E sorted \in SortedByCount(result.first_seen, cells) :
          LET filled == RankTable(table, result.placed, sorted)
              val(rank) == filled.val[RankSlot(filled, result.placed, rank)]
          IN  /\ ranks' = filled
              /\ packed' =
                   IF Len(sorted) = 1 THEN Single(Remap[sorted[1]])
                   ELSE Paletted([k \in DOMAIN sorted |-> Remap[sorted[k]]], BitsPerEntry(Len(sorted)),
                          PackBits([i \in Cells |-> val(cells[i])], BitsPerEntry(Len(sorted))))
  BY DEF PackModeled
<1> HIDE DEF table
<1>5. /\ result \in Placings
      /\ ~result.direct => RanksIn(result.placed) = Contents(cells)
  BY <1>1, RanksPlacedIs
<1> HIDE DEF result
<1> DEFINE placed == result.placed
           first_seen == result.first_seen
           n == Len(first_seen)
<1>6. ArePlaced(placed, first_seen) /\ DOMAIN placed \subseteq TablePositions
  BY <1>5 DEF Placings, ArePlaced
<1>7. CASE result.direct
  <2>1. HasRanks(ranks')
    BY <1>1, <1>3, <1>6, <1>7, RankTableIs
  <2> HIDE DEF atoms
  <2>2. IsPacked(packed') /\ Unpack(packed') = atoms
    BY <1>2, <1>3, <1>7, DirectPacks
  <2> QED BY <1>2, <2>1, <2>2
<1>8. CASE ~result.direct
  <2>1. PICK sorted \in SortedByCount(first_seen, cells) :
          LET filled == RankTable(table, placed, sorted)
              val(rank) == filled.val[RankSlot(filled, placed, rank)]
          IN  /\ ranks' = filled
              /\ packed' =
                   IF Len(sorted) = 1 THEN Single(Remap[sorted[1]])
                   ELSE Paletted([k \in DOMAIN sorted |-> Remap[sorted[k]]], BitsPerEntry(Len(sorted)),
                          PackBits([i \in Cells |-> val(cells[i])], BitsPerEntry(Len(sorted))))
    BY <1>4, <1>8
  <2> DEFINE filled == RankTable(table, placed, sorted)
             remapped == [k \in DOMAIN sorted |-> Remap[sorted[k]]]
  <2>2. /\ HasRanks(ranks')
        /\ IsFreeBeside(filled, placed)
        /\ \A at \in DOMAIN placed : filled.val[at] = IndexIn(sorted, placed[at]) - 1
    <3>1. /\ HasRanks(filled)
          /\ IsFreeBeside(filled, placed)
          /\ \A at \in DOMAIN placed : filled.val[at] = IndexIn(sorted, placed[at]) - 1
      <4> HIDE DEF placed
      <4> QED BY <1>1, <1>6, RankTableIs
    <3> QED BY <2>1, <3>1
  <2>3. /\ packed' = IF Len(sorted) = 1 THEN Single(Remap[sorted[1]])
                     ELSE Paletted(remapped, BitsPerEntry(Len(sorted)),
                            PackBits([i \in Cells |-> filled.val[RankSlot(filled, placed, cells[i])]],
                                     BitsPerEntry(Len(sorted))))
    BY <2>1
  <2> HIDE DEF filled, placed, first_seen
  <2>4. RanksIn(placed) = Contents(cells)
    BY <1>5, <1>8 DEF placed
  <2>5. IsPalette(first_seen, n, Contents(cells)) /\ n \in 1..MAX_INDIRECT_PALETTE_SIZE
    <3>1. IsPalette(first_seen, n, Contents(cells)) /\ n <= MAX_INDIRECT_PALETTE_SIZE
      BY <1>6, <2>4 DEF ArePlaced
    <3> HIDE DEF n
    <3>2. n \in Nat /\ \E k \in 1..n : first_seen[k] = cells[1]
      BY <3>1, CellsAre DEF IsPalette, Contents
    <3> QED BY <3>1, <3>2, SizeLimit
  <2> HIDE DEF n
  <2>6. IsPalette(sorted, n, Contents(cells))
    BY <2>5, SortedIsPalette
  <2>7. Len(sorted) = n /\ DOMAIN sorted = 1..n
    BY <2>6, PaletteIs
  <2>8. \A i \in Cells : filled.val[RankSlot(filled, placed, cells[i])] = IndexIn(sorted, cells[i]) - 1
    <3>1. TAKE i \in Cells
    <3> DEFINE at == RankSlot(filled, placed, cells[i])
    <3>2. cells[i] \in Atoms /\ cells[i] \in RanksIn(placed)
      BY <2>4 DEF IsSection, Contents
    <3>3. /\ at \in DOMAIN placed => placed[at] = cells[i]
          /\ at \notin DOMAIN placed => \A p \in DOMAIN placed : placed[p] # cells[i]
      BY <1>6, <2>2, <3>2, SomeAreFree, RankSlotIs
    <3> HIDE DEF at
    <3>4. at \in DOMAIN placed /\ placed[at] = cells[i]
      BY <3>2, <3>3 DEF RanksIn
    <3>5. filled.val[at] = IndexIn(sorted, cells[i]) - 1
      BY <2>2, <3>4
    <3> QED BY <3>5 DEF at
  <2>9. \A k \in 1..n : sorted[k] \in Atoms /\ remapped[k] = Remap[sorted[k]] /\ remapped[k] \in Atoms
    <3>1. \A k \in 1..n : sorted[k] \in Atoms
      BY <2>6, ContentsAreAtoms DEF IsPalette
    <3>2. Remap \in [Atoms -> Atoms]
      BY ParametersOK
    <3> QED BY <2>7, <3>1, <3>2
  <2>10. CASE n = 1
    <3>1. sorted[1] \in Atoms /\ [i \in Cells |-> sorted[1]] = cells
      BY <2>6, <2>10, OneAtom
    <3>2. packed' = Single(Remap[sorted[1]])
      BY <2>3, <2>7, <2>10
    <3>3. Remap[sorted[1]] \in Atoms
      BY <3>1, ParametersOK
    <3>4. IsPacked(packed') /\ Unpack(packed') = [i \in Cells |-> Remap[sorted[1]]]
      BY <3>2, <3>3, SingleIs
    <3>5. [i \in Cells |-> Remap[sorted[1]]] = atoms
      <4>1. \A i \in Cells : cells[i] = sorted[1]
        BY <3>1
      <4> QED BY <4>1
    <3> QED BY <1>2, <2>2, <3>4, <3>5
  <2>11. CASE n # 1
    <3> DEFINE bytes == PackBits(PlacesIn(sorted, cells), BitsPerEntry(n))
    <3>1. [i \in Cells |-> filled.val[RankSlot(filled, placed, cells[i])]] = PlacesIn(sorted, cells)
      BY <2>8 DEF PlacesIn
    <3>2. packed' = Paletted(remapped, BitsPerEntry(n), bytes)
      BY <2>3, <2>7, <2>11, <3>1
    <3>3. AreBytesOf(bytes, PlacesIn(sorted, cells), BitsPerEntry(n)) /\ AreAtoms(remapped, n)
      BY <2>7, <2>9 DEF AreBytesOf, AreAtoms
    <3> HIDE DEF bytes, remapped
    <3>4. /\ IsPacked(Paletted(remapped, BitsPerEntry(n), bytes))
          /\ Unpack(Paletted(remapped, BitsPerEntry(n), bytes))
               = [i \in Cells |-> remapped[IndexIn(sorted, cells[i])]]
      BY <2>5, <2>6, <3>3, PackedByPlaces
    <3>5. \A i \in Cells : remapped[IndexIn(sorted, cells[i])] = Remap[cells[i]]
      <4>1. \A i \in Cells : cells[i] \in Contents(cells)
        BY DEF Contents
      <4>2. \A i \in Cells : IndexIn(sorted, cells[i]) \in 1..n /\ sorted[IndexIn(sorted, cells[i])] = cells[i]
        BY <2>6, <4>1, PaletteIs
      <4> QED BY <2>9, <4>2
    <3>6. [i \in Cells |-> remapped[IndexIn(sorted, cells[i])]] = atoms
      BY <3>5
    <3> QED BY <1>2, <2>2, <3>2, <3>4, <3>6
  <2> QED BY <2>10, <2>11
<1> QED BY <1>7, <1>8

-----------------------------------------------------------------------------
(* Exported sections                                                       *)

(* The width of an exported index: at least one bit, and wide enough.      *)
LEMMA BitsPerIndexIs ==
  ASSUME NEW n \in 2..ATOM_COUNT, NEW min_bits \in MinBits
  PROVE  BitsPerIndex(n, min_bits) \in 1..WORD_BITS /\ n <= Pow(BitsPerIndex(n, min_bits))
<1> DEFINE Enough == {w \in 0..WORD_BITS : n <= Pow(w)}
           width == CHOOSE w \in 0..WORD_BITS : n <= Pow(w) /\ \A v \in 0..(w - 1) : n > Pow(v)
<1>1. BYTE_BITS \in 1..WORD_BITS /\ 2 * BYTE_BITS \in Nat /\ 2 * BYTE_BITS <= WORD_BITS /\ WORD_BITS \in Nat
  <2>1. WORD_BYTES \in Nat \ {0} /\ WORD_BYTES % 2 = 0
    BY ParametersOK
  <2>2. WORD_BYTES >= 2
    <3>1. WORD_BYTES # 1
      BY <2>1
    <3> QED BY <2>1, <3>1
  <2>3. BYTE_BITS \in Nat \ {0} /\ WORD_BITS = BYTE_BITS * WORD_BYTES /\ WORD_BITS \in Nat
    BY Sizes
  <2>4. \A a, b \in Nat : b >= 2 => 2 * a <= a * b
    BY SMTT(30)
  <2>5. 2 * BYTE_BITS <= WORD_BITS
    BY <2>1, <2>2, <2>3, <2>4
  <2> QED BY <2>3, <2>5
<1>2. n \in Nat /\ n > 1 /\ n <= Pow(WORD_BITS)
  <2>1. ATOM_COUNT = Pow(2 * BYTE_BITS)
    BY DEF ATOM_COUNT, Pow
  <2>2. Pow(2 * BYTE_BITS) <= Pow(WORD_BITS) /\ Pow(2 * BYTE_BITS) \in Nat /\ Pow(WORD_BITS) \in Nat
    <3> DEFINE two == 2 * BYTE_BITS
    <3>1. two \in Nat /\ two <= WORD_BITS
      BY <1>1
    <3> HIDE DEF two
    <3>2. Pow(two) <= Pow(WORD_BITS) /\ Pow(two) \in Nat /\ Pow(WORD_BITS) \in Nat
      BY <1>1, <3>1, PowGrows, PowType
    <3> QED BY <3>2 DEF two
  <2>3. n \in 2..Pow(2 * BYTE_BITS)
    BY <2>1
  <2> QED BY <2>2, <2>3
<1>3. \A w \in Nat : Pow(w) \in Nat
  BY PowType
<1>4. Enough \in SUBSET Nat /\ Enough # {}
  <2>1. WORD_BITS \in Enough
    BY <1>1, <1>2
  <2>2. 0..WORD_BITS \subseteq Nat
    BY <1>1
  <2> QED BY <2>1, <2>2
<1>5. PICK least \in Enough : \A w \in Enough : least <= w
  BY <1>4, LeastExists
<1>6. /\ least \in 0..WORD_BITS /\ n <= Pow(least)
      /\ \A v \in 0..(least - 1) : n > Pow(v)
  <2>1. \A v \in 0..(least - 1) : v \in 0..WORD_BITS /\ v \in Nat /\ ~(least <= v)
    BY <1>1, <1>5
  <2>2. \A v \in 0..(least - 1) : ~(n <= Pow(v))
    BY <1>5, <2>1
  <2>3. \A v \in 0..(least - 1) : n > Pow(v)
    BY <1>2, <1>3, <2>1, <2>2
  <2> QED BY <1>5, <2>3
<1> HIDE DEF Enough
<1>7. /\ width \in 0..WORD_BITS /\ n <= Pow(width)
  BY <1>6
<1>8. BitsPerIndex(n, min_bits) = IF width < min_bits THEN min_bits ELSE width
  BY DEF BitsPerIndex, Pow
<1> HIDE DEF width
<1>9. width # 0
  <2>1. Pow(0) = 1
    BY PowOfZero
  <2> QED BY <1>2, <1>7, <2>1
<1>10. CASE width < min_bits
  <2>1. width \in Nat /\ min_bits \in 1..WORD_BITS /\ min_bits \in Nat
    <3>1. min_bits \in 0..BYTE_BITS
      BY ParametersOK
    <3> QED BY <1>1, <1>7, <1>9, <1>10, <3>1
  <2>2. Pow(width) <= Pow(min_bits) /\ Pow(width) \in Nat /\ Pow(min_bits) \in Nat
    BY <1>10, <2>1, PowGrows, PowType
  <2> QED BY <1>2, <1>7, <1>8, <1>10, <2>1, <2>2
<1>11. CASE ~(width < min_bits)
  BY ONLY <1>1, <1>7, <1>8, <1>9, <1>11
<1> QED BY <1>10, <1>11

(* The word that has a cell's index. *)
LEMMA WordOfCell ==
  ASSUME NEW e \in Nat \ {0}, NEW i \in Cells
  PROVE  /\ (i - 1) \div e + 1 \in 1..DivCeil(UNPACKED_SIZE, e)
         /\ ((i - 1) \div e + 1) - 1 = (i - 1) \div e
<1> DEFINE a == i - 1
           q == a \div e
           r == a % e
           b == UNPACKED_SIZE + e - 1
           p == b \div e
           s == b % e
<1>1. a \in Nat /\ b \in Nat /\ a + e <= b
  BY Sizes DEF Cells
<1>2. DivCeil(UNPACKED_SIZE, e) = p
  BY DEF DivCeil
<1> HIDE DEF a, b
<1>3. /\ q \in Nat /\ r \in 0..(e - 1) /\ a = e * q + r
      /\ p \in Nat /\ s \in 0..(e - 1) /\ b = e * p + s
  BY <1>1, Division
<1> HIDE DEF q, r, p, s
<1>4. q + 1 <= p
  <2>1. SUFFICES ASSUME p <= q PROVE FALSE
    BY <1>3
  <2>2. e * p <= e * q
    BY <1>3, <2>1, SMTT(30)
  <2> DEFINE x == e * p
             y == e * q
  <2>3. x \in Nat /\ y \in Nat
    BY <1>3, ProductType
  <2> HIDE DEF x, y
  <2>4. x <= y /\ a = y + r /\ b = x + s
    BY <1>3, <2>2 DEF x, y
  <2> QED BY <1>1, <1>3, <2>3, <2>4
<1>5. q + 1 \in 1..p /\ (q + 1) - 1 = q
  BY <1>3, <1>4
<1> QED BY <1>2, <1>5 DEF q, a

(* A reader of chunks finds the cells of a section that is exported.       *)
LEMMA ExportedIsTheSection ==
  ASSUME NEW cells, IsSection(cells), NEW min_bits \in MinBits
  PROVE  UnpackSection(PackSection(cells, min_bits)) = cells
<1> DEFINE n == Cardinality(FirstCells(cells))
           atoms == [k \in 1..n |-> cells[Nth(FirstCells(cells), k)]]
           bits == BitsPerIndex(n, min_bits)
           e == WORD_BITS \div bits
           indices == [i \in Cells |-> IndexIn(atoms, cells[i]) - 1]
           words == [k \in 1..DivCeil(UNPACKED_SIZE, e) |-> Joined(indices, (k - 1) * e + 1, e, bits)]
<1>1. n \in Nat \ {0} /\ IsPalette(atoms, n, Contents(cells))
  BY FirstCellsList
<1>2. Len(atoms) = n
  BY <1>1, PaletteIs
<1>3. PackSection(cells, min_bits)
        = IF n = 1 THEN [palette |-> atoms, bits |-> 0, data |-> <<>>]
          ELSE [palette |-> atoms, bits |-> bits, data |-> words]
  <2>1. PackSection(cells, min_bits)
          = LET width == BitsPerIndex(Len(atoms), min_bits)
                entries == WORD_BITS \div width
            IN  IF Len(atoms) = 1 THEN [palette |-> atoms, bits |-> 0, data |-> <<>>]
                ELSE [palette |-> atoms, bits |-> width,
                      data |-> [k \in 1..DivCeil(UNPACKED_SIZE, entries) |->
                                  Joined(indices, (k - 1) * entries + 1, entries, width)]]
    BY DEF PackSection, Nth
  <2> HIDE DEF atoms, n, indices
  <2> QED BY <1>2, <2>1
<1> DEFINE chunk == PackSection(cells, min_bits)
<1> HIDE DEF chunk, n, atoms
<1>4. CASE n = 1
  <2>1. atoms[1] \in Atoms /\ [i \in Cells |-> atoms[1]] = cells
    BY <1>1, <1>4, OneAtom
  <2>2. chunk.palette = atoms /\ chunk.data = <<>>
    BY <1>3, <1>4 DEF chunk
  <2>3. UnpackSection(chunk) = [i \in Cells |-> chunk.palette[1]]
    BY <2>2 DEF UnpackSection
  <2> QED BY <2>1, <2>2, <2>3 DEF chunk
<1>5. CASE n # 1
  <2>1. n \in 2..ATOM_COUNT
    <3>1. IsFiniteSet(Atoms) /\ Cardinality(Atoms) = ATOM_COUNT /\ ATOM_COUNT \in Nat
      <4>1. ATOM_COUNT \in Nat \ {0}
        <5>1. 2 * BYTE_BITS \in Nat
          BY Sizes
        <5> DEFINE two == 2 * BYTE_BITS
        <5> HIDE DEF two
        <5>2. Pow(two) \in Nat \ {0}
          BY <5>1, PowType DEF two
        <5> QED BY <5>2 DEF ATOM_COUNT, Pow, two
      <4> DEFINE last == ATOM_COUNT - 1
      <4>2. last \in Nat /\ last - 0 + 1 = ATOM_COUNT /\ ~(0 > last) /\ 0 \in Int /\ last \in Int
        BY <4>1
      <4> HIDE DEF last
      <4>3. IsFiniteSet(0..last) /\ Cardinality(0..last) = IF 0 > last THEN 0 ELSE last - 0 + 1
        BY <4>2, FS_Interval
      <4>4. Cardinality(0..last) = ATOM_COUNT
        BY <4>2, <4>3
      <4> QED BY <4>1, <4>3, <4>4 DEF Atoms, last
    <3>2. Cardinality(Contents(cells)) = n
      BY <1>1, PaletteSize
    <3>3. Cardinality(Contents(cells)) <= Cardinality(Atoms)
      BY <3>1, ContentsAreAtoms, FS_Subset
    <3> QED BY <1>1, <1>5, <3>1, <3>2, <3>3
  <2>2. bits \in 1..WORD_BITS /\ n <= Pow(bits)
    BY <2>1, BitsPerIndexIs
  <2> HIDE DEF bits
  <2>3. e \in Nat \ {0} /\ bits \in Nat
    <3>1. WORD_BITS \in Nat /\ bits \in Nat \ {0} /\ bits <= WORD_BITS
      BY <2>2, Sizes
    <3>2. e \in Nat /\ WORD_BITS % bits \in 0..(bits - 1) /\ WORD_BITS = bits * e + (WORD_BITS % bits)
      BY <3>1, Division
    <3>3. e # 0
      <4>1. SUFFICES ASSUME e = 0 PROVE FALSE
        OBVIOUS
      <4> DEFINE r == WORD_BITS % bits
      <4> HIDE DEF r, e
      <4>2. r \in 0..(bits - 1) /\ WORD_BITS = bits * e + r
        BY <3>2 DEF r, e
      <4>3. WORD_BITS = bits * 0 + r
        BY <4>1, <4>2, Zenon
      <4> QED BY <3>1, <4>2, <4>3
    <3> QED BY <3>1, <3>2, <3>3
  <2> HIDE DEF e
  <2>4. \A i \in Cells : /\ IndexIn(atoms, cells[i]) \in 1..n
                         /\ atoms[IndexIn(atoms, cells[i])] = cells[i]
    <3>1. \A i \in Cells : cells[i] \in Contents(cells)
      BY DEF Contents
    <3> QED BY <1>1, <3>1, PaletteIs
  <2>5. \A i \in Cells : indices[i] \in Digits(bits) /\ atoms[indices[i] + 1] = cells[i]
    <3>1. TAKE i \in Cells
    <3> DEFINE k == IndexIn(atoms, cells[i])
    <3>2. indices[i] = k - 1 /\ k \in 1..n /\ atoms[k] = cells[i]
      BY <2>4
    <3>3. Pow(bits) \in Nat
      BY <2>3, PowType
    <3> HIDE DEF k, indices
    <3>4. indices[i] \in 0..(Pow(bits) - 1) /\ indices[i] + 1 = k
      BY <1>1, <2>2, <3>2, <3>3
    <3> QED BY <3>2, <3>4 DEF Digits
  <2>6. indices \in [Cells -> Digits(bits)]
    BY <2>5
  <2> HIDE DEF indices
  <2>7. chunk.palette = atoms /\ chunk.bits = bits /\ chunk.data = words
    BY <1>3, <1>5 DEF chunk
  <2>8. words # <<>>
    <3>1. \E k : k \in DOMAIN words
      <4>1. (1 - 1) \div e + 1 \in 1..DivCeil(UNPACKED_SIZE, e)
        BY <2>3, CellsAre, WordOfCell
      <4> QED BY <4>1
    <3> HIDE DEF words
    <3> QED BY <3>1
  <2>9. ASSUME NEW i \in Cells
        PROVE  Field(words[(i - 1) \div e + 1], (i - 1) % e, bits) = indices[i]
    <3>1. /\ (i - 1) \div e + 1 \in 1..DivCeil(UNPACKED_SIZE, e)
          /\ ((i - 1) \div e + 1) - 1 = (i - 1) \div e
      BY <2>3, WordOfCell
    <3>2. words[(i - 1) \div e + 1] = Joined(indices, ((i - 1) \div e) * e + 1, e, bits)
      BY <3>1
    <3> HIDE DEF words
    <3>3. Field(Joined(indices, (((i - 1) \div e) * e) + 1, e, bits), (i - 1) % e, bits) = indices[i]
      BY <2>3, <2>6, FieldOfCell
    <3> QED BY <3>2, <3>3
  <2> HIDE DEF words
  <2>10. UnpackSection(chunk)
           = [i \in Cells |-> atoms[Field(words[(i - 1) \div e + 1], (i - 1) % e, bits) + 1]]
    BY <2>7, <2>8 DEF UnpackSection, e
  <2>11. UnpackSection(chunk) = [i \in Cells |-> atoms[indices[i] + 1]]
    BY <2>9, <2>10
  <2>12. [i \in Cells |-> atoms[indices[i] + 1]] = cells
    BY <2>5 DEF IsSection
  <2> QED BY <2>11, <2>12 DEF chunk
<1> QED BY <1>4, <1>5

-----------------------------------------------------------------------------
(* The section at hand                                                     *)

(* What a packed section unpacks to is a section.                          *)
LEMMA UnpackIsSection ==
  ASSUME NEW data, IsPacked(data)
  PROVE  IsSection(Unpack(data))
<1>1. ASSUME NEW atom \in Atoms, data = Single(atom)
      PROVE  IsSection(Unpack(data))
  BY <1>1, SingleIs DEF IsSection
<1>2. CASE data.kind = "paletted" /\ data.palette = <<>>
  <2>1. data.bytes \in ByteArrays(2 * BYTE_BITS) /\ Unpack(data) = UnpackBits(data.bytes, 2 * BYTE_BITS)
    BY <1>2, PackedParts
  <2>2. Atoms = Digits(2 * BYTE_BITS) /\ 2 * BYTE_BITS \in Widths
    BY AtomsAreDigits
  <2> DEFINE bits == 2 * BYTE_BITS
  <2> HIDE DEF bits
  <2>3. UnpackBits(data.bytes, bits) \in [Cells -> Digits(bits)]
    BY <2>1, <2>2, UnpackBitsType DEF bits
  <2> QED BY <2>1, <2>2, <2>3 DEF IsSection, bits
<1>3. CASE data.kind = "paletted" /\ data.palette # <<>>
  <2> DEFINE values == UnpackBits(data.bytes, data.bits)
  <2>1. /\ data.bits \in Widths
        /\ data.bytes \in ByteArrays(data.bits)
        /\ data.palette \in Seq(Atoms)
        /\ \A i \in Cells : values[i] < Len(data.palette)
        /\ Unpack(data) = [i \in Cells |-> data.palette[values[i] + 1]]
    BY <1>3, PackedParts
  <2>2. values \in [Cells -> Digits(data.bits)] /\ Digits(data.bits) \subseteq Nat
    <3>1. Digits(data.bits) \subseteq Nat
      BY <2>1, WidthsDivide, PowType DEF Digits
    <3> QED BY <2>1, <3>1, UnpackBitsType
  <2> HIDE DEF values
  <2>3. \A i \in Cells : values[i] + 1 \in 1..Len(data.palette)
    <3>1. TAKE i \in Cells
    <3>2. values[i] \in Nat /\ values[i] < Len(data.palette) /\ Len(data.palette) \in Nat
      BY <2>1, <2>2
    <3> QED BY <3>2
  <2>4. \A i \in Cells : data.palette[values[i] + 1] \in Atoms
    BY <2>1, <2>3
  <2> QED BY <2>1, <2>4 DEF IsSection
<1>4. (\E atom \in Atoms : data = Single(atom)) \/ data.kind = "paletted"
  BY DEF IsPacked
<1> QED BY <1>1, <1>2, <1>3, <1>4

(* Reverse deltas are sections, too.                                       *)
LEMMA PackableAreSections == \A cells \in Packable : IsSection(cells)
<1>1. Grids \subseteq [Cells -> Atoms] /\ STATE_UNCHANGED \in Atoms
  BY ParametersOK
<1>2. ASSUME NEW g \in Grids, NEW h \in Grids
      PROVE  IsSection(ReverseDelta(g, h))
  BY <1>1 DEF IsSection, ReverseDelta
<1> QED BY <1>1, <1>2 DEF Packable, IsSection

(* The inductive invariant.                                                *)
SectionInv ==
  /\ StampsBehind
  /\ HasIndices(scratch) /\ HasIndices(pack) /\ HasRanks(ranks)
  /\ IsSection(grid)
  /\ IsPacked(packed)
  /\ Unpack(packed) = grid

LEMMA SectionInvInit == Init => SectionInv
<1> SUFFICES ASSUME Init PROVE SectionInv
  OBVIOUS
<1>1. 0 \in Atoms
  <2>1. 2 * BYTE_BITS \in Nat
    BY Sizes
  <2> DEFINE two == 2 * BYTE_BITS
  <2> HIDE DEF two
  <2>2. Pow(two) \in Nat \ {0}
    BY <2>1, PowType DEF two
  <2>3. ATOM_COUNT = Pow(two)
    BY DEF ATOM_COUNT, Pow, two
  <2> QED BY <2>2, <2>3 DEF Atoms
<1>2. IsPacked(packed) /\ Unpack(packed) = grid
  BY <1>1, SingleIs DEF Init
<1>3. IsSection(grid)
  BY <1>1 DEF Init, IsSection
<1>4. HasIndices(scratch) /\ HasIndices(pack) /\ HasRanks(ranks)
  BY DEF Init, NewTable, HasIndices, HasRanks
<1> QED BY <1>2, <1>3, <1>4, StampsBehindInit DEF SectionInv

LEMMA SectionInvNext == SectionInv /\ [Next]_vars => SectionInv'
<1> SUFFICES ASSUME SectionInv, [Next]_vars PROVE SectionInv'
  OBVIOUS
<1>0. StampsBehind'
  BY StampsBehindNext DEF SectionInv
<1>1. ASSUME NEW cells \in Packable, PackWith(cells) PROVE SectionInv'
  <2>1. IsSection(cells)
    BY PackableAreSections
  <2>2. HasIndices(scratch') /\ IsPacked(packed') /\ Unpack(packed') = cells
    BY <1>1, <2>1, PackWithPacks DEF SectionInv
  <2>3. grid' = cells /\ UNCHANGED <<pack, ranks>>
    BY <1>1 DEF PackWith
  <2> QED BY <1>0, <2>1, <2>2, <2>3 DEF SectionInv
<1>2. ASSUME NEW data \in Foreign, Load(data) PROVE SectionInv'
  <2>1. IsPacked(data) /\ IsSection(Unpack(data))
    BY ForeignOK, UnpackIsSection
  <2>2. packed' = data /\ grid' = Unpack(data) /\ UNCHANGED <<scratch, pack, ranks>>
    BY <1>2 DEF Load
  <2> QED BY <1>0, <2>1, <2>2 DEF SectionInv
<1>3. ASSUME Repack PROVE SectionInv'
  <2>1. HasIndices(pack') /\ IsPacked(packed') /\ Unpack(packed') = grid
    BY <1>3, RepackPacks DEF SectionInv
  <2>2. UNCHANGED <<scratch, ranks, grid>>
    BY <1>3 DEF Repack
  <2> QED BY <1>0, <2>1, <2>2 DEF SectionInv
<1>4. ASSUME NEW cells \in Grids, PackModeled(cells) PROVE SectionInv'
  <2>1. IsSection(cells)
    BY ParametersOK DEF IsSection
  <2>2. HasRanks(ranks') /\ IsSection(grid') /\ IsPacked(packed') /\ Unpack(packed') = grid'
    BY <1>4, <2>1, PackModeledPacks DEF SectionInv
  <2>3. UNCHANGED <<scratch, pack>>
    BY <1>4 DEF PackModeled
  <2> QED BY <1>0, <2>2, <2>3 DEF SectionInv
<1>5. ASSUME NEW atoms \in Palettes, MarkPalette(atoms) PROVE SectionInv'
  <2>1. UNCHANGED <<scratch, pack, ranks, grid, packed>>
    BY <1>5 DEF MarkPalette
  <2> QED BY <1>0, <2>1 DEF SectionInv
<1>6. CASE UNCHANGED vars
  <2>1. UNCHANGED <<scratch, pack, ranks, grid, packed>>
    BY <1>6 DEF vars
  <2> QED BY <1>0, <2>1 DEF SectionInv
<1> QED BY <1>1, <1>2, <1>3, <1>4, <1>5, <1>6 DEF Next

(***************************************************************************)
(* For sections of any size and atoms of any width: whatever was packed,   *)
(* loaded and repacked before, with whatever was left in the tables, the   *)
(* packed section unpacks to its cells, and an exported one reads as them. *)
(***************************************************************************)
THEOREM PackingIsExact == Spec => []PackedIsTheSection
<1>1. SectionInv => PackedIsTheSection
  <2> SUFFICES ASSUME SectionInv PROVE PackedIsTheSection
    OBVIOUS
  <2>1. \A min_bits \in MinBits : UnpackSection(PackSection(grid, min_bits)) = grid
    BY ExportedIsTheSection DEF SectionInv
  <2> QED BY <2>1 DEF SectionInv, PackedIsTheSection
<1> QED BY <1>1, SectionInvInit, SectionInvNext, PTL DEF Spec

(***************************************************************************)
(* For any two sections: the packed delta from the newer to the older one  *)
(* restores the older one, whichever form it was packed or repacked in,    *)
(* but for cells of the older one that held the marker itself.             *)
(***************************************************************************)
THEOREM DeltasRestore == Spec => []DeltaRestores
<1>1. SectionInv => DeltaRestores
  <2> SUFFICES ASSUME SectionInv, NEW previous \in Grids, NEW new \in Grids,
                      grid = ReverseDelta(previous, new)
               PROVE  UnpackDeltaInto(packed, new) =
                        [i \in Cells |-> IF previous[i] = STATE_UNCHANGED THEN new[i] ELSE previous[i]]
    BY DEF DeltaRestores
  <2>1. new \in [Cells -> Atoms]
    BY ParametersOK
  <2>2. \A i \in Cells : Unpack(packed)[i] = IF new[i] # previous[i] THEN previous[i] ELSE STATE_UNCHANGED
    BY DEF SectionInv, ReverseDelta
  <2>3. \A i \in Cells : Unpack(packed)[i] = IF packed.kind = "single" THEN packed.atom ELSE AtomAt(packed, i)
    BY DEF Unpack
  <2>4. UnpackDeltaInto(packed, new)
          = [i \in Cells |-> IF Unpack(packed)[i] = STATE_UNCHANGED THEN new[i] ELSE Unpack(packed)[i]]
    <3>1. CASE packed.kind = "single" /\ packed.atom = STATE_UNCHANGED
      <4>1. UnpackDeltaInto(packed, new) = new
        BY <3>1 DEF UnpackDeltaInto
      <4> QED BY <2>1, <2>3, <3>1, <4>1
    <3>2. CASE packed.kind = "single" /\ packed.atom # STATE_UNCHANGED
      <4>1. UnpackDeltaInto(packed, new) = [i \in Cells |-> packed.atom]
        BY <3>2 DEF UnpackDeltaInto
      <4> QED BY <2>3, <3>2, <4>1
    <3>3. CASE packed.kind # "single"
      <4>1. UnpackDeltaInto(packed, new)
              = [i \in Cells |-> IF AtomAt(packed, i) = STATE_UNCHANGED THEN new[i] ELSE AtomAt(packed, i)]
        BY <3>3 DEF UnpackDeltaInto
      <4> QED BY <2>3, <3>3, <4>1
    <3> QED BY <3>1, <3>2, <3>3
  <2> QED BY <2>2, <2>4
<1> QED BY <1>1, SectionInvInit, SectionInvNext, PTL DEF Spec

=============================================================================
