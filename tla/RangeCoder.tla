----------------------------- MODULE RangeCoder -----------------------------
(***************************************************************************)
(* The range coder of the experimental format: models/range.rs.            *)
(*                                                                         *)
(* Encoder and decoder keep an interval of words.  A bit, expected to be 1 *)
(* with a probability, selects the part of the interval below or above a   *)
(* midpoint; leading bytes on which both ends agree leave the words.       *)
(* GridCoder takes for granted what is checked here: the decoder, asked    *)
(* with the same probabilities, returns the bits that were encoded.        *)
(***************************************************************************)
EXTENDS Integers, Sequences

CONSTANTS
  BYTE,    \* values of a byte (256)
  BYTES,   \* bytes of a word (4)
  TOP,     \* the place value of a word's first byte (2^24)
  RANGE,   \* what probabilities are fractions of (1 << RANGE_BITS)
  Probs,   \* the probabilities of a 1 that are asked with
  MaxBits  \* bound: bits encoded

ASSUME WordsOK == BYTE \in Nat /\ BYTE >= 2 /\ TOP \in Nat \ {0}

(* What a byte counts for that i bytes follow: the shifts of finish(). *)
Place[i \in 0..BYTES] == IF i = 0 THEN 1 ELSE Place[i - 1] * BYTE

ASSUME BytesOK == BYTES \in Nat \ {0} /\ TOP = Place[BYTES - 1]

(* Probabilities are u16 from tables that hold at most PROB_MAX.           *)
ASSUME ProbsOK == RANGE \in Nat /\ RANGE >= 4 /\ Probs \subseteq 0..(RANGE - 1)

WORD == TOP * BYTE

VARIABLES
  mode,     \* "encode", "open", "decode" or "done"
  low, high,
  out,      \* the bytes written
  code,     \* the word the decoder compares with the midpoint
  pos,      \* the bytes it has asked for
  asked,    \* history variable: the probabilities and bits encoded
  decided   \* the bits decoded

range_vars == <<mode, low, high, out, code, pos, asked, decided>>

-----------------------------------------------------------------------------
Clamped(prob) ==
  IF prob < 1 THEN 1 ELSE IF prob > RANGE - 2 THEN RANGE - 2 ELSE prob

MidpointMutant(prob) ==
  low + (((high - low) * Clamped(prob) + RANGE - 1) \div RANGE)

Midpoint(prob) == low + (((high - low) * Clamped(prob)) \div RANGE)

SharesTopByte == low \div TOP = high \div TOP

(* A word without its first byte, and with another at the end *)
Shifted(word, byte) == ((word * BYTE) % WORD) + byte

Narrow(prob, bit) ==
  IF bit = 1
  THEN high' = Midpoint(prob) /\ UNCHANGED low
  ELSE low' = Midpoint(prob) + 1 /\ UNCHANGED high

Renormalize == low' = Shifted(low, 0) /\ high' = Shifted(high, BYTE - 1)

(* The loop at the end of encode, one turn at a time *)
EmitByte ==
  /\ mode = "encode"
  /\ SharesTopByte
  /\ out' = Append(out, high \div TOP)
  /\ Renormalize
  /\ UNCHANGED <<mode, code, pos, asked, decided>>

Encode(prob, truth) ==
  /\ mode = "encode"
  /\ ~SharesTopByte
  /\ Len(asked) < MaxBits
  /\ Narrow(prob, truth)
  /\ asked' = Append(asked, [prob |-> prob, bit |-> truth])
  /\ UNCHANGED <<mode, out, code, pos, decided>>

FinalBytesMutant == [i \in 1..(BYTES - 1) |-> (low \div Place[BYTES - i]) % BYTE]

(* The bytes of low, the first of them first *)
FinalBytes == [i \in 1..BYTES |-> (low \div Place[BYTES - i]) % BYTE]

Finish ==
  /\ mode = "encode"
  /\ ~SharesTopByte
  /\ mode' = "open"
  /\ out' = out \o FinalBytes
  /\ UNCHANGED <<low, high, code, pos, asked, decided>>

(* A byte of the file; another value where it has ended *)
ByteAt(place, otherwise) == IF place <= Len(out) THEN out[place] ELSE otherwise

(* Decoder::new *)
Open ==
  /\ mode = "open"
  /\ mode' = "decode"
  /\ low' = 0
  /\ high' = WORD - 1
  /\ code' = LET word[i \in 0..BYTES] ==
                   IF i = 0 THEN 0 ELSE word[i - 1] * BYTE + ByteAt(i, 0)
             IN  word[BYTES]
  /\ pos' = BYTES
  /\ UNCHANGED <<out, asked, decided>>

DecidedMutant(prob) == IF code < Midpoint(prob) THEN 1 ELSE 0

Decided(prob) == IF code <= Midpoint(prob) THEN 1 ELSE 0

Decode ==
  /\ mode = "decode"
  /\ ~SharesTopByte
  /\ Len(decided) < Len(asked)
  /\ LET prob == asked[Len(decided) + 1].prob
     IN  /\ Narrow(prob, Decided(prob))
         /\ decided' = Append(decided, Decided(prob))
  /\ UNCHANGED <<mode, out, code, pos, asked>>

(* The loop at the end of decode, with next_byte *)
NextByte ==
  /\ mode = "decode"
  /\ SharesTopByte
  /\ Renormalize
  /\ code' = Shifted(code, ByteAt(pos + 1, BYTE - 1))
  /\ pos' = pos + 1
  /\ UNCHANGED <<mode, out, asked, decided>>

Close ==
  /\ mode = "decode"
  /\ ~SharesTopByte
  /\ Len(decided) = Len(asked)
  /\ mode' = "done"
  /\ UNCHANGED <<low, high, out, code, pos, asked, decided>>

RangeInit ==
  /\ mode = "encode"
  /\ low = 0
  /\ high = WORD - 1
  /\ out = <<>>
  /\ code = 0
  /\ pos = 0
  /\ asked = <<>>
  /\ decided = <<>>

RangeNext ==
  \/ \E prob \in Probs, truth \in {0, 1} : Encode(prob, truth)
  \/ EmitByte
  \/ Finish
  \/ Open
  \/ Decode
  \/ NextByte
  \/ Close

RangeSpec == RangeInit /\ [][RangeNext]_range_vars

-----------------------------------------------------------------------------
(* Properties                                                              *)

(***************************************************************************)
(* The interval is never empty and stays in a word, so that neither        *)
(* high - low nor mid + 1 leaves 32 bits; and whatever the probability,    *)
(* both parts of an interval to be divided have a word.                    *)
(***************************************************************************)
IntervalIsNeverEmpty ==
  /\ low \in 0..high
  /\ high \in 0..(WORD - 1)
  /\ ~SharesTopByte => \A prob \in Probs : Midpoint(prob) \in low..(high - 1)

(***************************************************************************)
(* The decoder returns the bits that were encoded, in their order: the     *)
(* bytes of every later bit, and those that finish() adds, keep to the     *)
(* intervals of all earlier bits.                                          *)
(***************************************************************************)
DecodedIsEncoded ==
  /\ \A i \in DOMAIN decided : decided[i] = asked[i].bit
  /\ mode = "done" => Len(decided) = Len(asked)

(***************************************************************************)
(* The decoder asks for exactly the bytes that were written: those it      *)
(* would make up beyond the end (0 and 255) are never used, and none stays *)
(* unread when all bits are decoded.                                       *)
(***************************************************************************)
NothingIsMadeUp ==
  /\ mode = "decode" => pos <= Len(out)
  /\ mode = "done" => pos = Len(out)
=============================================================================
