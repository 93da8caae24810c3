------------------------------ MODULE Fractional ------------------------------
(***************************************************************************)
(* The "fractional" targeting operator (targeting/custom_ops.py): it hashes *)
(* the bucketing value, scales the hash to the sum of the weights and      *)
(* returns the variant in whose range it falls.  A variant is its position *)
(* in the list; the hash function is uninterpreted.                        *)
(***************************************************************************)
EXTENDS Integers, Sequences

CONSTANTS
    HashSpace,      \* how many hashes there are; 2^32 in the code
    MaxWeightSum,   \* MAX_WEIGHT_SUM
    Weights,        \* the integers that occur as weights
    MaxArgs         \* bounds the number of fractions

ASSUME FractionalAssumption ==
    /\ HashSpace \in Nat \ {0}
    /\ MaxWeightSum \in Nat
    /\ Weights \subseteq Int
    /\ MaxArgs \in Nat

VARIABLES
    args,       \* <<weight>> for each fraction, Malformed if it is rejected
    hash,       \* hash_value
    phase,      \* "parse", "select" or "done"
    fractions,  \* the weights parsed so far
    totalWeight,
    bucket,
    rangeEnd,
    pos,        \* how many fractions the second loop has passed
    result,     \* the selected position, None without one
    ends        \* history: total_weight after each fraction

fractionalVars ==
    <<args, hash, phase, fractions, totalWeight, bucket, rangeEnd, pos, result, ends>>

-----------------------------------------------------------------------------
Malformed == <<>>
None      == 0
ArgLists  == UNION {[1..n -> {Malformed} \cup {<<w>> : w \in Weights}] : n \in 0..MaxArgs}

\* Mutant of Clamp: negative weights are kept.
ClampNot(w) == w

Clamp(w) == IF w < 0 THEN 0 ELSE w

FractionalTypeOK ==
    /\ hash \in 0..(HashSpace - 1)
    /\ phase \in {"parse", "select", "done"}
    /\ fractions \in Seq(Nat) /\ ends \in Seq(Nat)
    /\ totalWeight \in Nat /\ bucket \in Nat /\ rangeEnd \in Nat
    /\ pos \in Nat /\ result \in Nat

FractionalInit ==
    /\ args \in ArgLists
    /\ hash \in 0..(HashSpace - 1)
    /\ phase = "parse"
    /\ fractions = <<>> /\ ends = <<>>
    /\ totalWeight = 0 /\ bucket = 0 /\ rangeEnd = 0 /\ pos = 0
    /\ result = None

\* _parse_fraction clamps negative weights; ValueError ends the operator.
ParseFraction ==
    /\ phase = "parse" /\ Len(fractions) < Len(args)
    /\ LET arg == args[Len(fractions) + 1]
       IN \/ /\ arg = Malformed
             /\ phase' = "done"
             /\ UNCHANGED <<fractions, totalWeight, ends>>
          \/ /\ arg # Malformed
             /\ fractions' = Append(fractions, Clamp(arg[1]))
             /\ totalWeight' = totalWeight + Clamp(arg[1])
             /\ ends' = Append(ends, totalWeight')
             /\ UNCHANGED phase
    /\ UNCHANGED <<args, hash, bucket, rangeEnd, pos, result>>

\* Mutant of ComputeBucket: the hash is scaled to the last bucket inclusively.
ComputeBucketInclusive ==
    /\ phase = "parse" /\ Len(fractions) = Len(args)
    /\ IF totalWeight > MaxWeightSum
       THEN phase' = "done" /\ UNCHANGED bucket
       ELSE /\ phase' = "select"
            /\ bucket' = (hash * totalWeight + HashSpace - 1) \div HashSpace
    /\ UNCHANGED <<args, hash, fractions, totalWeight, rangeEnd, pos, result, ends>>

\* (hash_value * total_weight) >> 32
ComputeBucket ==
    /\ phase = "parse" /\ Len(fractions) = Len(args)
    /\ IF totalWeight > MaxWeightSum
       THEN phase' = "done" /\ UNCHANGED bucket
       ELSE /\ phase' = "select"
            /\ bucket' = (hash * totalWeight) \div HashSpace
    /\ UNCHANGED <<args, hash, fractions, totalWeight, rangeEnd, pos, result, ends>>

\* Mutant of Select: the end of a range belongs to it.
SelectInclusive ==
    /\ phase = "select"
    /\ IF pos = Len(fractions)
       THEN phase' = "done" /\ UNCHANGED <<rangeEnd, pos, result>>
       ELSE /\ pos' = pos + 1
            /\ rangeEnd' = rangeEnd + fractions[pos + 1]
            /\ IF bucket <= rangeEnd'
               THEN phase' = "done" /\ result' = pos + 1
               ELSE UNCHANGED <<phase, result>>
    /\ UNCHANGED <<args, hash, fractions, totalWeight, bucket, ends>>

\* One turn of the loop over the fractions, or its end.
Select ==
    /\ phase = "select"
    /\ IF pos = Len(fractions)
       THEN phase' = "done" /\ UNCHANGED <<rangeEnd, pos, result>>
       ELSE /\ pos' = pos + 1
            /\ rangeEnd' = rangeEnd + fractions[pos + 1]
            /\ IF bucket < rangeEnd'
               THEN phase' = "done" /\ result' = pos + 1
               ELSE UNCHANGED <<phase, result>>
    /\ UNCHANGED <<args, hash, fractions, totalWeight, bucket, ends>>

FractionalNext == ParseFraction \/ ComputeBucket \/ Select

FractionalSpec == FractionalInit /\ [][FractionalNext]_fractionalVars

-----------------------------------------------------------------------------
(* Properties.                                                              *)

\* Whatever the hash, a list with some positive weight always selects a
\* variant, and never one whose weight is 0 or was clamped to it.
Selects ==
    /\ phase = "select" /\ totalWeight > 0 => bucket < totalWeight
    /\ phase = "select" /\ pos = Len(fractions) => totalWeight = 0
    /\ result # None => fractions[result] > 0

\* Variant i gets its share of the hashes, up to rounding: those it is selected
\* for are the hashes from the scaled start of its range to the scaled end.
\* Counting them gives weight * HashSpace / totalWeight, off by less than one.
Ceil(a, b) == (a + b - 1) \div b
Share ==
    result # None =>
        LET start == ends[result] - fractions[result]
        IN /\ hash \in Ceil(start * HashSpace, totalWeight)
                       .. (Ceil(ends[result] * HashSpace, totalWeight) - 1)
           /\ LET count == Ceil(ends[result] * HashSpace, totalWeight)
                             - Ceil(start * HashSpace, totalWeight)
              IN /\ totalWeight * count < fractions[result] * HashSpace + totalWeight
                 /\ totalWeight * count > fractions[result] * HashSpace - totalWeight
=============================================================================
