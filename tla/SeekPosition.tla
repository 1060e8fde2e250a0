----------------------------- MODULE SeekPosition -----------------------------
(***************************************************************************)
(* The positions that /seek reads (parse_seek_position of                  *)
(* src/src/commands/playback_controls.rs).                                 *)
(*                                                                         *)
(* A position is typed as fields between colons, seconds last.  A field    *)
(* that str::parse::<u64> refuses is NoNumber; its value, like every       *)
(* intermediate result of the source, is at most MaxU64.  Results are in   *)
(* milliseconds, and NoPosition stands for Option::None.                   *)
(***************************************************************************)
EXTENDS Integers, SequencesExt

CONSTANTS
  MaxU64,        \* u64::MAX
  TypedNumbers   \* the numbers that the checks type into a field

ASSUME SeekAssumption == MaxU64 \in Nat /\ TypedNumbers \subseteq Nat

NoNumber == -1
NoPosition == -1

(* u64::checked_mul and checked_add; an overflow carries through as in `?'. *)
CheckedMul(a, b) == IF a = NoNumber \/ a > MaxU64 \div b THEN NoNumber ELSE a * b

CheckedAdd(a, b) ==
  IF a = NoNumber \/ b = NoNumber \/ a > MaxU64 - b THEN NoNumber ELSE a + b

ParseField(field) == IF field \in 0 .. MaxU64 THEN field ELSE NoNumber

(* Mutant: only the seconds are looked at. *)
LastBelowSixty(fields) == Len(fields) > 1 => Last(fields) < 60

(* Below the leading field, an hour has 60 minutes and a minute 60 seconds. *)
ClockFields(fields) == \A i \in 2 .. Len(fields) : fields[i] < 60

TotalSeconds(fields) ==
  CASE Len(fields) = 1 -> fields[1]
    [] Len(fields) = 2 -> CheckedAdd(CheckedMul(fields[1], 60), fields[2])
    [] Len(fields) = 3 ->
         CheckedAdd(CheckedAdd(CheckedMul(fields[1], 3600), CheckedMul(fields[2], 60)),
                    fields[3])

ParseSeekPosition(value) ==
  LET fields == [i \in DOMAIN value |-> ParseField(value[i])]
  IN  IF Len(value) \in 1 .. 3 /\ NoNumber \notin ToSet(fields) /\ ClockFields(fields)
      THEN CheckedMul(TotalSeconds(fields), 1000)
      ELSE NoPosition
==============================================================================
