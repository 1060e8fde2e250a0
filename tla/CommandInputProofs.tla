-------------------------- MODULE CommandInputProofs --------------------------
(***************************************************************************)
(* What the parsers of CommandInput make of every input: every position,   *)
(* for every largest number that a u64 may hold, and every playlist that   *)
(* yt-dlp may print, for every limit.                                      *)
(*                                                                         *)
(* Part 1: SeekReadsClock.  Meaning is a recursive function; for the three *)
(* fields at most that a position has, its values are written down.        *)
(* Part 2: places in their order, which exist by induction on the largest, *)
(* and how many are before the n-th.  Part 3: PlaylistAsAsked.             *)
(***************************************************************************)
EXTENDS CommandInput, SequenceTheorems, FiniteSetTheorems, WellFoundedInduction,
        TLAPS

------------------------------------------------------------------------------
(* Part 1: positions *)

Fielded(fields) == fields \in Seq(Nat \union {NoNumber})

(* What one, two and three fields mean. *)
LEMMA MeaningIs ==
  ASSUME NEW fields \in Seq(Nat)
  PROVE  /\ Len(fields) = 1 => Meaning(fields) = fields[1]
         /\ Len(fields) = 2 => Meaning(fields) = 60 * fields[1] + fields[2]
         /\ Len(fields) = 3 =>
              Meaning(fields) = 3600 * fields[1] + 60 * fields[2] + fields[3]
<1> DEFINE Reads(f) ==
             f = [n \in 0 .. Len(fields) |->
                    IF n = 0 THEN 0 ELSE 60 * f[n - 1] + fields[n]]
<1>1. ASSUME NEW f, Reads(f) PROVE Reads(CHOOSE g : Reads(g))
  BY <1>1
<1>2. Meaning(fields) = (CHOOSE g : Reads(g))[Len(fields)]
  BY DEF Meaning
<1>3. ASSUME NEW f, Reads(f)
      PROVE  /\ f[0] = 0
             /\ \A n \in 1 .. Len(fields) : f[n] = 60 * f[n - 1] + fields[n]
  <2>1. Len(fields) \in Nat
    BY LenProperties
  <2>2. \A n \in 0 .. Len(fields) :
          f[n] = IF n = 0 THEN 0 ELSE 60 * f[n - 1] + fields[n]
    BY <1>3
  <2> QED BY <2>1, <2>2
<1> DEFINE read == CHOOSE g : Reads(g)
<1>4. \A n \in 1 .. Len(fields) : fields[n] \in Nat
  BY LenProperties, ElementOfSeq
<1>5. CASE Len(fields) = 1
  <2> DEFINE f == [n \in 0 .. 1 |-> IF n = 0 THEN 0 ELSE fields[1]]
  <2>1. Reads(f)
    BY <1>4, <1>5
  <2> HIDE DEF Reads, f
  <2>2. Reads(read)
    BY <1>1, <2>1
  <2> HIDE DEF read
  <2>3. read[0] = 0 /\ read[1] = 60 * read[0] + fields[1]
    BY <1>3, <1>5, <2>2
  <2> QED BY <1>2, <1>4, <1>5, <2>3 DEF read
<1>6. CASE Len(fields) = 2
  <2> DEFINE f == [n \in 0 .. 2 |-> IF n = 0 THEN 0
                                    ELSE IF n = 1 THEN fields[1]
                                    ELSE 60 * fields[1] + fields[2]]
  <2>1. Reads(f)
    BY <1>4, <1>6
  <2> HIDE DEF Reads, f
  <2>2. Reads(read)
    BY <1>1, <2>1
  <2> HIDE DEF read
  <2>3. /\ read[0] = 0 /\ read[1] = 60 * read[0] + fields[1]
        /\ read[2] = 60 * read[1] + fields[2]
    BY <1>3, <1>6, <2>2
  <2> QED BY <1>2, <1>4, <1>6, <2>3 DEF read
<1>7. CASE Len(fields) = 3
  <2> DEFINE second == 60 * fields[1] + fields[2]
             f == [n \in 0 .. 3 |-> IF n = 0 THEN 0
                                    ELSE IF n = 1 THEN fields[1]
                                    ELSE IF n = 2 THEN second
                                    ELSE 60 * second + fields[3]]
  <2>1. Reads(f)
    BY <1>4, <1>7
  <2> HIDE DEF Reads, f
  <2>2. Reads(read)
    BY <1>1, <2>1
  <2> HIDE DEF read
  <2>3. /\ read[0] = 0 /\ read[1] = 60 * read[0] + fields[1]
        /\ read[2] = 60 * read[1] + fields[2] /\ read[3] = 60 * read[2] + fields[3]
    BY <1>3, <1>7, <2>2
  <2> QED BY <1>2, <1>4, <1>7, <2>3 DEF read
<1> QED BY <1>5, <1>6, <1>7

(* What the checked arithmetic yields. *)
LEMMA MulIs ==
  ASSUME NEW a \in Nat
  PROVE  /\ a * 60 <= MaxU64 => CheckedMul(a, 60) = a * 60
         /\ a * 60 > MaxU64 => CheckedMul(a, 60) = NoNumber
         /\ a * 3600 <= MaxU64 => CheckedMul(a, 3600) = a * 3600
         /\ a * 3600 > MaxU64 => CheckedMul(a, 3600) = NoNumber
         /\ a * 1000 <= MaxU64 => CheckedMul(a, 1000) = a * 1000
         /\ a * 1000 > MaxU64 => CheckedMul(a, 1000) = NoNumber
<1>1. MaxU64 \in Nat
  BY SeekAssumption
<1>2. /\ a > MaxU64 \div 60 <=> a * 60 > MaxU64
      /\ a > MaxU64 \div 3600 <=> a * 3600 > MaxU64
      /\ a > MaxU64 \div 1000 <=> a * 1000 > MaxU64
  BY <1>1
<1> QED BY <1>1, <1>2 DEF CheckedMul, NoNumber

LEMMA AddIs ==
  ASSUME NEW a \in Nat, NEW b \in Nat
  PROVE  /\ a + b <= MaxU64 => CheckedAdd(a, b) = a + b
         /\ a + b > MaxU64 => CheckedAdd(a, b) = NoNumber
         /\ CheckedAdd(NoNumber, b) = NoNumber /\ CheckedAdd(a, NoNumber) = NoNumber
BY SeekAssumption DEF CheckedAdd, NoNumber

(* The fields of a position are read, and none is refused. *)
Accepted(fields) ==
  /\ Len(fields) \in 1 .. 3
  /\ \A i \in 1 .. Len(fields) : fields[i] \in 0 .. MaxU64
  /\ \A i \in 2 .. Len(fields) : fields[i] < 60

LEMMA ParsedIs ==
  ASSUME NEW value, Fielded(value)
  PROVE  ParseSeekPosition(value) =
           IF Accepted(value) THEN CheckedMul(TotalSeconds(value), 1000)
           ELSE NoPosition
<1> DEFINE fields == [i \in DOMAIN value |-> ParseField(value[i])]
<1>1. Len(value) \in Nat /\ DOMAIN value = 1 .. Len(value)
      /\ \A i \in 1 .. Len(value) : value[i] \in Nat \union {NoNumber}
  BY LenProperties, ElementOfSeq DEF Fielded
<1>2. fields \in Seq(Nat \union {NoNumber}) /\ Len(fields) = Len(value)
  BY <1>1 DEF ParseField
<1>3. NoNumber \notin ToSet(fields)
        <=> \A i \in 1 .. Len(value) : value[i] \in 0 .. MaxU64
  <2>1. ToSet(fields) = {ParseField(value[i]) : i \in 1 .. Len(value)}
    BY <1>1 DEF ToSet
  <2>2. \A i \in 1 .. Len(value) :
          ParseField(value[i]) # NoNumber <=> value[i] \in 0 .. MaxU64
    BY <1>1, SeekAssumption DEF ParseField, NoNumber
  <2> QED BY <2>1, <2>2
<1>4. ASSUME \A i \in 1 .. Len(value) : value[i] \in 0 .. MaxU64
      PROVE  fields = value
  BY <1>1, <1>4 DEF ParseField, Fielded
<1>5. ParseSeekPosition(value) =
        IF Len(value) \in 1 .. 3 /\ NoNumber \notin ToSet(fields) /\ ClockFields(fields)
        THEN CheckedMul(TotalSeconds(fields), 1000) ELSE NoPosition
  BY DEF ParseSeekPosition
<1> HIDE DEF fields
<1>6. CASE \A i \in 1 .. Len(value) : value[i] \in 0 .. MaxU64
  BY <1>3, <1>4, <1>5, <1>6 DEF Accepted, ClockFields
<1>7. CASE ~ \A i \in 1 .. Len(value) : value[i] \in 0 .. MaxU64
  BY <1>3, <1>5, <1>7 DEF Accepted
<1> QED BY <1>6, <1>7

LEMMA AcceptedMakesSense ==
  ASSUME NEW value, Fielded(value)
  PROVE  /\ Accepted(value) => Sensible(value)
         /\ Sensible(value) => value \in Seq(Nat)
<1>1. Len(value) \in Nat /\ DOMAIN value = 1 .. Len(value)
      /\ \A i \in 1 .. Len(value) : value[i] \in Nat \union {NoNumber}
  BY LenProperties, ElementOfSeq DEF Fielded
<1>2. NoNumber \notin ToSet(value) <=> \A i \in 1 .. Len(value) : value[i] \in Nat
  BY <1>1 DEF ToSet, NoNumber
<1>3. ASSUME Accepted(value) PROVE Sensible(value)
  <2>1. \A i \in 1 .. Len(value) : value[i] \in Nat
    BY <1>3, SeekAssumption DEF Accepted
  <2>2. ASSUME NEW i \in 2 .. Len(value) PROVE value[i] \in 0 .. 59
    <3>1. value[i] < 60
      BY <1>3 DEF Accepted
    <3>2. i \in 1 .. Len(value)
      BY <1>1
    <3>3. PICK n \in Nat : n = value[i]
      BY <2>1, <3>2
    <3>4. n < 60
      BY <3>1, <3>3
    <3>5. n \in 0 .. 59
      BY <3>4
    <3> QED BY <3>3, <3>5
  <2> QED BY <1>2, <1>3, <2>1, <2>2 DEF Accepted, Sensible
<1>4. ASSUME Sensible(value) PROVE value \in Seq(Nat)
  <2>1. \A i \in 1 .. Len(value) : value[i] \in Nat
    BY <1>2, <1>4 DEF Sensible
  <2>2. value = [i \in 1 .. Len(value) |-> value[i]]
    BY <1>1 DEF Fielded
  <2> QED BY <1>1, <2>1, <2>2
<1> QED BY <1>3, <1>4

(* The sum of what makes sense is what it means, unless it is too large. *)
LEMMA TotalIs ==
  ASSUME NEW value \in Seq(Nat), Accepted(value)
  PROVE  /\ Meaning(value) \in Nat
         /\ TotalSeconds(value) =
              IF Meaning(value) <= MaxU64 THEN Meaning(value) ELSE NoNumber
<1>1. Len(value) \in 1 .. 3 /\ MaxU64 \in Nat
      /\ \A i \in 1 .. Len(value) : value[i] \in 0 .. MaxU64
  BY SeekAssumption DEF Accepted
<1>2. CASE Len(value) = 1
  BY <1>1, <1>2, MeaningIs DEF TotalSeconds
<1>3. CASE Len(value) = 2
  <2>1. PICK a \in Nat, b \in Nat :
          a = value[1] /\ b = value[2] /\ a <= MaxU64 /\ b <= MaxU64
    BY <1>1, <1>3
  <2>2. Meaning(value) = 60 * a + b
    BY <1>3, <2>1, MeaningIs
  <2>3. TotalSeconds(value) = CheckedAdd(CheckedMul(a, 60), b)
    BY <1>3, <2>1 DEF TotalSeconds
  <2>4. CASE a * 60 <= MaxU64
    <3>1. CheckedMul(a, 60) = a * 60 /\ a * 60 \in Nat
      BY <2>4, MulIs
    <3>2. /\ a * 60 + b <= MaxU64 => CheckedAdd(a * 60, b) = a * 60 + b
          /\ a * 60 + b > MaxU64 => CheckedAdd(a * 60, b) = NoNumber
      BY <3>1, AddIs
    <3> QED BY <1>1, <2>2, <2>3, <3>1, <3>2
  <2>5. CASE a * 60 > MaxU64
    <3>1. CheckedMul(a, 60) = NoNumber
      BY <2>5, MulIs
    <3>2. TotalSeconds(value) = NoNumber
      BY <2>3, <3>1, AddIs
    <3> QED BY <1>1, <2>2, <2>5, <3>2
  <2> QED BY <1>1, <2>4, <2>5
<1>4. CASE Len(value) = 3
  <2>1. PICK a \in Nat, b \in Nat, c \in Nat :
          /\ a = value[1] /\ b = value[2] /\ c = value[3]
          /\ a <= MaxU64 /\ b <= MaxU64 /\ c <= MaxU64
    BY <1>1, <1>4
  <2>2. Meaning(value) = 3600 * a + 60 * b + c
    BY <1>4, <2>1, MeaningIs
  <2> DEFINE hours == CheckedMul(a, 3600)
             minutes == CheckedMul(b, 60)
             both == CheckedAdd(hours, minutes)
  <2>3. TotalSeconds(value) = CheckedAdd(both, c)
    BY <1>4, <2>1 DEF TotalSeconds
  <2>4. /\ a * 3600 <= MaxU64 => hours = a * 3600
        /\ a * 3600 > MaxU64 => hours = NoNumber
        /\ b * 60 <= MaxU64 => minutes = b * 60
        /\ b * 60 > MaxU64 => minutes = NoNumber
    BY MulIs
  <2> HIDE DEF hours, minutes
  <2>5. CASE a * 3600 + b * 60 <= MaxU64
    <3>1. hours = a * 3600 /\ minutes = b * 60
      BY <1>1, <2>4, <2>5
    <3>2. both = a * 3600 + b * 60
      <4>1. hours \in Nat /\ minutes \in Nat
        BY <3>1
      <4> QED BY <2>5, <3>1, <4>1, AddIs
    <3> HIDE DEF both
    <3>3. both \in Nat
      BY <3>2
    <3>4. /\ both + c <= MaxU64 => CheckedAdd(both, c) = both + c
          /\ both + c > MaxU64 => CheckedAdd(both, c) = NoNumber
      BY <3>3, AddIs
    <3> QED BY <1>1, <2>2, <2>3, <3>2, <3>4
  <2>6. CASE a * 3600 + b * 60 > MaxU64
    <3>1. both = NoNumber
      <4>1. CASE a * 3600 > MaxU64
        <5>1. hours = NoNumber
          BY <2>4, <4>1
        <5> QED BY <5>1 DEF CheckedAdd
      <4>2. CASE b * 60 > MaxU64
        <5>1. minutes = NoNumber
          BY <2>4, <4>2
        <5> QED BY <5>1 DEF CheckedAdd
      <4>3. CASE a * 3600 <= MaxU64 /\ b * 60 <= MaxU64
        <5>1. hours = a * 3600 /\ minutes = b * 60
          BY <2>4, <4>3
        <5>2. hours \in Nat /\ minutes \in Nat
          BY <5>1
        <5> QED BY <2>6, <5>1, <5>2, AddIs
      <4> QED BY <1>1, <4>1, <4>2, <4>3
    <3>2. TotalSeconds(value) = NoNumber
      BY <2>3, <3>1, AddIs
    <3> QED BY <1>1, <2>2, <2>6, <3>2
  <2> QED BY <1>1, <2>5, <2>6
<1> QED BY <1>1, <1>2, <1>3, <1>4

(* A field that no u64 holds makes the position one that none does. *)
LEMMA TooLarge ==
  ASSUME NEW value \in Seq(Nat), Sensible(value), ~ Accepted(value)
  PROVE  Meaning(value) \in Nat /\ Meaning(value) > MaxU64
<1>1. Len(value) \in 1 .. 3 /\ MaxU64 \in Nat
      /\ \A i \in 1 .. Len(value) : value[i] \in Nat
  BY SeekAssumption, LenProperties, ElementOfSeq DEF Sensible
<1>2. PICK i \in 1 .. Len(value) : value[i] > MaxU64
  <2> SUFFICES ASSUME \A i \in 1 .. Len(value) : value[i] <= MaxU64 PROVE FALSE
    BY <1>1
  <2>1. \A i \in 1 .. Len(value) : value[i] \in 0 .. MaxU64
    BY <1>1
  <2>2. ASSUME NEW i \in 2 .. Len(value) PROVE value[i] < 60
    <3>1. PICK n \in 0 .. 59 : n = value[i]
      BY DEF Sensible
    <3>2. n < 60
      OBVIOUS
    <3> QED BY <3>1, <3>2
  <2> QED BY <1>1, <2>1, <2>2 DEF Accepted
<1>3. Meaning(value) \in Nat /\ Meaning(value) >= value[i]
  <2>1. CASE Len(value) = 1
    <3>1. Meaning(value) = value[1] /\ i = 1
      BY <2>1, MeaningIs
    <3> QED BY <1>1, <2>1, <3>1
  <2>2. CASE Len(value) = 2
    <3>1. PICK a \in Nat, b \in Nat : a = value[1] /\ b = value[2]
      BY <1>1, <2>2
    <3>2. Meaning(value) = 60 * a + b
      BY <2>2, <3>1, MeaningIs
    <3>3. value[i] \in {a, b}
      BY <2>2, <3>1
    <3> QED BY <3>2, <3>3
  <2>3. CASE Len(value) = 3
    <3>1. PICK a \in Nat, b \in Nat, c \in Nat :
            a = value[1] /\ b = value[2] /\ c = value[3]
      BY <1>1, <2>3
    <3>2. Meaning(value) = 3600 * a + 60 * b + c
      BY <2>3, <3>1, MeaningIs
    <3>3. value[i] \in {a, b, c}
      BY <2>3, <3>1
    <3> QED BY <3>2, <3>3
  <2> QED BY <1>1, <2>1, <2>2, <2>3
<1>4. value[i] \in Nat
  BY <1>1
<1> QED BY <1>1, <1>2, <1>3, <1>4

LEMMA PositionIs ==
  ASSUME NEW value, Fielded(value)
  PROVE  ParseSeekPosition(value) =
           IF Sensible(value) /\ Meaning(value) <= MaxU64 \div 1000
           THEN 1000 * Meaning(value) ELSE NoPosition
<1>1. MaxU64 \in Nat
  BY SeekAssumption
<1>2. CASE Accepted(value)
  <2>1. Sensible(value) /\ value \in Seq(Nat)
    BY <1>2, AcceptedMakesSense
  <2>2. PICK m \in Nat : m = Meaning(value)
    BY <1>2, <2>1, TotalIs
  <2>3. TotalSeconds(value) = IF m <= MaxU64 THEN m ELSE NoNumber
    BY <1>2, <2>1, <2>2, TotalIs
  <2>4. m <= MaxU64 \div 1000 <=> m * 1000 <= MaxU64
    BY <1>1
  <2>5. ParseSeekPosition(value) = CheckedMul(TotalSeconds(value), 1000)
    BY <1>2, ParsedIs
  <2>6. /\ m * 1000 <= MaxU64 => CheckedMul(m, 1000) = m * 1000
        /\ m * 1000 > MaxU64 => CheckedMul(m, 1000) = NoNumber
    BY MulIs
  <2>7. CASE m * 1000 <= MaxU64
    <3>1. m <= MaxU64
      BY <1>1, <2>7
    <3> QED BY <2>1, <2>2, <2>3, <2>4, <2>5, <2>6, <2>7, <3>1
  <2>8. CASE m * 1000 > MaxU64
    <3>1. CheckedMul(NoNumber, 1000) = NoNumber
      BY DEF CheckedMul
    <3>2. TotalSeconds(value) \in {m, NoNumber}
      BY <2>3
    <3>3. ParseSeekPosition(value) = NoNumber
      BY <2>5, <2>6, <2>8, <3>1, <3>2
    <3> QED BY <1>1, <2>2, <2>4, <2>8, <3>3 DEF NoNumber, NoPosition
  <2> QED BY <1>1, <2>7, <2>8
<1>3. CASE ~ Accepted(value) /\ Sensible(value)
  <2>1. Meaning(value) \in Nat /\ Meaning(value) > MaxU64
    BY <1>3, AcceptedMakesSense, TooLarge
  <2>2. MaxU64 \div 1000 <= MaxU64 /\ MaxU64 \div 1000 \in Int
    BY <1>1
  <2> QED BY <1>1, <1>3, <2>1, <2>2, ParsedIs
<1>4. CASE ~ Accepted(value) /\ ~ Sensible(value)
  BY <1>4, ParsedIs
<1> QED BY <1>2, <1>3, <1>4

LEMMA FieldsTyped == Spec => []Fielded(typed)
<1>1. Init => Fielded(typed)
  BY DEF Init, Fielded
<1>2. Fielded(typed) /\ [Next]_vars => Fielded(typed)'
  <2> SUFFICES ASSUME Fielded(typed), [Next]_vars PROVE Fielded(typed')
    BY DEF Fielded
  <2>1. CASE TypeField
    <3>1. PICK field \in Nat \union {NoNumber} : typed' = Append(typed, field)
      BY <2>1, SeekAssumption DEF TypeField
    <3> QED BY <3>1, AppendProperties DEF Fielded
  <2>2. CASE Seek
    BY <2>2 DEF Seek, Fielded
  <2>3. CASE Ask \/ PrintEntry \/ Parse \/ Conclude \/ UNCHANGED vars
    <3>1. typed' = typed
      BY <2>3 DEF Ask, PrintEntry, Parse, Conclude, vars, seek
    <3> QED BY <3>1
  <2> QED BY <2>1, <2>2, <2>3 DEF Next
<1> QED BY <1>1, <1>2, PTL DEF Spec

(* The position that /seek asks for is the one that was typed, for every   *)
(* typed field and every largest number of a u64: the checked arithmetic   *)
(* of parse_seek_position refuses what does not fit, and nothing else.     *)
THEOREM SeeksAsRead == Spec => SeekReadsClock
<1> DEFINE Step ==
      typed # << >> /\ typed' = << >> =>
        position' = IF Sensible(typed) /\ Meaning(typed) <= MaxU64 \div 1000
                    THEN 1000 * Meaning(typed) ELSE NoPosition
<1>1. Fielded(typed) /\ [Next]_vars => [Step]_vars
  <2> SUFFICES ASSUME Fielded(typed), Next, typed # << >>, typed' = << >>
               PROVE  Step
    OBVIOUS
  <2>1. Seek
    <3>1. ~ TypeField
      <4> SUFFICES ASSUME TypeField PROVE FALSE
        OBVIOUS
      <4>1. PICK field \in Nat \union {NoNumber} : typed' = Append(typed, field)
        BY SeekAssumption DEF TypeField
      <4> QED BY <4>1, AppendProperties DEF Fielded
    <3> QED BY <3>1 DEF Next, Ask, PrintEntry, Parse, Conclude, seek
  <2> QED BY <2>1, PositionIs DEF Seek
<1> QED BY <1>1, FieldsTyped, PTL DEF Spec, SeekReadsClock

------------------------------------------------------------------------------
(* Part 2: places in their order *)

Increasing(s) == \A m, n \in DOMAIN s : m < n => s[m] < s[n]

Enumerates(s, S) == s \in [1 .. Cardinality(S) -> S] /\ Increasing(s)

(* Induction, for a set of numbers. *)
LEMMA Induction ==
  ASSUME NEW A, 0 \in A, \A m \in Nat : m \in A => m + 1 \in A
  PROVE  Nat \subseteq A
<1> SUFFICES ASSUME Nat \ A # {} PROVE FALSE
  OBVIOUS
<1>1. PICK m \in Nat \ A : \A k \in Nat \ A : ~ (<< k, m >> \in OpToRel(<, Nat))
  <2>1. IsWellFoundedOn(OpToRel(<, Nat), Nat)
    BY NatLessThanWellFounded
  <2>2. Nat \ A \subseteq Nat
    OBVIOUS
  <2> QED BY <2>1, <2>2, WFMin
<1>2. m \in Nat /\ m # 0
  OBVIOUS
<1>3. m - 1 \in Nat /\ m - 1 < m /\ (m - 1) + 1 = m
  BY <1>2
<1>4. << m - 1, m >> \in OpToRel(<, Nat)
  BY <1>2, <1>3 DEF OpToRel
<1> QED BY <1>1, <1>3, <1>4

LEMMA SomePlaces ==
  ASSUME NEW n \in Nat, NEW S \in SUBSET (1 .. n)
  PROVE  IsFiniteSet(S) /\ Cardinality(S) \in Nat /\ \A i \in S : i \in Nat
<1>1. IsFiniteSet(1 .. n)
  BY FS_Interval
<1>2. IsFiniteSet(S)
  BY <1>1, FS_Subset
<1>3. Cardinality(S) \in Nat
  BY <1>2, FS_CardinalityType
<1> QED BY <1>2, <1>3

(* One place more, beyond the others. *)
LEMMA OneMorePlace ==
  ASSUME NEW n \in Nat, NEW S \in SUBSET (1 .. n), NEW s, Enumerates(s, S)
  PROVE  \E t : Enumerates(t, S \union {n + 1})
<1>1. IsFiniteSet(S) /\ Cardinality(S) \in Nat /\ n + 1 \notin S
  BY SomePlaces
<1> DEFINE T == S \union {n + 1}
<1>2. Cardinality(T) = Cardinality(S) + 1
  BY <1>1, FS_AddElement
<1>3. PICK c \in Nat : c = Cardinality(S)
  BY <1>1
<1> DEFINE t == [k \in 1 .. c + 1 |-> IF k <= c THEN s[k] ELSE n + 1]
<1>4. s \in [1 .. c -> S]
  BY <1>3 DEF Enumerates
<1>5. t \in [1 .. c + 1 -> T]
  BY <1>4
<1>6. \A j, k \in 1 .. c + 1 : j < k => t[j] < t[k]
  <2> SUFFICES ASSUME NEW j \in 1 .. c + 1, NEW k \in 1 .. c + 1, j < k
               PROVE  t[j] < t[k]
    OBVIOUS
  <2>1. j \in 1 .. c /\ t[j] = s[j] /\ s[j] \in S
    BY <1>4
  <2>2. t[k] = IF k <= c THEN s[k] ELSE n + 1
    OBVIOUS
  <2>3. s[j] \in Nat /\ s[j] < n + 1
    <3>1. PICK x \in 1 .. n : x = s[j]
      BY <2>1
    <3>2. x \in Nat /\ x < n + 1
      OBVIOUS
    <3> QED BY <3>1, <3>2
  <2> HIDE DEF t
  <2>4. CASE k <= c
    <3>1. k \in 1 .. c /\ DOMAIN s = 1 .. c
      BY <1>4, <2>4
    <3>2. s[j] < s[k]
      BY <2>1, <3>1 DEF Enumerates, Increasing
    <3> QED BY <2>1, <2>2, <2>4, <3>2
  <2>5. CASE ~ (k <= c)
    BY <2>1, <2>2, <2>3, <2>5
  <2> QED BY <2>4, <2>5
<1>7. Enumerates(t, T)
  <2> HIDE DEF t, T
  <2> QED BY <1>2, <1>3, <1>5, <1>6 DEF Enumerates, Increasing
<1> QED BY <1>7

LEMMA PlacesHaveOrder ==
  \A n \in Nat : \A S \in SUBSET (1 .. n) : \E s : Enumerates(s, S)
<1> DEFINE A == {n \in Nat : \A S \in SUBSET (1 .. n) : \E s : Enumerates(s, S)}
<1>1. 0 \in A
  <2> SUFFICES ASSUME NEW S \in SUBSET (1 .. 0) PROVE \E s : Enumerates(s, S)
    OBVIOUS
  <2>1. S = {} /\ Cardinality(S) = 0
    <3>1. 1 .. 0 = {}
      OBVIOUS
    <3> QED BY <3>1, FS_EmptySet
  <2>2. Enumerates([k \in 1 .. 0 |-> k], S)
    BY <2>1 DEF Enumerates, Increasing
  <2> QED BY <2>2
<1>2. ASSUME NEW n \in Nat, n \in A PROVE n + 1 \in A
  <2> SUFFICES ASSUME NEW S \in SUBSET (1 .. n + 1) PROVE \E s : Enumerates(s, S)
    OBVIOUS
  <2> DEFINE R == S \ {n + 1}
  <2>1. R \in SUBSET (1 .. n)
    OBVIOUS
  <2>2. PICK s : Enumerates(s, R)
    BY <1>2, <2>1
  <2>3. CASE n + 1 \in S
    <3>1. S = R \union {n + 1}
      BY <2>3
    <3> HIDE DEF R
    <3> QED BY <2>1, <2>2, <3>1, OneMorePlace
  <2>4. CASE n + 1 \notin S
    BY <2>2, <2>4
  <2> QED BY <2>3, <2>4
<1> HIDE DEF A
<1>3. Nat \subseteq A
  BY <1>1, <1>2, Induction
<1> QED BY <1>3 DEF A

(* The places in their order are those places, each once. *)
LEMMA InOrderIs ==
  ASSUME NEW n \in Nat, NEW S \in SUBSET (1 .. n), NEW s, s = InOrder(S)
  PROVE  /\ s \in Seq(S) /\ DOMAIN s = 1 .. Len(s) /\ Len(s) = Cardinality(S)
         /\ Increasing(s) /\ ToSet(s) = S
<1>1. Enumerates(s, S)
  BY PlacesHaveOrder DEF InOrder, Enumerates, Increasing
<1>2. PICK c \in Nat : c = Cardinality(S)
  BY SomePlaces
<1>3. s \in [1 .. c -> S]
  BY <1>1, <1>2 DEF Enumerates
<1>4. s \in Seq(S) /\ Len(s) = c /\ DOMAIN s = 1 .. c
  BY <1>3
<1>5. \A j, k \in 1 .. c : s[j] = s[k] => j = k
  <2> SUFFICES ASSUME NEW j \in 1 .. c, NEW k \in 1 .. c, j < k
               PROVE  s[j] # s[k]
    OBVIOUS
  <2>1. s[j] < s[k]
    BY <1>1, <1>4 DEF Enumerates, Increasing
  <2>2. s[j] \in Nat /\ s[k] \in Nat
    BY <1>3, SomePlaces
  <2> QED BY <2>1, <2>2
<1>6. s \in Injection(1 .. c, S)
  BY <1>3, <1>5 DEF Injection, IsInjective
<1>7. IsFiniteSet(S) /\ Cardinality(1 .. c) = Cardinality(S)
  <2>1. IsFiniteSet(S)
    BY SomePlaces
  <2>2. Cardinality(1 .. c) = IF 1 > c THEN 0 ELSE c - 1 + 1
    BY FS_Interval
  <2> QED BY <1>2, <2>1, <2>2
<1>8. s \in Surjection(1 .. c, S)
  BY <1>6, <1>7, FS_Injection
<1>9. ToSet(s) = S
  BY <1>3, <1>4, <1>8 DEF Surjection, ToSet
<1> QED BY <1>1, <1>2, <1>4, <1>9 DEF Enumerates

(* The k-th place has k - 1 before it. *)
LEMMA PlacesBefore ==
  ASSUME NEW S \in SUBSET Nat, IsFiniteSet(S),
         NEW s \in Seq(S), Increasing(s), ToSet(s) = S,
         NEW k \in 1 .. Len(s), NEW T, T = {i \in S : i < s[k]}
  PROVE  Cardinality(T) = k - 1
<1> DEFINE f == [j \in 1 .. k - 1 |-> s[j]]
<1>1. /\ s \in Seq(S) /\ DOMAIN s = 1 .. Len(s) /\ Len(s) \in Nat
      /\ Increasing(s) /\ ToSet(s) = S
  BY LenProperties
<1>2. \A j \in 1 .. Len(s) : s[j] \in S /\ s[j] \in Nat
  BY <1>1, ElementOfSeq
<1>3. \A i, j \in 1 .. Len(s) : i < j => s[i] < s[j]
  BY <1>1 DEF Increasing
<1>4. f \in [1 .. k - 1 -> T]
  <2> SUFFICES ASSUME NEW j \in 1 .. k - 1 PROVE s[j] \in T
    OBVIOUS
  <2>1. j \in 1 .. Len(s) /\ j < k
    BY <1>1
  <2> QED BY <1>2, <1>3, <2>1
<1>5. f \in Injection(1 .. k - 1, T)
  <2>1. ASSUME NEW i \in 1 .. k - 1, NEW j \in 1 .. k - 1, f[i] = f[j] PROVE i = j
    <3>1. i \in 1 .. Len(s) /\ j \in 1 .. Len(s) /\ s[i] = s[j]
      BY <1>1, <2>1
    <3>2. ~ (i < j) /\ ~ (j < i)
      BY <1>2, <1>3, <3>1
    <3> QED BY <3>1, <3>2
  <2> HIDE DEF f
  <2> QED BY <1>4, <2>1 DEF Injection, IsInjective
<1>6. ASSUME NEW i \in T PROVE \E j \in 1 .. k - 1 : f[j] = i
  <2>1. i \in S /\ i < s[k]
    OBVIOUS
  <2>2. PICK j \in 1 .. Len(s) : s[j] = i
    BY <1>1, <2>1 DEF ToSet
  <2>3. ~ (j = k) /\ ~ (k < j)
    BY <1>2, <1>3, <2>1, <2>2
  <2>4. j \in 1 .. k - 1
    BY <1>1, <2>3
  <2> QED BY <2>2, <2>4
<1>7. f \in Surjection(1 .. k - 1, T)
  <2> HIDE DEF f
  <2> QED BY <1>4, <1>6 DEF Surjection
<1>8. IsFiniteSet(T)
  BY FS_Subset
<1> HIDE DEF f
<1>9. Cardinality(1 .. k - 1) = Cardinality(T)
  BY <1>5, <1>7, <1>8, FS_Injection
<1>10. Cardinality(1 .. k - 1) = k - 1
  <2>1. k - 1 \in Nat
    BY <1>1
  <2> QED BY <2>1, FS_Interval
<1> QED BY <1>9, <1>10

(* The first of them are those with few before them. *)
LEMMA TakeIs ==
  ASSUME NEW n \in Nat, NEW S \in SUBSET (1 .. n), NEW max \in Nat
  PROVE  /\ ToSet(Take(InOrder(S), max)) =
              {i \in S : Cardinality({j \in S : j < i}) < max}
         /\ Take(InOrder(S), max) \in Seq(S)
<1>1. PICK s : s = InOrder(S)
  OBVIOUS
<1>2. /\ s \in Seq(S) /\ DOMAIN s = 1 .. Len(s) /\ Len(s) \in Nat /\ ToSet(s) = S
  BY <1>1, InOrderIs, LenProperties
<1>10. Increasing(s) /\ S \in SUBSET Nat /\ IsFiniteSet(S)
  BY <1>1, InOrderIs, SomePlaces
<1>3. PICK m \in Nat : m = Min({max, Len(s)}) /\ m <= Len(s) /\ m <= max
                       /\ (m = Len(s) \/ m = max)
  <2>1. \E x \in {max, Len(s)} : \A y \in {max, Len(s)} : x <= y
    BY <1>2
  <2>2. Min({max, Len(s)}) \in {max, Len(s)}
        /\ \A y \in {max, Len(s)} : Min({max, Len(s)}) <= y
    BY <2>1 DEF Min
  <2> QED BY <1>2, <2>2
<1> DEFINE first == SubSeq(s, 1, m)
<1>4. Take(s, max) = first
  BY <1>3 DEF Take
<1>5. /\ first \in Seq(S) /\ Len(first) = m
      /\ \A k \in 1 .. m : first[k] = s[k]
  <2>1. \A k \in 1 .. m : s[k] \in S
    BY <1>2, <1>3, ElementOfSeq
  <2>2. /\ first \in Seq(S) /\ Len(first) = IF 1 <= m THEN m - 1 + 1 ELSE 0
        /\ \A k \in 1 .. m - 1 + 1 : first[k] = s[1 + k - 1]
    BY <2>1, SubSeqProperties
  <2> HIDE DEF first
  <2>3. Len(first) = m
    BY <2>2
  <2> QED BY <2>2, <2>3
<1> HIDE DEF first
<1>6. ToSet(first) = {s[k] : k \in 1 .. m}
  <2>1. DOMAIN first = 1 .. m
    BY <1>5, LenProperties
  <2> QED BY <1>5, <2>1 DEF ToSet
<1>7. ASSUME NEW k \in 1 .. Len(s)
      PROVE  Cardinality({j \in S : j < s[k]}) = k - 1
  <2>1. PICK T : T = {j \in S : j < s[k]}
    OBVIOUS
  <2>2. Cardinality(T) = k - 1
    BY <1>2, <1>10, <2>1, PlacesBefore
  <2> QED BY <2>1, <2>2
<1>8. ASSUME NEW i \in S
      PROVE  i \in ToSet(first) <=> Cardinality({j \in S : j < i}) < max
  <2>1. PICK k \in 1 .. Len(s) : s[k] = i
    BY <1>2 DEF ToSet
  <2>2. Cardinality({j \in S : j < i}) = k - 1
    BY <1>7, <2>1
  <2>3. ASSUME NEW x \in 1 .. m, s[x] = i PROVE x = k
    <3>1. x \in 1 .. Len(s)
      BY <1>2, <1>3
    <3>2. x - 1 = k - 1
      BY <1>7, <2>1, <2>2, <2>3, <3>1
    <3> QED BY <3>1, <3>2
  <2>4. k \in 1 .. m <=> k - 1 < max
    BY <1>2, <1>3
  <2> QED BY <1>6, <2>1, <2>2, <2>3, <2>4
<1>9. ToSet(first) \subseteq S
  BY <1>2, <1>3, <1>6, ElementOfSeq
<1> QED BY <1>1, <1>4, <1>5, <1>8, <1>9

------------------------------------------------------------------------------
(* Part 3: playlists *)

Printed(doc) ==
  /\ doc \in [kind : {"value", "entries", "malformed"}, items : Seq(PrintedEntries)]
  /\ doc.kind = "value" => Len(doc.items) = 1 /\ doc.items[1] # Null

There(doc) == {i \in DOMAIN doc.items : doc.items[i] # Null}

Usable(doc) ==
  {i \in DOMAIN doc.items :
     "title" \in doc.items[i]
       /\ (doc.kind = "value" \/ doc.items[i] \ {"title"} # {})}

Entries(answer) == [n \in DOMAIN answer.tracks |-> answer.tracks[n].entry]

(* The usable entries that the limit leaves room for. *)
Owed(doc, max) ==
  {i \in Usable(doc) : Cardinality({j \in 1 .. i - 1 : doc.items[j] # Null}) < max}

(* What PlaylistAsAsked says of a document, a limit and an answer. *)
AsAsked(doc, max, answer) ==
  /\ Len(Entries(answer)) <= max
  /\ Increasing(Entries(answer))
  /\ ToSet(Entries(answer)) = Owed(doc, max)
  /\ (answer.error = "none") <=> (Entries(answer) # << >>)

(* A value is a track if it has a title and a locator. *)
LEMMA ValueParsed ==
  ASSUME NEW doc, NEW i, doc.items[i] \in PrintedEntries,
         NEW request \in {{}, {"request"}},
         NEW answer, answer = ParseResolvedValue(doc, i, request)
  PROVE  /\ (answer.error = "none")
              <=> /\ "title" \in doc.items[i]
                  /\ request # {} \/ doc.items[i] \ {"title"} # {}
         /\ answer.error = "none" => \E track : answer.tracks = << track >> /\ track.entry = i
         /\ answer.error # "none" => answer.tracks = << >>
<1> DEFINE value == doc.items[i]
           locators == Locators(value, request)
<1>1. value \subseteq Fields \/ value = {"null"}
  BY EntryAssumption DEF Null
<1>2. CASE "title" \notin value
  <2>1. answer = Failed("title")
    BY <1>2 DEF ParseResolvedValue
  <2> QED BY <1>2, <2>1 DEF Failed
<1>3. CASE "title" \in value
  <2>1. value \subseteq Fields
    BY <1>1, <1>3
  <2>2. locators = {} <=> (request = {} /\ value \ {"title"} = {})
    <3>1. locators = {k \in 1 .. 4 : Preference[k] \in value \union request}
      BY DEF Locators, Preference
    <3>2. /\ Preference[1] = "webpage_url" /\ Preference[2] = "original_url"
          /\ Preference[3] = "url" /\ Preference[4] = "request"
      BY DEF Preference
    <3>3. locators = {} <=> \A x \in {"webpage_url", "original_url", "url", "request"} :
                              x \notin value \union request
      BY <3>1, <3>2
    <3>4. "request" \notin value
      BY <2>1 DEF Fields
    <3>5. \A x \in value : x \in {"title", "webpage_url", "original_url", "url"}
      BY <2>1 DEF Fields
    <3> HIDE DEF value, locators
    <3> QED BY <3>3, <3>4, <3>5
  <2>3. CASE locators = {}
    <3>1. answer = Failed("webpage_url")
      BY <1>3, <2>3 DEF ParseResolvedValue
    <3> QED BY <2>2, <2>3, <3>1 DEF Failed
  <2>4. CASE locators # {}
    <3>1. PICK track : track = [entry |-> i, locator |-> Preference[Min(locators)]]
      OBVIOUS
    <3>2. answer = Resolved(<< track >>)
      BY <1>3, <2>4, <3>1 DEF ParseResolvedValue
    <3>3. answer.error = "none" /\ answer.tracks = << track >>
      BY <3>2 DEF Resolved
    <3>4. track.entry = i
      BY <3>1
    <3> QED BY <1>3, <2>2, <2>4, <3>3, <3>4
  <2> QED BY <2>3, <2>4
<1> QED BY <1>2, <1>3

(* Nothing was taken. *)
LEMMA NothingTaken ==
  ASSUME NEW answer, answer.tracks = << >>
  PROVE  /\ Entries(answer) = << >> /\ Len(Entries(answer)) = 0
         /\ Increasing(Entries(answer)) /\ ToSet(Entries(answer)) = {}
<1>1. Entries(answer) = << >>
  BY DEF Entries
<1> QED BY <1>1 DEF Increasing, ToSet

(* A single video. *)
LEMMA VideoAsAsked ==
  ASSUME NEW doc, Printed(doc), doc.kind = "value", NEW max \in Nat \ {0},
         NEW answer, answer = ParsePlaylistTracks(doc, {"request"}, max)
  PROVE  AsAsked(doc, max, answer)
<1>1. /\ Len(doc.items) = 1 /\ DOMAIN doc.items = {1}
      /\ doc.items[1] \in PrintedEntries /\ doc.items[1] # Null
  BY LenProperties, ElementOfSeq DEF Printed
<1>2. PICK s : s = Present(doc)
  OBVIOUS
<1>3. s = InOrder({1})
  <2>1. {i \in DOMAIN doc.items : doc.items[i] # Null} = {1}
    BY <1>1
  <2> QED BY <1>2, <2>1 DEF Present
<1>4. s # << >> /\ Head(s) = 1
  <2>1. s \in Seq({1}) /\ DOMAIN s = 1 .. Len(s) /\ ToSet(s) = {1} /\ Len(s) \in Nat
    <3>1. {1} \in SUBSET (1 .. 1) /\ 1 \in Nat
      OBVIOUS
    <3> QED BY <1>3, <3>1, InOrderIs, LenProperties
  <2>2. PICK k \in 1 .. Len(s) : s[k] = 1
    BY <2>1 DEF ToSet
  <2>3. s # << >> /\ 1 \in 1 .. Len(s)
    BY <2>1, <2>2
  <2> QED BY <2>1, <2>3, ElementOfSeq
<1>5. answer = ParseResolvedValue(doc, 1, {"request"})
  <2>1. ParsePlaylistTracks(doc, {"request"}, max) = ParseResolvedTrack(doc, {"request"})
    BY DEF ParsePlaylistTracks
  <2> QED BY <1>2, <1>4, <2>1 DEF ParseResolvedTrack
<1>6. /\ (answer.error = "none") <=> "title" \in doc.items[1]
      /\ answer.error = "none" =>
           \E track : answer.tracks = << track >> /\ track.entry = 1
      /\ answer.error # "none" => answer.tracks = << >>
  <2>1. {"request"} \in {{}, {"request"}} /\ {"request"} # {}
    OBVIOUS
  <2> QED BY <1>1, <1>5, <2>1, ValueParsed
<1>7. Usable(doc) = IF "title" \in doc.items[1] THEN {1} ELSE {}
  BY <1>1 DEF Usable
<1>8. Cardinality({j \in 1 .. 1 - 1 : doc.items[j] # Null}) = 0
  <2>1. {j \in 1 .. 1 - 1 : doc.items[j] # Null} = {}
    OBVIOUS
  <2> QED BY <2>1, FS_EmptySet
<1>9. Owed(doc, max) = IF "title" \in doc.items[1] THEN {1} ELSE {}
  BY <1>7, <1>8 DEF Owed
<1>10. CASE answer.error = "none"
  <2>1. Entries(answer) = << 1 >>
    BY <1>6, <1>10 DEF Entries
  <2>2. Len(<< 1 >>) = 1 /\ ToSet(<< 1 >>) = {1} /\ Increasing(<< 1 >>) /\ << 1 >> # << >>
    BY DEF ToSet, Increasing
  <2>3. Owed(doc, max) = {1} /\ 1 <= max
    BY <1>6, <1>9, <1>10
  <2> QED BY <1>10, <2>1, <2>2, <2>3 DEF AsAsked
<1>11. CASE answer.error # "none"
  <2>1. answer.tracks = << >> /\ Owed(doc, max) = {}
    BY <1>6, <1>9, <1>11
  <2>2. 0 <= max
    OBVIOUS
  <2>3. /\ Entries(answer) = << >> /\ Len(Entries(answer)) = 0
        /\ Increasing(Entries(answer)) /\ ToSet(Entries(answer)) = {}
    BY <2>1, NothingTaken
  <2> QED BY <1>11, <2>1, <2>2, <2>3 DEF AsAsked
<1> QED BY <1>10, <1>11

(* Entries, and what is neither. *)
LEMMA EntriesAsAsked ==
  ASSUME NEW doc, Printed(doc), doc.kind # "value", NEW max \in Nat \ {0},
         NEW answer, answer = ParsePlaylistTracks(doc, {"request"}, max)
  PROVE  AsAsked(doc, max, answer)
<1>1. PICK n \in Nat : /\ n = Len(doc.items) /\ DOMAIN doc.items = 1 .. n
                       /\ \A i \in 1 .. n : doc.items[i] \in PrintedEntries
  BY LenProperties, ElementOfSeq DEF Printed
<1> DEFINE parsed == [i \in DOMAIN doc.items |-> ParseResolvedValue(doc, i, {})]
           S == There(doc)
           considered == Considered(doc, max)
           C == ToSet(considered)
           G == {i \in C : parsed[i].error = "none"}
           good == InOrder(G)
<1>2. S \in SUBSET (1 .. n)
  BY <1>1 DEF There
<1>3. /\ C = {i \in S : Cardinality({j \in S : j < i}) < max}
      /\ considered \in Seq(S)
  <2>1. considered = Take(InOrder(S), max)
    BY DEF Considered, Present, There
  <2> HIDE DEF S
  <2>2. max \in Nat
    OBVIOUS
  <2>3. /\ ToSet(Take(InOrder(S), max)) =
              {i \in S : Cardinality({j \in S : j < i}) < max}
        /\ Take(InOrder(S), max) \in Seq(S)
    BY <1>2, <2>2, TakeIs
  <2> QED BY <2>1, <2>3
<1>4. ASSUME NEW i \in 1 .. n
      PROVE  {j \in S : j < i} = {j \in 1 .. i - 1 : doc.items[j] # Null}
  BY <1>1 DEF There
<1>5. ASSUME NEW i \in 1 .. n
      PROVE  /\ (parsed[i].error = "none") <=> i \in Usable(doc)
             /\ parsed[i].error = "none" =>
                  \E track : parsed[i].tracks = << track >> /\ track.entry = i
             /\ parsed[i].error # "none" => parsed[i].tracks = << >>
  <2>1. PICK p : p = ParseResolvedValue(doc, i, {})
    OBVIOUS
  <2>2. parsed[i] = p
    BY <1>1, <2>1
  <2>3. {} \in {{}, {"request"}}
    OBVIOUS
  <2>4. /\ (p.error = "none") <=> ("title" \in doc.items[i]
                                    /\ ({} # {} \/ doc.items[i] \ {"title"} # {}))
        /\ p.error = "none" => \E track : p.tracks = << track >> /\ track.entry = i
        /\ p.error # "none" => p.tracks = << >>
    BY <1>1, <2>1, <2>3, ValueParsed
  <2>5. i \in Usable(doc) <=> ("title" \in doc.items[i] /\ doc.items[i] \ {"title"} # {})
    BY <1>1 DEF Usable
  <2> QED BY <2>2, <2>4, <2>5
<1>6. /\ good # << >> =>
           answer = Resolved([k \in DOMAIN good |-> parsed[good[k]].tracks[1]])
      /\ good = << >> => answer = IF considered = << >> THEN Failed("NoResults")
                                 ELSE parsed[Head(considered)]
  <2>1. ASSUME good # << >>
        PROVE  answer = Resolved([k \in DOMAIN good |-> parsed[good[k]].tracks[1]])
    BY <2>1, Zenon DEF ParsePlaylistTracks
  <2>2. ASSUME good = << >>
        PROVE  answer = IF considered = << >> THEN Failed("NoResults")
                        ELSE parsed[Head(considered)]
    BY <2>2, Zenon DEF ParsePlaylistTracks
  <2> HIDE DEF parsed, considered, G, good
  <2> QED BY <2>1, <2>2
<1>7. ASSUME NEW i \in Usable(doc) PROVE i \in S
  <2>1. "title" \notin Null
    BY DEF Null
  <2> QED BY <2>1 DEF Usable, There
<1>8. Usable(doc) \subseteq 1 .. n
  BY <1>1 DEF Usable
<1> HIDE DEF S, parsed, considered
<1>9. G = Owed(doc, max)
  <2>1. ASSUME NEW i \in 1 .. n
        PROVE  i \in G <=> i \in Usable(doc)
                 /\ Cardinality({j \in 1 .. i - 1 : doc.items[j] # Null}) < max
    BY <1>3, <1>4, <1>5, <1>7
  <2>2. G \subseteq 1 .. n
    BY <1>2, <1>3
  <2> HIDE DEF G, C
  <2> QED BY <1>8, <2>1, <2>2 DEF Owed
<1>10. G \in SUBSET (1 .. n) /\ G \subseteq S
  BY <1>2, <1>3
<1> HIDE DEF C, G, good
<1>11. /\ good \in Seq(G) /\ DOMAIN good = 1 .. Len(good) /\ Len(good) \in Nat
       /\ Increasing(good) /\ ToSet(good) = G
  BY <1>10, InOrderIs, LenProperties DEF good
<1>12. Len(good) <= max
  <2>1. CASE Len(good) = 0
    BY <2>1
  <2>2. CASE Len(good) # 0
    <3>1. PICK k \in 1 .. Len(good) : k = Len(good)
      <4>1. Len(good) \in 1 .. Len(good)
        BY <1>11, <2>2
      <4> QED BY <4>1
    <3>2. PICK i \in G : i = good[k]
      BY <1>11, ElementOfSeq
    <3>3. PICK T : T = {j \in G : j < good[k]}
      OBVIOUS
    <3>4. PICK B : B = {j \in 1 .. i - 1 : doc.items[j] # Null}
      OBVIOUS
    <3>5. i \in 1 .. n
      BY <1>10
    <3>6. Cardinality(B) < max
      BY <1>9, <3>4 DEF Owed
    <3>7. T \subseteq B
      BY <1>4, <1>10, <3>2, <3>3, <3>4, <3>5
    <3>8. IsFiniteSet(B) /\ Cardinality(B) \in Nat
      <4>1. IsFiniteSet(1 .. i - 1)
        BY <3>5, FS_Interval
      <4>2. IsFiniteSet(B)
        BY <3>4, <4>1, FS_Subset
      <4> QED BY <4>2, FS_CardinalityType
    <3>9. Cardinality(T) <= Cardinality(B)
      BY <3>7, <3>8, FS_Subset
    <3>10. Cardinality(T) = k - 1
      <4>1. G \in SUBSET Nat /\ IsFiniteSet(G)
        BY <1>10, SomePlaces
      <4> QED BY <1>11, <3>3, <4>1, PlacesBefore
    <3> QED BY <1>11, <3>1, <3>6, <3>8, <3>9, <3>10
  <2> QED BY <2>1, <2>2
<1>13. CASE good # << >>
  <2> DEFINE tracks == [k \in DOMAIN good |-> parsed[good[k]].tracks[1]]
  <2>1. answer.error = "none" /\ answer.tracks = tracks
    BY <1>6, <1>13 DEF Resolved
  <2>2. ASSUME NEW k \in 1 .. Len(good) PROVE tracks[k].entry = good[k]
    <3>1. PICK i \in 1 .. n : i = good[k] /\ i \in G
      BY <1>10, <1>11, ElementOfSeq
    <3>2. parsed[i].error = "none"
      BY <3>1 DEF G
    <3>3. PICK track : parsed[i].tracks = << track >> /\ track.entry = i
      BY <1>5, <3>2
    <3>4. parsed[i].tracks[1] = track
      BY <3>3
    <3>5. tracks[k] = track
      BY <1>11, <3>1, <3>4
    <3> HIDE DEF tracks
    <3> QED BY <3>1, <3>3, <3>5
  <2>3. DOMAIN tracks = 1 .. Len(good)
    BY <1>11
  <2> HIDE DEF tracks
  <2>4. Entries(answer) = [k \in 1 .. Len(good) |-> good[k]]
    BY <2>1, <2>2, <2>3 DEF Entries
  <2>5. Entries(answer) = good
    BY <1>11, <2>4
  <2> QED BY <1>9, <1>11, <1>12, <1>13, <2>1, <2>5 DEF AsAsked
<1>14. CASE good = << >>
  <2>1. G = {}
    BY <1>11, <1>14 DEF ToSet
  <2>2. answer.error # "none" /\ answer.tracks = << >>
    <3>1. CASE considered = << >>
      BY <1>6, <1>14, <3>1 DEF Failed
    <3>2. CASE considered # << >>
      <4>1. Head(considered) \in C
        <5>1. 1 \in DOMAIN considered /\ Head(considered) = considered[1]
          BY <1>3, <3>2, LenProperties, EmptySeq
        <5> QED BY <5>1 DEF C, ToSet
      <4>2. PICK i \in 1 .. n : i = Head(considered) /\ i \in C
        BY <1>2, <1>3, <4>1
      <4>3. parsed[i].error # "none"
        BY <2>1, <4>2 DEF G
      <4> QED BY <1>5, <1>6, <1>14, <3>2, <4>2, <4>3
    <3> QED BY <3>1, <3>2
  <2>3. 0 <= max
    OBVIOUS
  <2>4. /\ Entries(answer) = << >> /\ Len(Entries(answer)) = 0
        /\ Increasing(Entries(answer)) /\ ToSet(Entries(answer)) = {}
    BY <2>2, NothingTaken
  <2> QED BY <1>9, <2>1, <2>2, <2>3, <2>4 DEF AsAsked
<1> QED BY <1>13, <1>14

(* Until it is resolved, the document is one that yt-dlp prints, and the   *)
(* limit one that is not refused.                                          *)
Resolving ==
  /\ at # "none" => limit \in Nat \ {0} /\ Printed(document)
  /\ at = "resolved" => AsAsked(document, limit, result)

LEMMA DocumentsPrinted ==
  ASSUME NEW doc \in Documents({<< >>})
  PROVE  Printed(doc)
<1>1. CASE doc \in [kind : {"value"}, items : [1 .. 1 -> PrintedEntries \ {Null}]]
  <2>1. PICK items \in [1 .. 1 -> PrintedEntries \ {Null}] :
          doc = [kind |-> "value", items |-> items]
    BY <1>1
  <2>2. PICK value \in PrintedEntries \ {Null} : items = << value >>
    <3>1. items[1] \in PrintedEntries \ {Null} /\ items = << items[1] >>
      OBVIOUS
    <3> QED BY <3>1
  <2>3. items \in Seq(PrintedEntries) /\ Len(items) = 1 /\ items[1] # Null
    BY <2>2
  <2> QED BY <2>1, <2>3 DEF Printed
<1>2. CASE doc \in [kind : {"entries", "malformed"}, items : {<< >>}]
  <2>1. << >> \in Seq(PrintedEntries)
    OBVIOUS
  <2> QED BY <1>2, <2>1 DEF Printed
<1>3. \/ doc \in [kind : {"value"}, items : [1 .. 1 -> PrintedEntries \ {Null}]]
      \/ doc \in [kind : {"entries", "malformed"}, items : {<< >>}]
  BY DEF Documents
<1> QED BY <1>1, <1>2, <1>3

LEMMA ResolvingKept == Resolving /\ [Next]_vars => Resolving'
<1> SUFFICES ASSUME Resolving, [Next]_vars PROVE Resolving'
  OBVIOUS
<1>1. CASE TypeField \/ Seek \/ UNCHANGED vars
  <2>1. UNCHANGED << at, limit, document, result >>
    BY <1>1 DEF TypeField, Seek, vars, playlist
  <2> QED BY <2>1 DEF Resolving
<1>2. CASE Ask
  <2>1. at' = "printing" /\ document' \in Documents({<< >>})
    BY <1>2 DEF Ask
  <2>2. PICK doc : doc = document'
    OBVIOUS
  <2>3. Printed(doc)
    BY <2>1, <2>2, DocumentsPrinted
  <2>4. limit' \in Nat \ {0}
    BY <1>2, PlaylistAssumption DEF Ask, PlaylistLimit
  <2> QED BY <2>1, <2>2, <2>3, <2>4 DEF Resolving
<1>3. CASE PrintEntry
  <2>1. PICK doc : doc = document'
    OBVIOUS
  <2>2. PICK entry \in PrintedEntries :
          /\ at = "printing" /\ UNCHANGED << at, limit >>
          /\ document.kind = "entries"
          /\ doc = [document EXCEPT !.items = Append(@, entry)]
    BY <1>3, <2>1 DEF PrintEntry
  <2>3. PICK items \in Seq(PrintedEntries) :
          document = [kind |-> "entries", items |-> items]
    BY <2>2 DEF Resolving, Printed
  <2>4. doc = [kind |-> "entries", items |-> Append(items, entry)]
    BY <2>3, <2>2
  <2>5. Append(items, entry) \in Seq(PrintedEntries)
    BY AppendProperties
  <2>6. Printed(doc)
    BY <2>4, <2>5 DEF Printed
  <2> QED BY <2>1, <2>6, <2>2 DEF Resolving
<1>4. CASE Parse
  <2>1. PICK doc, max, answer : doc = document /\ max = limit /\ answer = result'
    OBVIOUS
  <2>2. /\ at = "printing" /\ at' = "resolved" /\ UNCHANGED << limit, document >>
        /\ answer = ParsePlaylistTracks(doc, {"request"}, max)
    BY <1>4, <2>1 DEF Parse
  <2>3. Printed(doc) /\ max \in Nat \ {0}
    BY <2>1, <2>2 DEF Resolving
  <2>4. AsAsked(doc, max, answer)
    BY <2>2, <2>3, VideoAsAsked, EntriesAsAsked
  <2> QED BY <2>1, <2>2, <2>3, <2>4 DEF Resolving
<1>5. CASE Conclude
  BY <1>5 DEF Conclude, Resolving
<1> QED BY <1>1, <1>2, <1>3, <1>4, <1>5 DEF Next

(* /playlist queues the usable entries that the limit leaves room for, in  *)
(* their order, whatever yt-dlp prints and whatever the limits are: take   *)
(* and filter_map of parse_playlist_tracks lose none and add none.         *)
THEOREM QueuesAsAsked == Spec => []PlaylistAsAsked
<1>1. Init => Resolving
  BY DEF Init, Resolving
<1>2. Resolving => PlaylistAsAsked
  BY DEF Resolving, AsAsked, PlaylistAsAsked, Entries, Usable, Owed, Increasing
<1> QED BY <1>1, <1>2, ResolvingKept, PTL DEF Spec
==============================================================================
