------------------------------- MODULE Amount -------------------------------
(***************************************************************************)
(* Sums of money (model/amount.go): what FromString makes of a JSON        *)
(* number, and the ways to PostgreSQL's numeric and back, in the 64-bit    *)
(* integers of Go, whose division truncates.                               *)
(***************************************************************************)
EXTENDS Integers

CONSTANT MaxInt  \* math.MaxInt64

ASSUME AmountAssumption == MaxInt \in Nat /\ MaxInt >= 99

KopInRub == 100

Int64 == -MaxInt - 1 .. MaxInt

(* What is left of an integer in an int64.                                 *)
Wrap(n) == ((n + MaxInt + 1) % (2 * MaxInt + 2)) - MaxInt - 1

(* n / kopInRub and n % kopInRub                                           *)
Quo(n) == IF n >= 0 THEN n \div KopInRub ELSE -((-n) \div KopInRub)

Rem(n) == n - KopInRub * Quo(n)

NewAmount(roubles, kopeck) ==
  [roubles |-> Wrap(roubles + Quo(kopeck)), kopeck |-> Rem(kopeck)]

TotalKopecks(a) == Wrap(KopInRub * a.roubles + a.kopeck)

(* The columns are DECIMAL(12, 2): a numeric is a number of kopecks.       *)
ToPGNumeric(a) == TotalKopecks(a)

FromPGNumeric(n) == [roubles |-> Quo(Wrap(n)), kopeck |-> Rem(Wrap(n))]

-----------------------------------------------------------------------------
(* A JSON number without an exponent, which ParseInt refuses like any      *)
(* other letter: sign, roubles, the number of digits behind the point,     *)
(* and what they say.                                                      *)

Literal == [negative : BOOLEAN, roubles : Nat, digits : Nat, fraction : Nat]

WellFormed(l) ==
  /\ l.digits = 0 => l.fraction = 0
  /\ l.digits = 1 => l.fraction < 10
  /\ l.digits = 2 => l.fraction < 100

SignedRoubles(l) == IF l.negative THEN -l.roubles ELSE l.roubles

Readable(l) == l.digits <= 2 /\ SignedRoubles(l) \in Int64

(* Mutant: "10.1" is read as 10 roubles and 1 kopeck.                      *)
FromStringDigits(l) == NewAmount(SignedRoubles(l), l.fraction)

(* The sign is that of the roubles alone.                                  *)
FromString(l) ==
  NewAmount(SignedRoubles(l), IF l.digits = 1 THEN 10 * l.fraction ELSE l.fraction)

(* strconv and %02d: a negative number of kopecks has its sign behind the  *)
(* point, which is no JSON number.                                         *)
IsJSONNumber(a) == a.kopeck >= 0

String(a) ==
  [negative |-> a.roubles < 0,
   roubles |-> IF a.roubles < 0 THEN -a.roubles ELSE a.roubles,
   digits |-> IF a.kopeck = 0 THEN 0 ELSE 2,
   fraction |-> a.kopeck]

-----------------------------------------------------------------------------
(* What a number of at most two digits behind the point means, in kopecks, *)
(* and whether it is an amount that an int64 of kopecks can hold.          *)

Meaning(l) ==
  LET kopecks == KopInRub * l.roubles + (IF l.digits = 1 THEN 10 * l.fraction ELSE l.fraction)
  IN  IF l.negative THEN -kopecks ELSE kopecks

Fits(l) == ~l.negative /\ l.digits <= 2 /\ Meaning(l) <= MaxInt

=============================================================================
