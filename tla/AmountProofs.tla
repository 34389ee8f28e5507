---------------------------- MODULE AmountProofs ----------------------------
(***************************************************************************)
(* What TLAPS proves about amounts, for integers of any width, and about   *)
(* sums over any finite number of them.                                    *)
(***************************************************************************)
EXTENDS Amount, Functions, FiniteSetTheorems, WellFoundedInduction, TLAPS

LEMMA WrapInside ==
  ASSUME NEW n \in Int64
  PROVE  Wrap(n) = n
<1>1. n + MaxInt + 1 \in 0 .. 2 * MaxInt + 1
  BY AmountAssumption DEF Int64
<1>2. \A m \in Nat \ {0} : \A k \in Int : 0 <= k /\ k < m => k % m = k
  OBVIOUS
<1>3. (n + MaxInt + 1) % (2 * MaxInt + 2) = n + MaxInt + 1
  BY <1>1, <1>2, AmountAssumption
<1> QED
  BY <1>1, <1>3, AmountAssumption DEF Wrap, Int64

LEMMA WrapType ==
  ASSUME NEW n \in Int
  PROVE  Wrap(n) \in Int64
<1>1. \A m \in Nat \ {0} : \A k \in Int : k % m \in 0 .. m - 1
  OBVIOUS
<1>2. (n + MaxInt + 1) % (2 * MaxInt + 2) \in 0 .. 2 * MaxInt + 1
  BY <1>1, AmountAssumption
<1> QED
  BY <1>2, AmountAssumption DEF Wrap, Int64

(* An overflow at the upper end makes a number smaller.                    *)
LEMMA WrapBelow ==
  ASSUME NEW n \in Int, n >= -MaxInt - 1
  PROVE  Wrap(n) <= n
<1>1. CASE n <= MaxInt
  <2>1. n \in Int64
    BY <1>1, AmountAssumption DEF Int64
  <2> QED
    BY <2>1, WrapInside
<1>2. CASE n > MaxInt
  <2>1. Wrap(n) \in Int /\ Wrap(n) <= MaxInt
    BY WrapType, AmountAssumption DEF Int64
  <2> QED
    BY <1>2, <2>1, AmountAssumption
<1> QED
  BY <1>1, <1>2, AmountAssumption

LEMMA QuoRem ==
  ASSUME NEW n \in Int
  PROVE  /\ Quo(n) \in Int /\ Rem(n) \in Int
         /\ n = KopInRub * Quo(n) + Rem(n)
         /\ n >= 0 => Quo(n) >= 0 /\ Quo(n) <= n /\ Rem(n) >= 0 /\ Rem(n) < KopInRub
         /\ n < 0 => Quo(n) <= 0 /\ Quo(n) >= n /\ Rem(n) <= 0 /\ Rem(n) > -KopInRub
  BY DEF Quo, Rem, KopInRub

LEMMA QuoInside ==
  ASSUME NEW n \in Int64
  PROVE  Quo(n) \in Int64
  BY QuoRem, AmountAssumption DEF Int64

(* A number that a JSON request can hold without sign, exponent and        *)
(* precision beyond kopecks is read as what it means (amount.go:36-68).    *)
THEOREM ReadExactly ==
  ASSUME NEW l \in Literal, WellFormed(l), Fits(l)
  PROVE  Readable(l) /\ TotalKopecks(FromString(l)) = Meaning(l)
<1> DEFINE k == IF l.digits = 1 THEN 10 * l.fraction ELSE l.fraction
<1>1. /\ l.roubles \in Nat /\ l.digits \in {0, 1, 2} /\ ~l.negative
      /\ k \in 0 .. 99
      /\ Meaning(l) = KopInRub * l.roubles + k
      /\ FromString(l) = NewAmount(l.roubles, k)
      /\ Meaning(l) <= MaxInt
  BY DEF Literal, WellFormed, Fits, Meaning, FromString, SignedRoubles
<1> HIDE DEF k
<1>2. Quo(k) = 0 /\ Rem(k) = k
  BY <1>1 DEF Quo, Rem, KopInRub
<1>3. l.roubles \in Int64 /\ Meaning(l) \in Int64
  BY <1>1, AmountAssumption DEF Int64, KopInRub
<1>4. FromString(l) = [roubles |-> l.roubles, kopeck |-> k]
  BY <1>1, <1>2, <1>3, WrapInside DEF NewAmount
<1>5. TotalKopecks(FromString(l)) = Wrap(Meaning(l))
  BY <1>1, <1>4 DEF TotalKopecks
<1>6. Readable(l)
  BY <1>1, <1>3 DEF Readable, SignedRoubles
<1> QED
  BY <1>3, <1>5, <1>6, WrapInside

(* Whatever is read, an int64 holds what is left of it.                    *)
LEMMA ReadType ==
  ASSUME NEW l \in Literal
  PROVE  TotalKopecks(FromString(l)) \in Int64
<1>1. SignedRoubles(l) \in Int /\ l.fraction \in Int /\ 10 * l.fraction \in Int
  BY DEF Literal, SignedRoubles
<1>2. \A k \in Int :
        /\ NewAmount(SignedRoubles(l), k).roubles \in Int
        /\ NewAmount(SignedRoubles(l), k).kopeck \in Int
  BY <1>1, QuoRem, WrapType, AmountAssumption DEF NewAmount, Int64
<1>3. FromString(l).roubles \in Int /\ FromString(l).kopeck \in Int
  BY <1>1, <1>2 DEF FromString
<1>4. KopInRub * FromString(l).roubles + FromString(l).kopeck \in Int
  BY <1>3 DEF KopInRub
<1> QED
  BY <1>4, WrapType DEF TotalKopecks

(* The way from the database to kopecks loses nothing, whatever the sign   *)
(* (amount.go:82-93).                                                      *)
THEOREM StoredExactly ==
  ASSUME NEW n \in Int64
  PROVE  TotalKopecks(FromPGNumeric(n)) = n
<1>1. n \in Int
  BY AmountAssumption DEF Int64
<1>2. FromPGNumeric(n) = [roubles |-> Quo(n), kopeck |-> Rem(n)]
  BY WrapInside DEF FromPGNumeric
<1>3. TotalKopecks(FromPGNumeric(n)) = Wrap(n)
  BY <1>1, <1>2, QuoRem DEF TotalKopecks
<1> QED
  BY <1>3, WrapInside

(* A difference that is not negative is printed by GetBalance as a JSON    *)
(* number that means it (amount.go:27-32, order_repo.go:231).              *)
THEOREM PrintedExactly ==
  ASSUME NEW n \in Int64, n >= 0
  PROVE  LET a == NewAmount(0, n) IN
           IsJSONNumber(a) /\ String(a) \in Literal /\ WellFormed(String(a)) /\ Meaning(String(a)) = n
<1>1. n \in Int
  BY AmountAssumption DEF Int64
<1>2. Wrap(0 + Quo(n)) = Quo(n)
  BY <1>1, QuoInside, QuoRem, WrapInside
<1> DEFINE a == NewAmount(0, n)
<1>3. a.roubles = Quo(n) /\ a.kopeck = Rem(n)
  BY <1>2 DEF NewAmount
<1> HIDE DEF a
<1>4. Quo(n) \in Nat /\ Rem(n) \in 0 .. 99 /\ n = KopInRub * Quo(n) + Rem(n)
  <2>1. /\ Quo(n) \in Int /\ Rem(n) \in Int /\ n = KopInRub * Quo(n) + Rem(n)
        /\ Quo(n) >= 0 /\ Rem(n) >= 0 /\ Rem(n) < KopInRub
    BY <1>1, QuoRem
  <2> QED
    BY <2>1 DEF KopInRub
<1>5. IsJSONNumber(a)
  BY <1>3, <1>4 DEF IsJSONNumber
<1>6. String(a) = [negative |-> FALSE, roubles |-> Quo(n),
                   digits |-> IF Rem(n) = 0 THEN 0 ELSE 2, fraction |-> Rem(n)]
  <2>1. (a.roubles < 0) = FALSE
    BY <1>3, <1>4
  <2>2. (IF a.roubles < 0 THEN -a.roubles ELSE a.roubles) = Quo(n)
    BY <1>3, <2>1
  <2> QED
    BY <1>3, <2>1, <2>2 DEF String
<1>7. String(a) \in Literal
  <2>1. \A b \in BOOLEAN : \A r, d, f \in Nat :
          [negative |-> b, roubles |-> r, digits |-> d, fraction |-> f] \in Literal
    BY DEF Literal
  <2>2. (IF Rem(n) = 0 THEN 0 ELSE 2) \in Nat /\ Rem(n) \in Nat /\ Quo(n) \in Nat
    BY <1>4
  <2> HIDE DEF Literal
  <2> QED
    BY <1>6, <2>1, <2>2
<1>8. WellFormed(String(a))
  <2>1. /\ String(a).digits = (IF Rem(n) = 0 THEN 0 ELSE 2)
        /\ String(a).fraction = Rem(n)
    BY <1>6
  <2> QED
    BY <1>4, <2>1 DEF WellFormed
<1>9. Meaning(String(a)) = n
  <2>1. /\ String(a).digits # 1 /\ ~String(a).negative
        /\ String(a).fraction = Rem(n) /\ String(a).roubles = Quo(n)
    BY <1>6
  <2> QED
    BY <1>4, <2>1 DEF Meaning, KopInRub
<1> QED
  BY <1>5, <1>7, <1>8, <1>9 DEF a

(* A negative one with kopecks is printed as none, so that GetBalance      *)
(* answers it with 500 (amount.go:31, handlers.go:384-396).                *)
THEOREM NotPrinted ==
  ASSUME NEW n \in Int64, n < 0, Rem(n) # 0
  PROVE  ~IsJSONNumber(NewAmount(0, n))
<1>1. n \in Int
  BY AmountAssumption DEF Int64
<1>2. Rem(n) < 0
  <2>1. Rem(n) \in Int /\ Rem(n) <= 0
    BY <1>1, QuoRem
  <2> QED
    BY <2>1
<1>3. Rem(n) \in Int /\ NewAmount(0, n).kopeck = Rem(n)
  BY <1>1, QuoRem DEF NewAmount
<1> QED
  BY <1>2, <1>3 DEF IsJSONNumber

-----------------------------------------------------------------------------
(* Sums over finite sets, as SELECT sum(...) computes them.  The fold of   *)
(* the community modules is a recursive function on subsets: that there is *)
(* one, that it depends on no order, and what one element more changes.    *)

(* Among finitely many sets there is a smallest one.                       *)
LEMMA SmallestSet ==
  ASSUME NEW S, IsFiniteSet(S), NEW B, B \subseteq SUBSET S, B # {}
  PROVE  \E T \in B : \A U \in B : ~(U \subseteq T /\ U # T)
<1>1. B \subseteq FiniteSubsetsOf(S)
  BY FS_Subset DEF FiniteSubsetsOf
<1>2. PICK T \in B : \A U \in B : <<U, T>> \notin StrictSubsetOrdering(S)
  BY <1>1, FS_StrictSubsetOrderingWellFounded, WFMin, Zenon
<1> QED
  BY <1>2 DEF StrictSubsetOrdering

Pick(T) == CHOOSE x \in T : TRUE

(* g[T] is the sum of f over T, for every subset T of S.                   *)
Sums(g, f, S) ==
  g = [T \in SUBSET S |-> IF T = {} THEN 0 ELSE f[Pick(T)] + g[T \ {Pick(T)}]]

LEMMA SumsAgree ==
  ASSUME NEW f, NEW S, NEW T, NEW g, NEW h, Sums(g, f, S), Sums(h, f, T),
         NEW U, IsFiniteSet(U), U \subseteq S, U \subseteq T
  PROVE  g[U] = h[U]
<1> DEFINE B == {V \in SUBSET U : g[V] # h[V]}
<1> SUFFICES ASSUME B # {} PROVE FALSE
  OBVIOUS
<1>1. PICK V \in B : \A W \in B : ~(W \subseteq V /\ W # V)
  <2>1. B \subseteq SUBSET U
    OBVIOUS
  <2> HIDE DEF B
  <2> QED
    BY <2>1, SmallestSet
<1>2. V # {}
  BY DEF Sums
<1>3. Pick(V) \in V
  BY <1>2 DEF Pick
<1>4. g[V \ {Pick(V)}] = h[V \ {Pick(V)}]
  BY <1>1, <1>3
<1> QED
  BY <1>2, <1>4 DEF Sums

LEMMA SumsExist ==
  ASSUME NEW f, NEW S, IsFiniteSet(S)
  PROVE  \E g : Sums(g, f, S)
<1> DEFINE B == {T \in SUBSET S : ~ \E g : Sums(g, f, T)}
<1> SUFFICES ASSUME B # {} PROVE FALSE
  OBVIOUS
<1>1. PICK T \in B : \A U \in B : ~(U \subseteq T /\ U # T)
  <2>1. B \subseteq SUBSET S
    OBVIOUS
  <2> HIDE DEF B
  <2> QED
    BY <2>1, SmallestSet
<1>2. \A U \in SUBSET T : U # T => \E g : Sums(g, f, U)
  BY <1>1
<1> DEFINE Of(U) == (CHOOSE g : Sums(g, f, U))[U]
           g == [U \in SUBSET T |->
                   IF U = {} THEN 0 ELSE f[Pick(U)] + Of(U \ {Pick(U)})]
<1>3. \A U \in SUBSET T : U # T => Sums(CHOOSE h : Sums(h, f, U), f, U)
  BY <1>2
<1>4. ASSUME NEW U \in SUBSET T, U # {} PROVE g[U \ {Pick(U)}] = Of(U \ {Pick(U)})
  <2> DEFINE V == U \ {Pick(U)}
  <2>1. V # T /\ V \in SUBSET T
    BY <1>4 DEF Pick
  <2>2. CASE V = {}
    <3> DEFINE h == CHOOSE h : Sums(h, f, V)
    <3>1. Sums(h, f, V)
      BY <1>3, <2>1
    <3> HIDE DEF h
    <3>2. h[V] = 0
      BY <2>2, <3>1 DEF Sums
    <3>3. g[V] = 0
      BY <2>1, <2>2
    <3> QED
      BY <3>2, <3>3 DEF h
  <2>3. CASE V # {}
    <3> DEFINE h == CHOOSE h : Sums(h, f, V)
               W == V \ {Pick(V)}
               i == CHOOSE i : Sums(i, f, W)
    <3>1. Sums(h, f, V) /\ Sums(i, f, W)
      <4>1. W # T /\ W \in SUBSET T
        BY <2>1, <2>3 DEF Pick
      <4> QED
        BY <1>3, <2>1, <4>1
    <3>2. h[W] = i[W]
      <4>1. IsFiniteSet(W)
        BY FS_Subset
      <4> QED
        BY <3>1, <4>1, SumsAgree
    <3>3. h[V] = f[Pick(V)] + h[W]
      BY <2>3, <3>1 DEF Sums
    <3>4. g[V] = f[Pick(V)] + i[W]
      BY <2>1, <2>3
    <3> QED
      BY <3>2, <3>3, <3>4
  <2> QED
    BY <2>2, <2>3
<1>5. Sums(g, f, T)
  <2>1. \A U \in SUBSET T :
          g[U] = IF U = {} THEN 0 ELSE f[Pick(U)] + g[U \ {Pick(U)}]
    <3> TAKE U \in SUBSET T
    <3> HIDE DEF Of
    <3>1. g[U] = IF U = {} THEN 0 ELSE f[Pick(U)] + Of(U \ {Pick(U)})
      OBVIOUS
    <3> QED
      BY <1>4, <3>1
  <2>2. g = [U \in SUBSET T |-> g[U]]
    OBVIOUS
  <2> HIDE DEF g
  <2> QED
    BY <2>1, <2>2 DEF Sums
<1> QED
  BY <1>5

(* The fold of the community module is such a function.                    *)
LEMMA SumsFold ==
  ASSUME NEW f, NEW S, IsFiniteSet(S)
  PROVE  \E g : Sums(g, f, S) /\ SumFunctionOnSet(f, S) = g[S]
<1> DEFINE g == CHOOSE g : Sums(g, f, S)
<1>1. SumFunctionOnSet(f, S) = g[S]
  BY DEF SumFunctionOnSet, FoldFunctionOnSet, MapThenFoldSet, Sums, Pick
<1> QED
  BY <1>1, SumsExist

LEMMA SumOfNone ==
  ASSUME NEW f
  PROVE  SumFunctionOnSet(f, {}) = 0
<1>1. PICK g : Sums(g, f, {}) /\ SumFunctionOnSet(f, {}) = g[{}]
  BY SumsFold, FS_EmptySet
<1> QED
  BY <1>1 DEF Sums

LEMMA SumPick ==
  ASSUME NEW f, NEW S, IsFiniteSet(S), S # {}
  PROVE  /\ Pick(S) \in S
         /\ SumFunctionOnSet(f, S) = f[Pick(S)] + SumFunctionOnSet(f, S \ {Pick(S)})
<1> DEFINE T == S \ {Pick(S)}
<1>1. Pick(S) \in S
  BY DEF Pick
<1>2. IsFiniteSet(T)
  BY FS_Subset
<1>3. PICK g : Sums(g, f, S) /\ SumFunctionOnSet(f, S) = g[S]
  BY SumsFold
<1>4. PICK h : Sums(h, f, T) /\ SumFunctionOnSet(f, T) = h[T]
  BY <1>2, SumsFold
<1>5. g[T] = h[T]
  BY <1>2, <1>3, <1>4, SumsAgree
<1>6. g[S] = f[Pick(S)] + g[T]
  BY <1>3 DEF Sums
<1> QED
  BY <1>1, <1>3, <1>4, <1>5, <1>6

(* What holds of no elements, and of a set if it holds without the picked  *)
(* element, holds of every finite set; G stands for what holds.            *)
LEMMA PickInduction ==
  ASSUME NEW S, IsFiniteSet(S), NEW G, {} \in G,
         \A T \in SUBSET S : IsFiniteSet(T) /\ T # {} /\ T \ {Pick(T)} \in G => T \in G
  PROVE  S \in G
<1> DEFINE B == (SUBSET S) \ G
<1> SUFFICES ASSUME B # {} PROVE FALSE
  OBVIOUS
<1>1. PICK T \in B : \A U \in B : ~(U \subseteq T /\ U # T)
  <2>1. B \subseteq SUBSET S
    OBVIOUS
  <2> HIDE DEF B
  <2> QED
    BY <2>1, SmallestSet
<1>2. T # {} /\ T \in SUBSET S /\ T \notin G
  OBVIOUS
<1>3. IsFiniteSet(T)
  BY <1>2, FS_Subset
<1>4. Pick(T) \in T
  BY <1>2 DEF Pick
<1>5. T \ {Pick(T)} \in G
  BY <1>1, <1>2, <1>4
<1> QED
  BY <1>2, <1>3, <1>5

LEMMA SumType ==
  ASSUME NEW f, NEW S, IsFiniteSet(S), \A x \in S : f[x] \in Nat
  PROVE  SumFunctionOnSet(f, S) \in Nat
<1> DEFINE G == {T \in SUBSET S : SumFunctionOnSet(f, T) \in Nat}
<1>1. {} \in G
  BY SumOfNone
<1>2. ASSUME NEW T \in SUBSET S, IsFiniteSet(T), T # {}, T \ {Pick(T)} \in G
      PROVE  T \in G
  BY <1>2, SumPick
<1> HIDE DEF G
<1>3. S \in G
  BY <1>1, <1>2, PickInduction
<1> QED
  BY <1>3 DEF G

(* Any element may be taken out first.                                     *)
LEMMA SumWithout ==
  ASSUME NEW f, NEW S, IsFiniteSet(S), \A x \in S : f[x] \in Nat, NEW e \in S
  PROVE  SumFunctionOnSet(f, S) = f[e] + SumFunctionOnSet(f, S \ {e})
<1> DEFINE Sm(T) == SumFunctionOnSet(f, T)
           Taken(T, x) == Sm(T) = f[x] + Sm(T \ {x})
           B == {T \in SUBSET S : \E x \in T : ~Taken(T, x)}
<1> SUFFICES ASSUME B # {} PROVE FALSE
  OBVIOUS
<1>1. PICK T \in B : \A U \in B : ~(U \subseteq T /\ U # T)
  <2>1. B \subseteq SUBSET S
    OBVIOUS
  <2> HIDE DEF B
  <2> QED
    BY <2>1, SmallestSet
<1>2. PICK x \in T : ~Taken(T, x)
  BY <1>1
<1> DEFINE p == Pick(T)
<1>3. IsFiniteSet(T) /\ T # {}
  BY <1>2, FS_Subset
<1>4. p \in T /\ Taken(T, p)
  BY <1>3, SumPick
<1>5. p # x
  BY <1>2, <1>4
<1>6. \A U \in SUBSET T : \A y \in U : U # T => Taken(U, y)
  BY <1>1
<1>7. Taken(T \ {p}, x) /\ Taken(T \ {x}, p)
  <2> HIDE DEF p, Taken
  <2> QED
    BY <1>4, <1>5, <1>6
<1>8. (T \ {p}) \ {x} = (T \ {x}) \ {p}
  OBVIOUS
<1>9. Sm((T \ {p}) \ {x}) \in Nat /\ f[p] \in Nat /\ f[x] \in Nat
  <2>1. IsFiniteSet((T \ {p}) \ {x})
    BY <1>3, FS_Subset
  <2> QED
    BY <1>4, <2>1, SumType
<1> HIDE DEF Sm, p
<1> QED
  BY <1>2, <1>4, <1>7, <1>8, <1>9

LEMMA SumSame ==
  ASSUME NEW f, NEW g, NEW S, IsFiniteSet(S), \A x \in S : f[x] = g[x]
  PROVE  SumFunctionOnSet(f, S) = SumFunctionOnSet(g, S)
<1> DEFINE G == {T \in SUBSET S : SumFunctionOnSet(f, T) = SumFunctionOnSet(g, T)}
<1>1. {} \in G
  BY SumOfNone
<1>2. ASSUME NEW T \in SUBSET S, IsFiniteSet(T), T # {}, T \ {Pick(T)} \in G
      PROVE  T \in G
  BY <1>2, SumPick
<1> HIDE DEF G
<1>3. S \in G
  BY <1>1, <1>2, PickInduction
<1> QED
  BY <1>3 DEF G

(* Two sums that differ in one element only.                               *)
LEMMA SumChanges ==
  ASSUME NEW f, NEW S, IsFiniteSet(S), \A x \in S : f[x] \in Nat,
         NEW g, NEW T, IsFiniteSet(T), \A x \in T : g[x] \in Nat,
         NEW e, S \ {e} = T \ {e}, \A x \in S \ {e} : f[x] = g[x]
  PROVE  \E rest \in Nat :
           /\ SumFunctionOnSet(f, S) = rest + IF e \in S THEN f[e] ELSE 0
           /\ SumFunctionOnSet(g, T) = rest + IF e \in T THEN g[e] ELSE 0
<1> DEFINE rest == SumFunctionOnSet(f, S \ {e})
<1>1. IsFiniteSet(S \ {e}) /\ \A x \in S \ {e} : f[x] \in Nat
  BY FS_Subset
<1>2. rest \in Nat
  BY <1>1, SumType
<1>3. SumFunctionOnSet(g, T \ {e}) = rest
  BY <1>1, SumSame
<1>4. SumFunctionOnSet(f, S) = rest + IF e \in S THEN f[e] ELSE 0
  <2>1. CASE e \in S
    BY <1>2, <2>1, SumWithout
  <2>2. CASE e \notin S
    <3>1. S \ {e} = S
      BY <2>2
    <3>2. SumFunctionOnSet(f, S) = rest
      BY <3>1
    <3> QED
      BY <1>2, <2>2, <3>2
  <2> QED
    BY <2>1, <2>2
<1>5. SumFunctionOnSet(g, T) = rest + IF e \in T THEN g[e] ELSE 0
  <2>1. CASE e \in T
    BY <1>2, <1>3, <2>1, SumWithout
  <2>2. CASE e \notin T
    <3>1. T \ {e} = T
      BY <2>2
    <3>2. SumFunctionOnSet(g, T) = rest
      BY <1>3, <3>1
    <3> QED
      BY <1>2, <2>2, <3>2
  <2> QED
    BY <2>1, <2>2
<1> QED
  BY <1>2, <1>4, <1>5

=============================================================================
