---------------------------- MODULE ListingProof ----------------------------
(***************************************************************************)
(* For every page size, number of rows, of writers and of removals: the    *)
(* total of a page fits the page, and a walk over the pages misses and     *)
(* repeats no more rows than left and came while it ran.                   *)
(***************************************************************************)
EXTENDS Listing, SequenceTheorems, FiniteSetTheorems, TLAPS

Row == [id : Nat, at : Nat]

---------------------------------------------------------------------------
(* The order of the listing.                                               *)

(* No two rows share their place in the order, and "newer" is a strict     *)
(* order of them.                                                          *)
LEMMA NewerIsOrder ==
    ASSUME NEW a \in Row, NEW b \in Row, NEW c \in Row
    PROVE  /\ ~ Newer(a, a)
           /\ a # b => Newer(a, b) \/ Newer(b, a)
           /\ Newer(a, b) /\ Newer(b, c) => Newer(a, c)
<1>1. a = b <=> a.id = b.id /\ a.at = b.at
  BY DEF Row
<1>2. /\ a.id \in Nat /\ a.at \in Nat /\ b.id \in Nat /\ b.at \in Nat
      /\ c.id \in Nat /\ c.at \in Nat
  BY DEF Row
<1>. QED
  BY <1>1, <1>2 DEF Newer

(* The rows before a row are finitely many. *)
LEMMA PlaceType ==
    ASSUME NEW S, IsFiniteSet(S), NEW x
    PROVE  /\ IsFiniteSet({y \in S : Newer(y, x)})
           /\ Place(x, S) \in Nat
<1>1. {y \in S : Newer(y, x)} \in SUBSET S
  OBVIOUS
<1>. QED
  BY <1>1, FS_Subset, FS_CardinalityType DEF Place

(* A newer row comes before. *)
LEMMA PlaceOrder ==
    ASSUME NEW S \in SUBSET Row, IsFiniteSet(S), NEW x \in S, NEW y \in S,
           Newer(x, y)
    PROVE  Place(x, S) < Place(y, S)
<1>. DEFINE X == {z \in S : Newer(z, x)}
            Y == {z \in S : Newer(z, y)}
<1>1. X \in SUBSET Y
  BY NewerIsOrder
<1>2. x \in Y /\ x \notin X
  BY NewerIsOrder
<1>3. IsFiniteSet(Y) /\ Cardinality(X) \in Nat /\ Cardinality(Y) \in Nat
  BY PlaceType DEF Place
<1>4. Cardinality(X) <= Cardinality(Y) /\ Cardinality(Y) # Cardinality(X)
  BY <1>1, <1>2, <1>3, FS_Subset
<1>. QED
  BY <1>3, <1>4 DEF Place

(* Two rows never share a place, and every row has one. *)
LEMMA PlaceInjective ==
    ASSUME NEW S \in SUBSET Row, IsFiniteSet(S)
    PROVE  /\ [x \in S |-> Place(x, S)] \in Injection(S, 0..(Cardinality(S) - 1))
           /\ \A x, y \in S : Place(x, S) = Place(y, S) => x = y
<1>1. \A x \in S : Place(x, S) \in 0..(Cardinality(S) - 1)
  <2>. SUFFICES ASSUME NEW x \in S
                PROVE  Place(x, S) \in 0..(Cardinality(S) - 1)
    OBVIOUS
  <2>1. {y \in S : Newer(y, x)} \in SUBSET (S \ {x})
    BY NewerIsOrder
  <2>2. IsFiniteSet(S \ {x}) /\ Cardinality(S \ {x}) = Cardinality(S) - 1
    BY FS_RemoveElement
  <2>3. Place(x, S) <= Cardinality(S) - 1
    BY <2>1, <2>2, FS_Subset DEF Place
  <2>4. Place(x, S) \in Nat /\ Cardinality(S) \in Nat
    BY PlaceType, FS_CardinalityType
  <2>. QED
    BY <2>3, <2>4
<1>2. \A x, y \in S : Place(x, S) = Place(y, S) => x = y
  <2>. SUFFICES ASSUME NEW x \in S, NEW y \in S, x # y
                PROVE  Place(x, S) # Place(y, S)
    OBVIOUS
  <2>1. Newer(x, y) \/ Newer(y, x)
    BY NewerIsOrder
  <2>2. Place(x, S) \in Nat /\ Place(y, S) \in Nat
    BY PlaceType
  <2>. QED
    BY <2>1, <2>2, PlaceOrder
<1>. QED
  BY <1>1, <1>2 DEF Injection, IsInjective

(* The listing holds every row once, at its place. *)
LEMMA ListedPlaces ==
    ASSUME NEW S \in SUBSET Row, IsFiniteSet(S)
    PROVE  /\ Cardinality(S) \in Nat
           /\ Listed(S) \in Seq(S) /\ Len(Listed(S)) = Cardinality(S)
           /\ \A i \in 1..Cardinality(S) : /\ Listed(S)[i] \in S
                                           /\ Place(Listed(S)[i], S) = i - 1
           /\ \A x \in S : /\ Place(x, S) + 1 \in 1..Cardinality(S)
                           /\ Listed(S)[Place(x, S) + 1] = x
<1>. DEFINE n == Cardinality(S)
            f == [x \in S |-> Place(x, S)]
<1>1. n \in Nat
  BY FS_CardinalityType
<1>2. IsFiniteSet(0..(n - 1)) /\ Cardinality(0..(n - 1)) = n
  BY <1>1, FS_Interval
<1>3. f \in Injection(S, 0..(n - 1))
  BY PlaceInjective
<1>4. f \in Surjection(S, 0..(n - 1))
  BY <1>2, <1>3, FS_Injection
<1>5. \A k \in 0..(n - 1) : \E x \in S : Place(x, S) = k
  BY <1>4 DEF Surjection
<1>6. \A i \in 1..n : /\ Listed(S)[i] \in S
                      /\ Place(Listed(S)[i], S) = i - 1
  <2>. SUFFICES ASSUME NEW i \in 1..n
                PROVE  Listed(S)[i] \in S /\ Place(Listed(S)[i], S) = i - 1
    OBVIOUS
  <2>1. i - 1 \in 0..(n - 1)
    BY <1>1
  <2>2. \E x \in S : Place(x, S) = i - 1
    BY <2>1, <1>5
  <2>3. Listed(S)[i] = CHOOSE x \in S : Place(x, S) = i - 1
    BY DEF Listed
  <2>. QED
    BY <2>2, <2>3
<1>7. Listed(S) \in Seq(S) /\ Len(Listed(S)) = n
  <2>1. Listed(S) = [i \in 1..n |-> Listed(S)[i]]
    BY DEF Listed
  <2>. QED
    BY <1>1, <1>6, <2>1
<1>8. \A x \in S : Place(x, S) + 1 \in 1..n /\ Listed(S)[Place(x, S) + 1] = x
  <2>. SUFFICES ASSUME NEW x \in S
                PROVE  /\ Place(x, S) + 1 \in 1..n
                       /\ Listed(S)[Place(x, S) + 1] = x
    OBVIOUS
  <2>1. Place(x, S) \in 0..(n - 1)
    BY <1>3 DEF Injection
  <2>2. Place(x, S) + 1 \in 1..n
    BY <1>1, <2>1
  <2>3. Listed(S)[Place(x, S) + 1] \in S
    BY <2>2, <1>6
  <2>4. Place(Listed(S)[Place(x, S) + 1], S) = Place(x, S)
    BY <2>1, <2>2, <1>6
  <2>5. \A y \in S : Place(y, S) = Place(x, S) => y = x
    BY PlaceInjective
  <2>. QED
    BY <2>2, <2>3, <2>4, <2>5
<1>. QED
  BY <1>1, <1>6, <1>7, <1>8

---------------------------------------------------------------------------
(* A page of the listing.                                                  *)

LEMMA Numbers == Limit \in Nat \ {0} /\ MaxOffset \in Nat /\ Initial \in Nat
BY ListingAssumption

(* LIMIT and OFFSET cut a stretch out of a sequence. *)
LEMMA WindowCuts ==
    ASSUME NEW T, NEW s \in Seq(T), NEW o \in Nat
    PROVE  /\ Window(s, o) \in Seq(T)
           /\ Len(Window(s, o)) =
                 IF Len(s) <= o THEN 0
                 ELSE IF o + Limit <= Len(s) THEN Limit ELSE Len(s) - o
           /\ \A j \in 1..Len(Window(s, o)) :
                 o + j \in 1..Len(s) /\ Window(s, o)[j] = s[o + j]
<1>. DEFINE e == Min({o + Limit, Len(s)})
<1>1. Limit \in Nat /\ Len(s) \in Nat
  BY Numbers
<1>2. e = IF o + Limit <= Len(s) THEN o + Limit ELSE Len(s)
  <2>1. CASE o + Limit <= Len(s)
    <3>1. \A x \in {o + Limit, Len(s)} :
             (\A y \in {o + Limit, Len(s)} : x <= y) <=> x = o + Limit
      BY <1>1, <2>1
    <3>. QED
      BY <2>1, <3>1 DEF Min
  <2>2. CASE ~ (o + Limit <= Len(s))
    <3>1. \A x \in {o + Limit, Len(s)} :
             (\A y \in {o + Limit, Len(s)} : x <= y) <=> x = Len(s)
      BY <1>1, <2>2
    <3>. QED
      BY <2>2, <3>1 DEF Min
  <2>. QED
    BY <2>1, <2>2
<1>3. Window(s, o) = SubSeq(s, o + 1, e)
  BY DEF Window
<1>4. e \in Nat /\ e <= Len(s)
  BY <1>1, <1>2
<1>. HIDE DEF e
<1>5. \A i \in (o + 1)..e : s[i] \in T
  <2>. SUFFICES ASSUME NEW i \in (o + 1)..e
                PROVE  s[i] \in T
    OBVIOUS
  <2>1. i \in 1..Len(s)
    BY <1>1, <1>4
  <2>. QED
    BY <2>1, ElementOfSeq
<1>6. /\ Window(s, o) \in Seq(T)
      /\ Len(Window(s, o)) = IF o + 1 <= e THEN e - (o + 1) + 1 ELSE 0
      /\ \A i \in 1..(e - (o + 1) + 1) : Window(s, o)[i] = s[(o + 1) + i - 1]
  <2>1. o + 1 \in Int /\ e \in Int
    BY <1>4
  <2>. HIDE <1>1, <1>2, <1>4
  <2>. QED
    BY <1>3, <1>5, <2>1, SubSeqProperties
<1>7. Len(Window(s, o)) = IF Len(s) <= o THEN 0
                          ELSE IF o + Limit <= Len(s) THEN Limit ELSE Len(s) - o
  BY <1>1, <1>2, <1>4, <1>6
<1>8. ASSUME NEW j \in 1..Len(Window(s, o))
      PROVE  o + j \in 1..Len(s) /\ Window(s, o)[j] = s[o + j]
  <2>1. j \in Nat /\ 1 <= j /\ j <= e - o /\ o + 1 <= e
    BY <1>4, <1>6
  <2>2. j \in 1..(e - (o + 1) + 1) /\ (o + 1) + j - 1 = o + j
    BY <1>4, <2>1
  <2>3. o + j \in 1..Len(s)
    BY <1>1, <1>4, <2>1
  <2>. QED
    BY <1>6, <2>2, <2>3
<1>. QED
  BY <1>6, <1>7, <1>8

(* What a SELECT of a page finds: the rows from the offset on, each once,  *)
(* and fewer than the limit only where the listing ends.                   *)
LEMMA PageShows ==
    ASSUME NEW S \in SUBSET Row, IsFiniteSet(S), NEW o \in Nat,
           NEW p, p = Window(Listed(S), o)
    PROVE  /\ p \in Seq(Row)
           /\ \A x : x \in ToSet(p) <=>
                        /\ x \in S /\ o <= Place(x, S)
                        /\ Place(x, S) < o + Limit
           /\ \A i, j \in DOMAIN p : p[i] = p[j] => i = j
           /\ p # <<>> => o + Len(p) <= Cardinality(S)
           /\ Len(p) < Limit => Cardinality(S) <= o + Len(p)
           /\ Len(p) \in Nat
<1>. DEFINE n == Cardinality(S)
            s == Listed(S)
<1>1. /\ n \in Nat /\ s \in Seq(S) /\ Len(s) = n
      /\ \A i \in 1..n : s[i] \in S /\ Place(s[i], S) = i - 1
      /\ \A x \in S : Place(x, S) + 1 \in 1..n /\ s[Place(x, S) + 1] = x
  BY ListedPlaces
<1>. HIDE DEF n, s
<1>2. /\ p \in Seq(S)
      /\ Len(p) = IF n <= o THEN 0
                  ELSE IF o + Limit <= n THEN Limit ELSE n - o
      /\ \A j \in 1..Len(p) : o + j \in 1..n /\ p[j] = s[o + j]
  <2>1. s \in Seq(S) /\ Len(s) = n /\ p = Window(s, o)
    BY <1>1 DEF s
  <2>2. /\ Window(s, o) \in Seq(S)
        /\ Len(Window(s, o)) =
              IF Len(s) <= o THEN 0
              ELSE IF o + Limit <= Len(s) THEN Limit ELSE Len(s) - o
        /\ \A j \in 1..Len(Window(s, o)) :
              o + j \in 1..Len(s) /\ Window(s, o)[j] = s[o + j]
    BY <2>1, WindowCuts
  <2>. QED
    BY <2>1, <2>2
<1>3. p \in Seq(Row) /\ Len(p) \in Nat /\ DOMAIN p = 1..Len(p)
  <2>1. p \in Seq(S) /\ S \subseteq Row
    BY <1>2
  <2>. QED
    BY <2>1, LenProperties, SeqMonotonic
<1>4. \A j \in 1..Len(p) : p[j] \in S /\ Place(p[j], S) = o + j - 1
  <2>. SUFFICES ASSUME NEW j \in 1..Len(p)
                PROVE  p[j] \in S /\ Place(p[j], S) = o + j - 1
    OBVIOUS
  <2>1. o + j \in 1..n /\ p[j] = s[o + j]
    BY <1>2
  <2>2. s[o + j] \in S /\ Place(s[o + j], S) = o + j - 1
    BY <1>1, <2>1
  <2>. QED
    BY <2>1, <2>2
<1>5. ToSet(p) = {p[j] : j \in 1..Len(p)}
  BY <1>3 DEF ToSet
<1>6. ASSUME NEW x \in ToSet(p)
      PROVE  x \in S /\ o <= Place(x, S) /\ Place(x, S) < o + Limit
  <2>1. PICK j \in 1..Len(p) : p[j] = x
    BY <1>5
  <2>2. x \in S /\ Place(x, S) = o + j - 1
    BY <1>4, <2>1
  <2>3. j \in Nat /\ 1 <= j /\ j <= Limit
    BY <1>1, <1>2, <1>3, Numbers
  <2>. QED
    BY <2>2, <2>3, Numbers
<1>7. ASSUME NEW x \in S, o <= Place(x, S), Place(x, S) < o + Limit
      PROVE  x \in ToSet(p)
  <2>. DEFINE j == Place(x, S) + 1 - o
  <2>1. Place(x, S) \in Nat /\ Place(x, S) + 1 \in 1..n /\ s[Place(x, S) + 1] = x
    BY <1>1, PlaceType
  <2>2. j \in 1..Len(p)
    BY <1>1, <1>2, <1>7, <2>1, Numbers
  <2>3. o + j = Place(x, S) + 1
    BY <2>1
  <2>. HIDE DEF j
  <2>4. p[j] = x
    BY <1>2, <2>1, <2>2, <2>3
  <2>. QED
    BY <1>5, <2>2, <2>4
<1>8. \A i, j \in DOMAIN p : p[i] = p[j] => i = j
  <2>. SUFFICES ASSUME NEW i \in 1..Len(p), NEW j \in 1..Len(p), p[i] = p[j]
                PROVE  i = j
    BY <1>3
  <2>1. o + i - 1 = o + j - 1
    BY <1>4
  <2>. QED
    BY <2>1, <1>3
<1>9. p # <<>> => o + Len(p) <= n
  <2>1. p # <<>> => Len(p) # 0
    BY <1>3
  <2>. QED
    BY <1>1, <1>2, <2>1, Numbers
<1>10. Len(p) < Limit => n <= o + Len(p)
  BY <1>1, <1>2, Numbers
<1>. QED
  BY <1>3, <1>6, <1>7, <1>8, <1>9, <1>10 DEF n

---------------------------------------------------------------------------
(* How a row that comes or goes moves the others.                          *)

First(S, n) == {x \in S : Place(x, S) < n}

(* A row that comes moves another by at most one place down. *)
LEMMA RowComes ==
    ASSUME NEW S \in SUBSET Row, IsFiniteSet(S), NEW a, a \notin S,
           NEW T, T = S \cup {a}, NEW x \in S
    PROVE  /\ Place(x, S) \in Nat /\ Place(x, T) \in Nat
           /\ Place(x, S) <= Place(x, T) /\ Place(x, T) <= Place(x, S) + 1
<1>. DEFINE B == {y \in S : Newer(y, x)}
<1>1. IsFiniteSet(B) /\ Cardinality(B) \in Nat /\ a \notin B
  BY PlaceType DEF Place
<1>2. {y \in T : Newer(y, x)} = IF Newer(a, x) THEN B \cup {a} ELSE B
  OBVIOUS
<1>3. Cardinality(B \cup {a}) = Cardinality(B) + 1
  BY <1>1, FS_AddElement
<1>. QED
  BY <1>1, <1>2, <1>3 DEF Place

(* A row that goes moves another by at most one place up. *)
LEMMA RowGoes ==
    ASSUME NEW S \in SUBSET Row, IsFiniteSet(S), NEW a \in S,
           NEW T, T = S \ {a}, NEW x \in T
    PROVE  /\ Place(x, S) \in Nat /\ Place(x, T) \in Nat
           /\ Place(x, T) <= Place(x, S) /\ Place(x, S) <= Place(x, T) + 1
<1>1. T \in SUBSET Row /\ IsFiniteSet(T) /\ a \notin T /\ S = T \cup {a}
  BY FS_RemoveElement
<1>. QED
  BY <1>1, RowComes

(* So a row that comes lets nothing else into the first n places, *)
LEMMA FirstAfterComing ==
    ASSUME NEW S \in SUBSET Row, IsFiniteSet(S), NEW a, a \notin S, NEW n \in Nat
    PROVE  First(S \cup {a}, n) \subseteq First(S, n) \cup {a}
<1>. SUFFICES ASSUME NEW x \in S, Place(x, S \cup {a}) < n
              PROVE  Place(x, S) < n
  BY DEF First
<1>. QED
  BY RowComes

(* and a row that goes lets at most one other into them. *)
LEMMA FirstAfterGoing ==
    ASSUME NEW S \in SUBSET Row, IsFiniteSet(S), NEW a \in S, NEW n \in Nat
    PROVE  \E z : First(S \ {a}, n) \subseteq First(S, n) \cup {z}
<1>. DEFINE T == S \ {a}
<1>1. \A x \in First(T, n) \ First(S, n) : x \in S /\ Place(x, S) = n
  <2>. SUFFICES ASSUME NEW x \in T, Place(x, T) < n, ~ (Place(x, S) < n)
                PROVE  x \in S /\ Place(x, S) = n
    BY DEF First
  <2>. QED
    BY RowGoes
<1>2. \A x, y \in First(T, n) \ First(S, n) : x = y
  <2>. SUFFICES ASSUME NEW x \in First(T, n) \ First(S, n),
                       NEW y \in First(T, n) \ First(S, n)
                PROVE  x = y
    OBVIOUS
  <2>1. x \in S /\ y \in S /\ Place(x, S) = Place(y, S)
    BY <1>1
  <2>. QED
    BY <2>1, PlaceInjective
<1>3. CASE First(T, n) \subseteq First(S, n)
  BY <1>3
<1>4. CASE ~ (First(T, n) \subseteq First(S, n))
  <2>1. PICK z : z \in First(T, n) \ First(S, n)
    BY <1>4
  <2>2. First(T, n) \subseteq First(S, n) \cup {z}
    BY <1>2, <2>1
  <2>. QED
    BY <2>2
<1>. QED
  BY <1>3, <1>4

---------------------------------------------------------------------------
(* How often a row stands in a sequence.                                   *)

Spots(s, x)       == {i \in DOMAIN s : s[i] = x}
Occurrences(s, x) == Cardinality(Spots(s, x))

LEMMA OccurrencesType ==
    ASSUME NEW S, NEW s \in Seq(S), NEW x
    PROVE  /\ IsFiniteSet(Spots(s, x))
           /\ Occurrences(s, x) \in Nat
           /\ x \in ToSet(s) <=> Occurrences(s, x) # 0
<1>. DEFINE I == Spots(s, x)
<1>1. Len(s) \in Nat /\ DOMAIN s = 1..Len(s)
  BY LenProperties
<1>2. IsFiniteSet(1..Len(s)) /\ I \in SUBSET (1..Len(s))
  BY <1>1, FS_Interval DEF Spots
<1>3. IsFiniteSet(I) /\ Cardinality(I) \in Nat
  BY <1>2, FS_Subset, FS_CardinalityType
<1>4. Cardinality(I) = 0 <=> I = {}
  BY <1>3, FS_EmptySet
<1>5. x \in ToSet(s) <=> I # {}
  BY DEF ToSet, Spots
<1>. QED
  BY <1>3, <1>4, <1>5 DEF Occurrences

(* What is appended leaves the occurrences there were, and a page that     *)
(* holds a row at most once adds one occurrence at most.                   *)
LEMMA OccurrencesAppended ==
    ASSUME NEW S, NEW s \in Seq(S), NEW p \in Seq(S), NEW x
    PROVE  /\ Occurrences(s, x) <= Occurrences(s \o p, x)
           /\ (\A i, j \in DOMAIN p : p[i] = p[j] => i = j) =>
                 /\ Occurrences(s \o p, x) <= Occurrences(s, x) + 1
                 /\ x \notin ToSet(p) =>
                       Occurrences(s \o p, x) = Occurrences(s, x)
<1>. DEFINE I == Spots(s, x)
            J == Spots(s \o p, x)
<1>1. /\ Len(s) \in Nat /\ DOMAIN s = 1..Len(s)
      /\ Len(p) \in Nat /\ DOMAIN p = 1..Len(p)
  BY LenProperties
<1>2. /\ s \o p \in Seq(S) /\ Len(s \o p) = Len(s) + Len(p)
      /\ \A i \in 1..(Len(s) + Len(p)) :
            (s \o p)[i] = IF i <= Len(s) THEN s[i] ELSE p[i - Len(s)]
  BY ConcatProperties
<1>3. DOMAIN (s \o p) = 1..(Len(s) + Len(p))
  BY <1>2, LenProperties
<1>4. IsFiniteSet(I) /\ IsFiniteSet(J)
  <2>1. IsFiniteSet(I)
    BY OccurrencesType
  <2>2. IsFiniteSet(J)
    BY <1>2, OccurrencesType
  <2>. QED
    BY <2>1, <2>2
<1>5. I \in SUBSET J
  BY <1>1, <1>2, <1>3 DEF Spots
<1>6. \A i \in J \ I : i - Len(s) \in DOMAIN p /\ p[i - Len(s)] = x
  BY <1>1, <1>2, <1>3 DEF Spots
<1>7. Cardinality(I) \in Nat /\ Cardinality(J) \in Nat
  BY <1>4, FS_CardinalityType
<1>8. Cardinality(I) <= Cardinality(J)
  BY <1>4, <1>5, FS_Subset
<1>9. Occurrences(s, x) = Cardinality(I) /\ Occurrences(s \o p, x) = Cardinality(J)
  BY DEF Occurrences
<1>10. ASSUME \A i, j \in DOMAIN p : p[i] = p[j] => i = j
       PROVE  /\ Cardinality(J) <= Cardinality(I) + 1
              /\ x \notin ToSet(p) => Cardinality(J) = Cardinality(I)
  <2>1. \A i, j \in J \ I : i = j
    <3>. SUFFICES ASSUME NEW i \in J \ I, NEW j \in J \ I
                  PROVE  i = j
      OBVIOUS
    <3>1. i - Len(s) = j - Len(s)
      BY <1>6, <1>10
    <3>. QED
      BY <1>1, <1>3, <3>1 DEF Spots
  <2>2. CASE J \ I = {}
    <3>1. J = I
      BY <1>5, <2>2
    <3>. QED
      BY <1>7, <3>1
  <2>3. CASE J \ I # {}
    <3>1. PICK k : k \in J \ I
      BY <2>3
    <3>2. J = I \cup {k} /\ k \notin I
      BY <1>5, <2>1, <3>1
    <3>3. Cardinality(J) = Cardinality(I) + 1
      BY <1>4, <3>2, FS_AddElement
    <3>4. x \in ToSet(p)
      BY <1>6, <3>1 DEF ToSet
    <3>. QED
      BY <1>7, <3>3, <3>4
  <2>. QED
    BY <2>2, <2>3
<1>. QED
  BY <1>8, <1>9, <1>10

(* What is in a sequence put together is in one of its parts. *)
LEMMA ConcatenatedSet ==
    ASSUME NEW S, NEW s \in Seq(S), NEW p \in Seq(S)
    PROVE  s \o p \in Seq(S) /\ ToSet(s \o p) = ToSet(s) \cup ToSet(p)
<1>1. /\ Len(s) \in Nat /\ DOMAIN s = 1..Len(s)
      /\ Len(p) \in Nat /\ DOMAIN p = 1..Len(p)
  BY LenProperties
<1>2. /\ s \o p \in Seq(S) /\ Len(s \o p) = Len(s) + Len(p)
      /\ \A i \in 1..(Len(s) + Len(p)) :
            (s \o p)[i] = IF i <= Len(s) THEN s[i] ELSE p[i - Len(s)]
  BY ConcatProperties
<1>3. DOMAIN (s \o p) = 1..(Len(s) + Len(p))
  BY <1>2, LenProperties
<1>4. ToSet(s \o p) \subseteq ToSet(s) \cup ToSet(p)
  <2>. SUFFICES ASSUME NEW i \in 1..(Len(s) + Len(p))
                PROVE  (s \o p)[i] \in ToSet(s) \cup ToSet(p)
    BY <1>3 DEF ToSet
  <2>1. CASE i <= Len(s)
    BY <1>1, <1>2, <2>1 DEF ToSet
  <2>2. CASE ~ (i <= Len(s))
    <3>1. i - Len(s) \in DOMAIN p /\ (s \o p)[i] = p[i - Len(s)]
      BY <1>1, <1>2, <2>2
    <3>. QED
      BY <3>1 DEF ToSet
  <2>. QED
    BY <2>1, <2>2
<1>5. ToSet(s) \subseteq ToSet(s \o p)
  <2>. SUFFICES ASSUME NEW i \in 1..Len(s)
                PROVE  s[i] \in ToSet(s \o p)
    BY <1>1 DEF ToSet
  <2>1. i \in 1..(Len(s) + Len(p)) /\ (s \o p)[i] = s[i]
    BY <1>1, <1>2
  <2>. QED
    BY <1>3, <2>1 DEF ToSet
<1>6. ToSet(p) \subseteq ToSet(s \o p)
  <2>. SUFFICES ASSUME NEW j \in 1..Len(p)
                PROVE  p[j] \in ToSet(s \o p)
    BY <1>1 DEF ToSet
  <2>1. /\ Len(s) + j \in 1..(Len(s) + Len(p)) /\ ~ (Len(s) + j <= Len(s))
        /\ (Len(s) + j) - Len(s) = j
    BY <1>1
  <2>2. (s \o p)[Len(s) + j] = p[j]
    BY <1>2, <2>1
  <2>. QED
    BY <1>3, <2>1, <2>2 DEF ToSet
<1>. QED
  BY <1>2, <1>4, <1>5, <1>6

---------------------------------------------------------------------------
(* The inductive invariant. A page counts as shown as soon as it has been  *)
(* read, before the client turns to the next.                              *)

WalkPc   == {"count", "page", "related", "answered", "end", "refused"}
WriterPc == {"begin", "flush", "commit", "done"}

Read  == walk.pc \in {"related", "answered"}
Trail == IF Read THEN walk.seen \o walk.page ELSE walk.seen
Reach == IF Read THEN walk.offset + Limit ELSE walk.offset
Short == walk.pc = "end" \/ (Read /\ Len(walk.page) < Limit)

ListingTypes ==
    /\ rows \in SUBSET Row /\ IsFiniteSet(rows)
    /\ gone \in SUBSET Row /\ IsFiniteSet(gone)
    /\ clock \in Nat /\ lastId \in Nat
    /\ writer \in [Writer -> [pc : WriterPc, id : Nat, at : Nat]]
    /\ walk \in [pc : WalkPc, offset : Nat, total : Nat, page : Seq(Row),
                 related : SUBSET Row, seen : Seq(Row), start : SUBSET Row,
                 counted : SUBSET Row]

(* Ids and times are handed out before they are used, an id once. *)
Issued ==
    /\ rows \cap gone = {}
    /\ \A x \in rows \cup gone : x.id \in 1..lastId /\ x.at <= clock
    /\ \A w \in Writer :
          /\ writer[w].at <= clock
          /\ writer[w].pc = "commit" =>
                /\ writer[w].id \in 1..lastId
                /\ \A x \in rows \cup gone : x.id # writer[w].id
                /\ \A v \in Writer \ {w} :
                      writer[v].pc = "commit" => writer[v].id # writer[w].id

(* What the walk has met was in the listing. *)
Met ==
    /\ walk.start \cup walk.counted \subseteq rows \cup gone
    /\ ToSet(walk.page) \cup ToSet(walk.seen) \subseteq rows \cup gone
    /\ walk.related \subseteq ToSet(walk.page)

(* Of the rows there all along, the part of the listing behind the walk    *)
(* hides no more from it than have left.                                   *)
Missed == (walk.start \cap rows) \ ToSet(Trail)

Misses ==
    /\ Cardinality(Missed \cap First(rows, Reach)) <= Cardinality(gone)
    /\ Short => Cardinality(Missed) <= Cardinality(gone)

(* A row already shown that was pushed in front of the walk again owes     *)
(* every place of the way to a row inserted.                               *)
Repeats ==
    /\ \A x \in rows \cup gone :
          Occurrences(Trail, x) <= Cardinality(Inserted) + 1
    /\ \A x \in rows :
          Occurrences(Trail, x) # 0 /\ Reach <= Place(x, rows) =>
             Occurrences(Trail, x) + Place(x, rows)
                <= Cardinality(Inserted) + Reach

(* The total is of the rows counted, and fits the page once it is read. *)
Totals ==
    /\ walk.pc \in {"page", "related", "answered"} =>
          walk.total = Cardinality(walk.counted)
    /\ Read =>
          /\ walk.page # <<>> =>
                walk.offset + Len(walk.page)
                   <= walk.total + Cardinality((rows \cup gone) \ walk.counted)
          /\ Len(walk.page) < Limit =>
                walk.total - Cardinality(walk.counted \cap gone)
                   <= walk.offset + Len(walk.page)

ListingInv == ListingTypes /\ Issued /\ Met /\ Misses /\ Repeats /\ Totals

---------------------------------------------------------------------------
(* What the steps change.                                                  *)

LEMMA TrailType == ListingTypes => Trail \in Seq(Row) /\ Reach \in Nat
<1>. SUFFICES ASSUME ListingTypes
              PROVE  Trail \in Seq(Row) /\ Reach \in Nat
  OBVIOUS
<1>1. walk.seen \in Seq(Row) /\ walk.page \in Seq(Row) /\ walk.offset \in Nat
  BY DEF ListingTypes
<1>. QED
  BY <1>1, Numbers, ConcatProperties DEF Trail, Reach

(* A transaction that commits brings a row with an id of its own. *)
LEMMA CommitBrings ==
    ASSUME ListingTypes, Issued, NEW w \in Writer, Commit(w)
    PROVE  \E a \in Row : /\ a \notin rows \cup gone /\ rows' = rows \cup {a}
                          /\ a.id = writer[w].id /\ a.at = writer[w].at
                          /\ UNCHANGED <<walk, gone>>
<1>1. writer[w].id \in Nat /\ writer[w].at \in Nat
  BY DEF ListingTypes
<1>2. /\ RowAt(writer[w].id, writer[w].at) \in Row
      /\ RowAt(writer[w].id, writer[w].at).id = writer[w].id
      /\ RowAt(writer[w].id, writer[w].at).at = writer[w].at
  BY <1>1 DEF Row, RowAt
<1>3. RowAt(writer[w].id, writer[w].at) \notin rows \cup gone
  BY <1>2 DEF Issued, Commit
<1>. QED
  BY <1>2, <1>3 DEF Commit

(* The steps that leave the rows and what the walk has been shown alone. *)
Aside ==
    \/ \E w \in Writer : Begin(w) \/ Flush(w)
    \/ Refuse \/ Count \/ Related \/ Turn \/ UNCHANGED vars

LEMMA StepCases ==
    ASSUME [Next]_vars
    PROVE  \/ Aside \/ Page
           \/ \E w \in Writer : Commit(w)
           \/ \E x \in rows : Leave(x)
BY DEF Next, Aside, Done

LEMMA AsideKeeps ==
    ASSUME ListingTypes, Aside
    PROVE  /\ rows' = rows /\ gone' = gone /\ walk'.start = walk.start
           /\ walk'.seen \in Seq(Row) /\ walk'.page = walk.page
           /\ Trail' = Trail /\ Reach' = Reach /\ Short' = Short
<1>. USE DEF ListingTypes, Trail, Reach, Short, Read
<1>1. ASSUME UNCHANGED <<rows, walk, gone>>
      PROVE  /\ rows' = rows /\ gone' = gone /\ walk'.start = walk.start
             /\ walk'.seen \in Seq(Row) /\ walk'.page = walk.page
             /\ Trail' = Trail /\ Reach' = Reach /\ Short' = Short
  BY <1>1
<1>2. CASE \/ UNCHANGED vars
           \/ \E w \in Writer : Begin(w) \/ Flush(w)
  BY <1>1, <1>2 DEF vars, Begin, Flush
<1>3. CASE Refuse
  BY <1>3 DEF Refuse
<1>4. CASE Count
  BY <1>4 DEF Count
<1>5. CASE Related
  BY <1>5 DEF Related
<1>6. CASE Turn
  <2>1. /\ walk.pc = "answered" /\ rows' = rows /\ gone' = gone
        /\ walk'.start = walk.start /\ walk'.page = walk.page
        /\ walk'.seen = walk.seen \o walk.page
        /\ walk'.offset = walk.offset + Limit
        /\ walk'.pc = IF Len(walk.page) < Limit THEN "end" ELSE "count"
    BY <1>6 DEF Turn
  <2>2. walk'.seen \in Seq(Row)
    BY <2>1, ConcatProperties
  <2>. QED
    BY <2>1, <2>2
<1>. QED
  BY <1>2, <1>3, <1>4, <1>5, <1>6 DEF Aside

---------------------------------------------------------------------------
(* Types, ids and times.                                                   *)

LEMMA ListingStart == Init => ListingInv
<1>. SUFFICES ASSUME Init
              PROVE  ListingInv
  OBVIOUS
<1>1. IsFiniteSet(rows) /\ rows \in SUBSET Row
  <2>. DEFINE f == [i \in 1..Initial |-> RowAt(i, 0)]
  <2>1. f \in Surjection(1..Initial, rows)
    BY DEF Init, Surjection
  <2>2. IsFiniteSet(1..Initial)
    BY Numbers, FS_Interval
  <2>3. IsFiniteSet(rows)
    BY <2>1, <2>2, FS_Surjection
  <2>. QED
    BY <2>3, Numbers DEF Init, Row, RowAt
<1>2. gone = {} /\ IsFiniteSet(gone) /\ Cardinality(gone) = 0
  BY FS_EmptySet DEF Init
<1>3. /\ walk.pc = "count" /\ walk.offset = 0 /\ walk.start = rows
      /\ walk.page = <<>> /\ walk.seen = <<>> /\ walk.related = {}
      /\ walk.counted = {} /\ walk.total = 0
  BY DEF Init
<1>4. ListingTypes
  BY <1>1, <1>2, Numbers DEF Init, ListingTypes, WalkPc, WriterPc
<1>5. Issued
  BY <1>2, Numbers DEF Init, Issued, RowAt
<1>6. Met
  BY <1>3 DEF Met, ToSet
<1>7. Trail = <<>> /\ Reach = 0 /\ ~ Short /\ ~ Read
  BY <1>3 DEF Trail, Reach, Short, Read
<1>8. Misses
  <2>1. First(rows, 0) = {}
    <3>1. \A x : Place(x, rows) \in Nat
      BY <1>1, PlaceType
    <3>. QED
      BY <3>1 DEF First
  <2>2. Cardinality(Missed \cap First(rows, Reach)) = 0
    BY <1>7, <2>1, FS_EmptySet
  <2>. QED
    BY <1>2, <1>7, <2>2 DEF Misses
<1>9. Repeats
  <2>1. \A x : Occurrences(Trail, x) = 0
    <3>. TAKE x
    <3>1. Trail \in Seq(Row) /\ x \notin ToSet(Trail)
      BY <1>7 DEF ToSet
    <3>. QED
      BY <3>1, OccurrencesType
  <2>2. Inserted = {}
    BY <1>2, <1>3 DEF Inserted
  <2>. QED
    BY <2>1, <2>2, FS_EmptySet DEF Repeats
<1>10. Totals
  BY <1>3, <1>7 DEF Totals
<1>. QED
  BY <1>4, <1>5, <1>6, <1>8, <1>9, <1>10 DEF ListingInv

LEMMA TypesKept == ListingTypes /\ Issued /\ Met /\ [Next]_vars => ListingTypes'
<1>. SUFFICES ASSUME ListingTypes, Issued, Met, [Next]_vars
              PROVE  ListingTypes'
  OBVIOUS
<1>. USE DEF ListingTypes
<1>1. ASSUME NEW w \in Writer, Begin(w)
      PROVE  ListingTypes'
  <2>1. clock' \in Nat
    BY <1>1 DEF Begin
  <2>2. [pc |-> "flush", id |-> 0, at |-> clock'] \in [pc : WriterPc, id : Nat, at : Nat]
    BY <2>1 DEF WriterPc
  <2>. QED
    BY <1>1, <2>1, <2>2 DEF Begin
<1>2. ASSUME NEW w \in Writer, Flush(w)
      PROVE  ListingTypes'
  <2>1. lastId' \in Nat /\ "commit" \in WriterPc
    BY <1>2 DEF Flush, WriterPc
  <2>2. writer' \in [Writer -> [pc : WriterPc, id : Nat, at : Nat]]
    BY <1>2, <2>1 DEF Flush
  <2>. QED
    BY <1>2, <2>1, <2>2 DEF Flush
<1>3. ASSUME NEW w \in Writer, Commit(w)
      PROVE  ListingTypes'
  <2>1. rows' \in SUBSET Row /\ IsFiniteSet(rows')
    BY <1>3, CommitBrings, FS_AddElement
  <2>2. "done" \in WriterPc
    BY DEF WriterPc
  <2>3. writer' \in [Writer -> [pc : WriterPc, id : Nat, at : Nat]]
    BY <1>3, <2>2 DEF Commit
  <2>. QED
    BY <1>3, <2>1, <2>3 DEF Commit
<1>4. ASSUME NEW x \in rows, Leave(x)
      PROVE  ListingTypes'
  <2>1. IsFiniteSet(rows \ {x}) /\ IsFiniteSet(gone \cup {x})
    BY FS_RemoveElement, FS_AddElement
  <2>. QED
    BY <1>4, <2>1 DEF Leave
<1>5. CASE Refuse
  <2>1. "refused" \in WalkPc
    BY DEF WalkPc
  <2>. QED
    BY <1>5, <2>1 DEF Refuse
<1>6. CASE Count
  <2>1. "page" \in WalkPc /\ Cardinality(rows) \in Nat
    BY FS_CardinalityType DEF WalkPc
  <2>. QED
    BY <1>6, <2>1 DEF Count
<1>7. CASE Page
  <2>1. "related" \in WalkPc /\ walk.offset \in Nat
    BY DEF WalkPc
  <2>2. Window(Listed(rows), walk.offset) \in Seq(Row)
    <3>1. rows \in SUBSET Row /\ IsFiniteSet(rows)
      OBVIOUS
    <3>. HIDE DEF ListingTypes
    <3>. QED
      BY <2>1, <3>1, PageShows
  <2>. QED
    BY <1>7, <2>1, <2>2 DEF Page
<1>8. CASE Related
  <2>1. "answered" \in WalkPc
    BY DEF WalkPc
  <2>. QED
    BY <1>8, <2>1 DEF Related
<1>9. CASE Turn
  <2>1. /\ (IF Len(walk.page) < Limit THEN "end" ELSE "count") \in WalkPc
        /\ walk.offset + Limit \in Nat
    BY Numbers DEF WalkPc
  <2>2. walk.seen \o walk.page \in Seq(Row)
    BY ConcatProperties
  <2>. QED
    BY <1>9, <2>1, <2>2 DEF Turn
<1>10. CASE UNCHANGED vars
  BY <1>10 DEF vars
<1>. QED
  BY <1>1, <1>2, <1>3, <1>4, <1>5, <1>6, <1>7, <1>8, <1>9, <1>10 DEF Next, Done

(* The part of Issued about the writers. *)
Holds(w) ==
    /\ writer[w].at <= clock
    /\ writer[w].pc = "commit" =>
          /\ writer[w].id \in 1..lastId
          /\ \A x \in rows \cup gone : x.id # writer[w].id
          /\ \A v \in Writer \ {w} :
                writer[v].pc = "commit" => writer[v].id # writer[w].id

LEMMA IssuedKept == ListingTypes /\ Issued /\ [Next]_vars => Issued'
<1>. SUFFICES ASSUME ListingTypes, Issued, [Next]_vars
              PROVE  Issued'
  OBVIOUS
<1>1. /\ \A w \in Writer : /\ writer[w].id \in Nat /\ writer[w].at \in Nat
                           /\ Holds(w)
      /\ \A x \in rows \cup gone : /\ x.id \in Nat /\ x.at \in Nat
                                   /\ x.id \in 1..lastId /\ x.at <= clock
      /\ rows \cap gone = {} /\ clock \in Nat /\ lastId \in Nat
  BY DEF ListingTypes, Issued, Row, Holds
<1>2. ASSUME rows' \cap gone' = {},
             \A x \in rows' \cup gone' : x.id \in 1..lastId' /\ x.at <= clock',
             \A w \in Writer : Holds(w)'
      PROVE  Issued'
  BY <1>2 DEF Issued, Holds
<1>3. ASSUME NEW w \in Writer, Begin(w)
      PROVE  Issued'
  <2>1. /\ clock <= clock' /\ clock' \in Nat
        /\ writer'[w].at = clock' /\ writer'[w].pc = "flush"
        /\ \A v \in Writer \ {w} : writer'[v] = writer[v]
        /\ UNCHANGED <<rows, lastId, gone>>
    BY <1>3 DEF Begin, ListingTypes
  <2>2. \A x \in rows \cup gone : x.at <= clock'
    BY <1>1, <2>1
  <2>3. Holds(w)'
    BY <2>1 DEF Holds
  <2>4. ASSUME NEW v \in Writer \ {w}
        PROVE  Holds(v)'
    <3>1. Holds(v) /\ writer'[v] = writer[v] /\ writer[v].at <= clock'
      BY <1>1, <2>1 DEF Holds
    <3>. QED
      BY <2>1, <3>1 DEF Holds
  <2>. QED
    BY <1>1, <1>2, <2>1, <2>2, <2>3, <2>4
<1>4. ASSUME NEW w \in Writer, Flush(w)
      PROVE  Issued'
  <2>1. /\ lastId' = lastId + 1 /\ writer'[w].id = lastId + 1
        /\ writer'[w].at = writer[w].at
        /\ \A v \in Writer \ {w} : writer'[v] = writer[v]
        /\ UNCHANGED <<rows, clock, gone>>
    BY <1>4 DEF Flush, ListingTypes
  <2>2. \A n \in 1..lastId : n \in 1..lastId' /\ n # lastId + 1
    BY <1>1, <2>1
  <2>3. lastId + 1 \in 1..lastId'
    BY <1>1, <2>1
  <2>4. Holds(w)'
    <3>1. writer'[w].at <= clock
      BY <1>1, <2>1 DEF Holds
    <3>2. \A x \in rows \cup gone : x.id # lastId + 1
      BY <1>1, <2>2
    <3>3. \A v \in Writer \ {w} : writer[v].pc = "commit" => writer[v].id # lastId + 1
      BY <1>1, <2>2 DEF Holds
    <3>. QED
      BY <2>1, <2>3, <3>1, <3>2, <3>3 DEF Holds
  <2>5. ASSUME NEW v \in Writer \ {w}
        PROVE  Holds(v)'
    <3>1. Holds(v) /\ writer'[v] = writer[v]
      BY <1>1, <2>1
    <3>2. writer[v].pc = "commit" => writer[v].id \in 1..lastId' /\ writer[v].id # lastId + 1
      BY <2>2, <3>1 DEF Holds
    <3>. QED
      BY <2>1, <3>1, <3>2 DEF Holds
  <2>6. \A x \in rows \cup gone : x.id \in 1..lastId'
    BY <1>1, <2>2
  <2>. QED
    BY <1>1, <1>2, <2>1, <2>4, <2>5, <2>6
<1>5. ASSUME NEW w \in Writer, Commit(w)
      PROVE  Issued'
  <2>1. PICK a \in Row : /\ a \notin rows \cup gone /\ rows' = rows \cup {a}
                         /\ a.id = writer[w].id /\ a.at = writer[w].at
                         /\ UNCHANGED <<walk, gone>>
    BY <1>5, CommitBrings
  <2>2. /\ writer[w].pc = "commit"
        /\ writer'[w].pc = "done" /\ writer'[w].at = writer[w].at
        /\ \A v \in Writer \ {w} : writer'[v] = writer[v]
        /\ UNCHANGED <<clock, lastId>>
    BY <1>5 DEF Commit, ListingTypes
  <2>3. a.id \in 1..lastId /\ a.at <= clock
    BY <1>1, <2>1, <2>2 DEF Holds
  <2>4. Holds(w)'
    BY <1>1, <2>2 DEF Holds
  <2>5. ASSUME NEW v \in Writer \ {w}
        PROVE  Holds(v)'
    <3>1. Holds(v) /\ Holds(w) /\ writer'[v] = writer[v]
      BY <1>1, <2>2
    <3>2. writer[v].pc = "commit" => a.id # writer[v].id
      BY <2>1, <2>2, <3>1 DEF Holds
    <3>. QED
      BY <2>1, <2>2, <3>1, <3>2 DEF Holds
  <2>. QED
    BY <1>1, <1>2, <2>1, <2>2, <2>3, <2>4, <2>5
<1>6. ASSUME NEW x \in rows, Leave(x)
      PROVE  Issued'
  BY <1>6 DEF Issued, Leave
<1>7. CASE UNCHANGED <<rows, gone, clock, lastId, writer>>
  BY <1>7 DEF Issued
<1>8. CASE Refuse \/ Count \/ Page \/ Related \/ Turn \/ UNCHANGED vars
  BY <1>7, <1>8 DEF Refuse, Count, Page, Related, Turn, vars
<1>. QED
  BY <1>3, <1>4, <1>5, <1>6, <1>8 DEF Next, Done

---------------------------------------------------------------------------
(* What the walk has met.                                                  *)

(* A page read is shown after the pages before it. *)
LEMMA PageRead ==
    ASSUME ListingTypes, Page
    PROVE  /\ walk.pc = "page" /\ walk'.pc = "related"
           /\ walk'.page = Window(Listed(rows), walk.offset)
           /\ walk'.seen = walk.seen /\ walk'.start = walk.start
           /\ walk'.offset = walk.offset /\ walk'.related = {}
           /\ walk'.total = walk.total /\ walk'.counted = walk.counted
           /\ rows' = rows /\ gone' = gone
           /\ Trail = walk.seen /\ Trail' = walk.seen \o walk'.page
           /\ Reach = walk.offset /\ Reach' = walk.offset + Limit
           /\ ~ Short /\ (Short' <=> Len(walk'.page) < Limit)
<1>1. /\ walk.pc = "page" /\ walk'.pc = "related"
      /\ walk'.page = Window(Listed(rows), walk.offset)
      /\ walk'.seen = walk.seen /\ walk'.start = walk.start
      /\ walk'.offset = walk.offset /\ walk'.related = {}
      /\ walk'.total = walk.total /\ walk'.counted = walk.counted
      /\ rows' = rows /\ gone' = gone
  BY DEF ListingTypes, Page
<1>. QED
  BY <1>1 DEF Trail, Reach, Short, Read

(* PageShows of the page read. *)
LEMMA PageReadShows ==
    ASSUME ListingTypes, Page
    PROVE  /\ walk'.page \in Seq(Row)
           /\ \A x : x \in ToSet(walk'.page) <=>
                        /\ x \in rows /\ walk.offset <= Place(x, rows)
                        /\ Place(x, rows) < walk.offset + Limit
           /\ \A i, j \in DOMAIN walk'.page : walk'.page[i] = walk'.page[j] => i = j
           /\ walk'.page # <<>> => walk.offset + Len(walk'.page) <= Cardinality(rows)
           /\ Len(walk'.page) < Limit => Cardinality(rows) <= walk.offset + Len(walk'.page)
           /\ Len(walk'.page) \in Nat
<1>1. /\ rows \in SUBSET Row /\ IsFiniteSet(rows) /\ walk.offset \in Nat
      /\ walk'.page = Window(Listed(rows), walk.offset)
  BY PageRead DEF ListingTypes
<1>. DEFINE p == walk'.page
            o == walk.offset
<1>2. o \in Nat /\ p = Window(Listed(rows), o)
  BY <1>1
<1>. HIDE DEF p, o
<1>3. /\ p \in Seq(Row)
      /\ \A x : x \in ToSet(p) <=>
                   /\ x \in rows /\ o <= Place(x, rows)
                   /\ Place(x, rows) < o + Limit
      /\ \A i, j \in DOMAIN p : p[i] = p[j] => i = j
      /\ p # <<>> => o + Len(p) <= Cardinality(rows)
      /\ Len(p) < Limit => Cardinality(rows) <= o + Len(p)
      /\ Len(p) \in Nat
  BY <1>1, <1>2, PageShows
<1>. QED
  BY <1>3 DEF p, o

LEMMA MetKept == ListingTypes /\ Issued /\ Met /\ [Next]_vars => Met'
<1>. SUFFICES ASSUME ListingTypes, Issued, Met, [Next]_vars
              PROVE  Met'
  OBVIOUS
<1>1. /\ walk.seen \in Seq(Row) /\ walk.page \in Seq(Row)
  BY DEF ListingTypes
<1>2. ASSUME NEW w \in Writer, Commit(w)
      PROVE  Met'
  BY <1>2, CommitBrings DEF Met
<1>3. ASSUME NEW x \in rows, Leave(x)
      PROVE  Met'
  BY <1>3 DEF Met, Leave
<1>4. CASE Page
  <2>1. ToSet(walk'.page) \subseteq rows
    BY <1>4, PageReadShows
  <2>. QED
    BY <1>4, <2>1, PageRead DEF Met
<1>5. CASE Aside
  <2>1. CASE UNCHANGED <<rows, walk, gone>>
    BY <2>1 DEF Met
  <2>2. CASE UNCHANGED vars \/ \E w \in Writer : Begin(w) \/ Flush(w)
    BY <2>1, <2>2 DEF vars, Begin, Flush
  <2>3. CASE Refuse
    BY <2>3 DEF Refuse, Met, ListingTypes
  <2>4. CASE Count
    BY <2>4 DEF Count, Met, ListingTypes
  <2>5. CASE Related
    BY <2>5 DEF Related, Met, ListingTypes
  <2>6. CASE Turn
    <3>1. /\ walk'.start = walk.start /\ walk'.counted = walk.counted
          /\ walk'.page = walk.page /\ walk'.related = walk.related
          /\ walk'.seen = walk.seen \o walk.page /\ UNCHANGED <<rows, gone>>
      BY <2>6 DEF Turn, ListingTypes
    <3>2. ToSet(walk'.seen) = ToSet(walk.seen) \cup ToSet(walk.page)
      BY <1>1, <3>1, ConcatenatedSet
    <3>. QED
      BY <3>1, <3>2 DEF Met
  <2>. QED
    BY <1>5, <2>2, <2>3, <2>4, <2>5, <2>6 DEF Aside
<1>. QED
  BY <1>2, <1>3, <1>4, <1>5, StepCases

(* The trail is of rows met. *)
LEMMA TrailMet ==
    ASSUME ListingTypes, Met
    PROVE  ToSet(Trail) \subseteq rows \cup gone
<1>1. walk.seen \in Seq(Row) /\ walk.page \in Seq(Row)
  BY DEF ListingTypes
<1>2. ToSet(walk.seen \o walk.page) = ToSet(walk.seen) \cup ToSet(walk.page)
  BY <1>1, ConcatenatedSet
<1>. QED
  BY <1>2 DEF Trail, Met

---------------------------------------------------------------------------
(* Rows missed and rows repeated.                                          *)

(* The sets compared are finite. *)
LEMMA FiniteParts ==
    ASSUME ListingTypes, Met
    PROVE  /\ IsFiniteSet(rows) /\ IsFiniteSet(gone) /\ Cardinality(gone) \in Nat
           /\ IsFiniteSet(Missed) /\ Cardinality(Missed) \in Nat
           /\ IsFiniteSet(Inserted) /\ Cardinality(Inserted) \in Nat
           /\ IsFiniteSet(walk.counted) /\ Cardinality(walk.counted) \in Nat
           /\ \A n : /\ IsFiniteSet(Missed \cap First(rows, n))
                     /\ Cardinality(Missed \cap First(rows, n)) \in Nat
           /\ IsFiniteSet(rows \cup gone)
<1>1. IsFiniteSet(rows) /\ IsFiniteSet(gone) /\ IsFiniteSet(rows \cup gone)
  BY FS_Union DEF ListingTypes
<1>2. /\ Missed \in SUBSET rows /\ Inserted \in SUBSET (rows \cup gone)
      /\ walk.counted \in SUBSET (rows \cup gone)
      /\ \A n : Missed \cap First(rows, n) \in SUBSET rows
  BY DEF Missed, Inserted, Met
<1>3. /\ IsFiniteSet(Missed) /\ IsFiniteSet(Inserted) /\ IsFiniteSet(walk.counted)
      /\ \A n : IsFiniteSet(Missed \cap First(rows, n))
  BY <1>1, <1>2, FS_Subset
<1>. QED
  BY <1>1, <1>3, FS_CardinalityType

LEMMA MissesKept ==
    ListingTypes /\ Issued /\ Met /\ Misses /\ [Next]_vars => Misses'
<1>. SUFFICES ASSUME ListingTypes, Issued, Met, Misses, [Next]_vars
              PROVE  Misses'
  OBVIOUS
<1>. DEFINE Hidden == Missed \cap First(rows, Reach)
<1>1. /\ IsFiniteSet(Hidden) /\ Cardinality(Hidden) \in Nat
      /\ IsFiniteSet(Missed) /\ Cardinality(Missed) \in Nat
      /\ IsFiniteSet(gone) /\ Cardinality(gone) \in Nat
      /\ rows \in SUBSET Row /\ IsFiniteSet(rows) /\ Reach \in Nat
  BY FiniteParts, TrailType DEF ListingTypes
<1>2. /\ Cardinality(Hidden) <= Cardinality(gone)
      /\ Short => Cardinality(Missed) <= Cardinality(gone)
  BY DEF Misses
<1>3. ASSUME gone' = gone, Hidden' \in SUBSET Hidden,
             Short' => Missed' \in SUBSET Hidden \/ (Short /\ Missed' \in SUBSET Missed)
      PROVE  Misses'
  <2>1. Cardinality(Hidden') \in Nat /\ Cardinality(Hidden') <= Cardinality(Hidden)
    BY <1>1, <1>3, FS_Subset, FS_CardinalityType
  <2>2. ASSUME Short'
        PROVE  Cardinality(Missed') <= Cardinality(gone)
    <3>1. CASE Missed' \in SUBSET Hidden
      <4>1. Cardinality(Missed') \in Nat /\ Cardinality(Missed') <= Cardinality(Hidden)
        BY <1>1, <3>1, FS_Subset, FS_CardinalityType
      <4>. QED
        BY <1>1, <1>2, <4>1
    <3>2. CASE Short /\ Missed' \in SUBSET Missed
      <4>1. Cardinality(Missed') \in Nat /\ Cardinality(Missed') <= Cardinality(Missed)
        BY <1>1, <3>2, FS_Subset, FS_CardinalityType
      <4>. QED
        BY <1>1, <1>2, <3>2, <4>1
    <3>. QED
      BY <1>3, <2>2, <3>1, <3>2
  <2>3. Cardinality(Hidden') <= Cardinality(gone)
    BY <1>1, <1>2, <2>1
  <2>. QED
    BY <1>3, <2>2, <2>3 DEF Misses
<1>4. CASE Aside
  <2>1. Missed' = Missed /\ Hidden' = Hidden /\ Short' = Short /\ gone' = gone
    BY <1>4, AsideKeeps DEF Missed
  <2>. QED
    BY <1>3, <2>1
<1>5. CASE Page
  <2>1. /\ rows' = rows /\ gone' = gone /\ walk'.start = walk.start
        /\ Trail = walk.seen /\ Trail' = walk.seen \o walk'.page
        /\ Reach = walk.offset /\ Reach' = walk.offset + Limit
        /\ Short' <=> Len(walk'.page) < Limit
    BY <1>5, PageRead
  <2>2. walk.seen \in Seq(Row) /\ walk'.page \in Seq(Row)
    BY <1>5, PageReadShows DEF ListingTypes
  <2>3. ToSet(Trail') = ToSet(Trail) \cup ToSet(walk'.page)
    BY <2>1, <2>2, ConcatenatedSet
  <2>4. Missed' = Missed \ ToSet(walk'.page)
    BY <2>1, <2>3 DEF Missed
  <2>5. \A x \in rows : Place(x, rows) \in Nat
    BY <1>1, PlaceType
  <2>6. \A x \in rows : Place(x, rows) < Reach' /\ x \notin ToSet(walk'.page)
                           => Place(x, rows) < Reach
    BY <1>1, <1>5, <2>1, <2>5, PageReadShows
  <2>7. Hidden' \in SUBSET Hidden
    BY <2>1, <2>4, <2>6 DEF First
  <2>8. ASSUME Short'
        PROVE  Missed' \in SUBSET Hidden
    <3>1. /\ Cardinality(rows) <= walk.offset + Len(walk'.page)
          /\ Len(walk'.page) \in Nat /\ Len(walk'.page) < Limit
      BY <1>5, <2>1, <2>8, PageReadShows
    <3>2. \A x \in rows : Place(x, rows) + 1 \in 1..Cardinality(rows)
      BY <1>1, ListedPlaces
    <3>3. Cardinality(rows) \in Nat
      BY <1>1, FS_CardinalityType
    <3>4. \A x \in rows : Place(x, rows) < Reach'
      BY <1>1, <2>1, <2>5, <3>1, <3>2, <3>3, Numbers
    <3>. QED
      BY <2>4, <2>6, <3>4 DEF First, Missed
  <2>. QED
    BY <1>3, <2>1, <2>7, <2>8
<1>6. ASSUME NEW w \in Writer, Commit(w)
      PROVE  Misses'
  <2>1. PICK a \in Row : /\ a \notin rows \cup gone /\ rows' = rows \cup {a}
                         /\ UNCHANGED <<walk, gone>>
    BY <1>6, CommitBrings
  <2>2. Trail' = Trail /\ Reach' = Reach /\ Short' = Short
    BY <2>1 DEF Trail, Reach, Short, Read
  <2>3. Missed' = Missed /\ a \notin Missed
    BY <2>1, <2>2 DEF Missed, Met
  <2>4. First(rows', Reach) \subseteq First(rows, Reach) \cup {a}
    BY <1>1, <2>1, FirstAfterComing
  <2>5. Hidden' \in SUBSET Hidden
    BY <2>2, <2>3, <2>4
  <2>. QED
    BY <1>3, <2>1, <2>2, <2>3, <2>5
<1>7. ASSUME NEW x \in rows, Leave(x)
      PROVE  Misses'
  <2>1. rows' = rows \ {x} /\ gone' = gone \cup {x} /\ walk' = walk
    BY <1>7 DEF Leave
  <2>2. Trail' = Trail /\ Reach' = Reach /\ Short' = Short
    BY <2>1 DEF Trail, Reach, Short, Read
  <2>3. Missed' \in SUBSET Missed
    BY <2>1, <2>2 DEF Missed
  <2>4. Cardinality(gone') = Cardinality(gone) + 1
    BY <1>1, <2>1, FS_AddElement DEF Issued
  <2>5. PICK z : First(rows', Reach) \subseteq First(rows, Reach) \cup {z}
    BY <1>1, <2>1, FirstAfterGoing
  <2>6. Hidden' \in SUBSET (Hidden \cup {z})
    BY <2>2, <2>3, <2>5
  <2>7. /\ IsFiniteSet(Hidden \cup {z})
        /\ Cardinality(Hidden \cup {z}) \in Nat
        /\ Cardinality(Hidden \cup {z}) <= Cardinality(Hidden) + 1
    <3>1. /\ IsFiniteSet(Hidden \cup {z})
          /\ Cardinality(Hidden \cup {z}) =
                IF z \in Hidden THEN Cardinality(Hidden)
                ELSE Cardinality(Hidden) + 1
      BY <1>1, FS_AddElement
    <3>. HIDE DEF Hidden
    <3>. QED
      BY <1>1, <3>1
  <2>8. Cardinality(Hidden') \in Nat /\ Cardinality(Hidden') <= Cardinality(Hidden \cup {z})
    BY <2>6, <2>7, FS_Subset, FS_CardinalityType
  <2>9. Cardinality(Missed') \in Nat /\ Cardinality(Missed') <= Cardinality(Missed)
    BY <1>1, <2>3, FS_Subset, FS_CardinalityType
  <2>10. Cardinality(Hidden') <= Cardinality(gone')
    BY <1>1, <1>2, <2>4, <2>7, <2>8
  <2>11. Short => Cardinality(Missed') <= Cardinality(gone')
    BY <1>1, <1>2, <2>4, <2>9
  <2>. QED
    BY <2>2, <2>10, <2>11 DEF Misses
<1>. QED
  BY <1>4, <1>5, <1>6, <1>7, StepCases

LEMMA RepeatsKept ==
    ListingTypes /\ Issued /\ Met /\ Repeats /\ [Next]_vars => Repeats'
<1>. SUFFICES ASSUME ListingTypes, Issued, Met, Repeats, [Next]_vars
              PROVE  Repeats'
  OBVIOUS
<1>1. /\ IsFiniteSet(Inserted) /\ Cardinality(Inserted) \in Nat
      /\ rows \in SUBSET Row /\ IsFiniteSet(rows) /\ Reach \in Nat
      /\ Trail \in Seq(Row)
  BY FiniteParts, TrailType DEF ListingTypes
<1>2. \A x : Occurrences(Trail, x) \in Nat /\ Place(x, rows) \in Nat
  BY <1>1, OccurrencesType, PlaceType
<1>3. CASE Aside
  <2>1. Inserted' = Inserted
    BY <1>3, AsideKeeps DEF Inserted
  <2>. QED
    BY <1>3, <2>1, AsideKeeps DEF Repeats
<1>4. CASE Page
  <2>. DEFINE p == walk'.page
              o == walk.offset
  <2>1. /\ rows' = rows /\ gone' = gone /\ Inserted' = Inserted
        /\ Trail' = Trail \o p /\ Reach = o /\ Reach' = o + Limit
    BY <1>4, PageRead DEF Inserted
  <2>2. /\ p \in Seq(Row)
        /\ \A x : x \in ToSet(p) <=>
                     x \in rows /\ o <= Place(x, rows) /\ Place(x, rows) < o + Limit
        /\ \A i, j \in DOMAIN p : p[i] = p[j] => i = j
    BY <1>4, PageReadShows
  <2>. HIDE DEF p, o
  <2>3. \A x : /\ Occurrences(Trail', x) <= Occurrences(Trail, x) + 1
               /\ x \notin ToSet(p) => Occurrences(Trail', x) = Occurrences(Trail, x)
    BY <1>1, <2>1, <2>2, OccurrencesAppended
  <2>4. Trail' \in Seq(Row)
    BY <1>1, <2>1, <2>2, ConcatProperties
  <2>5. \A x : Occurrences(Trail', x) \in Nat
    BY <2>4, OccurrencesType
  <2>6. ASSUME NEW x \in rows \cup gone
        PROVE  Occurrences(Trail', x) <= Cardinality(Inserted) + 1
    <3>1. CASE x \notin ToSet(p)
      BY <2>3, <3>1 DEF Repeats
    <3>2. CASE x \in ToSet(p) /\ Occurrences(Trail, x) = 0
      <4>1. Occurrences(Trail', x) <= 1
        BY <2>3, <2>5, <3>2
      <4>. QED
        BY <1>1, <2>5, <4>1
    <3>3. CASE x \in ToSet(p) /\ Occurrences(Trail, x) # 0
      <4>1. x \in rows /\ Reach <= Place(x, rows)
        BY <2>1, <2>2, <3>3
      <4>2. Occurrences(Trail, x) + Place(x, rows) <= Cardinality(Inserted) + Reach
        BY <3>3, <4>1 DEF Repeats
      <4>3. Occurrences(Trail, x) <= Cardinality(Inserted)
        BY <1>1, <1>2, <4>1, <4>2
      <4>4. Occurrences(Trail', x) <= Occurrences(Trail, x) + 1
        BY <2>3
      <4>. QED
        BY <1>1, <1>2, <2>5, <4>3, <4>4
    <3>. QED
      BY <3>1, <3>2, <3>3
  <2>7. ASSUME NEW x \in rows, Occurrences(Trail', x) # 0, Reach' <= Place(x, rows)
        PROVE  Occurrences(Trail', x) + Place(x, rows) <= Cardinality(Inserted) + Reach'
    <3>1. o \in Nat /\ o + Limit <= Place(x, rows) /\ Place(x, rows) \in Nat
      BY <1>1, <1>2, <2>1, <2>7
    <3>2. x \notin ToSet(p)
      BY <2>2, <3>1, Numbers
    <3>3. Occurrences(Trail', x) = Occurrences(Trail, x)
      BY <2>3, <3>2
    <3>4. Reach <= Place(x, rows)
      BY <2>1, <3>1, Numbers
    <3>5. Occurrences(Trail, x) + Place(x, rows) <= Cardinality(Inserted) + Reach
      BY <2>7, <3>3, <3>4 DEF Repeats
    <3>. QED
      BY <1>1, <1>2, <2>1, <3>1, <3>3, <3>5, Numbers
  <2>. QED
    BY <2>1, <2>6, <2>7 DEF Repeats
<1>5. ASSUME NEW w \in Writer, Commit(w)
      PROVE  Repeats'
  <2>1. PICK a \in Row : /\ a \notin rows \cup gone /\ rows' = rows \cup {a}
                         /\ UNCHANGED <<walk, gone>>
    BY <1>5, CommitBrings
  <2>2. Trail' = Trail /\ Reach' = Reach
    BY <2>1 DEF Trail, Reach, Read
  <2>3. Inserted' = Inserted \cup {a} /\ a \notin Inserted
    BY <2>1 DEF Inserted, Met
  <2>4. Cardinality(Inserted') = Cardinality(Inserted) + 1
    BY <1>1, <2>3, FS_AddElement
  <2>5. Occurrences(Trail, a) = 0
    <3>1. a \notin ToSet(Trail)
      BY <2>1, TrailMet
    <3>. QED
      BY <1>1, <3>1, OccurrencesType
  <2>6. ASSUME NEW x \in rows' \cup gone
        PROVE  Occurrences(Trail, x) <= Cardinality(Inserted') + 1
    <3>1. Occurrences(Trail, x) <= Cardinality(Inserted) + 1
      <4>1. CASE x = a
        BY <1>1, <2>5, <4>1
      <4>2. CASE x # a
        BY <2>1, <4>2 DEF Repeats
      <4>. QED
        BY <4>1, <4>2
    <3>. QED
      BY <1>1, <1>2, <2>4, <3>1
  <2>7. ASSUME NEW x \in rows', Occurrences(Trail, x) # 0, Reach <= Place(x, rows')
        PROVE  Occurrences(Trail, x) + Place(x, rows') <= Cardinality(Inserted') + Reach
    <3>1. x \in rows
      BY <2>1, <2>5, <2>7
    <3>2. /\ Place(x, rows') \in Nat /\ Place(x, rows) \in Nat
          /\ Place(x, rows') <= Place(x, rows) + 1
      BY <1>1, <2>1, <3>1, RowComes
    <3>3. CASE Reach <= Place(x, rows)
      <4>1. Occurrences(Trail, x) + Place(x, rows) <= Cardinality(Inserted) + Reach
        BY <2>7, <3>1, <3>3 DEF Repeats
      <4>. QED
        BY <1>1, <1>2, <2>4, <3>2, <4>1
    <3>4. CASE ~ (Reach <= Place(x, rows))
      <4>1. Place(x, rows') = Reach
        BY <1>1, <2>7, <3>2, <3>4
      <4>2. Occurrences(Trail, x) <= Cardinality(Inserted) + 1
        BY <3>1 DEF Repeats
      <4>. QED
        BY <1>1, <1>2, <2>4, <4>1, <4>2
    <3>. QED
      BY <3>3, <3>4
  <2>. QED
    BY <2>1, <2>2, <2>6, <2>7 DEF Repeats
<1>6. ASSUME NEW y \in rows, Leave(y)
      PROVE  Repeats'
  <2>1. rows' = rows \ {y} /\ gone' = gone \cup {y} /\ walk' = walk
    BY <1>6 DEF Leave
  <2>2. Trail' = Trail /\ Reach' = Reach /\ Inserted' = Inserted
    BY <2>1 DEF Trail, Reach, Read, Inserted
  <2>3. \A x \in rows' \cup gone' : Occurrences(Trail, x) <= Cardinality(Inserted) + 1
    BY <2>1 DEF Repeats
  <2>4. ASSUME NEW x \in rows', Occurrences(Trail, x) # 0, Reach <= Place(x, rows')
        PROVE  Occurrences(Trail, x) + Place(x, rows') <= Cardinality(Inserted) + Reach
    <3>1. /\ Place(x, rows') \in Nat /\ Place(x, rows) \in Nat
          /\ Place(x, rows') <= Place(x, rows)
      BY <1>1, <2>1, RowGoes
    <3>2. Reach <= Place(x, rows)
      BY <1>1, <2>4, <3>1
    <3>3. Occurrences(Trail, x) + Place(x, rows) <= Cardinality(Inserted) + Reach
      BY <2>1, <2>4, <3>2 DEF Repeats
    <3>. QED
      BY <1>1, <1>2, <3>1, <3>3
  <2>. QED
    BY <2>1, <2>2, <2>3, <2>4 DEF Repeats
<1>. QED
  BY <1>3, <1>4, <1>5, <1>6, StepCases

---------------------------------------------------------------------------
(* The total and the page.                                                 *)

LEMMA TotalsKept ==
    ListingTypes /\ Issued /\ Met /\ Totals /\ [Next]_vars => Totals'
<1>. SUFFICES ASSUME ListingTypes, Issued, Met, Totals, [Next]_vars
              PROVE  Totals'
  OBVIOUS
<1>. DEFINE Came == (rows \cup gone) \ walk.counted
            Went == walk.counted \cap gone
            reached == walk.offset + Len(walk.page)
<1>1. /\ IsFiniteSet(rows) /\ Cardinality(rows) \in Nat
      /\ IsFiniteSet(rows \cup gone)
      /\ IsFiniteSet(walk.counted) /\ Cardinality(walk.counted) \in Nat
      /\ IsFiniteSet(Came) /\ Cardinality(Came) \in Nat
      /\ IsFiniteSet(Went) /\ Cardinality(Went) \in Nat
  BY FiniteParts, FS_Difference, FS_Intersection, FS_CardinalityType
<1>2. /\ walk.total \in Nat /\ walk.offset \in Nat /\ Len(walk.page) \in Nat
      /\ reached \in Nat
  BY LenProperties DEF ListingTypes
(* Rows that come and go move the bounds apart. *)
<1>3. ASSUME walk' = walk, rows \cup gone \subseteq rows' \cup gone',
             gone \subseteq gone', IsFiniteSet(rows' \cup gone')
      PROVE  Totals'
  <2>1. Came \in SUBSET Came' /\ Went \in SUBSET Went' /\ Went' \in SUBSET walk.counted
    BY <1>3
  <2>2. IsFiniteSet(Came') /\ IsFiniteSet(Went')
    BY <1>1, <1>3, <2>1, FS_Difference, FS_Subset
  <2>3. /\ Cardinality(Came') \in Nat /\ Cardinality(Came) <= Cardinality(Came')
        /\ Cardinality(Went') \in Nat /\ Cardinality(Went) <= Cardinality(Went')
    BY <2>1, <2>2, FS_Subset, FS_CardinalityType
  <2>. HIDE DEF Came, Went, reached
  <2>4. Read => /\ walk.page # <<>> => reached <= walk.total + Cardinality(Came)
                /\ Len(walk.page) < Limit => walk.total - Cardinality(Went) <= reached
    BY DEF Totals, Came, Went, reached
  <2>5. Read => /\ walk.page # <<>> => reached <= walk.total + Cardinality(Came')
                /\ Len(walk.page) < Limit => walk.total - Cardinality(Went') <= reached
    BY <1>1, <1>2, <2>3, <2>4
  <2>6. Read' = Read /\ reached' = reached
    BY <1>3 DEF Read, reached
  <2>. QED
    BY <1>3, <2>5, <2>6 DEF Totals, Came, Went, reached
<1>4. ASSUME NEW w \in Writer, Commit(w)
      PROVE  Totals'
  <2>1. /\ walk' = walk /\ rows \cup gone \subseteq rows' \cup gone'
        /\ gone' = gone /\ \E a : rows' \cup gone' = (rows \cup gone) \cup {a}
    BY <1>4, CommitBrings
  <2>. QED
    BY <1>1, <1>3, <2>1, FS_AddElement
<1>5. ASSUME NEW x \in rows, Leave(x)
      PROVE  Totals'
  <2>1. walk' = walk /\ rows' \cup gone' = rows \cup gone /\ gone \subseteq gone'
    BY <1>5 DEF Leave
  <2>. QED
    BY <1>1, <1>3, <2>1
<1>6. CASE Page
  <2>1. /\ rows' = rows /\ gone' = gone /\ walk'.offset = walk.offset
        /\ walk'.total = walk.total /\ walk'.counted = walk.counted
        /\ walk.total = Cardinality(walk.counted)
    BY <1>6, PageRead DEF Totals
  <2>2. /\ walk'.page # <<>> => walk.offset + Len(walk'.page) <= Cardinality(rows)
        /\ Len(walk'.page) < Limit => Cardinality(rows) <= walk.offset + Len(walk'.page)
        /\ Len(walk'.page) \in Nat
    BY <1>6, PageReadShows
  <2>3. Cardinality(rows) <= walk.total + Cardinality(Came)
    <3>1. /\ IsFiniteSet(walk.counted \cup Came)
          /\ Cardinality(walk.counted \cup Came) =
                Cardinality(walk.counted) + Cardinality(Came)
      <4>1. walk.counted \cap Came = {}
        OBVIOUS
      <4>. HIDE DEF Came
      <4>2. /\ IsFiniteSet(walk.counted \cup Came)
            /\ Cardinality(walk.counted \cup Came) =
                  Cardinality(walk.counted) + Cardinality(Came)
                     - Cardinality(walk.counted \cap Came)
        BY <1>1, FS_Union
      <4>3. Cardinality(walk.counted \cap Came) = 0
        BY <4>1, FS_EmptySet
      <4>. QED
        BY <1>1, <4>2, <4>3
    <3>2. rows \in SUBSET (walk.counted \cup Came)
      OBVIOUS
    <3>. QED
      BY <2>1, <3>1, <3>2, FS_Subset
  <2>4. walk.total - Cardinality(Went) <= Cardinality(rows)
    <3>1. /\ IsFiniteSet(walk.counted \ gone)
          /\ Cardinality(walk.counted \ gone) =
                Cardinality(walk.counted) - Cardinality(Went)
      BY <1>1, FS_Difference
    <3>2. walk.counted \ gone \in SUBSET rows
      BY DEF Met
    <3>. QED
      BY <1>1, <2>1, <3>1, <3>2, FS_Subset
  <2>. HIDE DEF Came, Went
  <2>5. /\ walk'.page # <<>> =>
              walk.offset + Len(walk'.page) <= walk.total + Cardinality(Came)
        /\ Len(walk'.page) < Limit =>
              walk.total - Cardinality(Went) <= walk.offset + Len(walk'.page)
    BY <1>1, <1>2, <2>2, <2>3, <2>4
  <2>. QED
    BY <2>1, <2>5 DEF Totals, Came, Went
<1>7. CASE Aside
  <2>1. CASE UNCHANGED <<rows, walk, gone>>
    BY <1>1, <1>3, <2>1
  <2>2. CASE UNCHANGED vars \/ \E w \in Writer : Begin(w) \/ Flush(w)
    BY <2>1, <2>2 DEF vars, Begin, Flush
  <2>3. CASE Refuse
    BY <2>3 DEF Refuse, Totals, Read, ListingTypes
  <2>4. CASE Count
    BY <2>4 DEF Count, Totals, Read, ListingTypes
  <2>5. CASE Related
    BY <2>5 DEF Related, Totals, Read, ListingTypes
  <2>6. CASE Turn
    <3>1. walk'.pc \notin {"page", "related", "answered"}
      BY <2>6 DEF Turn, ListingTypes
    <3>. QED
      BY <3>1 DEF Totals, Read
  <2>. QED
    BY <1>7, <2>2, <2>3, <2>4, <2>5, <2>6 DEF Aside
<1>. QED
  BY <1>4, <1>5, <1>6, <1>7, StepCases

---------------------------------------------------------------------------
LEMMA ListingInvariant == Spec => []ListingInv
<1>1. Init => ListingInv
  BY ListingStart
<1>2. ListingInv /\ [Next]_vars => ListingInv'
  BY TypesKept, IssuedKept, MetKept, MissesKept, RepeatsKept, TotalsKept
     DEF ListingInv
<1>. QED
  BY <1>1, <1>2, PTL DEF Spec

(* The variables keep their types; every row the walk has met was in the   *)
(* listing.                                                                *)
THEOREM ListingTypeCorrect == Spec => []TypeOK
<1>1. ListingInv => TypeOK
  <2>. SUFFICES ASSUME ListingInv
                PROVE  TypeOK
    OBVIOUS
  <2>1. ASSUME NEW x \in rows \cup gone
        PROVE  x \in [id : 1..lastId, at : 0..clock]
    <3>1. x \in [id : Nat, at : Nat] /\ x.id \in 1..lastId /\ x.at <= clock
      BY DEF ListingInv, ListingTypes, Issued, Row
    <3>2. clock \in Nat /\ x.at \in 0..clock
      BY <3>1 DEF ListingInv, ListingTypes
    <3>. QED
      BY <3>1, <3>2
  <2>2. /\ \A w \in Writer : writer[w].pc \in WriterPc
        /\ walk.pc \in WalkPc
    BY DEF ListingInv, ListingTypes
  <2>. QED
    BY <2>1, <2>2 DEF ListingInv, Met, TypeOK, WriterPc, WalkPc
<1>. QED
  BY <1>1, ListingInvariant, PTL

(* GET /photos and GET /moderation/queue: a full walk over the pages       *)
(* misses, of the rows there all along, no more than left meanwhile, and   *)
(* shows a row again only for a row inserted meanwhile.                    *)
THEOREM WalkCorrect == Spec => []WalkAccountsForRows
<1>1. ListingInv => WalkAccountsForRows
  <2>. SUFFICES ASSUME ListingInv
                PROVE  WalkAccountsForRows
    OBVIOUS
  <2>1. walk.seen \in Seq(Row) /\ walk.page \in Seq(Row)
    BY DEF ListingInv, ListingTypes
  <2>2. \A x : Times(x) = Occurrences(walk.seen, x)
    BY DEF Times, Occurrences, Spots
  <2>3. ASSUME walk.pc = "end"
        PROVE  Cardinality({x \in walk.start \cap rows : Times(x) = 0})
                  <= Cardinality(gone)
    <3>1. Trail = walk.seen /\ Short
      BY <2>3 DEF Trail, Short, Read
    <3>2. \A x : Times(x) = 0 <=> x \notin ToSet(walk.seen)
      BY <2>1, <2>2, OccurrencesType
    <3>3. {x \in walk.start \cap rows : Times(x) = 0} = Missed
      BY <3>1, <3>2 DEF Missed
    <3>. QED
      BY <3>1, <3>3 DEF ListingInv, Misses
  <2>4. ASSUME NEW x \in ToSet(walk.seen)
        PROVE  Times(x) - 1 <= Cardinality(Inserted)
    <3>1. Occurrences(walk.seen, x) <= Occurrences(Trail, x)
      <4>1. Occurrences(walk.seen, x) \in Nat
        BY <2>1, OccurrencesType
      <4>2. Occurrences(walk.seen, x) <= Occurrences(walk.seen \o walk.page, x)
        BY <2>1, OccurrencesAppended
      <4>. QED
        BY <4>1, <4>2 DEF Trail
    <3>2. x \in rows \cup gone
      BY DEF ListingInv, Met
    <3>3. Occurrences(Trail, x) <= Cardinality(Inserted) + 1
      BY <3>2 DEF ListingInv, Repeats
    <3>4. /\ Occurrences(walk.seen, x) \in Nat /\ Occurrences(Trail, x) \in Nat
          /\ Cardinality(Inserted) \in Nat
      BY <2>1, OccurrencesType, TrailType, FiniteParts DEF ListingInv
    <3>. QED
      BY <2>2, <3>1, <3>3, <3>4
  <2>. QED
    BY <2>3, <2>4 DEF WalkAccountsForRows
<1>. QED
  BY <1>1, ListingInvariant, PTL

(* The total and the page of one answer, read by two SELECTs, disagree by  *)
(* no more than the rows that came or went in between.                     *)
THEOREM TotalCorrect == Spec => []TotalFitsPage
<1>1. ListingInv => TotalFitsPage
  BY DEF ListingInv, Totals, Read, TotalFitsPage
<1>. QED
  BY <1>1, ListingInvariant, PTL
=============================================================================
