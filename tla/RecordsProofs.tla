---------------------------- MODULE RecordsProofs ----------------------------
(***************************************************************************)
(* Proofs about what becomes of the weather service's answers: the         *)
(* conversions, for every number and every width of an int; that nothing   *)
(* of an earlier answer is left in an object that is kept; and, for every  *)
(* answer, what is read from a file that was torn anywhere, and what the   *)
(* clients print of it.                                                    *)
(***************************************************************************)
EXTENDS Records, TLAPS, WellFoundedInduction

(* Truncation is less than one off, and toward zero. *)
LEMMA TenthBound ==
    ASSUME NEW n \in Int
    PROVE  /\ Quotient(n, 10) \in Int
           /\ n >= 0 => /\ 10 * Quotient(n, 10) <= n
                       /\ n < 10 * Quotient(n, 10) + 10
           /\ n < 0 => /\ n <= 10 * Quotient(n, 10)
                      /\ 10 * Quotient(n, 10) < n + 10
BY SMT DEF Quotient

(* An int that is in range is not changed. *)
LEMMA WrapInRange ==
    ASSUME NEW n \in Int, -IntMax - 1 <= n, n <= IntMax
    PROVE  Wrap(n) = n
<1>1. IntMax \in Nat
  BY IntMaxAssumption
<1>2. n + IntMax + 1 \in 0..(2 * IntMax + 1)
  BY <1>1
<1>3. (n + IntMax + 1) % (2 * IntMax + 2) = n + IntMax + 1
  BY <1>1, <1>2
<1>. QED
  BY <1>1, <1>3 DEF Wrap

----------------------------------------------------------------------------
(* Conversions. *)

(* What is printed for a temperature in degrees Celsius, nine of which fit *)
(* into an int and into the bits of a float, is at most 0.4 degrees        *)
(* Fahrenheit too low and 1.4 too high: the division truncates, so that    *)
(* 32.5 rounds a value below zero Fahrenheit up.  This is 932067 degrees   *)
(* either way; nothing is said of numbers that the float rounds.           *)
THEOREM FahrenheitIsClose ==
    ASSUME NEW c, c.value \in Int, c.unit \in {"unit:degC", "wmoUnit:degC"},
           9 * c.value \in -FloatExact..FloatExact,
           -IntMax - 1 <= 9 * c.value, 9 * c.value <= IntMax
    PROVE  /\ 5 * CelsiusToFahrenheit(c) >= 9 * c.value + 160 - 2
           /\ 5 * CelsiusToFahrenheit(c) <= 9 * c.value + 160 + 7
<1>1. Wrap(9 * c.value) = 9 * c.value
  BY WrapInRange
<1>2. CelsiusToFahrenheit(c) = Quotient(2 * (9 * c.value) + 325, 10)
  BY <1>1 DEF CelsiusToFahrenheit
<1>3. ASSUME NEW v \in Int
      PROVE  /\ 5 * Quotient(2 * (9 * v) + 325, 10) >= 9 * v + 160 - 2
             /\ 5 * Quotient(2 * (9 * v) + 325, 10) <= 9 * v + 160 + 7
  BY SMT DEF Quotient
<1>. QED
  BY <1>2, <1>3

(* What is printed for a wind's speed is less than 0.5 mph too low and     *)
(* less than 1.5 too high, in either unit.                                 *)
THEOREM MphIsClose ==
    ASSUME NEW c, c.value \in Int
    PROVE  /\ c.unit = "unit:m_s-1" =>
                 /\ MetersPerSecondToMph(c) * 100000
                       >= c.value * 223694 - 49999
                 /\ MetersPerSecondToMph(c) * 100000
                       <= c.value * 223694 + 149999
           /\ c.unit # "unit:m_s-1" =>
                 /\ MetersPerSecondToMph(c) * 1000000
                       >= c.value * 621371 - 499999
                 /\ MetersPerSecondToMph(c) * 1000000
                       <= c.value * 621371 + 1499999
<1>1. ASSUME NEW v \in Int
      PROVE  LET f == Quotient(v * 223694 + 50000, 100000)
             IN  /\ f * 100000 >= v * 223694 - 49999
                 /\ f * 100000 <= v * 223694 + 149999
  BY SMT DEF Quotient
<1>2. ASSUME NEW v \in Int
      PROVE  LET f == Quotient(v * 621371 + 500000, 1000000)
             IN  /\ f * 1000000 >= v * 621371 - 499999
                 /\ f * 1000000 <= v * 621371 + 1499999
  BY SMT DEF Quotient
<1>. QED
  BY <1>1, <1>2, SMT DEF MetersPerSecondToMph

(* A missing dewpoint in degrees Celsius is given to the clients as a      *)
(* number of more than a sixth of INT_MAX, whatever the width of an int:   *)
(* not as INT_MAX, which the clients could take for a value that is not    *)
(* there.  The number is far beyond what a float has exactly.  Each of the *)
(* three float steps is off by a part in 2^24 at most, so that what is     *)
(* shown is a number that is near the exact one.                           *)
THEOREM MissingDewpointIsHot ==
    ASSUME NEW c, c.value = IntMax,
           c.unit \in {"unit:degC", "wmoUnit:degC"},
           NEW shown \in Int,
           Within(shown, CelsiusToFahrenheit(c), 1 + IntMax \div 1048576)
    PROVE  6 * shown > IntMax /\ shown < IntMax
<1>1. IntMax \in Nat /\ IntMax >= 200000
  BY IntMaxAssumption
<1>2. Wrap(9 * IntMax) = IntMax - 8
  <2> DEFINE w == 2 * IntMax + 2
             r == 2 * IntMax - 7
  <2>1. 9 * IntMax + IntMax + 1 = 4 * w + r
    BY <1>1
  <2>2. w \in Nat \ {0} /\ r \in 0..(w - 1)
    BY <1>1
  <2>3. (4 * w + r) % w = r
    BY <2>2
  <2>. QED
    BY <1>1, <2>1, <2>3 DEF Wrap
<1> DEFINE n == 2 * (IntMax - 8) + 325
           f == Quotient(n, 10)
<1>3. CelsiusToFahrenheit(c) = f
  BY <1>2 DEF CelsiusToFahrenheit
<1>4. f \in Int /\ 10 * f <= n /\ n < 10 * f + 10
  BY <1>1, TenthBound, SMT
<1> HIDE DEF f
<1>5. 5 * f >= IntMax + 150 /\ 5 * f <= IntMax + 155
  BY <1>1, <1>4
<1> DEFINE rounded == 1 + IntMax \div 1048576
<1>6. rounded \in Int /\ 1048576 * (rounded - 1) <= IntMax
  BY <1>1
<1>7. shown - f \in -rounded..rounded
  BY <1>3 DEF Within
<1> HIDE DEF rounded
<1>8. f - rounded <= shown /\ shown <= f + rounded
  BY <1>4, <1>6, <1>7
<1>. QED
  BY <1>1, <1>4, <1>5, <1>6, <1>8

----------------------------------------------------------------------------
(* Nothing is left over. *)

(* What is in an object after a complete answer: each member but the time  *)
(* is made of the answer alone.                                            *)
Complete(props) ==
    [m \in Members \ {"timestamp"} |->
        IF m = "station" THEN StationOf(Val(props, "station"))
        ELSE Assigned(m, Condition(Get(props, m)), IntMax)]

(* Every member but the station and the time is one of the values. *)
LEMMA NamesAreMembers ==
    ASSUME NEW m \in Members, m # "station", m # "timestamp"
    PROVE  \E i \in DOMAIN Names : Names[i] = m
BY DEF Members, WriteOrder, Names

(* A value that is missing has no use for what was there before, unless    *)
(* the member was reset.                                                   *)
LEMMA AssignedForgets ==
    ASSUME NEW m \in Members, m # "station", m # "timestamp", NEW c,
           NEW before, m \in Reset => before = IntMax
    PROVE  Assigned(m, c, before) = Assigned(m, c, IntMax)
<1>1. CASE m \in Reset
  BY <1>1
<1>2. CASE m = "dewpoint"
  BY <1>2 DEF Assigned
<1>3. CASE m \in {"relativeHumidity", "barometricPressure"}
  BY <1>3 DEF Assigned
<1>4. m \in Reset \cup {"dewpoint", "relativeHumidity", "barometricPressure"}
  BY NamesAreMembers DEF Names, Reset
<1>. QED
  BY <1>1, <1>2, <1>3, <1>4

(* Whether an answer is complete does not depend on the object it is       *)
(* parsed into, and if it is, no member but the time does.                 *)
LEMMA FromJsonForgets ==
    ASSUME NEW old, NEW j, FromJson(old, j).rc, NEW other
    PROVE  /\ FromJson(other, j).rc
           /\ FromJson(other, j).obj =
                 [m \in Members |-> FromJson(other, j).obj[m]]
           /\ \A m \in Members \ {"timestamp"} :
                 FromJson(other, j).obj[m] =
                    Complete(Get(j, "properties"))[m]
<1> DEFINE props == Get(j, "properties")
           cleared == [m \in Members |-> IF m \in Reset THEN IntMax
                                         ELSE other[m]]
           filled ==
              [m \in Members |->
                 IF m = "station" THEN StationOf(Val(props, "station"))
                 ELSE IF \E i \in Reached(props) : Names[i] = m
                      THEN Assigned(m, Condition(Get(props, m)), cleared[m])
                      ELSE cleared[m]]
<1>1. ~ (~Has(j, "properties", "object") \/ ~Has(props, "station", "string"))
  BY DEF FromJson
<1>2. Reached(props) = DOMAIN Names
  BY <1>1 DEF FromJson
<1>3. FromJson(other, j) = [obj |-> filled, rc |-> TRUE]
  BY <1>1, <1>2, Zenon DEF FromJson
<1>4. ASSUME NEW m \in Members \ {"timestamp"}
      PROVE  filled[m] = Complete(props)[m]
  <2>1. CASE m = "station"
    BY <2>1 DEF Complete
  <2>2. CASE m # "station"
    <3>1. \E i \in Reached(props) : Names[i] = m
      BY <1>2, <2>2, NamesAreMembers
    <3>2. filled[m] = Assigned(m, Condition(Get(props, m)), cleared[m])
      BY <2>2, <3>1
    <3>3. m \in Reset => cleared[m] = IntMax
      OBVIOUS
    <3>4. filled[m] = Assigned(m, Condition(Get(props, m)), IntMax)
      <4> HIDE DEF filled, cleared
      <4>. QED
        BY <2>2, <3>2, <3>3, AssignedForgets
    <3>. QED
      BY <2>2, <3>4 DEF Complete
  <2>. QED
    BY <2>1, <2>2
<1> HIDE DEF filled, cleared
<1>5. filled = [m \in Members |-> filled[m]]
  BY DEF filled
<1>. QED
  BY <1>3, <1>4, <1>5

(* An answer that is kept gives the same object whatever was parsed into   *)
(* it before: UpdateCurrentConditions may use one for all stations.        *)
THEOREM NothingIsLeftOver ==
    ASSUME NEW old, NEW j, NEW time, GetCurrentConditions(old, j, time).rc,
           NEW other
    PROVE  GetCurrentConditions(other, j, time) =
              GetCurrentConditions(old, j, time)
<1> DEFINE first == FromJson(old, j)
           second == FromJson(other, j)
<1>1. first.rc
  BY DEF GetCurrentConditions
<1>2. /\ second.rc
      /\ first.obj = [m \in Members |-> first.obj[m]]
      /\ second.obj = [m \in Members |-> second.obj[m]]
      /\ \A m \in Members \ {"timestamp"} : first.obj[m] = second.obj[m]
  BY <1>1, FromJsonForgets
<1>3. "temperature" \in Members \ {"timestamp"} /\ "timestamp" \in Members
  BY DEF Members, WriteOrder, Names
<1>. QED
  BY <1>1, <1>2, <1>3 DEF GetCurrentConditions

----------------------------------------------------------------------------
(* Induction: the provers cannot instantiate the library's induction rule, *)
(* but they find the least counterexample.                                 *)

Less == {pair \in Nat \X Nat : pair[1] < pair[2]}

(* Some natural numbers have a least one. *)
LEMMA LeastNat ==
    ASSUME NEW B, B \subseteq Nat, B # {}
    PROVE  \E n \in B : \A m \in B : n <= m
<1>1. Less = OpToRel(<, Nat)
  BY DEF Less, OpToRel
<1>2. PICK n \in B : \A m \in B : <<m, n>> \notin Less
  BY <1>1, NatLessThanWellFounded, WFMin, Zenon
<1>3. ASSUME NEW m \in B
      PROVE  n <= m
  <2>1. <<m, n>> \in Less <=> m < n
    BY DEF Less
  <2>. QED
    BY <1>2, <2>1, SMT
<1>. QED
  BY <1>3

(* What a set of numbers has if it has zero and each number's successor.   *)
LEMMA Induction ==
    ASSUME NEW Good, NEW n \in Nat, 0 \in Good,
           \A m \in 1..n : m - 1 \in Good => m \in Good
    PROVE  n \in Good
<1> DEFINE bad == {m \in 0..n : m \notin Good}
<1>1. CASE bad # {}
  <2>1. bad \subseteq Nat
    OBVIOUS
  <2> HIDE DEF bad
  <2>2. PICK m \in bad : \A k \in bad : m <= k
    BY <1>1, <2>1, LeastNat
  <2> USE DEF bad
  <2>3. m \in 1..n /\ m - 1 \in 0..n
    BY <2>2
  <2>4. m - 1 \in Good
    BY <2>2, <2>3
  <2>. QED
    BY <2>3, <2>4
<1>. QED
  BY <1>1

----------------------------------------------------------------------------
(* The sequence made of sequences. *)

(* f is what FlattenSeq makes of the first n. *)
Flattens(f, seqs, n) ==
    f = [i \in 1..n |-> IF i = 1 THEN seqs[i] ELSE f[i - 1] \o seqs[i]]

LEMMA FlattensExists ==
    ASSUME NEW seqs, NEW n \in Nat
    PROVE  \E f : Flattens(f, seqs, n)
<1> DEFINE Good == {m \in Nat : \E f : Flattens(f, seqs, m)}
<1>1. 0 \in Good
  <2>1. Flattens([i \in 1..0 |-> 0], seqs, 0)
    BY DEF Flattens
  <2>. QED
    BY <2>1
<1>2. ASSUME NEW m \in 1..n, m - 1 \in Good
      PROVE  m \in Good
  <2>1. PICK g : Flattens(g, seqs, m - 1)
    BY <1>2
  <2>2. g = [i \in 1..(m - 1) |->
               IF i = 1 THEN seqs[i] ELSE g[i - 1] \o seqs[i]]
    BY <2>1 DEF Flattens
  <2> DEFINE h == [i \in 1..m |->
                     IF i < m THEN g[i]
                     ELSE IF i = 1 THEN seqs[i] ELSE g[i - 1] \o seqs[i]]
  <2>3. ASSUME NEW i \in 1..m
        PROVE  h[i] = IF i = 1 THEN seqs[i] ELSE h[i - 1] \o seqs[i]
    <3>1. CASE i < m
      <4>1. h[i] = g[i] /\ i \in 1..(m - 1)
        BY <3>1
      <4>2. g[i] = IF i = 1 THEN seqs[i] ELSE g[i - 1] \o seqs[i]
        BY <2>2, <4>1
      <4>3. i # 1 => h[i - 1] = g[i - 1]
        BY <3>1
      <4>. QED
        BY <4>1, <4>2, <4>3
    <3>2. CASE i = m
      <4>1. h[i] = IF i = 1 THEN seqs[i] ELSE g[i - 1] \o seqs[i]
        BY <3>2
      <4>2. i # 1 => h[i - 1] = g[i - 1]
        BY <3>2
      <4>. QED
        BY <4>1, <4>2
    <3>. QED
      BY <3>1, <3>2
  <2>4. Flattens(h, seqs, m)
    <3>1. h = [i \in 1..m |-> h[i]]
      OBVIOUS
    <3> HIDE DEF h
    <3>2. [i \in 1..m |-> h[i]] =
             [i \in 1..m |->
                IF i = 1 THEN seqs[i] ELSE h[i - 1] \o seqs[i]]
      BY <2>3
    <3>. QED
      BY <3>1, <3>2 DEF Flattens
  <2>. QED
    BY <2>4
<1> HIDE DEF Good
<1>3. n \in Good
  BY <1>1, <1>2, Induction
<1>. QED
  BY <1>3 DEF Good

(* FlattenSeq is the last value of such a function. *)
LEMMA FlattenSeqIs ==
    ASSUME NEW seqs, Len(seqs) \in Nat \ {0}
    PROVE  \E f : /\ Flattens(f, seqs, Len(seqs))
                  /\ FlattenSeq(seqs) = f[Len(seqs)]
<1> DEFINE flatten ==
        CHOOSE f : f = [i \in 1..Len(seqs) |->
                          IF i = 1 THEN seqs[i] ELSE f[i - 1] \o seqs[i]]
<1>1. Flattens(flatten, seqs, Len(seqs))
  BY FlattensExists DEF Flattens
<1>2. FlattenSeq(seqs) = flatten[Len(seqs)]
  BY DEF FlattenSeq
<1>. QED
  BY <1>1, <1>2

(* Where the elements of two sequences are in one. *)
IsJoined(both, s, t) ==
    /\ Len(both) = Len(s) + Len(t)
    /\ \A p \in 1..Len(s) : both[p] = s[p]
    /\ \A c \in 1..Len(t) : both[Len(s) + c] = t[c]

LEMMA Joined ==
    ASSUME NEW S, NEW s \in Seq(S), NEW t \in Seq(S)
    PROVE  s \o t \in Seq(S) /\ IsJoined(s \o t, s, t)
BY DEF IsJoined

(* Multiples are in the order of what is multiplied. *)
LEMMA Multiples ==
    ASSUME NEW a \in Nat, NEW b \in Nat, NEW w \in Nat, a <= b
    PROVE  a * w <= b * w /\ a * w \in Nat /\ b * w \in Nat
OBVIOUS

(* The columns of row k are among those of all rows. *)
LEMMA InRow ==
    ASSUME NEW w \in Nat, NEW N \in Nat, NEW k \in 1..N, NEW c \in 1..w
    PROVE  (k - 1) * w + c \in 1..(N * w)
<1> DEFINE a == (k - 1) * w
           b == k * w
           d == N * w
<1>1. a \in Nat /\ a + w = b
  OBVIOUS
<1>2. b <= d /\ d \in Nat
  BY Multiples
<1> HIDE DEF a, b, d
<1>3. a + c \in 1..d
  BY <1>1, <1>2
<1>. QED
  BY <1>3 DEF a, d

(* Rows of one width, put one behind the other: column c of row k is where *)
(* it should be.                                                           *)
InRows(flat, rows, N, w) ==
    /\ Len(flat) = N * w
    /\ \A k \in 1..N, c \in 1..w : flat[(k - 1) * w + c] = rows[k][c]

LEMMA FlattenRows ==
    ASSUME NEW S, NEW w \in Nat, NEW N \in Nat,
           NEW rows \in [1..N -> [1..w -> S]]
    PROVE  /\ FlattenSeq(rows) \in Seq(S)
           /\ InRows(FlattenSeq(rows), rows, N, w)
<1>1. Len(rows) = N /\ rows \in Seq([1..w -> S])
  OBVIOUS
<1>2. CASE N = 0
  <2>1. FlattenSeq(rows) = rows /\ rows = <<>>
    BY <1>1, <1>2 DEF FlattenSeq
  <2>. QED
    BY <1>2, <2>1 DEF InRows
<1>3. CASE N # 0
  <2>1. PICK f : Flattens(f, rows, N) /\ FlattenSeq(rows) = f[N]
    BY <1>1, <1>3, FlattenSeqIs
  <2>2. \A i \in 1..N : f[i] = IF i = 1 THEN rows[i] ELSE f[i - 1] \o rows[i]
    <3>1. f = [i \in 1..N |->
                 IF i = 1 THEN rows[i] ELSE f[i - 1] \o rows[i]]
      BY <2>1 DEF Flattens
    <3>. QED
      BY <3>1
  <2> DEFINE Rows(n) == /\ f[n] \in Seq(S)
                        /\ Len(f[n]) = n * w
                        /\ \A k \in 1..n, c \in 1..w :
                              f[n][(k - 1) * w + c] = rows[k][c]
             Good == {n \in 0..N : n = 0 \/ Rows(n)}
  <2>3. ASSUME NEW n \in 1..N, n - 1 \in Good
        PROVE  n \in Good
    <3>1. rows[n] \in Seq(S) /\ Len(rows[n]) = w
      OBVIOUS
    <3>2. CASE n = 1
      <4>1. f[n] = rows[n]
        BY <2>2, <3>2
      <4>2. \A k \in 1..n, c \in 1..w : (k - 1) * w + c = c /\ k = n
        BY <3>2
      <4>. QED
        BY <3>1, <3>2, <4>1, <4>2
    <3>3. CASE n # 1
      <4> DEFINE before == f[n - 1]
      <4>1. Rows(n - 1) /\ n - 1 \in Nat
        BY <2>3, <3>3
      <4> HIDE DEF Good
      <4>2. before \in Seq(S) /\ Len(before) = (n - 1) * w
        BY <4>1
      <4>3. f[n] = before \o rows[n]
        BY <2>2, <3>3
      <4>4. (n - 1) * w \in Nat /\ (n - 1) * w + w = n * w
        BY <4>1
      <4>5. /\ f[n] \in Seq(S) /\ Len(f[n]) = n * w
            /\ \A p \in 1..((n - 1) * w) : f[n][p] = before[p]
            /\ \A c \in 1..w : f[n][(n - 1) * w + c] = rows[n][c]
        <5> HIDE DEF before
        <5> DEFINE len == (n - 1) * w
        <5>1. len \in Nat /\ Len(before) = len /\ len + w = n * w
          BY <4>2, <4>4
        <5> HIDE DEF len
        <5> DEFINE row == rows[n]
        <5>2. row \in Seq(S) /\ Len(row) = w /\ before \in Seq(S)
          BY <3>1, <4>2
        <5> HIDE DEF row
        <5> DEFINE both == before \o row
        <5>3. /\ both \in Seq(S)
              /\ Len(both) = Len(before) + Len(row)
              /\ \A p \in 1..Len(before) : both[p] = before[p]
              /\ \A c \in 1..Len(row) : both[Len(before) + c] = row[c]
          <6>1. both \in Seq(S) /\ IsJoined(both, before, row)
            BY <5>2, Joined, Zenon
          <6>. QED
            BY <6>1 DEF IsJoined
        <5> HIDE DEF both
        <5>4. /\ both \in Seq(S)
              /\ Len(both) = len + w
              /\ \A p \in 1..len : both[p] = before[p]
              /\ \A c \in 1..w : both[len + c] = row[c]
          BY <5>1, <5>2, <5>3
        <5>. QED
          BY <4>3, <5>1, <5>4 DEF len, row, both
      <4>6. ASSUME NEW k \in 1..n, NEW c \in 1..w
            PROVE  f[n][(k - 1) * w + c] = rows[k][c]
        <5>1. CASE k = n
          BY <4>5, <5>1
        <5>2. CASE k # n
          <6>1. k \in 1..(n - 1)
            BY <5>2
          <6>2. (k - 1) * w + c \in 1..((n - 1) * w)
            BY <4>1, <6>1, InRow
          <6>. QED
            BY <4>1, <4>5, <6>1, <6>2
        <5>. QED
          BY <5>1, <5>2
      <4>7. Rows(n)
        BY <4>5, <4>6
      <4>. QED
        BY <4>7 DEF Good
    <3>. QED
      BY <3>2, <3>3
  <2>4. 0 \in Good
    OBVIOUS
  <2> HIDE DEF Good
  <2>5. N \in Good
    BY <2>3, <2>4, Induction
  <2>. QED
    BY <1>3, <2>1, <2>5 DEF Good, InRows
<1>. QED
  BY <1>2, <1>3

----------------------------------------------------------------------------
(* What is written, and what is read of it. *)

(* A sequence that has each of its elements once. *)
IsOrder(order) ==
    /\ Len(order) \in Nat \ {0}
    /\ DOMAIN order = 1..Len(order)
    /\ \A a, b \in 1..Len(order) : order[a] = order[b] => a = b

(* What is in the objects of a kind. *)
MembersOf(k) == {OrderOf(k)[n] : n \in 1..Len(OrderOf(k))}

LEMMA WriteOrderIs ==
    WriteOrder = <<"station", "timestamp", "temperature", "relativeHumidity",
                   "barometricPressure", "dewpoint", "windSpeed",
                   "windChill", "heatIndex">>
<1> DEFINE first == <<"station", "timestamp">>
<1>1. Len(first) = 2 /\ Len(Names) = 7
  BY DEF Names
<1> DEFINE S == {first[i] : i \in 1..2} \cup {Names[i] : i \in 1..7}
<1>2. first \in Seq(S) /\ Names \in Seq(S)
  BY DEF Names
<1> HIDE DEF S
<1> HIDE DEF first
<1>3. first \o Names \in Seq(S) /\ IsJoined(first \o Names, first, Names)
  BY <1>2, Joined, Zenon
<1>4. /\ Len(WriteOrder) = 9 /\ WriteOrder \in Seq(S)
      /\ \A p \in 1..2 : WriteOrder[p] = first[p]
      /\ \A c \in 1..7 : WriteOrder[2 + c] = Names[c]
  BY <1>1, <1>3 DEF WriteOrder, first, IsJoined
<1>5. /\ WriteOrder[1] = "station" /\ WriteOrder[2] = "timestamp"
      /\ WriteOrder[2 + 1] = "temperature"
      /\ WriteOrder[2 + 2] = "relativeHumidity"
      /\ WriteOrder[2 + 3] = "barometricPressure"
      /\ WriteOrder[2 + 4] = "dewpoint"
      /\ WriteOrder[2 + 5] = "windSpeed"
      /\ WriteOrder[2 + 6] = "windChill"
      /\ WriteOrder[2 + 7] = "heatIndex"
  BY <1>4 DEF Names, first
<1>. QED
  BY <1>4, <1>5

(* Each kind's members are written in an order, and read in the same.      *)
LEMMA Orders ==
    ASSUME NEW k \in Kinds
    PROVE  IsOrder(OrderOf(k)) /\ ReadOrderOf(k) = OrderOf(k)
<1>1. CASE k = "conditions"
  <2>1. OrderOf(k) = WriteOrder /\ ReadOrderOf(k) = WriteOrder
    BY <1>1 DEF OrderOf, ReadOrderOf, ReadOrder
  <2>2. IsOrder(WriteOrder)
    BY WriteOrderIs DEF IsOrder
  <2>. QED
    BY <2>1, <2>2
<1>2. CASE k = "periods"
  <2>1. OrderOf(k) = PeriodOrder /\ ReadOrderOf(k) = PeriodOrder
    BY <1>2 DEF OrderOf, ReadOrderOf, PeriodReadOrder
  <2>2. IsOrder(PeriodOrder)
    BY DEF IsOrder, PeriodOrder
  <2>. QED
    BY <2>1, <2>2
<1>3. CASE k = "point"
  <2>1. OrderOf(k) = PointOrder /\ ReadOrderOf(k) = PointOrder
    BY <1>3 DEF OrderOf, ReadOrderOf
  <2>2. IsOrder(PointOrder)
    BY DEF IsOrder, PointOrder
  <2>. QED
    BY <2>1, <2>2
<1>4. CASE k = "stations"
  <2>1. OrderOf(k) = StationOrder /\ ReadOrderOf(k) = StationOrder
    BY <1>4 DEF OrderOf, ReadOrderOf
  <2>2. IsOrder(StationOrder)
    BY DEF IsOrder, StationOrder
  <2>. QED
    BY <2>1, <2>2
<1>. QED
  BY <1>1, <1>2, <1>3, <1>4 DEF Kinds

(* A list of whole objects of a kind, of which "point" has one. *)
Objects(k, objs) ==
    /\ Len(objs) \in Nat
    /\ objs = [i \in 1..Len(objs) |-> objs[i]]
    /\ \A i \in 1..Len(objs) : objs[i] = [m \in MembersOf(k) |-> objs[i][m]]
    /\ k = "point" => Len(objs) = 1

(* All that is in some objects, and their number. *)
ValuesOf(k, objs) ==
    {objs[i][m] : i \in 1..Len(objs), m \in MembersOf(k)} \cup {Len(objs)}

(* The values that come before the first object's. *)
Ahead(k) == IF k = "point" THEN 0 ELSE 1

(* Where each member of each object is in the file. *)
LEMMA EncodedIs ==
    ASSUME NEW k \in Kinds, NEW objs, Objects(k, objs)
    PROVE  LET w == Len(OrderOf(k))
           IN  /\ Encoded(k, objs) \in Seq(ValuesOf(k, objs))
               /\ Len(Encoded(k, objs)) = Ahead(k) + Len(objs) * w
               /\ \A i \in 1..Len(objs), c \in 1..w :
                     Encoded(k, objs)[Ahead(k) + ((i - 1) * w + c)] =
                        objs[i][OrderOf(k)[c]]
<1> DEFINE order == OrderOf(k)
           w == Len(order)
           N == Len(objs)
           S == ValuesOf(k, objs)
           rows == [i \in DOMAIN objs |->
                      [n \in DOMAIN order |-> objs[i][order[n]]]]
           flat == FlattenSeq(rows)
           size == IF k = "point" THEN <<>> ELSE <<N>>
<1>1. /\ w \in Nat \ {0} /\ DOMAIN order = 1..w
      /\ N \in Nat /\ DOMAIN objs = 1..N
  BY Orders DEF Objects, IsOrder
<1>2. \A i \in 1..N, n \in 1..w : objs[i][order[n]] \in S
  BY DEF ValuesOf, MembersOf
<1>3. Encoded(k, objs) = size \o flat
  BY DEF Encoded
<1>4. size \in Seq(S) /\ Len(size) = Ahead(k)
  <2>1. N \in S
    BY DEF ValuesOf
  <2> HIDE DEF N, S
  <2>. QED
    BY <2>1 DEF Ahead
<1> HIDE DEF S, w, N, order
<1>5. rows \in [1..N -> [1..w -> S]]
  BY <1>1, <1>2
<1>6. \A i \in 1..N, c \in 1..w : rows[i][c] = objs[i][order[c]]
  BY <1>1
<1> HIDE DEF rows
<1>7. /\ flat \in Seq(S)
      /\ Len(flat) = N * w
      /\ \A i \in 1..N, c \in 1..w :
            flat[(i - 1) * w + c] = rows[i][c]
  <2>1. w \in Nat
    BY <1>1
  <2>2. N \in Nat
    BY <1>1
  <2>3. flat \in Seq(S) /\ InRows(flat, rows, N, w)
    BY <1>5, <2>1, <2>2, FlattenRows, Zenon
  <2>. QED
    BY <2>3 DEF InRows
<1> HIDE DEF flat, size
<1> DEFINE both == size \o flat
<1>8. /\ both \in Seq(S)
      /\ Len(both) = Len(size) + Len(flat)
      /\ \A c \in 1..Len(flat) : both[Len(size) + c] = flat[c]
  <2>1. both \in Seq(S) /\ IsJoined(both, size, flat)
    BY <1>4, <1>7, Joined, Zenon
  <2>. QED
    BY <2>1 DEF IsJoined
<1> HIDE DEF both
<1>9. ASSUME NEW i \in 1..N, NEW c \in 1..w
      PROVE  both[Ahead(k) + ((i - 1) * w + c)] = objs[i][order[c]]
  <2>1. (i - 1) * w + c \in 1..Len(flat)
    BY <1>1, <1>7, InRow
  <2>. QED
    BY <1>4, <1>6, <1>7, <1>8, <2>1
<1>10. both = Encoded(k, objs)
  BY <1>3 DEF both
<1>11. Len(both) = Ahead(k) + N * w
  BY <1>4, <1>7, <1>8
<1>. QED
  BY <1>8, <1>9, <1>10, <1>11 DEF w, order, N, S

(* How many whole rows there are in a first part. *)
LEMMA WholeRows ==
    ASSUME NEW w \in Nat \ {0}, NEW N \in Nat, NEW n \in 0..(N * w)
    PROVE  /\ n \div w \in 0..N
           /\ (n \div w) * w <= n
           /\ n = N * w => n \div w = N
<1> DEFINE q == n \div w
           a == q * w
           d == N * w
<1>1. d \in Nat /\ n \in 0..d
  OBVIOUS
<1>2. q \in Nat /\ a <= n /\ n < a + w /\ a \in Nat
  <2>1. n \in Nat
    BY <1>1
  <2> HIDE DEF d
  <2>2. /\ n = w * (n \div w) + (n % w)
        /\ n % w \in 0..(w - 1) /\ n \div w \in Nat
    BY <2>1
  <2>3. w * (n \div w) = (n \div w) * w /\ (n \div w) * w \in Nat
    BY <2>2
  <2> DEFINE r == n % w
  <2>4. n = a + r /\ r \in 0..(w - 1)
    BY <2>2, <2>3
  <2> HIDE DEF q, r, a
  <2>5. a \in Nat
    BY <2>3 DEF a, q
  <2>6. q \in Nat
    BY <2>2 DEF q
  <2>. QED
    BY <2>1, <2>4, <2>5, <2>6
<1> HIDE DEF q
<1>3. q <= N
  <2>1. CASE N + 1 <= q
    <3>1. (N + 1) * w <= q * w
      BY <1>2, <2>1, Multiples
    <3>2. (N + 1) * w = N * w + w
      OBVIOUS
    <3> HIDE DEF a, d
    <3>3. d + w <= a
      BY <3>1, <3>2 DEF a, d
    <3>. QED
      BY <1>1, <1>2, <3>3
  <2>. QED
    BY <1>2, <2>1
<1>4. ASSUME n = d, q # N
      PROVE  FALSE
  <2>1. (q + 1) * w <= N * w
    <3>1. q + 1 <= N /\ q + 1 \in Nat
      BY <1>2, <1>3, <1>4
    <3>. QED
      BY <3>1, Multiples
  <2>2. (q + 1) * w = q * w + w
    BY <1>2
  <2> HIDE DEF a, d
  <2>3. a + w <= d
    BY <2>1, <2>2 DEF a, d
  <2>. QED
    BY <1>1, <1>2, <1>4, <2>3
<1>. QED
  BY <1>2, <1>3, <1>4 DEF q

(* Where Read takes a member from. *)
PositionIn(order, m) == CHOOSE n \in 1..Len(order) : order[n] = m

LEMMA PositionIs ==
    ASSUME NEW order, IsOrder(order), NEW c \in 1..Len(order)
    PROVE  PositionIn(order, order[c]) = c
BY DEF IsOrder, PositionIn

(* The first n values of a file that has the size and the objects. *)
AreFirst(values, n, order, objs) ==
    /\ n \in 0..(1 + Len(objs) * Len(order))
    /\ Len(values) = n
    /\ values = <<>> <=> n = 0
    /\ \A i \in 1..Len(objs), c \in 1..Len(order) :
          1 + (i - 1) * Len(order) + c <= n =>
             values[1 + (i - 1) * Len(order) + c] = objs[i][order[c]]

(* Whole objects, with the members of the order. *)
AreWhole(order, objs) ==
    /\ Len(objs) \in Nat
    /\ \A i \in 1..Len(objs) : objs[i] =
          [m \in {order[c] : c \in 1..Len(order)} |-> objs[i][m]]

(* The first part of a list. *)
FirstOf(objs, count) == [i \in 1..count |-> objs[i]]

(* The first of some objects, which are all if the file is whole. *)
IsFirstRead(read, n, order, objs) ==
    \E count \in 0..Len(objs) :
        /\ read = FirstOf(objs, count)
        /\ n = 1 + Len(objs) * Len(order) => count = Len(objs)

(* Read of a first part of the values: the first objects, and all of them  *)
(* when it is the whole.                                                   *)
LEMMA ElementsOfPrefix ==
    ASSUME NEW order, IsOrder(order), NEW objs, AreWhole(order, objs),
           NEW values, NEW n, AreFirst(values, n, order, objs)
    PROVE  IsFirstRead(Elements(order, values), n, order, objs)
<1> DEFINE w == Len(order)
           N == Len(objs)
           ms == {order[c] : c \in 1..w}
           count == IF values = <<>> THEN 0 ELSE (Len(values) - 1) \div w
<1>1. w \in Nat \ {0} /\ N \in Nat
  BY DEF IsOrder, AreWhole
<1>0. /\ n \in 0..(1 + N * w) /\ Len(values) = n /\ (values = <<>> <=> n = 0)
      /\ \A i \in 1..N, c \in 1..w : 1 + (i - 1) * w + c <= n =>
            values[1 + (i - 1) * w + c] = objs[i][order[c]]
      /\ \A i \in 1..N : objs[i] = [m \in ms |-> objs[i][m]]
  BY DEF AreFirst, AreWhole
<1>2. Elements(order, values) =
         [i \in 1..count |->
            [m \in ms |-> values[1 + (i - 1) * w + PositionIn(order, m)]]]
  BY DEF Elements, PositionIn
<1> HIDE DEF w, N
<1>3. /\ count \in 0..N
      /\ n # 0 => count * w <= n - 1
      /\ n = 0 => count = 0
      /\ n = 1 + N * w => count = N
  <2>1. CASE n = 0
    <3>1. N * w \in Nat
      BY <1>1
    <3>2. n # 1 + N * w
      <4> DEFINE d == N * w
      <4>1. d \in Nat
        BY <3>1
      <4> HIDE DEF d
      <4>2. 0 # 1 + d
        BY <4>1
      <4>. QED
        BY <2>1, <4>2 DEF d
    <3>. QED
      BY <1>0, <1>1, <2>1, <3>2
  <2>2. CASE n # 0
    <3>1. N * w \in Nat
      BY <1>1
    <3>2. n - 1 \in 0..(N * w) /\ (n = 1 + N * w => n - 1 = N * w)
      <4> DEFINE d == N * w
      <4>1. n \in 0..(1 + d)
        BY <1>0
      <4> HIDE DEF d
      <4>2. n - 1 \in 0..d /\ (n = 1 + d => n - 1 = d)
        BY <2>2, <3>1, <4>1 DEF d
      <4>. QED
        BY <4>2 DEF d
    <3>3. count = (n - 1) \div w
      BY <1>0, <2>2
    <3> DEFINE p == n - 1
    <3> HIDE DEF p
    <3>4. /\ p \div w \in 0..N
          /\ (p \div w) * w <= p
          /\ p = N * w => p \div w = N
      BY <1>1, <3>2, WholeRows DEF p
    <3>. QED
      BY <2>2, <3>2, <3>3, <3>4 DEF p
  <2>. QED
    BY <2>1, <2>2
<1> HIDE DEF count
<1>4. ASSUME NEW i \in 1..count
      PROVE  [m \in ms |-> values[1 + (i - 1) * w + PositionIn(order, m)]] =
                objs[i]
  <2>1. n # 0 /\ i \in 1..N
    BY <1>1, <1>3
  <2>2. ASSUME NEW c \in 1..w
        PROVE  values[1 + (i - 1) * w + PositionIn(order, order[c])] =
                  objs[i][order[c]]
    <3>1. PositionIn(order, order[c]) = c
      BY PositionIs DEF w
    <3>2. (i - 1) * w + c \in 1..(count * w)
      <4>1. count \in Nat /\ w \in Nat
        BY <1>1, <1>3
      <4>. QED
        BY <4>1, InRow
    <3>3. 1 + (i - 1) * w + c <= n
      <4> DEFINE a == (i - 1) * w
                 d == count * w
      <4>1. a \in Int /\ d \in Int /\ a + c \in 1..d /\ d <= n - 1 /\ n \in Int
        <5>1. i - 1 \in Nat /\ w \in Nat /\ count \in Nat
          BY <1>1, <1>3
        <5>2. a \in Int /\ d \in Int
          BY <5>1
        <5>3. n \in Int
          BY <1>0, <1>1, <5>1
        <5>. QED
          BY <1>3, <2>1, <3>2, <5>2, <5>3
      <4> HIDE DEF a, d
      <4>2. 1 + a + c <= n
        BY <4>1, <1>1
      <4>. QED
        BY <4>2 DEF a
    <3>4. values[1 + (i - 1) * w + c] = objs[i][order[c]]
      BY <1>0, <2>1, <3>3
    <3>. QED
      BY <3>1, <3>4
  <2>3. \A m \in ms :
           values[1 + (i - 1) * w + PositionIn(order, m)] = objs[i][m]
    BY <2>2
  <2>4. objs[i] = [m \in ms |-> objs[i][m]]
    BY <1>0, <2>1
  <2> HIDE DEF ms
  <2>5. [m \in ms |-> values[1 + (i - 1) * w + PositionIn(order, m)]] =
           [m \in ms |-> objs[i][m]]
    BY <2>3
  <2>. QED
    BY <2>4, <2>5
<1>5. Elements(order, values) = [i \in 1..count |-> objs[i]]
  <2> HIDE DEF ms
  <2>. QED
    BY <1>2, <1>4
<1>. QED
  BY <1>3, <1>5 DEF w, N, IsFirstRead, FirstOf

(* What a Cache object has of a file that ends after n values. *)
IsReadOf(loaded, k, objs, n) ==
    IF k = "point"
    THEN loaded = IF n = Len(Encoded(k, objs)) THEN objs ELSE <<ClearedPoint>>
    ELSE \E count \in 0..Len(objs) :
            /\ loaded = FirstOf(objs, count)
            /\ n = Len(Encoded(k, objs)) => count = Len(objs)

(* The six values of a point. *)
LEMMA ReadPointIs ==
    ASSUME NEW obj, obj = [m \in MembersOf("point") |-> obj[m]],
           NEW values, Len(values) = 6,
           \A c \in 1..6 : values[c] = obj[PointOrder[c]]
    PROVE  ReadPoint(values) = obj
<1>1. IsOrder(PointOrder) /\ Len(PointOrder) = 6 /\ DOMAIN PointOrder = 1..6
  BY DEF IsOrder, PointOrder
<1>2. MembersOf("point") = {PointOrder[c] : c \in 1..6}
  BY <1>1 DEF MembersOf, OrderOf
<1>3. DOMAIN ClearedPoint = MembersOf("point")
  BY <1>2 DEF ClearedPoint, PointOrder
<1>4. ReadPoint(values) =
         [m \in MembersOf("point") |-> values[PositionIn(PointOrder, m)]]
  BY <1>1, <1>3 DEF ReadPoint, PositionIn
<1>5. ASSUME NEW m \in MembersOf("point")
      PROVE  values[PositionIn(PointOrder, m)] = obj[m]
  <2>1. PICK c \in 1..6 : m = PointOrder[c]
    BY <1>2
  <2>2. PositionIn(PointOrder, m) = c
    BY <1>1, <2>1, PositionIs
  <2>. QED
    BY <2>1, <2>2
<1>. QED
  BY <1>4, <1>5

(* Read of what was written, up to any value. *)
LEMMA LoadedIs ==
    ASSUME NEW k \in Kinds, NEW objs, Objects(k, objs),
           NEW n \in 0..Len(Encoded(k, objs))
    PROVE  IsReadOf(Loaded(k, SubSeq(Encoded(k, objs), 1, n)), k, objs, n)
<1> DEFINE order == OrderOf(k)
           w == Len(order)
           N == Len(objs)
           all == Encoded(k, objs)
           values == SubSeq(all, 1, n)
<1>1. IsOrder(order) /\ ReadOrderOf(k) = order /\ w \in Nat
  BY Orders DEF IsOrder
<1>2. /\ all \in Seq(ValuesOf(k, objs))
      /\ Len(all) = Ahead(k) + N * w
      /\ \A i \in 1..N, c \in 1..w :
            all[Ahead(k) + ((i - 1) * w + c)] = objs[i][order[c]]
  BY EncodedIs
<1>3. /\ N \in Nat /\ (k = "point" => N = 1)
      /\ objs = FirstOf(objs, N)
      /\ \A i \in 1..N : objs[i] = [m \in MembersOf(k) |-> objs[i][m]]
  BY DEF Objects, FirstOf
<1>4. n \in 0..Len(all)
  OBVIOUS
<1> HIDE DEF all
<1>5. /\ Len(values) = n
      /\ \A p \in 1..n : values[p] = all[p]
      /\ values \in Seq(ValuesOf(k, objs))
  BY <1>2, <1>4
<1> HIDE DEF values
<1>6. values = <<>> <=> n = 0
  BY <1>4, <1>5
<1>7. CASE k = "point"
  <2>1. order = PointOrder /\ w = 6
    BY <1>7 DEF OrderOf, PointOrder
  <2>0. N = 1 /\ 1 \in 1..N
    BY <1>3, <1>7
  <2> HIDE DEF order, w, N
  <2>2. Len(all) = 6
    BY <1>2, <1>7, <2>0, <2>1 DEF Ahead
  <2>3. Loaded(k, values) = <<ReadPoint(values)>>
    BY <1>7 DEF Loaded
  <2>4. CASE n = 6
    <3>1. ASSUME NEW c \in 1..6
          PROVE  values[c] = objs[1][PointOrder[c]]
      <4>1. all[Ahead(k) + ((1 - 1) * w + c)] = objs[1][order[c]]
        BY <1>2, <2>0, <2>1
      <4>2. Ahead(k) + ((1 - 1) * w + c) = c
        BY <1>7, <2>1 DEF Ahead
      <4>. QED
        BY <1>5, <2>1, <2>4, <4>1, <4>2
    <3>2. objs[1] = [m \in MembersOf("point") |-> objs[1][m]]
      BY <1>3, <1>7, <2>0
    <3>3. ReadPoint(values) = objs[1]
      BY <1>5, <2>4, <3>1, <3>2, ReadPointIs
    <3>4. objs = <<objs[1]>>
      BY <1>3, <2>0 DEF FirstOf
    <3>. QED
      BY <1>7, <2>2, <2>3, <2>4, <3>3, <3>4 DEF IsReadOf, values, all
  <2>5. CASE n # 6
    <3>1. Len(values) < Len(PointOrder)
      BY <1>4, <1>5, <2>2, <2>5 DEF PointOrder
    <3>2. ReadPoint(values) = ClearedPoint
      BY <3>1 DEF ReadPoint
    <3>. QED
      BY <1>7, <2>2, <2>3, <2>5, <3>2 DEF IsReadOf, values, all
  <2>. QED
    BY <2>4, <2>5
<1>8. CASE k # "point"
  <2>1. Loaded(k, values) = Elements(order, values)
    BY <1>1, <1>8 DEF Loaded
  <2>2. Len(all) = 1 + N * w
    BY <1>2, <1>8 DEF Ahead
  <2>3. N * w \in Nat
    BY <1>1, <1>3
  <2>4. \A i \in 1..N :
           objs[i] = [m \in {order[c] : c \in 1..w} |-> objs[i][m]]
    BY <1>3 DEF MembersOf
  <2>5. ASSUME NEW i \in 1..N, NEW c \in 1..w, 1 + (i - 1) * w + c <= n
        PROVE  values[1 + (i - 1) * w + c] = objs[i][order[c]]
    <3> DEFINE a == (i - 1) * w
    <3>1. a \in Nat
      <4>1. i - 1 \in Nat
        BY <1>3
      <4>. QED
        BY <1>1, <4>1
    <3>2. all[1 + (a + c)] = objs[i][order[c]]
      BY <1>2, <1>8 DEF Ahead
    <3>3. 1 + a + c <= n
      BY <2>5
    <3> HIDE DEF a
    <3>4. 1 + (a + c) = 1 + a + c /\ 1 + a + c \in 1..n
      BY <1>1, <1>4, <3>1, <3>3
    <3>5. values[1 + a + c] = objs[i][order[c]]
      BY <1>5, <3>2, <3>4
    <3>. QED
      BY <3>5 DEF a
  <2> HIDE DEF order, w, N
  <2>6. n \in 0..(1 + N * w)
    BY <1>4, <2>2
  <2>7. AreFirst(values, n, order, objs)
    BY <1>5, <1>6, <2>5, <2>6 DEF AreFirst, w, N
  <2>8. AreWhole(order, objs)
    BY <1>3, <2>4 DEF AreWhole, w, N
  <2>9. IsFirstRead(Elements(order, values), n, order, objs)
    BY <1>1, <2>7, <2>8, ElementsOfPrefix, Zenon
  <2>. QED
    BY <1>8, <2>1, <2>2, <2>9
       DEF IsReadOf, IsFirstRead, values, all, w, N
<1>. QED
  BY <1>7, <1>8

(* Nothing is read of an empty file. *)
LEMMA LoadedNothing ==
    ASSUME NEW k \in Kinds
    PROVE  Loaded(k, <<>>) = IF k = "point" THEN <<ClearedPoint>> ELSE <<>>
<1>1. CASE k = "point"
  BY <1>1 DEF Loaded, ReadPoint, PointOrder
<1>2. CASE k # "point"
  <2>1. Loaded(k, <<>>) = Elements(ReadOrderOf(k), <<>>)
    BY <1>2 DEF Loaded
  <2>2. ASSUME NEW order
        PROVE  Elements(order, <<>>) = <<>>
    BY DEF Elements
  <2>. QED
    BY <1>2, <2>1, <2>2
<1>. QED
  BY <1>1, <1>2

----------------------------------------------------------------------------
(* The inductive invariant. *)

(* The objects that an answer gives at a time when it is accepted. *)
Gives(k, c, j, time, objs) ==
    CASE k = "conditions" ->
            LET result == GetCurrentConditions(NewConditions(Garbage), j, time)
            IN  result.rc /\ objs = <<result.obj>>
      [] k = "periods" ->
            \E s \in Stacks :
                PeriodsOf(j, c, s).rc /\ objs = PeriodsOf(j, c, s).obj
      [] k = "point" -> PointOf(j).rc /\ objs = <<PointOf(j).obj>>
      [] OTHER -> StationsOf(j).rc /\ objs = StationsOf(j).obj

Shape ==
    /\ kind \in Kinds
    /\ libc \in {"bsd", "glibc"}
    /\ DOMAIN scratch = Members
    /\ now \in 0..MaxFetches /\ at \in 0..now
    /\ whole \in BOOLEAN

(* The objects kept last are those of an answer, or none was kept yet. *)
History ==
    \/ last = Loaded(kind, <<>>)
    \/ from \in Answers[kind] /\ Gives(kind, libc, from, at, last)

(* The file has a first part of what those objects are written as. *)
IsFile(k, values, objs, complete) ==
    \/ \E n \in 0..Len(Encoded(k, objs)) :
          /\ values = SubSeq(Encoded(k, objs), 1, n)
          /\ complete <=> n = Len(Encoded(k, objs))
    \/ values = <<>> /\ complete /\ objs = Loaded(k, <<>>)

(* The fetcher has those objects, or what was in the file at its start. *)
RecordsInv ==
    /\ Shape
    /\ History
    /\ Objects(kind, last)
    /\ IsFile(kind, file, last, whole)
    /\ kept \in {last, Loaded(kind, file)}

(* An object with the members of the other, and another time. *)
IsStamped(obj, parsed, time) ==
    /\ obj = [m \in Members |-> obj[m]]
    /\ obj.timestamp = time
    /\ \A m \in Members \ {"timestamp"} : obj[m] = parsed[m]

(* What is made of a station's answer has the members, whatever they are.  *)
LEMMA ConditionsAre ==
    ASSUME NEW old, NEW j, NEW time
    PROVE  IsStamped(GetCurrentConditions(old, j, time).obj,
                     FromJson(old, j).obj, time)
<1> DEFINE parsed == FromJson(old, j).obj
<1>1. parsed = [m \in Members |-> parsed[m]]
  BY Zenon DEF FromJson
<1>2. "timestamp" \in Members
  BY WriteOrderIs DEF Members
<1>3. GetCurrentConditions(old, j, time).obj =
         [parsed EXCEPT !.timestamp = time]
  BY DEF GetCurrentConditions
<1> HIDE DEF parsed
<1>. QED
  BY <1>1, <1>2, <1>3 DEF parsed, IsStamped

(* The members that Write puts are those that an object has. *)
LEMMA MembersAre ==
    /\ MembersOf("conditions") = Members
    /\ MembersOf("periods") = DOMAIN ClearedPeriod
    /\ MembersOf("point") = DOMAIN ClearedPoint
    /\ MembersOf("stations") = {"id", "name"}
<1>1. MembersOf("conditions") = Members
  <2>1. DOMAIN WriteOrder = 1..Len(WriteOrder)
    BY WriteOrderIs
  <2>. QED
    BY <2>1 DEF MembersOf, OrderOf, Members
<1>2. MembersOf("periods") = DOMAIN ClearedPeriod
  <2>1. MembersOf("periods") = {PeriodOrder[n] : n \in 1..10}
    BY DEF MembersOf, OrderOf, PeriodOrder
  <2>2. DOMAIN ClearedPeriod =
           {"startTime", "endTime", "name", "isDaytime", "temperature",
            "temperatureUnit", "windSpeed", "windDirection",
            "shortForecast", "detailedForecast"}
    BY DEF ClearedPeriod
  <2>. QED
    BY <2>1, <2>2 DEF PeriodOrder
<1>3. MembersOf("point") = DOMAIN ClearedPoint
  <2>1. MembersOf("point") = {PointOrder[n] : n \in 1..6}
    BY DEF MembersOf, OrderOf, PointOrder
  <2>2. DOMAIN ClearedPoint =
           {"forecast", "forecastHourly", "observationStations", "gridX",
            "gridY", "forecastZone"}
    BY DEF ClearedPoint
  <2>. QED
    BY <2>1, <2>2 DEF PointOrder
<1>4. MembersOf("stations") = {"id", "name"}
  BY DEF MembersOf, OrderOf, StationOrder
<1>. QED
  BY <1>1, <1>2, <1>3, <1>4

(* stations is what StationsOf makes of the first n features. *)
Collects(stations, features, n) ==
    stations = [i \in 0..n |->
                  IF i = 0 THEN <<>>
                  ELSE IF Named(features[i])
                  THEN Append(stations[i - 1], Station(features[i]))
                  ELSE stations[i - 1]]

LEMMA CollectsExists ==
    ASSUME NEW features, NEW n \in Nat
    PROVE  \E f : Collects(f, features, n)
<1> DEFINE Good == {m \in Nat : \E f : Collects(f, features, m)}
           Next1(before, i) ==
              IF Named(features[i]) THEN Append(before, Station(features[i]))
              ELSE before
<1>1. 0 \in Good
  <2>1. Collects([i \in 0..0 |-> <<>>], features, 0)
    BY DEF Collects
  <2>. QED
    BY <2>1
<1>2. ASSUME NEW m \in 1..n, m - 1 \in Good
      PROVE  m \in Good
  <2>1. PICK g : Collects(g, features, m - 1)
    BY <1>2
  <2>2. g = [i \in 0..(m - 1) |->
               IF i = 0 THEN <<>> ELSE Next1(g[i - 1], i)]
    BY <2>1 DEF Collects
  <2> HIDE DEF Next1
  <2> DEFINE h == [i \in 0..m |->
                     IF i < m THEN g[i] ELSE Next1(g[i - 1], i)]
  <2>3. ASSUME NEW i \in 0..m
        PROVE  h[i] = IF i = 0 THEN <<>> ELSE Next1(h[i - 1], i)
    <3>1. CASE i < m
      <4>1. h[i] = g[i] /\ i \in 0..(m - 1)
        BY <3>1
      <4>2. g[i] = IF i = 0 THEN <<>> ELSE Next1(g[i - 1], i)
        BY <2>2, <4>1
      <4>3. i # 0 => h[i - 1] = g[i - 1]
        BY <3>1
      <4>. QED
        BY <4>1, <4>2, <4>3
    <3>2. CASE i = m
      <4>1. h[i] = Next1(g[i - 1], i) /\ i # 0
        BY <3>2
      <4>2. h[i - 1] = g[i - 1]
        BY <3>2
      <4>. QED
        BY <4>1, <4>2
    <3>. QED
      BY <3>1, <3>2
  <2>4. Collects(h, features, m)
    <3>1. h = [i \in 0..m |-> h[i]]
      OBVIOUS
    <3> HIDE DEF h
    <3>2. [i \in 0..m |-> h[i]] =
             [i \in 0..m |-> IF i = 0 THEN <<>> ELSE Next1(h[i - 1], i)]
      BY <2>3
    <3>. QED
      BY <3>1, <3>2 DEF Collects, Next1
  <2>. QED
    BY <2>4
<1> HIDE DEF Good
<1>3. n \in Good
  BY <1>1, <1>2, Induction
<1>. QED
  BY <1>3 DEF Good

(* A list of stations has an identifier and a name of each. *)
LEMMA StationsAre ==
    ASSUME NEW j, Len(Features(j)) \in Nat
    PROVE  Objects("stations", StationsOf(j).obj)
<1> DEFINE features == Features(j)
           N == Len(features)
           f == CHOOSE s : s = [i \in 0..N |->
                   IF i = 0 THEN <<>>
                   ELSE IF Named(features[i])
                   THEN Append(s[i - 1], Station(features[i]))
                   ELSE s[i - 1]]
           S == {Station(features[i]) : i \in 1..N}
<1>1. Collects(f, features, N)
  BY CollectsExists DEF Collects
<1>2. StationsOf(j).obj = f[N]
  BY DEF StationsOf
<1> HIDE DEF f, S, features
<1>3. \A i \in 0..N : f[i] = IF i = 0 THEN <<>>
                             ELSE IF Named(features[i])
                             THEN Append(f[i - 1], Station(features[i]))
                             ELSE f[i - 1]
  <2>1. f = [i \in 0..N |-> IF i = 0 THEN <<>>
                            ELSE IF Named(features[i])
                            THEN Append(f[i - 1], Station(features[i]))
                            ELSE f[i - 1]]
    BY <1>1 DEF Collects
  <2>. QED
    BY <2>1
<1>4. N \in Nat
  BY DEF features
<1> HIDE DEF N
<1> DEFINE Good == {n \in 0..N : f[n] \in Seq(S)}
<1>5. 0 \in Good
  <2>1. 0 \in 0..N
    BY <1>4
  <2>2. f[0] = <<>>
    BY <1>3, <2>1
  <2>3. <<>> \in Seq(S)
    OBVIOUS
  <2>. QED
    BY <2>1, <2>2, <2>3
<1>6. ASSUME NEW n \in 1..N, n - 1 \in Good
      PROVE  n \in Good
  <2> DEFINE new == Station(features[n])
             before == f[n - 1]
  <2>1. before \in Seq(S) /\ new \in S
    BY <1>6 DEF S
  <2>2. n \in 0..N /\ n # 0
    BY <1>4
  <2>3. f[n] = IF Named(features[n]) THEN Append(before, new) ELSE before
    BY <1>3, <2>2, Zenon
  <2> HIDE DEF new, before
  <2>4. f[n] \in Seq(S)
    BY <2>1, <2>3
  <2>. QED
    BY <2>2, <2>4
<1> HIDE DEF Good
<1>7. N \in Good
  BY <1>4, <1>5, <1>6, Induction
<1>8. f[N] \in Seq(S)
  BY <1>7 DEF Good
<1> DEFINE objs == f[N]
<1> HIDE DEF objs
<1>9. /\ Len(objs) \in Nat
      /\ objs = [i \in 1..Len(objs) |-> objs[i]]
      /\ \A i \in 1..Len(objs) : objs[i] \in S
  BY <1>8 DEF objs
<1>10. ASSUME NEW s \in S
       PROVE  s = [m \in {"id", "name"} |-> s[m]]
  <2>1. PICK i \in 1..N : s = Station(features[i])
    BY DEF S
  <2>2. DOMAIN s = {"id", "name"} /\ s = [m \in DOMAIN s |-> s[m]]
    BY <2>1 DEF Station
  <2>. QED
    BY <2>2
<1>. QED
  BY <1>2, <1>9, <1>10, MembersAre DEF Objects, objs

(* What an accepted answer gives are whole objects. *)
LEMMA GivesObjects ==
    ASSUME NEW k \in Kinds, NEW j \in Answers[k], NEW c, NEW time, NEW objs,
           Gives(k, c, j, time, objs)
    PROVE  Objects(k, objs)
<1>1. CASE k = "conditions"
  <2> DEFINE obj == GetCurrentConditions(NewConditions(Garbage), j, time).obj
  <2>1. objs = <<obj>>
    BY <1>1 DEF Gives
  <2>2. obj = [m \in Members |-> obj[m]]
    <3>1. IsStamped(obj, FromJson(NewConditions(Garbage), j).obj, time)
      BY ConditionsAre, Zenon
    <3>. QED
      BY <3>1 DEF IsStamped
  <2> HIDE DEF obj
  <2>. QED
    BY <1>1, <2>1, <2>2, MembersAre DEF Objects
<1>2. CASE k = "periods"
  <2> DEFINE nodes == PeriodNodes(j)
  <2>1. PICK s \in Stacks : objs = PeriodsOf(j, c, s).obj
    BY <1>2 DEF Gives
  <2>2. objs = [i \in DOMAIN nodes |-> PeriodOf(nodes[i], c, s[i])]
    BY <2>1 DEF PeriodsOf
  <2>3. Len(nodes) \in Nat /\ DOMAIN nodes = 1..Len(nodes)
    BY <1>2, AnswersAssumption, BoundsAssumption
  <2>4. ASSUME NEW node, NEW stack
        PROVE  PeriodOf(node, c, stack) =
                  [m \in DOMAIN ClearedPeriod |-> PeriodOf(node, c, stack)[m]]
    BY DEF PeriodOf
  <2> HIDE DEF nodes
  <2>5. Len(objs) = Len(nodes) /\ objs = [i \in 1..Len(objs) |-> objs[i]]
    BY <2>2, <2>3
  <2>6. \A i \in 1..Len(objs) :
           objs[i] = [m \in MembersOf("periods") |-> objs[i][m]]
    BY <2>2, <2>3, <2>4, <2>5, MembersAre
  <2>. QED
    BY <1>2, <2>3, <2>5, <2>6 DEF Objects
<1>3. CASE k = "point"
  <2> DEFINE obj == PointOf(j).obj
  <2>1. objs = <<obj>>
    BY <1>3 DEF Gives
  <2>2. obj = [m \in DOMAIN ClearedPoint |-> obj[m]]
    <3>1. ClearedPoint = [m \in DOMAIN ClearedPoint |-> ClearedPoint[m]]
      BY DEF ClearedPoint
    <3>. QED
      BY <3>1, Zenon DEF PointOf
  <2> HIDE DEF obj
  <2>. QED
    BY <1>3, <2>1, <2>2, MembersAre DEF Objects
<1>4. CASE k = "stations"
  <2>1. objs = StationsOf(j).obj
    BY <1>4 DEF Gives
  <2>2. Len(Features(j)) \in Nat
    BY <1>4, AnswersAssumption
  <2>. QED
    BY <1>4, <2>1, <2>2, StationsAre
<1>. QED
  BY <1>1, <1>2, <1>3, <1>4 DEF Kinds

(* What is loaded is read of what was written. *)
LEMMA FileIsRead ==
    ASSUME NEW k \in Kinds, NEW objs, Objects(k, objs), NEW values,
           NEW complete \in BOOLEAN, IsFile(k, values, objs, complete)
    PROVE  /\ Objects(k, Loaded(k, values))
           /\ complete => Loaded(k, values) = objs
           /\ k = "point" => Loaded(k, values) \in {<<ClearedPoint>>, objs}
           /\ k # "point" => \E count \in 0..Len(objs) :
                                Loaded(k, values) = FirstOf(objs, count)
<1> DEFINE all == Encoded(k, objs)
           N == Len(objs)
<1>1. /\ N \in Nat /\ objs = FirstOf(objs, N)
      /\ \A i \in 1..N : objs[i] = [m \in MembersOf(k) |-> objs[i][m]]
      /\ k = "point" => N = 1
  BY DEF Objects, FirstOf
<1>2. Objects("point", <<ClearedPoint>>)
  <2>1. ClearedPoint = [m \in DOMAIN ClearedPoint |-> ClearedPoint[m]]
    BY DEF ClearedPoint
  <2> DEFINE obj == ClearedPoint
  <2> HIDE DEF obj
  <2>2. Objects("point", <<obj>>)
    BY <2>1, MembersAre DEF Objects, obj
  <2>. QED
    BY <2>2 DEF obj
<1>3. ASSUME NEW count \in 0..N, k # "point"
      PROVE  Objects(k, FirstOf(objs, count))
  <2> DEFINE part == FirstOf(objs, count)
  <2>1. part = [i \in 1..count |-> objs[i]]
    BY DEF FirstOf
  <2> HIDE DEF part
  <2>2. Len(part) = count /\ \A i \in 1..count : part[i] = objs[i]
    BY <1>1, <2>1
  <2>3. part = [i \in 1..Len(part) |-> part[i]]
    BY <2>1, <2>2
  <2>4. \A i \in 1..count : part[i] = [m \in MembersOf(k) |-> part[i][m]]
    <3>1. \A i \in 1..count : i \in 1..N
      BY <1>1
    <3>. QED
      BY <1>1, <2>2, <3>1
  <2>5. Objects(k, part)
    BY <1>1, <1>3, <2>2, <2>3, <2>4 DEF Objects
  <2>. QED
    BY <2>5 DEF part
<1>4. CASE \E n \in 0..Len(all) :
              values = SubSeq(all, 1, n) /\ (complete <=> n = Len(all))
  <2>1. PICK n \in 0..Len(all) :
           values = SubSeq(all, 1, n) /\ (complete <=> n = Len(all))
    BY <1>4
  <2>2. IsReadOf(Loaded(k, values), k, objs, n)
    BY <2>1, LoadedIs
  <2> DEFINE loaded == Loaded(k, values)
  <2> HIDE DEF loaded, all
  <2>3. CASE k = "point"
    <3>1. loaded = IF n = Len(all) THEN objs ELSE <<ClearedPoint>>
      BY <2>2, <2>3 DEF IsReadOf, loaded, all
    <3>. QED
      BY <1>2, <2>1, <2>3, <3>1 DEF loaded
  <2>4. CASE k # "point"
    <3>1. PICK count \in 0..N :
             /\ loaded = FirstOf(objs, count)
             /\ n = Len(all) => count = N
      BY <2>2, <2>4 DEF IsReadOf, loaded, all
    <3>2. Objects(k, loaded)
      BY <1>3, <2>4, <3>1
    <3>3. complete => loaded = objs
      BY <1>1, <2>1, <3>1
    <3>. QED
      BY <2>4, <3>1, <3>2, <3>3 DEF loaded
  <2>. QED
    BY <2>3, <2>4
<1>5. CASE values = <<>> /\ complete /\ objs = Loaded(k, <<>>)
  <2>1. Loaded(k, values) = objs
    BY <1>5
  <2>. QED
    BY <1>1, <2>1
<1>. QED
  BY <1>4, <1>5 DEF IsFile

(* What is in the objects at the start. *)
LEMMA NothingIsObjects ==
    ASSUME NEW k \in Kinds
    PROVE  Objects(k, Loaded(k, <<>>))
<1>1. CASE k = "point"
  <2> DEFINE obj == ClearedPoint
  <2>1. obj = [m \in DOMAIN ClearedPoint |-> obj[m]]
    BY DEF ClearedPoint
  <2> HIDE DEF obj
  <2>2. Objects("point", <<obj>>)
    BY <2>1, MembersAre DEF Objects
  <2>. QED
    BY <1>1, <2>2, LoadedNothing DEF obj
<1>2. CASE k # "point"
  <2> DEFINE none == Loaded(k, <<>>)
  <2>1. none = <<>>
    BY <1>2, LoadedNothing
  <2> HIDE DEF none
  <2>2. Len(none) = 0 /\ DOMAIN none = 1..0
    BY <2>1
  <2>3. none = [i \in 1..Len(none) |-> none[i]]
    BY <2>1, <2>2
  <2>. QED
    BY <1>2, <2>2, <2>3 DEF Objects, none
<1>. QED
  BY <1>1, <1>2

(* Each accepted answer gives its objects, whatever was parsed before. *)
LEMMA OutcomeGives ==
    ASSUME Shape, NEW j, NEW outcome \in Outcomes(j)
    PROVE  /\ kind = "conditions" => DOMAIN outcome.objs[1] = Members
           /\ outcome.rc => Gives(kind, libc, j, now', outcome.objs)
<1>1. CASE kind = "conditions"
  <2>1. PICK old : outcome = One(GetCurrentConditions(old, j, now'))
    BY <1>1 DEF Outcomes
  <2> DEFINE result == GetCurrentConditions(old, j, now')
             other == GetCurrentConditions(NewConditions(Garbage), j, now')
  <2>2. outcome.objs = <<result.obj>> /\ outcome.rc = result.rc
    BY <2>1 DEF One
  <2>3. result.obj = [m \in Members |-> result.obj[m]]
    <3>1. IsStamped(result.obj, FromJson(old, j).obj, now')
      BY ConditionsAre, Zenon
    <3>. QED
      BY <3>1 DEF IsStamped
  <2>4. ASSUME result.rc
        PROVE  other = result
    BY <2>4, NothingIsLeftOver
  <2> HIDE DEF result, other
  <2>5. outcome.rc => other.rc /\ outcome.objs = <<other.obj>>
    BY <2>2, <2>4
  <2>6. DOMAIN outcome.objs[1] = Members
    BY <2>2, <2>3
  <2>. QED
    BY <1>1, <2>5, <2>6 DEF Gives, other
<1>2. CASE kind = "periods"
  <2>1. PICK s \in Stacks : outcome = List(PeriodsOf(j, libc, s))
    BY <1>2 DEF Outcomes
  <2>2. /\ outcome.objs = PeriodsOf(j, libc, s).obj
        /\ outcome.rc = PeriodsOf(j, libc, s).rc
    BY <2>1 DEF List
  <2>. QED
    BY <1>2, <2>2 DEF Gives
<1>3. CASE kind = "point"
  <2>1. outcome = One(PointOf(j))
    BY <1>3 DEF Outcomes
  <2>2. outcome.objs = <<PointOf(j).obj>> /\ outcome.rc = PointOf(j).rc
    BY <2>1 DEF One
  <2>. QED
    BY <1>3, <2>2 DEF Gives
<1>4. CASE kind = "stations"
  <2>1. outcome = List(StationsOf(j))
    BY <1>4 DEF Outcomes
  <2>2. /\ outcome.objs = StationsOf(j).obj
        /\ outcome.rc = StationsOf(j).rc
    BY <2>1 DEF List
  <2>. QED
    BY <1>4, <2>2 DEF Gives
<1>. QED
  BY <1>1, <1>2, <1>3, <1>4 DEF Shape, Kinds

LEMMA RecordsInit == Init => RecordsInv
<1> SUFFICES ASSUME Init
             PROVE  RecordsInv
  OBVIOUS
<1>1. Shape
  <2>1. DOMAIN scratch = Members
    BY DEF Init, NewConditions
  <2>2. now \in 0..MaxFetches /\ at \in 0..now
    BY BoundsAssumption DEF Init
  <2>. QED
    BY <2>1, <2>2 DEF Init, Shape
<1>2. Objects(kind, last)
  BY NothingIsObjects DEF Init
<1>. QED
  BY <1>1, <1>2 DEF Init, RecordsInv, History, IsFile

LEMMA RecordsFetch ==
    ASSUME RecordsInv, NEW j \in Answers[kind], Fetch(j)
    PROVE  RecordsInv'
<1>1. /\ now' = now + 1 /\ now < MaxFetches
      /\ kind' = kind /\ libc' = libc /\ kind \in Kinds
  BY DEF Fetch, RecordsInv, Shape
<1>2. PICK outcome \in Outcomes(j) :
         /\ scratch' = IF kind = "conditions" THEN outcome.objs[1]
                       ELSE scratch
         /\ IF outcome.rc
            THEN /\ kept' = outcome.objs
                 /\ file' = Encoded(kind, kept')
                 /\ from' = j /\ last' = kept' /\ at' = now'
                 /\ whole' = TRUE
            ELSE UNCHANGED <<kept, file, from, last, at, whole>>
  BY DEF Fetch
<1>3. /\ kind = "conditions" => DOMAIN outcome.objs[1] = Members
      /\ outcome.rc => Gives(kind, libc, j, now', outcome.objs)
  BY OutcomeGives DEF RecordsInv
<1>4. Shape'
  <2>1. DOMAIN scratch' = Members
    BY <1>2, <1>3 DEF RecordsInv, Shape
  <2>2. now' \in 0..MaxFetches /\ at' \in 0..now' /\ whole' \in BOOLEAN
    <3>1. now \in 0..MaxFetches /\ at \in 0..now /\ whole \in BOOLEAN
      BY DEF RecordsInv, Shape
    <3>2. \/ at' = now' /\ whole' = TRUE
          \/ at' = at /\ whole' = whole
      BY <1>2
    <3>3. now' \in 0..MaxFetches
      BY <1>1, <3>1, BoundsAssumption
    <3>4. at' \in 0..now'
      BY <1>1, <3>1, <3>2, BoundsAssumption
    <3>5. whole' \in BOOLEAN
      BY <3>1, <3>2
    <3>. QED
      BY <3>3, <3>4, <3>5
  <2>. QED
    BY <1>1, <2>1, <2>2 DEF RecordsInv, Shape
<1>5. CASE outcome.rc
  <2>1. /\ kept' = outcome.objs /\ file' = Encoded(kind, outcome.objs)
        /\ from' = j /\ last' = outcome.objs /\ at' = now' /\ whole' = TRUE
    BY <1>2, <1>5
  <2>2. Gives(kind, libc, j, now', outcome.objs)
    BY <1>3, <1>5
  <2>3. Objects(kind, outcome.objs)
    BY <1>1, <2>2, GivesObjects
  <2>4. History'
    BY <1>1, <2>1, <2>2 DEF History
  <2>5. IsFile(kind, Encoded(kind, outcome.objs), outcome.objs, TRUE)
    <3> DEFINE all == Encoded(kind, outcome.objs)
    <3>1. all \in Seq(ValuesOf(kind, outcome.objs))
      BY <1>1, <2>3, EncodedIs
    <3> HIDE DEF all
    <3>2. Len(all) \in 0..Len(all) /\ all = SubSeq(all, 1, Len(all))
      BY <3>1
    <3>. QED
      BY <3>2 DEF IsFile, all
  <2>. QED
    BY <1>1, <1>4, <2>1, <2>3, <2>4, <2>5 DEF RecordsInv
<1>6. CASE ~outcome.rc
  <2>1. UNCHANGED <<kept, file, from, last, at, whole>>
    BY <1>2, <1>6
  <2>. QED
    BY <1>1, <1>4, <2>1 DEF RecordsInv, History
<1>. QED
  BY <1>5, <1>6

LEMMA RecordsTear ==
    ASSUME RecordsInv, Tear
    PROVE  RecordsInv'
<1>1. /\ UNCHANGED <<kind, libc, scratch, kept, now, from, last, at>>
      /\ whole = TRUE /\ whole' = FALSE /\ file # <<>>
      /\ kind \in Kinds /\ Objects(kind, last)
  BY DEF Tear, RecordsInv, Shape
<1>2. PICK n \in 0..(Len(file) - 1) : file' = SubSeq(file, 1, n)
  BY DEF Tear
<1> DEFINE all == Encoded(kind, last)
<1>3. all \in Seq(ValuesOf(kind, last))
  BY <1>1, EncodedIs
<1>4. IsFile(kind, file, last, TRUE)
  BY <1>1 DEF RecordsInv
<1>5. file = all
  <2>1. PICK m \in 0..Len(all) :
           file = SubSeq(all, 1, m) /\ m = Len(all)
    BY <1>1, <1>4 DEF IsFile
  <2> HIDE DEF all
  <2>. QED
    BY <1>3, <2>1
<1>6. IsFile(kind, file', last, FALSE)
  <2>1. n \in 0..Len(all) /\ n # Len(all)
    <3> HIDE DEF all
    <3>. QED
      BY <1>3, <1>5
  <2>. QED
    BY <1>2, <1>5, <2>1 DEF IsFile
<1>7. kept = last
  <2>1. Loaded(kind, file) = last
    BY <1>1, <1>4, FileIsRead
  <2>. QED
    BY <2>1 DEF RecordsInv
<1>. QED
  BY <1>1, <1>6, <1>7 DEF RecordsInv, Shape, History

LEMMA RecordsRestart ==
    ASSUME RecordsInv, Restart
    PROVE  RecordsInv'
<1>1. /\ UNCHANGED <<kind, libc, file, now, from, last, at, whole>>
      /\ kept' = Loaded(kind, file)
      /\ scratch' = IF kind = "conditions" THEN NewConditions(Garbage)
                    ELSE scratch
  BY DEF Restart
<1>2. DOMAIN scratch' = Members
  BY <1>1 DEF RecordsInv, Shape, NewConditions
<1>. QED
  BY <1>1, <1>2 DEF RecordsInv, Shape, History

(* In every state there is one answer that all is about: the objects, the  *)
(* file and what was kept of it.                                           *)
LEMMA RecordsInductive == Spec => []RecordsInv
<1>1. RecordsInv /\ [Next]_vars => RecordsInv'
  <2> SUFFICES ASSUME RecordsInv, [Next]_vars
               PROVE  RecordsInv'
    OBVIOUS
  <2>1. CASE \E j \in Answers[kind] : Fetch(j)
    BY <2>1, RecordsFetch
  <2>2. CASE Tear
    BY <2>2, RecordsTear
  <2>3. CASE Restart
    BY <2>3, RecordsRestart
  <2>4. CASE UNCHANGED vars
    BY <2>4 DEF vars, RecordsInv, Shape, History
  <2>. QED
    BY <2>1, <2>2, <2>3, <2>4 DEF Next
<1>. QED
  BY <1>1, RecordsInit, PTL DEF Spec

----------------------------------------------------------------------------
(* What the runs check. *)

(* What the fetcher has is the objects of the last answer that was kept,   *)
(* or the first of them, or a point that was cleared.                      *)
LEMMA KeptIs ==
    ASSUME RecordsInv
    PROVE  /\ Objects(kind, kept)
           /\ kind = "point" => kept \in {<<ClearedPoint>>, last}
           /\ kind # "point" => \E count \in 0..Len(last) :
                                   kept = FirstOf(last, count)
<1>1. /\ kind \in Kinds /\ Objects(kind, last) /\ whole \in BOOLEAN
      /\ IsFile(kind, file, last, whole)
      /\ kept \in {last, Loaded(kind, file)}
  BY DEF RecordsInv, Shape
<1>2. CASE kept = last
  <2>1. Len(last) \in 0..Len(last) /\ last = FirstOf(last, Len(last))
    BY <1>1 DEF Objects, FirstOf
  <2>. QED
    BY <1>1, <1>2, <2>1
<1>3. CASE kept = Loaded(kind, file)
  BY <1>1, <1>3, FileIsRead
<1>. QED
  BY <1>1, <1>2, <1>3

(* A reading that was kept has a temperature. *)
LEMMA ReadingsAreWhole ==
    ASSUME RecordsInv, kind = "conditions", last # <<>>
    PROVE  /\ Len(last) = 1
           /\ last[1].temperature # IntMax
           /\ GetCurrentConditions(NewConditions(Garbage), from, at).rc
           /\ last[1] =
                 GetCurrentConditions(NewConditions(Garbage), from, at).obj
           /\ from \in Answers["conditions"]
<1> DEFINE result == GetCurrentConditions(NewConditions(Garbage), from, at)
<1>1. History /\ Loaded(kind, <<>>) = <<>>
  BY LoadedNothing DEF RecordsInv, Shape
<1>2. from \in Answers["conditions"] /\ Gives(kind, libc, from, at, last)
  BY <1>1 DEF History
<1>3. result.rc /\ last = <<result.obj>>
  BY <1>2 DEF Gives
<1>4. result.obj.temperature # IntMax
  <2>1. result.rc = (/\ FromJson(NewConditions(Garbage), from).rc
                     /\ FromJson(NewConditions(Garbage), from).obj.temperature
                           # IntMax)
    BY DEF GetCurrentConditions
  <2>2. "temperature" \in Members \ {"timestamp"}
    BY WriteOrderIs DEF Members
  <2>3. result.obj.temperature =
           FromJson(NewConditions(Garbage), from).obj.temperature
    <3> DEFINE parsed == FromJson(NewConditions(Garbage), from)
    <3>1. \A m \in Members \ {"timestamp"} : result.obj[m] = parsed.obj[m]
      <4>1. IsStamped(result.obj, parsed.obj, at)
        BY ConditionsAre, Zenon
      <4>. QED
        BY <4>1 DEF IsStamped
    <3> HIDE DEF result, parsed
    <3>2. result.obj["temperature"] = parsed.obj["temperature"]
      BY <2>2, <3>1, Zenon
    <3>. QED
      BY <3>2 DEF parsed
  <2>. QED
    BY <1>3, <2>1, <2>3
<1> HIDE DEF result
<1>5. Len(last) = 1 /\ last[1] = result.obj
  BY <1>3
<1>. QED
  BY <1>2, <1>3, <1>4, <1>5 DEF result

(* The variables keep their types: what the fetcher has are whole objects, *)
(* and no reading without a temperature is among them.                     *)
THEOREM TypeCorrect == Spec => []TypeOK
<1>1. RecordsInv => TypeOK
  <2> SUFFICES ASSUME RecordsInv
               PROVE  TypeOK
    OBVIOUS
  <2>1. /\ kind \in Kinds /\ libc \in {"bsd", "glibc"}
        /\ DOMAIN scratch = Members
        /\ now \in 0..MaxFetches /\ at \in 0..now /\ whole \in BOOLEAN
    BY DEF RecordsInv, Shape
  <2>2. Objects(kind, kept)
    BY KeptIs
  <2>3. ASSUME NEW i \in DOMAIN kept
        PROVE  DOMAIN kept[i] =
                  {OrderOf(kind)[n] : n \in DOMAIN OrderOf(kind)}
    <3>1. DOMAIN kept = 1..Len(kept)
      BY <2>2 DEF Objects
    <3>2. kept[i] = [m \in MembersOf(kind) |-> kept[i][m]]
      BY <2>2, <2>3, <3>1 DEF Objects
    <3>3. DOMAIN OrderOf(kind) = 1..Len(OrderOf(kind))
      BY <2>1, Orders DEF IsOrder
    <3>4. DOMAIN kept[i] = MembersOf(kind)
      BY <3>2
    <3>. QED
      BY <3>3, <3>4 DEF MembersOf
  <2>4. ASSUME kind = "conditions"
        PROVE  /\ Len(kept) <= 1
               /\ \A i \in DOMAIN kept : kept[i].temperature # IntMax
    <3>1. PICK count \in 0..Len(last) : kept = FirstOf(last, count)
      BY <2>4, KeptIs
    <3>2. Len(last) \in Nat
      BY DEF RecordsInv, Objects
    <3>3. Len(kept) = count /\ DOMAIN kept = 1..count
      BY <3>1, <3>2 DEF FirstOf
    <3>4. CASE last = <<>>
      BY <3>2, <3>3, <3>4
    <3>5. CASE last # <<>>
      <4>1. Len(last) = 1 /\ last[1].temperature # IntMax
        BY <2>4, <3>5, ReadingsAreWhole
      <4>2. count <= 1
        BY <4>1
      <4>3. \A i \in 1..count : i = 1 /\ kept[i] = last[i]
        BY <3>1, <4>2 DEF FirstOf
      <4>. QED
        BY <3>3, <4>1, <4>2, <4>3
    <3>. QED
      BY <3>4, <3>5
  <2>. QED
    BY <2>1, <2>3, <2>4 DEF TypeOK
<1>. QED
  BY <1>1, RecordsInductive, PTL

(* Whatever the answers were, a file that was written to its end is read   *)
(* as the objects that were written, and one that ends anywhere before it  *)
(* as the first of them, or a cleared point: Read and Write of every kind  *)
(* agree, and an object is never read in half.                             *)
THEOREM FileReadsBack == Spec => []ReadsBack
<1>1. RecordsInv => ReadsBack
  <2> SUFFICES ASSUME RecordsInv
               PROVE  ReadsBack
    OBVIOUS
  <2>1. /\ kind \in Kinds /\ Objects(kind, last) /\ whole \in BOOLEAN
        /\ IsFile(kind, file, last, whole)
    BY DEF RecordsInv, Shape
  <2>2. /\ Objects(kind, Given)
        /\ whole => Given = last
        /\ kind = "point" => Given \in {<<ClearedPoint>>, last}
        /\ kind # "point" => \E count \in 0..Len(last) :
                                Given = FirstOf(last, count)
    BY <2>1, FileIsRead DEF Given
  <2>3. ASSUME kind # "point"
        PROVE  IsPrefix(Given, last)
    <3>1. PICK count \in 0..Len(last) : Given = FirstOf(last, count)
      BY <2>2, <2>3
    <3> DEFINE given == FirstOf(last, count)
    <3>2. Len(last) \in Nat
      BY <2>1 DEF Objects
    <3>3. Len(given) = count /\ given = [i \in 1..count |-> last[i]]
      BY <3>2 DEF FirstOf
    <3> HIDE DEF given
    <3>4. SubSeq(given, 1, count) = [i \in 1..count |-> last[i]]
      BY <3>2, <3>3
    <3>5. SubSeq(last, 1, count) = [i \in 1..count |-> last[i]]
      BY <2>1, <3>2 DEF Objects
    <3>6. IsPrefix(given, last)
      BY <3>2, <3>3, <3>4, <3>5 DEF IsPrefix
    <3>. QED
      BY <3>1, <3>6 DEF given
  <2>. QED
    BY <2>2, <2>3 DEF ReadsBack
<1>. QED
  BY <1>1, RecordsInductive, PTL

(* The addresses the fetcher asks are all from one answer, which had each  *)
(* of them, or it has none: however often it is started with a file that   *)
(* was torn.                                                               *)
THEOREM PointsAreWhole == Spec => []PointIsWhole
<1>1. RecordsInv => PointIsWhole
  <2> SUFFICES ASSUME RecordsInv, kind = "point", kept # <<ClearedPoint>>
               PROVE  LET props == Get(from, "properties")
                      IN  /\ kept = last
                          /\ \A m \in DOMAIN ClearedPoint :
                                /\ Has(props, m, PointSort(m))
                                /\ kept[1][m] = Val(props, m)
    BY DEF PointIsWhole
  <2> DEFINE props == Get(from, "properties")
             taken == {PointOrder[n] : n \in {i \in DOMAIN PointOrder :
                          \A k \in 1..i : Has(props, PointOrder[k],
                                              PointSort(PointOrder[k]))}}
             filled == [m \in DOMAIN ClearedPoint |->
                          IF m \in taken THEN Val(props, m)
                          ELSE ClearedPoint[m]]
  <2>1. kept = last
    BY KeptIs
  <2>2. last # Loaded(kind, <<>>) /\ History
    BY <2>1, LoadedNothing DEF RecordsInv, Shape
  <2>3. PointOf(from).rc /\ last = <<PointOf(from).obj>>
    BY <2>2 DEF History, Gives
  <2>4. Has(from, "properties", "object")
    BY <2>3 DEF PointOf
  <2>5. PointOf(from) =
           [obj |-> filled, rc |-> taken = DOMAIN ClearedPoint]
    BY <2>4, Zenon DEF PointOf
  <2>6. taken = DOMAIN ClearedPoint
    BY <2>3, <2>4 DEF PointOf
  <2>7. kept[1] = filled
    <3> HIDE DEF taken, filled
    <3>. QED
      BY <2>1, <2>3, <2>5
  <2>8. ASSUME NEW m \in DOMAIN ClearedPoint
        PROVE  Has(props, m, PointSort(m)) /\ kept[1][m] = Val(props, m)
    <3>1. PICK n \in DOMAIN PointOrder :
             /\ m = PointOrder[n]
             /\ \A k \in 1..n : Has(props, PointOrder[k],
                                    PointSort(PointOrder[k]))
      BY <2>6
    <3>2. n \in 1..n
      BY <3>1 DEF PointOrder
    <3>3. Has(props, m, PointSort(m))
      BY <3>1, <3>2
    <3>4. filled[m] = Val(props, m)
      BY <2>6
    <3>. QED
      BY <2>7, <3>3, <3>4
  <2>. QED
    BY <2>1, <2>8
<1>. QED
  BY <1>1, RecordsInductive, PTL

----------------------------------------------------------------------------
(* What the clients show. *)

(* A number in tenths is what an int has of it, and less than one more     *)
(* away from zero.                                                         *)
LEMMA TenthsOf ==
    ASSUME NEW j, Is(j, "number"), j[2] \in Int
    PROVE  /\ AsInt(j) \in Int /\ InTenths(j) \in Int
           /\ InTenths(j) >= 0 => /\ AsInt(j) >= 0
                                  /\ InTenths(j) - 10 * AsInt(j) \in 0..9
           /\ InTenths(j) < 0 => 10 * AsInt(j) - InTenths(j) \in 0..9
<1> DEFINE n == j[2]
<1>1. CASE j[1] = "float"
  <2>1. AsInt(j) = Quotient(n, 10) /\ InTenths(j) = n
    BY <1>1 DEF AsInt, InTenths, Is
  <2> HIDE DEF n
  <2>2. n \in Int
    BY DEF n
  <2> DEFINE q == Quotient(n, 10)
  <2>3. /\ q \in Int
        /\ n >= 0 => 10 * q <= n /\ n < 10 * q + 10
        /\ n < 0 => n <= 10 * q /\ 10 * q < n + 10
    BY <2>2, TenthBound
  <2> HIDE DEF q
  <2>4. /\ n >= 0 => q >= 0 /\ n - 10 * q \in 0..9
        /\ n < 0 => 10 * q - n \in 0..9
    BY <2>2, <2>3
  <2>. QED
    BY <2>1, <2>2, <2>3, <2>4 DEF q
<1>2. CASE j[1] # "float"
  <2>1. AsInt(j) = n /\ InTenths(j) = 10 * n
    BY <1>2 DEF AsInt, InTenths, Is
  <2> HIDE DEF n
  <2>2. n \in Int
    BY DEF n
  <2>. QED
    BY <2>1, <2>2
<1>. QED
  BY <1>1, <1>2

(* A cell of either client's table. *)
CellOf(name, value) ==
    IF name \in {"windSpeed", "windChill", "heatIndex"} /\ value = IntMax
    THEN Dashes ELSE Number(value)

LEMMA Cells ==
    ASSUME NEW o, NEW row \in {Row(o), CgiRow(o)}, NEW m \in Members
    PROVE  row[m] = CellOf(m, o[m])
<1>1. CASE row = Row(o)
  BY <1>1 DEF Row, CellOf
<1>2. CASE row = CgiRow(o)
  <2>1. CASE m = "windSpeed"
    BY <1>2, <2>1 DEF CgiRow, CellOf
  <2>2. CASE m = "windChill"
    BY <1>2, <2>2 DEF CgiRow, CellOf
  <2>3. CASE m = "heatIndex"
    BY <1>2, <2>3 DEF CgiRow, CellOf
  <2>4. CASE m \notin {"windSpeed", "windChill", "heatIndex"}
    BY <1>2, <2>4 DEF CgiRow, CellOf
  <2>. QED
    BY <2>1, <2>2, <2>3, <2>4
<1>. QED
  BY <1>1, <1>2

(* What a cell may have, if its node is that. *)
CellIsRight(name, cell, node) ==
    IF Has(node, "value", "number")
    THEN IsModest(Get(node, "value")) =>
            \/ cell # Dashes /\ Shows(name, cell, node)
            \/ /\ cell = Dashes /\ name = "windSpeed"
               /\ Condition(node).unit \notin WindUnits
    ELSE \/ cell = Dashes
         \/ name \in {"relativeHumidity", "dewpoint", "barometricPressure"}

(* The value that a node has is that of its number, in an int. *)
LEMMA ValueOf ==
    ASSUME NEW node
    PROVE  /\ Has(node, "value", "number") =>
                 Condition(node).value = AsInt(Get(node, "value"))
           /\ ~Has(node, "value", "number") => Condition(node).value = IntMax
BY DEF Condition

(* The tenths in which a number is, and the int that is made of it.        *)
IsModestNumber(d, v) ==
    /\ d \in Int /\ v \in Int
    /\ d >= 0 => v >= 0 /\ d - 10 * v \in 0..9
    /\ d < 0 => 10 * v - d \in 0..9
    /\ 10 * v \in -IntMax..IntMax
    /\ 9 * v \in -FloatExact..FloatExact

(* A temperature, whether it is converted or not. *)
LEMMA TemperatureShown ==
    ASSUME NEW c, NEW d, IsModestNumber(d, c.value)
    PROVE  LET n == CelsiusToFahrenheit(c)
           IN  /\ n # IntMax
               /\ IF c.unit \in {"unit:degC", "wmoUnit:degC"}
                  THEN Within(50 * n, 9 * d + 1600, 155)
                  ELSE Within(10 * n, d, 9)
<1> DEFINE n == CelsiusToFahrenheit(c)
           v == c.value
<1>1. /\ IntMax \in Nat /\ IntMax >= 200000
      /\ d \in Int /\ v \in Int
      /\ d - 10 * v \in -9..9
      /\ 10 * v <= IntMax /\ -IntMax <= 10 * v
  BY IntMaxAssumption, SMTT(30) DEF IsModestNumber
<1>2. CASE c.unit \in {"unit:degC", "wmoUnit:degC"}
  <2>1. -IntMax - 1 <= 9 * v /\ 9 * v <= IntMax
    <3> HIDE DEF v
    <3>. QED
      BY <1>1
  <2>2. 5 * n >= 9 * v + 160 - 2 /\ 5 * n <= 9 * v + 160 + 7
    BY <1>1, <1>2, <2>1, FahrenheitIsClose DEF IsModestNumber
  <2>3. n \in Int
    <3>1. n = Quotient(2 * Wrap(9 * v) + 325, 10)
      BY <1>2 DEF CelsiusToFahrenheit
    <3>2. Wrap(9 * v) = 9 * v
      BY <1>1, <2>1, WrapInRange
    <3> HIDE DEF v
    <3>3. 2 * (9 * v) + 325 \in Int
      BY <1>1
    <3>. QED
      BY <3>1, <3>2, <3>3, TenthBound
  <2> HIDE DEF n, v
  <2>4. 50 * n - (9 * d + 1600) \in -155..155 /\ n # IntMax
    BY <1>1, <2>2, <2>3
  <2>. QED
    BY <1>2, <2>4 DEF Within, n
<1>3. CASE c.unit \notin {"unit:degC", "wmoUnit:degC"}
  <2>1. n = v
    BY <1>3 DEF CelsiusToFahrenheit
  <2> HIDE DEF n, v
  <2>2. 10 * n - d \in -9..9 /\ n # IntMax
    BY <1>1, <2>1
  <2>. QED
    BY <1>3, <2>2 DEF Within, n
<1>. QED
  BY <1>2, <1>3

(* A speed in a unit that is known. *)
LEMMA SpeedShown ==
    ASSUME NEW c, NEW d, IsModestNumber(d, c.value)
    PROVE  LET n == MetersPerSecondToMph(c)
           IN  /\ n # IntMax
               /\ d >= 0 =>
                     IF c.unit = "unit:m_s-1"
                     THEN Within(1000 * n, (223694 * d) \div 1000, 2600)
                     ELSE Within(1000 * n, (621371 * d) \div 10000, 1200)
<1> DEFINE n == MetersPerSecondToMph(c)
           v == c.value
<1>1. /\ IntMax \in Nat /\ IntMax >= 200000
      /\ d \in Int /\ v \in Int
      /\ d >= 0 => v >= 0 /\ d - 10 * v \in 0..9
      /\ 10 * v <= IntMax /\ -IntMax <= 10 * v
  BY IntMaxAssumption, SMTT(30) DEF IsModestNumber
<1>2. CASE c.unit = "unit:m_s-1"
  <2>1. n = Quotient(v * 223694 + 50000, 100000)
    BY <1>2 DEF MetersPerSecondToMph
  <2> HIDE DEF n, v
  <2>2. n \in Int /\ n # IntMax
    BY <1>1, <2>1, SMTT(30) DEF Quotient
  <2>3. ASSUME d >= 0
        PROVE  1000 * n - ((223694 * d) \div 1000) \in -2600..2600
    <3>1. /\ 100000 * n <= v * 223694 + 50000
          /\ v * 223694 + 50000 < 100000 * n + 100000
      BY <1>1, <2>1, <2>3, SMT DEF Quotient
    <3> DEFINE e == (223694 * d) \div 1000
    <3>2. e \in Int /\ 1000 * e <= 223694 * d /\ 223694 * d < 1000 * e + 1000
      BY <1>1
    <3> HIDE DEF e
    <3>3. 1000 * n - e \in -2600..2600
      BY <1>1, <2>2, <2>3, <3>1, <3>2
    <3>. QED
      BY <3>3 DEF e
  <2>. QED
    BY <1>2, <2>2, <2>3 DEF Within, n
<1>3. CASE c.unit # "unit:m_s-1"
  <2>1. n = Quotient(v * 621371 + 500000, 1000000)
    BY <1>3 DEF MetersPerSecondToMph
  <2> HIDE DEF n, v
  <2>2. n \in Int /\ n # IntMax
    BY <1>1, <2>1, SMTT(30) DEF Quotient
  <2>3. ASSUME d >= 0
        PROVE  1000 * n - ((621371 * d) \div 10000) \in -1200..1200
    <3>1. /\ 1000000 * n <= v * 621371 + 500000
          /\ v * 621371 + 500000 < 1000000 * n + 1000000
      BY <1>1, <2>1, <2>3, SMT DEF Quotient
    <3> DEFINE e == (621371 * d) \div 10000
    <3>2. /\ e \in Int
          /\ 10000 * e <= 621371 * d /\ 621371 * d < 10000 * e + 10000
      BY <1>1
    <3> HIDE DEF e
    <3>3. 1000 * n - e \in -1200..1200
      BY <1>1, <2>2, <2>3, <3>1, <3>2
    <3>. QED
      BY <3>3 DEF e
  <2>. QED
    BY <1>3, <2>2, <2>3 DEF Within, n
<1>. QED
  BY <1>2, <1>3

(* A cell with what FromJson makes of its node. *)
LEMMA AssignedShown ==
    ASSUME NEW k \in DOMAIN Names, NEW node,
           Has(node, "value", "number") => Val(node, "value") \in Int,
           Names[k] = "temperature" =>
              Assigned("temperature", Condition(node), IntMax) # IntMax
    PROVE  CellIsRight(Names[k],
              CellOf(Names[k], Assigned(Names[k], Condition(node), IntMax)),
              node)
<1> DEFINE name == Names[k]
           c == Condition(node)
           v == Assigned(name, c, IntMax)
           cell == CellOf(name, v)
           d == InTenths(Get(node, "value"))
<1>1. /\ name \in {"temperature", "relativeHumidity", "barometricPressure",
                   "dewpoint", "windSpeed", "windChill", "heatIndex"}
      /\ IntMax \in Nat /\ IntMax >= 200000
  BY IntMaxAssumption DEF Names
<1>2. /\ name = "temperature" => v # IntMax
      /\ cell = IF name \in {"windSpeed", "windChill", "heatIndex"}
                   /\ v = IntMax
                THEN Dashes ELSE Number(v)
  BY DEF CellOf
<1>3. CASE ~Has(node, "value", "number")
  <2>1. c.value = IntMax
    BY <1>3, ValueOf
  <2>2. CASE name \in {"temperature", "windChill", "heatIndex", "windSpeed"}
    <3>1. v = IntMax
      BY <2>1, <2>2 DEF Assigned
    <3>2. cell = Dashes
      BY <1>2, <2>2, <3>1
    <3>. QED
      BY <1>3, <3>2 DEF CellIsRight
  <2>3. CASE name \in {"relativeHumidity", "dewpoint", "barometricPressure"}
    BY <1>3, <2>3 DEF CellIsRight
  <2>. QED
    BY <1>1, <2>2, <2>3
<1>4. CASE Has(node, "value", "number")
  <2> SUFFICES ASSUME IsModest(Get(node, "value"))
               PROVE  \/ cell # Dashes /\ Shows(name, cell, node)
                      \/ /\ cell = Dashes /\ name = "windSpeed"
                         /\ Condition(node).unit \notin WindUnits
    BY <1>4 DEF CellIsRight
  <2>1. IsModestNumber(d, c.value)
    <3> DEFINE j == Get(node, "value")
    <3>1. Is(j, "number") /\ j[2] \in Int
      BY <1>4 DEF Has, Get, Val
    <3>2. c.value = AsInt(j)
      BY <1>4, ValueOf
    <3>3. /\ 10 * AsInt(j) \in -IntMax..IntMax
          /\ 9 * AsInt(j) \in -FloatExact..FloatExact
      BY DEF IsModest
    <3> HIDE DEF c, j
    <3>4. IsModestNumber(InTenths(j), AsInt(j))
      BY <3>1, <3>3, TenthsOf DEF IsModestNumber
    <3>. QED
      BY <3>2, <3>4 DEF j
  <2>2. c.value # IntMax
    BY <1>1, <2>1 DEF IsModestNumber
  <2>3. ASSUME NEW n
        PROVE  Number(n) # Dashes /\ Number(n)[1] = n
    BY DEF Number, Dashes
  <2>4. CASE name \in {"relativeHumidity", "barometricPressure"}
    <3>1. v = c.value
      BY <2>4 DEF Assigned
    <3>2. cell = Number(v)
      BY <1>2, <2>4
    <3>3. Within(10 * c.value, d, 9)
      <4> HIDE DEF c, d
      <4>1. 10 * c.value - d \in -9..9
        BY <2>1 DEF IsModestNumber
      <4>. QED
        BY <4>1 DEF Within
    <3>4. Shows(name, cell, node)
      BY <2>3, <2>4, <3>1, <3>2, <3>3 DEF Shows
    <3>. QED
      BY <2>3, <3>2, <3>4
  <2>5. CASE name = "windSpeed" /\ c.unit \in WindUnits
    <3>1. v = MetersPerSecondToMph(c)
      BY <2>2, <2>5 DEF Assigned
    <3>2. /\ v # IntMax
          /\ d >= 0 =>
                IF c.unit = "unit:m_s-1"
                THEN Within(1000 * v, (223694 * d) \div 1000, 2600)
                ELSE Within(1000 * v, (621371 * d) \div 10000, 1200)
      BY <2>1, <3>1, SpeedShown
    <3>3. cell = Number(v)
      BY <1>2, <3>2
    <3>4. Shows(name, cell, node)
      <4> HIDE DEF v
      <4>. QED
        BY <2>3, <2>5, <3>2, <3>3 DEF Shows
    <3>. QED
      BY <2>3, <3>3, <3>4
  <2>6. CASE name = "windSpeed" /\ c.unit \notin WindUnits
    <3>1. v = IntMax
      BY <2>6 DEF Assigned
    <3>2. cell = Dashes
      BY <1>2, <2>6, <3>1
    <3>. QED
      BY <2>6, <3>2
  <2>7. CASE name \in {"temperature", "dewpoint", "windChill", "heatIndex"}
    <3>1. v = CelsiusToFahrenheit(c)
      BY <2>2, <2>7 DEF Assigned
    <3>2. /\ v # IntMax
          /\ IF c.unit \in {"unit:degC", "wmoUnit:degC"}
             THEN Within(50 * v, 9 * d + 1600, 155)
             ELSE Within(10 * v, d, 9)
      BY <2>1, <3>1, TemperatureShown
    <3>3. cell = Number(v)
      BY <1>2, <3>2
    <3>4. Shows(name, cell, node)
      <4> HIDE DEF v
      <4>. QED
        BY <2>3, <2>7, <3>2, <3>3 DEF Shows
    <3>. QED
      BY <2>3, <3>3, <3>4
  <2>. QED
    BY <1>1, <2>4, <2>5, <2>6, <2>7
<1>. QED
  BY <1>3, <1>4

(* Every number in a client's table, for every answer of every station,    *)
(* is that of the row's own station and of its last answer, in the unit    *)
(* of the table but for rounding, and what is missing is shown to be,      *)
(* except where the code forgets it.                                       *)
THEOREM WhatIsShownWasObserved == Spec => []ShownIsObserved
<1>1. RecordsInv => ShownIsObserved
  <2> DEFINE props == Get(from, "properties")
             old == NewConditions(Garbage)
             parsed == FromJson(old, from)
             o == GetCurrentConditions(old, from, at).obj
  <2>1. SUFFICES ASSUME RecordsInv, kind = "conditions",
                        NEW i \in DOMAIN Given,
                        NEW row \in {Row(Given[i]), CgiRow(Given[i])}
                 PROVE  /\ row.station =
                              <<StationOf(Val(props, "station"))>>
                        /\ row.timestamp = <<at>>
                        /\ \A k \in DOMAIN Names :
                              CellIsRight(Names[k], row[Names[k]],
                                          Get(props, Names[k]))
    BY DEF ShownIsObserved, CellIsRight
  <2>2. /\ last # <<>> /\ i = 1 /\ Given[i] = last[1]
    <3>1. kind \in Kinds /\ Objects(kind, last) /\ whole \in BOOLEAN
          /\ IsFile(kind, file, last, whole)
      BY <2>1 DEF RecordsInv, Shape
    <3>2. PICK count \in 0..Len(last) : Given = FirstOf(last, count)
      BY <2>1, <3>1, FileIsRead DEF Given
    <3>3. i \in 1..count /\ Given[i] = last[i] /\ Len(last) \in Nat
      BY <2>1, <3>1, <3>2 DEF FirstOf, Objects
    <3>4. last # <<>>
      BY <3>2, <3>3
    <3>5. Len(last) = 1
      BY <2>1, <3>4, ReadingsAreWhole
    <3>. QED
      BY <3>2, <3>3, <3>4, <3>5
  <2>3. /\ Given[i] = o /\ o.temperature # IntMax
        /\ GetCurrentConditions(old, from, at).rc
        /\ from \in Answers["conditions"]
    BY <2>1, <2>2, ReadingsAreWhole
  <2>4. parsed.rc
    BY <2>3 DEF GetCurrentConditions
  <2>5. \A m \in Members \ {"timestamp"} : parsed.obj[m] = Complete(props)[m]
    BY <2>4, FromJsonForgets, Zenon
  <2>6. IsStamped(o, parsed.obj, at)
    BY ConditionsAre, Zenon
  <2>7. /\ Has(from, "properties", "object")
        /\ \A k \in DOMAIN Names : Has(props, Names[k], "object")
    <3>1. ~ (\/ ~Has(from, "properties", "object")
             \/ ~Has(props, "station", "string"))
      BY <2>4 DEF FromJson
    <3>2. Reached(props) = DOMAIN Names
      BY <2>4, <3>1 DEF FromJson
    <3>3. ASSUME NEW k \in DOMAIN Names
          PROVE  Has(props, Names[k], "object")
      <4>1. k \in Reached(props) /\ k \in 1..k
        BY <3>2 DEF Names
      <4>. QED
        BY <4>1 DEF Reached
    <3>. QED
      BY <3>1, <3>3
  <2>8. /\ "station" \in Members /\ "timestamp" \in Members
        /\ "temperature" \in Members
        /\ \A k \in DOMAIN Names : /\ Names[k] \in Members
                                   /\ Names[k] # "timestamp"
                                   /\ Names[k] # "station"
    BY WriteOrderIs DEF Members, Names
  <2>9. \A m \in Members : row[m] = CellOf(m, o[m])
    <3>1. row \in {Row(o), CgiRow(o)}
      BY <2>1, <2>3, Zenon
    <3> HIDE DEF o
    <3>. QED
      BY <3>1, Cells
  <2> HIDE DEF o, parsed
  <2>10. \A m \in Members \ {"timestamp"} : o[m] = Complete(props)[m]
    BY <2>5, <2>6 DEF IsStamped
  <2>11. row.station = <<StationOf(Val(props, "station"))>>
    <3>1. Complete(props)["station"] = StationOf(Val(props, "station"))
      BY <2>8 DEF Complete
    <3>2. row["station"] = CellOf("station", o["station"])
      BY <2>8, <2>9
    <3>3. o["station"] = Complete(props)["station"]
      BY <2>8, <2>10
    <3>. QED
      BY <3>1, <3>2, <3>3 DEF CellOf, Number
  <2>12. row.timestamp = <<at>>
    <3>1. row["timestamp"] = CellOf("timestamp", o["timestamp"])
      BY <2>8, <2>9
    <3>2. o["timestamp"] = at
      BY <2>6 DEF IsStamped
    <3>. QED
      BY <3>1, <3>2 DEF CellOf, Number
  <2>13. ASSUME NEW k \in DOMAIN Names
         PROVE  CellIsRight(Names[k], row[Names[k]], Get(props, Names[k]))
    <3> DEFINE node == Get(props, Names[k])
               v == Assigned(Names[k], Condition(node), IntMax)
    <3>1. Complete(props)[Names[k]] = v
      BY <2>8 DEF Complete
    <3>2. o[Names[k]] = v
      BY <2>8, <2>10, <3>1
    <3>3. row[Names[k]] = CellOf(Names[k], v)
      BY <2>8, <2>9, <3>2
    <3>4. Has(node, "value", "number") => Val(node, "value") \in Int
      BY <2>3, <2>7, AnswersAssumption
    <3>5. Names[k] = "temperature" =>
             Assigned("temperature", Condition(node), IntMax) # IntMax
      BY <2>3, <3>2
    <3>6. CellIsRight(Names[k], CellOf(Names[k], v), node)
      BY <3>4, <3>5, AssignedShown, Zenon
    <3>. QED
      BY <3>3, <3>6
  <2>. QED
    BY <2>11, <2>12, <2>13
<1>. QED
  BY <1>1, RecordsInductive, PTL

----------------------------------------------------------------------------
(* What the clients show of the periods. *)

(* The periods are those of the first nodes, each with its stack. *)
AreOf(periods, nodes, c, stacks) ==
    /\ DOMAIN periods = 1..Len(periods)
    /\ Len(periods) \in 0..Len(nodes)
    /\ \A i \in 1..Len(periods) :
          periods[i] = PeriodOf(nodes[i], c, stacks[i])

(* The types of what a period's node says. *)
IsPeriodNode(node) ==
    /\ \A m \in Times : Has(node, m, "string") =>
          /\ Val(node, m).well \in BOOLEAN
          /\ Val(node, m).at \in Int
          /\ Val(node, m).zone \in Int
    /\ Has(node, "detailedForecast", "string") =>
          Val(node, "detailedForecast") \in Seq(Nat)

(* The periods of the clients are those of the last answer. *)
LEMMA GivenAreOf ==
    ASSUME RecordsInv, kind = "periods", NEW i0 \in DOMAIN Given
    PROVE  /\ libc \in {"bsd", "glibc"}
           /\ \E s \in Stacks : AreOf(Given, PeriodNodes(from), libc, s)
           /\ Len(PeriodNodes(from)) \in 0..MaxPeriods
           /\ \A i \in 1..Len(PeriodNodes(from)) :
                 IsPeriodNode(PeriodNodes(from)[i])
<1> DEFINE nodes == PeriodNodes(from)
<1>1. /\ libc \in {"bsd", "glibc"} /\ Objects(kind, last)
      /\ whole \in BOOLEAN /\ IsFile(kind, file, last, whole) /\ History
  BY DEF RecordsInv, Shape
<1>2. PICK count \in 0..Len(last) : Given = FirstOf(last, count)
  BY <1>1, FileIsRead DEF Given, Kinds
<1>3. Len(last) \in Nat /\ DOMAIN Given = 1..count /\ Len(Given) = count
  BY <1>1, <1>2 DEF FirstOf, Objects
<1>4. last # <<>> /\ Loaded("periods", <<>>) = <<>>
  BY <1>3, LoadedNothing DEF Kinds
<1>5. from \in Answers["periods"] /\ Gives(kind, libc, from, at, last)
  BY <1>1, <1>4 DEF History
<1>6. PICK s \in Stacks : last = PeriodsOf(from, libc, s).obj
  BY <1>5 DEF Gives
<1>7. last = [i \in DOMAIN nodes |-> PeriodOf(nodes[i], libc, s[i])]
  BY <1>6 DEF PeriodsOf
<1>8. /\ Len(nodes) \in 0..MaxPeriods /\ DOMAIN nodes = 1..Len(nodes)
      /\ \A i \in 1..Len(nodes) : IsPeriodNode(nodes[i])
  BY <1>5, AnswersAssumption DEF IsPeriodNode
<1> HIDE DEF nodes
<1>9. Len(last) = Len(nodes)
  BY <1>3, <1>7, <1>8, BoundsAssumption
<1>10. AreOf(Given, nodes, libc, s)
  <2>1. \A i \in 1..count : Given[i] = last[i]
    BY <1>2 DEF FirstOf
  <2>2. \A i \in 1..count : last[i] = PeriodOf(nodes[i], libc, s[i])
    BY <1>3, <1>7, <1>8, <1>9
  <2>. QED
    BY <1>3, <1>9, <2>1, <2>2 DEF AreOf
<1>. QED
  BY <1>1, <1>8, <1>10 DEF nodes

(* What members of a period are made of. *)
IsMadeOf(p, node, c, stack) ==
    /\ \A m \in Times : Has(node, m, "string") =>
          p[m] = ParseTimeString(Val(node, m), c, stack[m])
    /\ p.temperature = IF Has(node, "temperature", "number")
                       THEN AsInt(Get(node, "temperature")) ELSE 255
    /\ p.isDaytime = IF Has(node, "isDaytime", "boolean")
                     THEN Val(node, "isDaytime") ELSE FALSE
    /\ p.detailedForecast = IF Has(node, "detailedForecast", "string")
                            THEN Val(node, "detailedForecast") ELSE <<>>

(* The times of a period are those of its node, each with its own stack.   *)
LEMMA PeriodMembers ==
    ASSUME NEW node, NEW c, NEW stack
    PROVE  IsMadeOf(PeriodOf(node, c, stack), node, c, stack)
<1> DEFINE value(m) ==
        CASE ~Has(node, m, SortOf(m)) -> ClearedPeriod[m]
          [] Has(node, m, SortOf(m)) /\ m \in Times ->
                ParseTimeString(Val(node, m), c, stack[m])
          [] Has(node, m, SortOf(m)) /\ m = "temperature" ->
                AsInt(Get(node, m))
          [] Has(node, m, SortOf(m)) /\ m = "temperatureUnit" ->
                IF Val(node, m) = "" THEN " " ELSE Val(node, m)
          [] OTHER -> Val(node, m)
<1>1. \A m \in DOMAIN ClearedPeriod :
         PeriodOf(node, c, stack)[m] = value(m)
  BY Zenon DEF PeriodOf
<1>2. /\ DOMAIN ClearedPeriod =
            {"startTime", "endTime", "name", "isDaytime", "temperature",
             "temperatureUnit", "windSpeed", "windDirection",
             "shortForecast", "detailedForecast"}
      /\ ClearedPeriod["temperature"] = 255
      /\ ClearedPeriod["detailedForecast"] = <<>>
  BY DEF ClearedPeriod
<1>3. ClearedPeriod["isDaytime"] = FALSE
  BY DEF ClearedPeriod
<1>4. ASSUME NEW m \in Times, Has(node, m, "string")
      PROVE  PeriodOf(node, c, stack)[m] =
                ParseTimeString(Val(node, m), c, stack[m])
  <2>1. m \in DOMAIN ClearedPeriod /\ SortOf(m) = "string"
    BY <1>2, <1>4 DEF Times, SortOf
  <2>2. value(m) = ParseTimeString(Val(node, m), c, stack[m])
    BY <1>4, <2>1 DEF Times
  <2>. QED
    BY <1>1, <2>1, <2>2
<1>5. value("temperature") = IF Has(node, "temperature", "number")
                             THEN AsInt(Get(node, "temperature")) ELSE 255
  <2>1. SortOf("temperature") = "number"
    BY DEF SortOf
  <2>. QED
    BY <1>2, <2>1 DEF Times
<1>6. value("isDaytime") = IF Has(node, "isDaytime", "boolean")
                           THEN Val(node, "isDaytime") ELSE FALSE
  <2>1. SortOf("isDaytime") = "boolean"
    BY DEF SortOf
  <2>. QED
    BY <1>3, <2>1 DEF Times
<1>7. value("detailedForecast") =
         IF Has(node, "detailedForecast", "string")
         THEN Val(node, "detailedForecast") ELSE <<>>
  <2>1. SortOf("detailedForecast") = "string"
    BY DEF SortOf
  <2>. QED
    BY <1>2, <2>1 DEF Times
<1> HIDE DEF value
<1> DEFINE p == PeriodOf(node, c, stack)
<1>8. /\ p["temperature"] = value("temperature")
      /\ p["isDaytime"] = value("isDaytime")
      /\ p["detailedForecast"] = value("detailedForecast")
  BY <1>1, <1>2
<1>9. \A m \in Times : Has(node, m, "string") =>
         p[m] = ParseTimeString(Val(node, m), c, stack[m])
  BY <1>4
<1> HIDE DEF p
<1>10. p.isDaytime = IF Has(node, "isDaytime", "boolean")
                     THEN Val(node, "isDaytime") ELSE FALSE
  BY <1>6, <1>8, Zenon
<1>11. p.temperature = IF Has(node, "temperature", "number")
                       THEN AsInt(Get(node, "temperature")) ELSE 255
  BY <1>5, <1>8, Zenon
<1>12. p.detailedForecast = IF Has(node, "detailedForecast", "string")
                            THEN Val(node, "detailedForecast") ELSE <<>>
  BY <1>7, <1>8, Zenon
<1>13. IsMadeOf(p, node, c, stack)
  BY <1>9, <1>10, <1>11, <1>12, Zenon DEF IsMadeOf
<1>. QED
  BY <1>13 DEF p

(* A time that was read is the instant, or is in the zone of the reader.   *)
IsNear(read, t, c) ==
    IF c = "bsd" THEN read = t.at
    ELSE read \in {t.at + t.zone - Standard, t.at + t.zone - Daylight}

(* What a time is read as is off from what it says by what tm_isdst holds. *)
LEMMA TimesAreRead ==
    ASSUME NEW t, t.well, t.at \in Int, t.zone \in Int,
           NEW c \in {"bsd", "glibc"}, NEW isdst \in BOOLEAN
    PROVE  IsNear(ParseTimeString(t, c, isdst), t, c)
BY DEF ParseTimeString, IsNear

(* With glibc's strptime a time is the place's clock in the reader's zone, *)
(* in summer or in winter as the stack has it.                             *)
LEMMA ClocksAreRead ==
    ASSUME NEW t, t.well, NEW isdst, NEW read,
           read = ParseTimeString(t, libc, isdst), libc = "glibc"
    PROVE  /\ isdst => read = t.at + t.zone - Daylight
           /\ ~isdst => read = t.at + t.zone - Standard
<1>1. libc # "bsd"
  OBVIOUS
<1>. QED
  BY <1>1, Zenon DEF ParseTimeString

(* It is near the instant in one of the two ways. *)
LEMMA ClocksAreNear ==
    ASSUME NEW t, NEW read, IsNear(read, t, libc), libc = "glibc"
    PROVE  read \in {t.at + t.zone - Standard, t.at + t.zone - Daylight}
<1>1. libc # "bsd"
  OBVIOUS
<1>. QED
  BY <1>1, Zenon DEF IsNear

(* With glibc's strptime the periods of an hourly answer need not rise,    *)
(* although TestPeriodForecast.cc asserts at lines 101 to 104 that they    *)
(* do: whatever the instants and the zone, where there is a summer time,   *)
(* the garbage in tm_isdst can make an hour end when it begins, and the    *)
(* next hour begin with it.                                                *)
THEOREM HoursMayCoincide ==
    ASSUME kind = "periods", libc = "glibc", Daylight = Standard + 1,
           NEW j \in Answers["periods"],
           NEW i \in 1..(Len(PeriodNodes(j)) - 1),
           LET nodes == PeriodNodes(j)
               Clock(k, m) == Val(nodes[k], m).at + Val(nodes[k], m).zone
           IN  /\ \A m \in Times : Timed(nodes[i], m)
               /\ Timed(nodes[i + 1], "startTime")
               /\ Clock(i, "endTime") = Clock(i, "startTime") + 1
               /\ Clock(i + 1, "startTime") = Clock(i, "startTime") + 1
    PROVE  \E outcome \in Outcomes(j) :
              /\ outcome.rc
              /\ outcome.objs[i].endTime = outcome.objs[i].startTime
              /\ outcome.objs[i + 1].startTime = outcome.objs[i].startTime
<1> DEFINE nodes == PeriodNodes(j)
           Clock(k, m) == Val(nodes[k], m).at + Val(nodes[k], m).zone
           s == [k \in 1..MaxPeriods |->
                    [m \in Times |-> k = i + 1 \/ m = "endTime"]]
           objs == PeriodsOf(j, libc, s).obj
<1>1. /\ Len(nodes) \in 0..MaxPeriods /\ DOMAIN nodes = 1..Len(nodes)
      /\ \A k \in 1..Len(nodes) : IsPeriodNode(nodes[k])
  BY AnswersAssumption DEF IsPeriodNode
<1>2. /\ {i, i + 1} \subseteq 1..Len(nodes)
      /\ {i, i + 1} \subseteq 1..MaxPeriods
      /\ i # i + 1
  BY <1>1, BoundsAssumption
<1>3. s \in Stacks
  BY DEF Stacks
<1>4. /\ ~s[i]["startTime"] /\ s[i]["endTime"] /\ s[i + 1]["startTime"]
  BY <1>2 DEF Times
<1>5. objs = [k \in DOMAIN nodes |-> PeriodOf(nodes[k], libc, s[k])]
  BY DEF PeriodsOf
<1>6. ASSUME NEW k \in {i, i + 1}, NEW m \in Times, Timed(nodes[k], m)
      PROVE  objs[k][m] = ParseTimeString(Val(nodes[k], m), libc, s[k][m])
  <2> HIDE DEF s, objs
  <2>1. objs[k] = PeriodOf(nodes[k], libc, s[k])
    BY <1>1, <1>2, <1>5
  <2>2. IsMadeOf(PeriodOf(nodes[k], libc, s[k]), nodes[k], libc, s[k])
    BY PeriodMembers
  <2>. QED
    BY <1>6, <2>1, <2>2 DEF IsMadeOf, Timed
<1>7. {"startTime", "endTime"} \subseteq Times
  BY DEF Times
<1>8. nodes # <<>>
  BY <1>1, <1>2
<1>9. /\ Timed(nodes[i], "startTime") /\ Timed(nodes[i], "endTime")
      /\ Timed(nodes[i + 1], "startTime")
      /\ Clock(i, "startTime") \in Int
      /\ Clock(i, "endTime") = Clock(i, "startTime") + 1
      /\ Clock(i + 1, "startTime") = Clock(i, "startTime") + 1
  BY <1>1, <1>2, <1>7 DEF IsPeriodNode, Timed
<1> HIDE DEF s, objs, nodes
<1>10. ASSUME NEW k \in {i, i + 1}, NEW m \in Times, Timed(nodes[k], m)
       PROVE  /\ s[k][m] => objs[k][m] = Clock(k, m) - Daylight
              /\ ~s[k][m] => objs[k][m] = Clock(k, m) - Standard
  <2> DEFINE t == Val(nodes[k], m)
             isdst == s[k][m]
             read == objs[k][m]
  <2>1. t.well
    BY <1>10 DEF Timed
  <2>2. read = ParseTimeString(t, libc, isdst)
    BY <1>6, <1>10
  <2> HIDE DEF t, isdst, read
  <2>3. /\ isdst => read = t.at + t.zone - Daylight
        /\ ~isdst => read = t.at + t.zone - Standard
    BY <2>1, <2>2, ClocksAreRead
  <2>4. t.at \in Int /\ t.zone \in Int
    BY <1>1, <1>2, <1>10 DEF IsPeriodNode, Timed, t
  <2>5. /\ isdst => read = (t.at + t.zone) - Daylight
        /\ ~isdst => read = (t.at + t.zone) - Standard
    <3>1. /\ t.at + (t.zone - Daylight) = (t.at + t.zone) - Daylight
          /\ t.at + (t.zone - Standard) = (t.at + t.zone) - Standard
      BY <2>4, ZoneAssumption
    <3>. QED
      BY <2>3, <3>1, Zenon
  <2>. QED
    BY <2>5, Zenon DEF t, isdst, read
<1> HIDE DEF Clock
<1>11. /\ objs[i].endTime = objs[i].startTime
       /\ objs[i + 1].startTime = objs[i].startTime
  <2>1. /\ objs[i]["startTime"] = Clock(i, "startTime") - Standard
        /\ objs[i]["endTime"] = Clock(i, "endTime") - Daylight
        /\ objs[i + 1]["startTime"] = Clock(i + 1, "startTime") - Daylight
    BY <1>4, <1>7, <1>9, <1>10
  <2>. QED
    BY <1>9, <2>1, ZoneAssumption
<1> DEFINE outcome == List(PeriodsOf(j, libc, s))
<1>12. outcome \in Outcomes(j)
  BY <1>3 DEF Outcomes
<1>13. outcome.objs = objs /\ outcome.rc
  BY <1>8 DEF List, PeriodsOf, objs, nodes
<1> HIDE DEF outcome
<1>. QED
  BY <1>11, <1>12, <1>13

(* What the clients print of a period is of its own node.  With BSD's      *)
(* strptime its hour is that of the answer's instant, in any zone, and the *)
(* times rise as the answer's.  With glibc's the hour is that of the       *)
(* place's clock or the next to it, for any tm_isdst, and the order is     *)
(* kept but for hours that coincide (HoursMayCoincide).                    *)
THEOREM PeriodsAreShown == Spec => []PeriodsShown
<1>1. RecordsInv => PeriodsShown
  <2> DEFINE nodes == PeriodNodes(from)
             Clock(k, m) == Val(nodes[k], m).at + Val(nodes[k], m).zone
  <2>1. SUFFICES ASSUME RecordsInv, kind = "periods"
                 PROVE  PeriodsShown
    BY DEF PeriodsShown
  <2>2. CASE DOMAIN Given = {}
    <3>1. libc \in {"bsd", "glibc"}
      BY <2>1 DEF RecordsInv, Shape
    <3>. QED
      BY <2>2, <3>1 DEF PeriodsShown, InstantsShown, ClocksShown
  <2>3. CASE DOMAIN Given # {}
    <3>1. /\ libc \in {"bsd", "glibc"} /\ Len(nodes) \in 0..MaxPeriods
          /\ \A k \in 1..Len(nodes) : IsPeriodNode(nodes[k])
      BY <2>1, <2>3, GivenAreOf
    <3>2. PICK s \in Stacks : AreOf(Given, nodes, libc, s)
      BY <2>1, <2>3, GivenAreOf
    <3> HIDE DEF nodes
    <3>3. /\ DOMAIN Given = 1..Len(Given) /\ Len(Given) \in 0..Len(nodes)
          /\ \A k \in 1..Len(Given) :
                /\ k \in 1..Len(nodes) /\ k \in 1..MaxPeriods
                /\ Given[k] = PeriodOf(nodes[k], libc, s[k])
      BY <3>1, <3>2, BoundsAssumption DEF AreOf
    <3>4. ASSUME NEW k \in 1..Len(Given), NEW m \in Times,
                 Timed(nodes[k], m)
          PROVE  /\ IsNear(Given[k][m], Val(nodes[k], m), libc)
                 /\ Val(nodes[k], m).at \in Int
                 /\ Val(nodes[k], m).zone \in Int
      <4>1. k \in 1..Len(nodes) /\ k \in 1..MaxPeriods
        BY <3>3
      <4>2. /\ Val(nodes[k], m).at \in Int /\ Val(nodes[k], m).zone \in Int
            /\ Val(nodes[k], m).well
        BY <3>1, <3>4, <4>1 DEF IsPeriodNode, Timed
      <4>3. s[k][m] \in BOOLEAN
        BY <4>1 DEF Stacks
      <4>4. IsMadeOf(Given[k], nodes[k], libc, s[k])
        BY <3>3, PeriodMembers
      <4>5. Given[k][m] = ParseTimeString(Val(nodes[k], m), libc, s[k][m])
        BY <3>4, <4>4 DEF IsMadeOf, Timed
      <4>. QED
        BY <3>1, <4>2, <4>3, <4>5, TimesAreRead
    <3>5. {"startTime", "endTime"} \subseteq Times
      BY DEF Times
    <3>6. ASSUME NEW i \in 1..Len(Given), NEW k \in (i + 1)..Len(Given)
          PROVE  k \in 1..Len(Given)
      BY <3>3
    <3>7. libc = "bsd" => InstantsShown
      <4> SUFFICES ASSUME libc = "bsd" PROVE InstantsShown
        OBVIOUS
      <4>1. ASSUME NEW k \in 1..Len(Given), NEW m \in Times,
                   Timed(nodes[k], m)
            PROVE  Given[k][m] = Val(nodes[k], m).at
        BY <3>4, <4>1 DEF IsNear
      <4>2. ASSUME NEW i \in 1..Len(Given), Timed(nodes[i], "startTime")
            PROVE  HourlyLine(Given[i]).hour
                   = LocalHour(Val(nodes[i], "startTime").at)
        <5>1. HourlyLine(Given[i]).hour = LocalHour(Given[i].startTime)
          BY DEF HourlyLine
        <5>2. Given[i].startTime = Val(nodes[i], "startTime").at
          BY <3>5, <4>1, <4>2
        <5>. QED
          BY <5>1, <5>2
      <4>3. \A i \in 1..Len(Given) :
               /\ Timed(nodes[i], "startTime") /\ Timed(nodes[i], "endTime")
               /\ Val(nodes[i], "startTime").at < Val(nodes[i], "endTime").at
               => Given[i].startTime < Given[i].endTime
        BY <3>5, <4>1
      <4>. QED
        BY <3>3, <3>6, <4>1, <4>2, <4>3 DEF InstantsShown, nodes
    <3>8. libc = "glibc" => ClocksShown
      <4> SUFFICES ASSUME libc = "glibc" PROVE ClocksShown
        OBVIOUS
      <4>1. ASSUME NEW k \in 1..Len(Given), NEW m \in Times,
                   Timed(nodes[k], m)
            PROVE  /\ Clock(k, m) \in Int
                   /\ Given[k][m] \in {Clock(k, m) - Standard,
                                       Clock(k, m) - Daylight}
        <5> DEFINE t == Val(nodes[k], m)
                   read == Given[k][m]
        <5>1. IsNear(read, t, libc) /\ t.at \in Int /\ t.zone \in Int
          BY <3>4, <4>1
        <5> HIDE DEF t, read
        <5>2. read \in {t.at + t.zone - Standard, t.at + t.zone - Daylight}
          BY <5>1, ClocksAreNear
        <5>3. /\ t.at + t.zone \in Int
              /\ read \in {(t.at + t.zone) - Standard,
                           (t.at + t.zone) - Daylight}
          BY <5>1, <5>2, ZoneAssumption
        <5>. QED
          BY <5>3, Zenon DEF t, read
      <4> HIDE DEF Clock
      <4>2. ASSUME NEW k \in 1..Len(Given), NEW m \in Times,
                   NEW l \in 1..Len(Given), NEW n \in Times,
                   Timed(nodes[k], m), Timed(nodes[l], n)
            PROVE  /\ Clock(k, m) < Clock(l, n)
                      => Given[k][m] <= Given[l][n]
                   /\ Clock(k, m) + 1 < Clock(l, n)
                      => Given[k][m] < Given[l][n]
        <5> DEFINE a == Clock(k, m)
                   b == Clock(l, n)
        <5>1. /\ a \in Int /\ b \in Int
              /\ Given[k][m] \in {a - Standard, a - Daylight}
              /\ Given[l][n] \in {b - Standard, b - Daylight}
          BY <4>1, <4>2
        <5> HIDE DEF a, b
        <5>2. /\ a < b => Given[k][m] <= Given[l][n]
              /\ a + 1 < b => Given[k][m] < Given[l][n]
          BY <5>1, ZoneAssumption
        <5>. QED
          BY <5>2 DEF a, b
      <4>3. ASSUME NEW i \in 1..Len(Given), Timed(nodes[i], "startTime")
            PROVE  Within(HourlyLine(Given[i]).hour,
                          Clock(i, "startTime"), 1)
        <5> DEFINE a == Clock(i, "startTime")
                   given == Given[i].startTime
        <5>1. a \in Int /\ given \in {a - Standard, a - Daylight}
          BY <3>5, <4>1, <4>3
        <5>2. HourlyLine(Given[i]).hour = LocalHour(given)
          BY DEF HourlyLine
        <5> HIDE DEF a, given
        <5>3. Within(LocalHour(given), a, 1)
          BY <5>1, ZoneAssumption DEF Within, LocalHour
        <5>. QED
          BY <5>2, <5>3 DEF a
      <4>. QED
        BY <3>3, <3>5, <3>6, <4>2, <4>3 DEF ClocksShown, Clock, nodes
    <3>9. ASSUME NEW i \in DOMAIN Given
          PROVE  /\ DailyLine(Given[i]).temperature =
                       IF Has(nodes[i], "temperature", "number")
                       THEN AsInt(Get(nodes[i], "temperature")) ELSE 255
                 /\ CgiLine(Given[i]).night <=>
                       ~ (/\ Has(nodes[i], "isDaytime", "boolean")
                          /\ Val(nodes[i], "isDaytime"))
      <4>1. /\ DailyLine(Given[i]).temperature = Given[i].temperature
            /\ CgiLine(Given[i]).night <=> ~Given[i].isDaytime
        BY DEF DailyLine, CgiLine
      <4>2. IsMadeOf(Given[i], nodes[i], libc, s[i])
        BY <3>3, PeriodMembers
      <4>3. /\ Given[i].temperature =
                  IF Has(nodes[i], "temperature", "number")
                  THEN AsInt(Get(nodes[i], "temperature")) ELSE 255
            /\ Given[i].isDaytime = IF Has(nodes[i], "isDaytime", "boolean")
                                    THEN Val(nodes[i], "isDaytime")
                                    ELSE FALSE
        BY <4>2, Zenon DEF IsMadeOf
      <4>. QED
        BY <4>1, <4>3
    <3>. QED
      BY <3>7, <3>8, <3>9 DEF PeriodsShown, nodes
  <2>. QED
    BY <2>2, <2>3
<1>. QED
  BY <1>1, RecordsInductive, PTL

----------------------------------------------------------------------------
(* The lines of a forecast. *)

(* What FlattenSeq makes of the first k is of the first k alone. *)
LEMMA SameFlat ==
    ASSUME NEW s, NEW t, NEW f, NEW g, NEW m \in Nat, NEW n \in Nat,
           Flattens(f, s, m), Flattens(g, t, n),
           NEW k \in 1..m, k <= n, \A i \in 1..k : s[i] = t[i]
    PROVE  f[k] = g[k]
<1> DEFINE Good == {i \in 0..k : i = 0 \/ f[i] = g[i]}
<1>1. 0 \in Good
  OBVIOUS
<1>2. ASSUME NEW i \in 1..k, i - 1 \in Good
      PROVE  i \in Good
  <2>1. /\ i \in 1..m /\ i \in 1..n
        /\ f[i] = IF i = 1 THEN s[i] ELSE f[i - 1] \o s[i]
        /\ g[i] = IF i = 1 THEN t[i] ELSE g[i - 1] \o t[i]
    <3>1. f = [j \in 1..m |-> IF j = 1 THEN s[j] ELSE f[j - 1] \o s[j]]
      BY DEF Flattens
    <3>2. g = [j \in 1..n |-> IF j = 1 THEN t[j] ELSE g[j - 1] \o t[j]]
      BY DEF Flattens
    <3>3. i \in 1..m /\ i \in 1..n
      OBVIOUS
    <3>4. f[i] = IF i = 1 THEN s[i] ELSE f[i - 1] \o s[i]
      BY <3>1, <3>3
    <3>5. g[i] = IF i = 1 THEN t[i] ELSE g[i - 1] \o t[i]
      BY <3>2, <3>3
    <3>. QED
      BY <3>3, <3>4, <3>5
  <2>2. i # 1 => f[i - 1] = g[i - 1]
    BY <1>2
  <2>. QED
    BY <2>1, <2>2
<1> HIDE DEF Good
<1>3. k \in Good
  BY <1>1, <1>2, Induction
<1>. QED
  BY <1>3 DEF Good

(* It is a sequence of the same set as they are. *)
LEMMA FlatType ==
    ASSUME NEW S, NEW s \in Seq(Seq(S)), NEW f, NEW n \in 1..Len(s),
           Flattens(f, s, Len(s))
    PROVE  f[n] \in Seq(S)
<1> DEFINE Good == {i \in 0..n : i = 0 \/ f[i] \in Seq(S)}
<1>1. 0 \in Good
  OBVIOUS
<1>2. ASSUME NEW i \in 1..n, i - 1 \in Good
      PROVE  i \in Good
  <2>1. i \in 1..Len(s) /\ s[i] \in Seq(S)
    OBVIOUS
  <2>2. f[i] = IF i = 1 THEN s[i] ELSE f[i - 1] \o s[i]
    <3>1. f = [j \in 1..Len(s) |-> IF j = 1 THEN s[j]
                                   ELSE f[j - 1] \o s[j]]
      BY DEF Flattens
    <3>. QED
      BY <2>1, <3>1
  <2>3. i # 1 => f[i - 1] \in Seq(S)
    BY <1>2
  <2>4. i # 1 => f[i - 1] \o s[i] \in Seq(S)
    BY <2>1, <2>3
  <2>5. f[i] \in Seq(S) /\ i \in 0..n
    BY <2>1, <2>2, <2>4
  <2>. QED
    BY <2>5
<1> HIDE DEF Good
<1>3. n \in Good
  BY <1>1, <1>2, Induction
<1>. QED
  BY <1>3 DEF Good

(* One line more, or one word more on the last line. *)
LEMMA FlattenMore ==
    ASSUME NEW S, NEW s \in Seq(Seq(S)), s # <<>>, NEW x \in S
    PROVE  /\ FlattenSeq(s) \in Seq(S)
           /\ FlattenSeq(Append(s, <<x>>)) = Append(FlattenSeq(s), x)
           /\ FlattenSeq([s EXCEPT ![Len(s)] = Append(@, x)]) =
                 Append(FlattenSeq(s), x)
<1> DEFINE n == Len(s)
           longer == Append(s, <<x>>)
           wider == [s EXCEPT ![n] = Append(@, x)]
<1>1. n \in Nat \ {0} /\ s[n] \in Seq(S)
  OBVIOUS
<1>2. /\ Len(longer) = n + 1 /\ longer[n + 1] = <<x>>
      /\ \A i \in 1..n : longer[i] = s[i]
  OBVIOUS
<1>3. /\ Len(wider) = n /\ wider[n] = Append(s[n], x)
      /\ \A i \in 1..(n - 1) : wider[i] = s[i]
  OBVIOUS
<1> HIDE DEF longer, wider
<1>4. PICK f : Flattens(f, s, n) /\ FlattenSeq(s) = f[n]
  BY <1>1, FlattenSeqIs
<1>5. PICK g : Flattens(g, longer, n + 1) /\ FlattenSeq(longer) = g[n + 1]
  BY <1>1, <1>2, FlattenSeqIs
<1>6. PICK h : Flattens(h, wider, n) /\ FlattenSeq(wider) = h[n]
  BY <1>1, <1>3, FlattenSeqIs
<1>7. f[n] \in Seq(S) /\ (n # 1 => f[n - 1] \in Seq(S))
  <2> HIDE DEF n
  <2>1. n \in 1..n /\ (n # 1 => n - 1 \in 1..n)
    BY <1>1
  <2>2. \A k \in 1..n : f[k] \in Seq(S)
    BY <1>4, FlatType DEF n
  <2>. QED
    BY <2>1, <2>2
<1> HIDE DEF n
<1>8. f[n] = IF n = 1 THEN s[n] ELSE f[n - 1] \o s[n]
  <2>1. f = [i \in 1..n |-> IF i = 1 THEN s[i] ELSE f[i - 1] \o s[i]]
    BY <1>4 DEF Flattens
  <2>2. n \in 1..n
    BY <1>1
  <2>. QED
    BY <2>1, <2>2
<1>9. g[n + 1] = g[n] \o longer[n + 1]
  <2>1. g = [i \in 1..(n + 1) |->
               IF i = 1 THEN longer[i] ELSE g[i - 1] \o longer[i]]
    BY <1>5 DEF Flattens
  <2>2. n + 1 \in 1..(n + 1) /\ n + 1 # 1 /\ (n + 1) - 1 = n
    BY <1>1
  <2>. QED
    BY <2>1, <2>2
<1>10. h[n] = IF n = 1 THEN wider[n] ELSE h[n - 1] \o wider[n]
  <2>1. h = [i \in 1..n |-> IF i = 1 THEN wider[i] ELSE h[i - 1] \o wider[i]]
    BY <1>6 DEF Flattens
  <2>2. n \in 1..n
    BY <1>1
  <2>. QED
    BY <2>1, <2>2
<1>11. g[n] = f[n]
  <2>1. n \in 1..n /\ n <= n + 1 /\ n + 1 \in Nat
    BY <1>1
  <2>. QED
    BY <1>1, <1>2, <1>4, <1>5, <2>1, SameFlat
<1>12. n # 1 => h[n - 1] = f[n - 1]
  <2>1. n # 1 => n - 1 \in 1..n /\ n - 1 <= n
    BY <1>1
  <2>. QED
    BY <1>1, <1>3, <1>4, <1>6, <2>1, SameFlat
<1>13. f[n] \o <<x>> = Append(f[n], x)
  BY <1>7
<1>14. h[n] = Append(f[n], x)
  <2>1. CASE n = 1
    BY <1>3, <1>8, <1>10, <2>1
  <2>2. CASE n # 1
    <3> DEFINE a == f[n - 1]
               b == s[n]
    <3>1. a \in Seq(S) /\ b \in Seq(S)
      BY <1>1, <1>7, <2>2
    <3>2. f[n] = a \o b /\ h[n] = a \o Append(b, x)
      BY <1>3, <1>8, <1>10, <1>12, <2>2
    <3> HIDE DEF a, b
    <3>3. a \o Append(b, x) = Append(a \o b, x)
      BY <3>1
    <3>. QED
      BY <3>2, <3>3
  <2>. QED
    BY <2>1, <2>2
<1>. QED
  BY <1>2, <1>4, <1>5, <1>6, <1>7, <1>9, <1>11, <1>13, <1>14
     DEF longer, wider, n

(* width is what WidthOf makes of the first n words. *)
Widths(width, line, n) ==
    width = [i \in 0..n |-> IF i = 0 THEN 1 ELSE width[i - 1] + line[i] + 1]

LEMMA WidthsExist ==
    ASSUME NEW line, NEW n \in Nat
    PROVE  \E f : Widths(f, line, n)
<1> DEFINE Good == {m \in Nat : \E f : Widths(f, line, m)}
<1>1. 0 \in Good
  <2>1. Widths([i \in 0..0 |-> 1], line, 0)
    BY DEF Widths
  <2>. QED
    BY <2>1
<1>2. ASSUME NEW m \in 1..n, m - 1 \in Good
      PROVE  m \in Good
  <2>1. PICK g : Widths(g, line, m - 1)
    BY <1>2
  <2>2. g = [i \in 0..(m - 1) |->
               IF i = 0 THEN 1 ELSE g[i - 1] + line[i] + 1]
    BY <2>1 DEF Widths
  <2> DEFINE h == [i \in 0..m |->
                     IF i < m THEN g[i] ELSE g[i - 1] + line[i] + 1]
  <2>3. ASSUME NEW i \in 0..m
        PROVE  h[i] = IF i = 0 THEN 1 ELSE h[i - 1] + line[i] + 1
    <3>1. CASE i < m
      <4>1. h[i] = g[i] /\ i \in 0..(m - 1)
        BY <3>1
      <4>2. g[i] = IF i = 0 THEN 1 ELSE g[i - 1] + line[i] + 1
        BY <2>2, <4>1
      <4>3. i # 0 => h[i - 1] = g[i - 1]
        BY <3>1
      <4>. QED
        BY <4>1, <4>2, <4>3
    <3>2. CASE i = m
      <4>1. h[i] = g[i - 1] + line[i] + 1 /\ i # 0
        BY <3>2
      <4>2. h[i - 1] = g[i - 1]
        BY <3>2
      <4>. QED
        BY <4>1, <4>2
    <3>. QED
      BY <3>1, <3>2
  <2>4. Widths(h, line, m)
    <3>1. h = [i \in 0..m |-> h[i]]
      OBVIOUS
    <3> HIDE DEF h
    <3>2. [i \in 0..m |-> h[i]] =
             [i \in 0..m |-> IF i = 0 THEN 1 ELSE h[i - 1] + line[i] + 1]
      BY <2>3
    <3>. QED
      BY <3>1, <3>2 DEF Widths
  <2>. QED
    BY <2>4
<1> HIDE DEF Good
<1>3. n \in Good
  BY <1>1, <1>2, Induction
<1>. QED
  BY <1>3 DEF Good

LEMMA WidthOfIs ==
    ASSUME NEW line, Len(line) \in Nat
    PROVE  \E f : Widths(f, line, Len(line)) /\ WidthOf(line) = f[Len(line)]
<1> DEFINE width == CHOOSE f :
              f = [i \in 0..Len(line) |->
                     IF i = 0 THEN 1 ELSE f[i - 1] + line[i] + 1]
<1>1. Widths(width, line, Len(line))
  BY WidthsExist DEF Widths
<1>2. WidthOf(line) = width[Len(line)]
  BY DEF WidthOf
<1>. QED
  BY <1>1, <1>2

(* A word takes its letters and a blank, wherever it is. *)
LEMMA WidthOfMore ==
    ASSUME NEW line \in Seq(Nat), NEW len \in Nat
    PROVE  /\ WidthOf(line) \in Nat /\ WidthOf(<<>>) = 1
           /\ WidthOf(Append(line, len)) = WidthOf(line) + len + 1
<1> DEFINE n == Len(line)
           longer == Append(line, len)
<1>1. /\ n \in Nat /\ Len(longer) = n + 1 /\ longer[n + 1] = len
      /\ \A i \in 1..n : longer[i] = line[i] /\ line[i] \in Nat
  OBVIOUS
<1> HIDE DEF longer
<1>2. PICK f : Widths(f, line, n) /\ WidthOf(line) = f[n]
  BY <1>1, WidthOfIs
<1>3. PICK g : Widths(g, longer, n + 1) /\ WidthOf(longer) = g[n + 1]
  BY <1>1, WidthOfIs
<1> HIDE DEF n
<1>4. \A i \in 0..n : f[i] = IF i = 0 THEN 1 ELSE f[i - 1] + line[i] + 1
  <2>1. f = [i \in 0..n |-> IF i = 0 THEN 1 ELSE f[i - 1] + line[i] + 1]
    BY <1>2 DEF Widths
  <2>. QED
    BY <2>1
<1>5. \A i \in 0..(n + 1) :
         g[i] = IF i = 0 THEN 1 ELSE g[i - 1] + longer[i] + 1
  <2>1. g = [i \in 0..(n + 1) |->
               IF i = 0 THEN 1 ELSE g[i - 1] + longer[i] + 1]
    BY <1>3 DEF Widths
  <2>. QED
    BY <2>1
<1> DEFINE Good == {i \in 0..n : f[i] \in Nat /\ g[i] = f[i]}
<1>6. 0 \in Good
  <2>1. 0 \in 0..n /\ 0 \in 0..(n + 1)
    BY <1>1
  <2>. QED
    BY <1>4, <1>5, <2>1
<1>7. ASSUME NEW i \in 1..n, i - 1 \in Good
      PROVE  i \in Good
  <2>1. i \in 0..n /\ i \in 0..(n + 1) /\ i # 0
    BY <1>1
  <2>2. f[i] = f[i - 1] + line[i] + 1 /\ g[i] = g[i - 1] + longer[i] + 1
    BY <1>4, <1>5, <2>1
  <2>3. longer[i] = line[i] /\ line[i] \in Nat
    BY <1>1
  <2>4. f[i - 1] \in Nat /\ g[i - 1] = f[i - 1]
    BY <1>7
  <2>. QED
    BY <2>1, <2>2, <2>3, <2>4
<1> HIDE DEF Good
<1>8. n \in Good
  BY <1>1, <1>6, <1>7, Induction
<1>9. f[n] \in Nat /\ g[n] = f[n]
  BY <1>8 DEF Good
<1>10. g[n + 1] = g[n] + len + 1
  <2>1. n + 1 \in 0..(n + 1) /\ n + 1 # 0 /\ (n + 1) - 1 = n
    BY <1>1
  <2>. QED
    BY <1>1, <1>5, <2>1
<1>11. WidthOf(<<>>) = 1
  <2>1. PICK w : Widths(w, <<>>, 0) /\ WidthOf(<<>>) = w[0]
    <3>1. Len(<<>>) = 0
      OBVIOUS
    <3>. QED
      BY <3>1, WidthOfIs
  <2>2. w = [i \in 0..0 |-> IF i = 0 THEN 1 ELSE w[i - 1] + <<>>[i] + 1]
    BY <2>1 DEF Widths
  <2>. QED
    BY <2>1, <2>2
<1>. QED
  BY <1>2, <1>3, <1>9, <1>10, <1>11 DEF longer, n

(* out is what the loop has made of the first n words. *)
Puts(out, given, n) ==
    out = [i \in 0..n |-> IF i = 0 THEN [lines |-> << <<>> >>, at |-> 2]
                          ELSE PutWord(out[i - 1], given[i])]

LEMMA PutsExist ==
    ASSUME NEW given, NEW n \in Nat
    PROVE  \E f : Puts(f, given, n)
<1> DEFINE Good == {m \in Nat : \E f : Puts(f, given, m)}
           start == [lines |-> << <<>> >>, at |-> 2]
<1>1. 0 \in Good
  <2>1. Puts([i \in 0..0 |-> start], given, 0)
    BY DEF Puts
  <2>. QED
    BY <2>1
<1>2. ASSUME NEW m \in 1..n, m - 1 \in Good
      PROVE  m \in Good
  <2>1. PICK g : Puts(g, given, m - 1)
    BY <1>2
  <2>2. g = [i \in 0..(m - 1) |->
               IF i = 0 THEN start ELSE PutWord(g[i - 1], given[i])]
    BY <2>1 DEF Puts
  <2> HIDE DEF start
  <2> DEFINE h == [i \in 0..m |->
                     IF i < m THEN g[i] ELSE PutWord(g[i - 1], given[i])]
  <2>3. ASSUME NEW i \in 0..m
        PROVE  h[i] = IF i = 0 THEN start ELSE PutWord(h[i - 1], given[i])
    <3>1. CASE i < m
      <4>1. h[i] = g[i] /\ i \in 0..(m - 1)
        BY <3>1
      <4>2. g[i] = IF i = 0 THEN start ELSE PutWord(g[i - 1], given[i])
        BY <2>2, <4>1
      <4>3. i # 0 => h[i - 1] = g[i - 1]
        BY <3>1
      <4>. QED
        BY <4>1, <4>2, <4>3
    <3>2. CASE i = m
      <4>1. h[i] = PutWord(g[i - 1], given[i]) /\ i # 0
        BY <3>2
      <4>2. h[i - 1] = g[i - 1]
        BY <3>2
      <4>. QED
        BY <4>1, <4>2
    <3>. QED
      BY <3>1, <3>2
  <2>4. Puts(h, given, m)
    <3>1. h = [i \in 0..m |-> h[i]]
      OBVIOUS
    <3> HIDE DEF h
    <3>2. [i \in 0..m |-> h[i]] =
             [i \in 0..m |->
                IF i = 0 THEN start ELSE PutWord(h[i - 1], given[i])]
      BY <2>3
    <3>. QED
      BY <3>1, <3>2 DEF Puts, start
  <2>. QED
    BY <2>4
<1> HIDE DEF Good
<1>3. n \in Good
  BY <1>1, <1>2, Induction
<1>. QED
  BY <1>3 DEF Good

(* A line is one word, or is within the terminal. *)
Fits(line) == Len(line) <= 1 \/ WidthOf(line) <= Columns - 4

(* The lines that have been made of a sequence of words, and the column at *)
(* which the next word would begin.                                        *)
AreLaid(lines, column, words) ==
    /\ lines \in Seq(Seq(Nat)) /\ lines # <<>> /\ column \in Nat
    /\ FlattenSeq(lines) = words
    /\ WidthOf(lines[Len(lines)]) + 1 <= column
    /\ \A k \in 1..Len(lines) : Fits(lines[k])

IsLaid(out, words) == AreLaid(out.lines, out.at, words)

(* The next word is put behind them. *)
LEMMA PutWordLays ==
    ASSUME NEW out, NEW words, IsLaid(out, words), NEW len \in Nat
    PROVE  IsLaid(PutWord(out, len), Append(words, len))
<1> DEFINE lines == out.lines
           at1 == out.at
           end == Len(lines)
           line == lines[end]
           wider == Append(line, len)
<1>1. /\ lines \in Seq(Seq(Nat)) /\ lines # <<>> /\ at1 \in Nat
      /\ FlattenSeq(lines) = words
      /\ WidthOf(line) + 1 <= at1
      /\ \A k \in 1..end : Fits(lines[k])
  BY DEF IsLaid, AreLaid
<1>2. end \in Nat \ {0} /\ line \in Seq(Nat)
  BY <1>1
<1>3. /\ WidthOf(line) \in Nat
      /\ WidthOf(wider) = WidthOf(line) + len + 1
      /\ WidthOf(<<len>>) = len + 2
  <2>1. WidthOf(Append(<<>>, len)) = WidthOf(<<>>) + len + 1
    <3>1. <<>> \in Seq(Nat)
      OBVIOUS
    <3>. QED
      BY <3>1, WidthOfMore
  <2>2. Append(<<>>, len) = <<len>>
    OBVIOUS
  <2>3. WidthOf(<<>>) = 1
    BY <1>2, WidthOfMore
  <2>4. WidthOf(<<len>>) = len + 2
    BY <2>1, <2>2, <2>3
  <2>. QED
    BY <1>2, <2>4, WidthOfMore
<1>4. CASE len + at1 > Columns - 4
  <2> DEFINE new == Append(lines, <<len>>)
  <2>1. PutWord(out, len) = [lines |-> new, at |-> len + 4]
    BY <1>4 DEF PutWord
  <2>2. new \in Seq(Seq(Nat)) /\ new # <<>>
    BY <1>1
  <2>3. FlattenSeq(new) = Append(words, len)
    BY <1>1, FlattenMore
  <2>4. /\ Len(new) = end + 1 /\ new[end + 1] = <<len>>
        /\ \A k \in 1..end : new[k] = lines[k]
    BY <1>1
  <2> HIDE DEF new, end, lines
  <2>5. ASSUME NEW k \in 1..(end + 1)
        PROVE  Fits(new[k])
    <3>1. CASE k = end + 1
      <4>1. Len(<<len>>) <= 1
        OBVIOUS
      <4>. QED
        BY <2>4, <3>1, <4>1 DEF Fits
    <3>2. CASE k # end + 1
      <4>1. k \in 1..end
        BY <1>2, <3>2
      <4>. QED
        BY <1>1, <2>4, <4>1
    <3>. QED
      BY <3>1, <3>2
  <2>6. WidthOf(new[end + 1]) + 1 <= len + 4 /\ len + 4 \in Nat
    BY <1>3, <2>4
  <2>7. AreLaid(new, len + 4, Append(words, len))
    BY <2>2, <2>3, <2>4, <2>5, <2>6, Zenon DEF AreLaid
  <2>. QED
    BY <2>1, <2>7 DEF IsLaid
<1>5. CASE ~(len + at1 > Columns - 4)
  <2> DEFINE new == [lines EXCEPT ![end] = Append(@, len)]
  <2>1. PutWord(out, len) = [lines |-> new, at |-> at1 + len + 1]
    BY <1>5 DEF PutWord
  <2>2. new \in Seq(Seq(Nat)) /\ new # <<>>
    BY <1>1
  <2>3. FlattenSeq(new) = Append(words, len)
    BY <1>1, FlattenMore
  <2>4. /\ Len(new) = end /\ new[end] = wider
        /\ \A k \in 1..end : k # end => new[k] = lines[k]
    BY <1>1
  <2> HIDE DEF new, line, wider, at1
  <2>5. Fits(wider)
    BY <1>1, <1>3, <1>5, ColumnsAssumption DEF Fits
  <2>6. \A k \in 1..end : Fits(new[k])
    <3> HIDE DEF lines, end
    <3>. QED
      BY <1>1, <2>4, <2>5
  <2>7. WidthOf(new[end]) + 1 <= at1 + len + 1 /\ at1 + len + 1 \in Nat
    BY <1>1, <1>3, <2>4
  <2>8. AreLaid(new, at1 + len + 1, Append(words, len))
    BY <2>2, <2>3, <2>4, <2>6, <2>7, Zenon DEF AreLaid
  <2>. QED
    BY <2>1, <2>8 DEF IsLaid
<1>. QED
  BY <1>1, <1>2, <1>4, <1>5, ColumnsAssumption

(* FormattedPeriodForecast keeps the words and fits them into the lines.   *)
LEMMA FormattedLays ==
    ASSUME NEW words \in Seq(Nat)
    PROVE  /\ FlattenSeq(Formatted(words)) = Append(words, 0)
           /\ \A k \in DOMAIN Formatted(words) : Fits(Formatted(words)[k])
<1> DEFINE given == Append(words, 0)
           N == Len(given)
           start == [lines |-> << <<>> >>, at |-> 2]
           out == CHOOSE f : f = [n \in 0..N |->
                     IF n = 0 THEN start ELSE PutWord(f[n - 1], given[n])]
<1>1. given \in Seq(Nat) /\ N \in Nat
  OBVIOUS
<1>2. Puts(out, given, N)
  BY <1>1, PutsExist DEF Puts
<1>3. Formatted(words) = out[N].lines
  BY DEF Formatted
<1> HIDE DEF out, N, given
<1>4. \A n \in 0..N : out[n] = IF n = 0 THEN start
                               ELSE PutWord(out[n - 1], given[n])
  <2>1. out = [n \in 0..N |-> IF n = 0 THEN start
                              ELSE PutWord(out[n - 1], given[n])]
    BY <1>2 DEF Puts
  <2>. QED
    BY <2>1
<1> HIDE DEF start
<1> DEFINE Good == {n \in 0..N : IsLaid(out[n], SubSeq(given, 1, n))}
<1>5. 0 \in Good
  <2>1. 0 \in 0..N /\ SubSeq(given, 1, 0) = <<>>
    BY <1>1
  <2>2. out[0] = start
    BY <1>4, <2>1
  <2>3. IsLaid(start, <<>>)
    <3>1. PICK f : /\ Flattens(f, << <<>> >>, 1)
                   /\ FlattenSeq(<< <<>> >>) = f[1]
      <4> DEFINE none == << <<>> >>
      <4>1. Len(none) = 1
        OBVIOUS
      <4> HIDE DEF none
      <4>2. Len(none) \in Nat \ {0}
        BY <4>1
      <4>3. \E f : /\ Flattens(f, none, Len(none))
                   /\ FlattenSeq(none) = f[Len(none)]
        BY <4>2, FlattenSeqIs, Zenon
      <4>. QED
        BY <4>1, <4>3 DEF none
    <3>2. f = [i \in 1..1 |-> IF i = 1 THEN << <<>> >>[i]
                              ELSE f[i - 1] \o << <<>> >>[i]]
      BY <3>1 DEF Flattens
    <3>3. FlattenSeq(<< <<>> >>) = <<>>
      BY <3>1, <3>2
    <3>4. WidthOf(<<>>) = 1
      <4>1. <<>> \in Seq(Nat) /\ 0 \in Nat
        OBVIOUS
      <4>. QED
        BY <4>1, WidthOfMore
    <3>5. Fits(<<>>)
      BY DEF Fits
    <3>. QED
      BY <3>3, <3>4, <3>5 DEF IsLaid, AreLaid, start
  <2>. QED
    BY <2>1, <2>2, <2>3
<1>6. ASSUME NEW n \in 1..N, n - 1 \in Good
      PROVE  n \in Good
  <2>1. n \in 0..N /\ n # 0 /\ given[n] \in Nat
    BY <1>1 DEF N
  <2>2. out[n] = PutWord(out[n - 1], given[n])
    BY <1>4, <2>1
  <2>3. IsLaid(out[n - 1], SubSeq(given, 1, n - 1))
    BY <1>6
  <2>4. SubSeq(given, 1, n) = Append(SubSeq(given, 1, n - 1), given[n])
    BY <1>1 DEF N
  <2>5. IsLaid(out[n], SubSeq(given, 1, n))
    BY <2>1, <2>2, <2>3, <2>4, PutWordLays
  <2>. QED
    BY <2>1, <2>5
<1> HIDE DEF Good
<1>7. N \in Good
  BY <1>1, <1>5, <1>6, Induction
<1>8. IsLaid(out[N], given)
  <2>1. SubSeq(given, 1, N) = given
    BY <1>1 DEF N
  <2>. QED
    BY <1>7, <2>1 DEF Good
<1> DEFINE lines == Formatted(words)
<1>9. /\ FlattenSeq(lines) = given /\ lines \in Seq(Seq(Nat))
      /\ \A k \in 1..Len(lines) : Fits(lines[k])
  BY <1>3, <1>8 DEF IsLaid, AreLaid
<1> HIDE DEF lines
<1>10. DOMAIN lines = 1..Len(lines)
  BY <1>9
<1>. QED
  BY <1>9, <1>10, Zenon DEF given, lines

(* A forecast is printed with all its words in their order, on lines that  *)
(* stay within a terminal of any width but for a word that is wider.       *)
THEOREM ForecastsFit == Spec => []LinesFit
<1>1. RecordsInv => LinesFit
  <2>1. SUFFICES
          ASSUME RecordsInv, kind = "periods", NEW i \in DOMAIN Given
          PROVE  LET words == Given[i].detailedForecast
                     lines == DailyLine(Given[i]).detailed
                 IN  /\ FlattenSeq(lines) = Append(words, 0)
                     /\ \A k \in DOMAIN lines : Fits(lines[k])
    BY DEF LinesFit, Fits
  <2> DEFINE nodes == PeriodNodes(from)
             words == Given[i].detailedForecast
  <2>2. \A k \in 1..Len(nodes) : IsPeriodNode(nodes[k])
    BY <2>1, GivenAreOf
  <2>3. PICK s \in Stacks : AreOf(Given, nodes, libc, s)
    BY <2>1, GivenAreOf
  <2>4. Len(nodes) \in Nat
    BY <2>1, GivenAreOf, BoundsAssumption
  <2> HIDE DEF nodes
  <2>5. i \in 1..Len(nodes) /\ Given[i] = PeriodOf(nodes[i], libc, s[i])
    BY <2>1, <2>3, <2>4 DEF AreOf
  <2>6. IsMadeOf(Given[i], nodes[i], libc, s[i])
    BY <2>5, PeriodMembers
  <2>7. words \in Seq(Nat)
    BY <2>2, <2>5, <2>6 DEF IsMadeOf, IsPeriodNode
  <2>8. DailyLine(Given[i]).detailed = Formatted(words)
    BY DEF DailyLine
  <2> HIDE DEF words
  <2>9. /\ FlattenSeq(Formatted(words)) = Append(words, 0)
        /\ \A k \in DOMAIN Formatted(words) : Fits(Formatted(words)[k])
    BY <2>7, FormattedLays
  <2>. QED
    BY <2>8, <2>9 DEF words
<1>. QED
  BY <1>1, RecordsInductive, PTL

=============================================================================
