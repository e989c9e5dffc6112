--------------------------- MODULE VmePathProofs ---------------------------
(* What holds of the paths of the memory explorer for every width, and of its dumps. *)
EXTENDS VmePath, TLAPS

\* A walk has a valid path behind it, of which it has read the indices so far.
WalkInv ==
    /\ level \in Level
    /\ status # "wild"
    /\ status = "asked" => level = 1
    /\ status = "walking" =>
         /\ ValidPath(path)
         /\ \A k \in Level : k < level => path[k] # Unspec

\* The nested conditions of _gb_vme_validate_path() do what they are for: in a valid
\* path an index below specified ones is unspecified or inside of its table.
LEMMA ValidPrefix ==
    ASSUME NEW p, ValidPath(p), NEW k \in Level,
           \A j \in Level : j < k => p[j] # Unspec,
           p[k] # Unspec
    PROVE  p[k] \in Index
<1>1. k \in {1, 2, 3, 4}
  BY DEF Level
<1>2. CASE k = 1
  BY <1>2 DEF ValidPath
<1>3. CASE k = 2
  <2>1. p[1] # Unspec
    BY <1>3 DEF Level
  <2> QED
    BY <1>3, <2>1 DEF ValidPath
<1>4. CASE k = 3
  <2>1. p[1] # Unspec /\ p[2] # Unspec
    BY <1>4 DEF Level
  <2> QED
    BY <1>4, <2>1 DEF ValidPath
<1>5. CASE k = 4
  <2>1. p[1] # Unspec /\ p[2] # Unspec /\ p[3] # Unspec
    BY <1>5 DEF Level
  <2> QED
    BY <1>5, <2>1 DEF ValidPath
<1> QED
  BY <1>1, <1>2, <1>3, <1>4, <1>5

LEMMA WalkInit == Init => WalkInv
BY DEF Init, WalkInv, Level

LEMMA WalkStep == WalkInv /\ [Next]_vars => WalkInv'
<1> SUFFICES ASSUME WalkInv, [Next]_vars
             PROVE  WalkInv'
  OBVIOUS
<1>1. CASE Reject
  BY <1>1 DEF WalkInv, Reject
<1>2. CASE Accept
  BY <1>2 DEF WalkInv, Accept, Level
<1>3. CASE Descend
  <2>1. /\ status = "walking" /\ level < 4 /\ level \in Level
        /\ path[level] # Unspec /\ path' = path
    BY <1>3 DEF Descend, WalkInv
  <2>2. path[level] \in Index
    BY <2>1, ValidPrefix DEF WalkInv
  <2>3. level' = level + 1 /\ status' = status
    BY <1>3, <2>2 DEF Descend
  <2>4. level' \in Level
    BY <2>1, <2>3 DEF Level
  <2>5. ASSUME NEW k \in Level, k < level'
        PROVE  path[k] # Unspec
    <3>1. k < level \/ k = level
      BY <2>1, <2>3, <2>5 DEF Level
    <3> QED
      BY <2>1, <3>1 DEF WalkInv
  <2> QED
    BY <2>1, <2>3, <2>4, <2>5 DEF WalkInv
<1>4. CASE Fault
  BY <1>4 DEF WalkInv, Fault
<1>5. CASE Fill
  BY <1>5 DEF WalkInv, Fill
<1>6. CASE TooDeep
  BY <1>6 DEF WalkInv, TooDeep
<1>7. CASE Dump \/ Explored \/ DumpFails
  BY <1>7 DEF WalkInv, Dump, Explored, DumpFails
<1>8. CASE UNCHANGED vars
  BY <1>8 DEF WalkInv, vars
<1> QED
  BY <1>1, <1>2, <1>3, <1>4, <1>5, <1>6, <1>7, <1>8 DEF Next

\* No request, whatever its four indices are, makes the walk read outside of a table.
THEOREM NoWild == Spec => []NoWildRead
<1>1. WalkInv => NoWildRead
  BY DEF WalkInv, NoWildRead
<1> QED
  BY <1>1, WalkInit, WalkStep, PTL DEF Spec

----------------------------------------------------------------------------
(* The dump.                                                               *)

\* What has been received are the first entries of the table, as many as ctx->index
\* counts; before the table is filled there are none.
DumpInv ==
    /\ index \in 0 .. NumEntries
    /\ status \in {"asked", "walking"} => index = 0 /\ received = <<>>
    /\ status \in {"filled", "answered"} =>
         /\ received \in Seq({entries[i] : i \in Index})
         /\ Len(received) = index
         /\ \A k \in 1 .. index : received[k] = entries[k - 1]
    /\ status = "answered" => index = NumEntries

LEMMA DumpInit == Init => DumpInv
  BY NumEntriesAssumption DEF Init, DumpInv

\* A message holds the next entries of the table, at least one.
LEMMA NextEntries ==
    ASSUME index \in 0 .. NumEntries, index < NumEntries
    PROVE  /\ End \in index + 1 .. NumEntries
           /\ Message \in Seq({entries[i] : i \in Index})
           /\ Len(Message) = End - index
           /\ \A k \in 1 .. End - index : Message[k] = entries[index + k - 1]
<1>1. End \in index + 1 .. NumEntries
  BY NumEntriesAssumption, PerMessageAssumption DEF End
<1>2. End - index \in Nat
  BY <1>1, NumEntriesAssumption
<1>3. \A k \in 1 .. End - index : index + k - 1 \in Index
  BY <1>1, NumEntriesAssumption DEF Index
<1>4. Message \in [1 .. End - index -> {entries[i] : i \in Index}]
  BY <1>3 DEF Message
<1> QED
  BY <1>1, <1>2, <1>4 DEF Message

LEMMA Appended ==
    ASSUME NEW S, NEW a \in Seq(S), NEW b \in Seq(S)
    PROVE  /\ a \o b \in Seq(S)
           /\ Len(a \o b) = Len(a) + Len(b)
           /\ \A k \in 1 .. Len(a) : (a \o b)[k] = a[k]
           /\ \A k \in Len(a) + 1 .. Len(a) + Len(b) : (a \o b)[k] = b[k - Len(a)]
  OBVIOUS

LEMMA DumpStep == DumpInv /\ [Next]_vars => DumpInv'
<1> SUFFICES ASSUME DumpInv, [Next]_vars
             PROVE  DumpInv'
  OBVIOUS
<1> USE NumEntriesAssumption
<1>1. CASE Reject \/ Accept \/ Descend \/ Fault \/ TooDeep
  BY <1>1 DEF DumpInv, Reject, Accept, Descend, Fault, TooDeep, dumpVars
<1>2. CASE Fill
  BY <1>2 DEF DumpInv, Fill
<1>3. CASE Dump
  <2>1. /\ status = "filled" /\ status' = status /\ index < NumEntries
        /\ received' = received \o Message /\ index' = End /\ entries' = entries
    BY <1>3 DEF Dump
  <2>2. /\ received \in Seq({entries[i] : i \in Index}) /\ Len(received) = index
        /\ \A k \in 1 .. index : received[k] = entries[k - 1]
    BY <2>1 DEF DumpInv
  <2>3. /\ End \in index + 1 .. NumEntries /\ index \in 0 .. NumEntries
        /\ Message \in Seq({entries[i] : i \in Index})
        /\ Len(Message) = End - index
        /\ \A k \in 1 .. End - index : Message[k] = entries[index + k - 1]
    BY <2>1, NextEntries DEF DumpInv
  <2>4. /\ received' \in Seq({entries[i] : i \in Index}) /\ Len(received') = index + (End - index)
        /\ \A k \in 1 .. index : received'[k] = received[k]
        /\ \A k \in index + 1 .. index + (End - index) : received'[k] = Message[k - index]
    <3>1. /\ received \o Message \in Seq({entries[i] : i \in Index})
          /\ Len(received \o Message) = Len(received) + Len(Message)
          /\ \A k \in 1 .. Len(received) : (received \o Message)[k] = received[k]
          /\ \A k \in Len(received) + 1 .. Len(received) + Len(Message) :
                (received \o Message)[k] = Message[k - Len(received)]
      BY <2>2, <2>3, Appended
    <3> QED BY <2>1, <2>2, <2>3, <3>1
  <2>5. ASSUME NEW k \in 1 .. End
        PROVE  received'[k] = entries[k - 1]
    <3>1. index + (End - index) = End
      BY <2>3
    <3>2. CASE k <= index
      <4>1. k \in 1 .. index
        BY <2>3, <2>5, <3>2
      <4> QED BY <2>2, <2>4, <4>1
    <3>3. CASE k > index
      <4>1. k - index \in 1 .. End - index /\ k \in index + 1 .. End
        BY <2>3, <2>5, <3>3
      <4>2. received'[k] = Message[k - index]
        BY <2>4, <3>1, <4>1
      <4>3. Message[k - index] = entries[index + (k - index) - 1]
        BY <2>3, <4>1
      <4>4. index + (k - index) - 1 = k - 1
        BY <2>3, <2>5
      <4> QED BY <4>2, <4>3, <4>4
    <3> QED BY <2>3, <2>5, <3>2, <3>3
  <2>6. Len(received') = End
    BY <2>3, <2>4
  <2> QED BY <2>1, <2>3, <2>4, <2>5, <2>6 DEF DumpInv
<1>4. CASE Explored
  BY <1>4 DEF DumpInv, Explored, dumpVars
<1>5. CASE DumpFails
  BY <1>5 DEF DumpInv, DumpFails
<1>6. CASE UNCHANGED vars
  BY <1>6 DEF DumpInv, vars, dumpVars
<1> QED
  BY <1>1, <1>2, <1>3, <1>4, <1>5, <1>6 DEF Next

\* However many entries a table has and a message holds, the bridge puts the table
\* together as it was read, each entry at its index.
THEOREM WholeTable == Spec => []EntriesInPlace
<1>1. DumpInv => EntriesInPlace
  BY NumEntriesAssumption DEF DumpInv, EntriesInPlace, Shown, Index
<1> QED
  BY <1>1, DumpInit, DumpStep, PTL DEF Spec

----------------------------------------------------------------------------
(* Quotients.                                                              *)

\* The numbers whose quotient by d is q.
Part(q, d) == q * d .. q * d + d - 1

LEMMA Quotient ==
    ASSUME NEW a \in Nat, NEW d \in Nat \ {0}
    PROVE  /\ a \div d \in Nat /\ (a \div d) * d <= a /\ a < (a \div d) * d + d
           /\ a % d \in 0 .. d - 1 /\ a % d = a - (a \div d) * d
<1>1. a \div d \in Nat
  OBVIOUS
<1>2. (a \div d) * d <= a /\ a < (a \div d) * d + d
  OBVIOUS
<1>3. a % d \in 0 .. d - 1
  OBVIOUS
<1>4. a % d = a - (a \div d) * d
  OBVIOUS
<1> QED
  BY <1>1, <1>2, <1>3, <1>4

LEMMA Multiples ==
    ASSUME NEW x \in Int, NEW y \in Int, NEW d \in Nat \ {0}, x < y
    PROVE  x * d + d <= y * d /\ x * d \in Int /\ y * d \in Int
  OBVIOUS

LEMMA QuotientIs ==
    ASSUME NEW a \in Nat, NEW d \in Nat \ {0}, NEW q \in Int
    PROVE  a \div d = q <=> a \in q * d .. q * d + d - 1
<1>1. q * d \in Int /\ a \div d \in Nat /\ (a \div d) * d \in Int
  BY Quotient
<1>2. CASE a \div d = q
  BY <1>1, <1>2, Quotient
<1>3. CASE a \div d < q
  BY <1>1, <1>3, Quotient, Multiples
<1>4. CASE a \div d > q
  BY <1>1, <1>4, Quotient, Multiples
<1> QED
  BY <1>1, <1>2, <1>3, <1>4

\* The addresses below an index.
LEMMA Narrowed ==
    ASSUME NEW q \in Nat, NEW n \in Nat \ {0}, NEW d \in Nat \ {0}, NEW i \in 0 .. n - 1,
           NEW x \in Nat
    PROVE  x \in Part(q, n * d) /\ (x \div d) % n = i <=> x \in Part(q * n + i, d)
<1> DEFINE y == x \div d
           b == q * (n * d)
<1>1. /\ y \in Nat /\ y * d <= x /\ x < y * d + d /\ y * d \in Int
      /\ n * d \in Nat \ {0} /\ b \in Int /\ q * n \in Nat
  BY Quotient
<1>2. b = (q * n) * d /\ b + n * d = (q * n + n) * d
  OBVIOUS
<1>3. y \div n \in Nat /\ (y \div n) * n <= y /\ y < (y \div n) * n + n /\ (y \div n) * n \in Int
      /\ y % n = y - (y \div n) * n /\ y % n \in 0 .. n - 1
  <2> HIDE DEF y
  <2>1. y \div n \in Nat /\ (y \div n) * n \in Int
    BY <1>1, Quotient
  <2> QED
    BY <1>1, <2>1, Quotient
<1>4. y = q * n + i <=> x \in (q * n + i) * d .. (q * n + i) * d + d - 1
  BY <1>1, QuotientIs
<1>5. ASSUME y = q * n + i
      PROVE  x \in b .. b + n * d - 1 /\ y % n = i
  <2>1. y \div n = q
    BY <1>1, <1>5, QuotientIs
  <2>2. y % n = i
    BY <1>1, <1>3, <1>5, <2>1
  <2>3. q * n <= y /\ y < q * n + n
    BY <1>1, <1>5
  <2>4. (q * n) * d <= y * d
    BY <1>1, <2>3, Multiples
  <2>5. y * d + d <= (q * n + n) * d
    BY <1>1, <2>3, Multiples
  <2> QED
    BY <1>1, <1>2, <2>2, <2>4, <2>5
<1>6. ASSUME x \in b .. b + n * d - 1, y % n = i
      PROVE  y = q * n + i
  <2>1. x < (q * n + n) * d /\ (q * n) * d <= x
    BY <1>1, <1>2, <1>6
  <2>2. y < q * n + n
    BY <1>1, <2>1, Multiples
  <2>3. q * n <= y
    BY <1>1, <2>1, Multiples
  <2>4. y \div n = q
    <3>1. y \in q * n .. q * n + n - 1
      BY <1>1, <2>2, <2>3
    <3> HIDE DEF y
    <3> QED
      BY <1>1, <3>1, QuotientIs
  <2> QED
    BY <1>1, <1>3, <1>6, <2>4
<1>7. x \in b .. b + n * d - 1 /\ y % n = i <=> x \in (q * n + i) * d .. (q * n + i) * d + d - 1
  BY <1>4, <1>5, <1>6
<1> QED
  BY <1>7 DEF Part

\* The processor does not look at the bits above the address space.
LEMMA Shifted ==
    ASSUME NEW x \in Nat, NEW m \in Nat, NEW n \in Nat \ {0}, NEW d \in Nat \ {0}
    PROVE  ((x + m * (n * d)) \div d) % n = (x \div d) % n
<1> DEFINE y == x \div d
           z == x + m * (n * d)
<1>1. y \in Nat /\ y * d <= x /\ x < y * d + d /\ y * d \in Int /\ m * n \in Nat
      /\ m * (n * d) \in Nat /\ z \in Nat
  BY Quotient
<1>2. m * (n * d) = (m * n) * d /\ (y + m * n) * d = y * d + (m * n) * d
  BY <1>1
<1>3. z \div d = y + m * n
  <2>1. (y + m * n) * d \in Int /\ y + m * n \in Int
    BY <1>1
  <2>2. z \in (y + m * n) * d .. (y + m * n) * d + d - 1
    BY <1>1, <1>2, <2>1
  <2> HIDE DEF y, z
  <2> QED
    BY <1>1, <2>1, <2>2, QuotientIs
<1>4. /\ y \div n \in Nat /\ (y \div n) * n \in Int /\ y % n = y - (y \div n) * n
      /\ y % n \in 0 .. n - 1
  <2> HIDE DEF y
  <2>1. y \div n \in Nat /\ (y \div n) * n \in Int
    BY <1>1, Quotient
  <2> QED
    BY <1>1, <2>1, Quotient
<1>5. (y \div n + m) * n = (y \div n) * n + m * n
  BY <1>4
<1> HIDE DEF y, z
<1> DEFINE w == y + m * n
           p == y \div n + m
<1>6. w \div n = p
  <2>1. w \in Nat /\ p \in Int /\ p * n \in Int /\ p * n = (y \div n) * n + m * n
    BY <1>1, <1>4, <1>5
  <2>2. w \in p * n .. p * n + n - 1
    BY <1>1, <1>4, <2>1
  <2> HIDE DEF w, p
  <2> QED
    BY <2>1, <2>2, QuotientIs
<1>7. w % n = y % n
  <2>1. w \in Nat
    BY <1>1
  <2>2. w % n = w - (w \div n) * n
    BY <2>1, Quotient
  <2>3. w % n = w - p * n
    BY <1>6, <2>2
  <2>4. w % n = (y + m * n) - ((y \div n) * n + m * n)
    BY <1>5, <2>3
  <2> DEFINE of == (y \div n) * n
             more == m * n
  <2>5. of \in Int /\ more \in Int /\ w % n = (y + more) - (of + more) /\ y % n = y - of
    BY <1>1, <1>4, <2>4
  <2> HIDE DEF w, of, more
  <2>6. (y + more) - (of + more) = y - of
    BY <1>1, <2>5
  <2> QED
    BY <2>5, <2>6
<1> QED
  BY <1>3, <1>7 DEF y, z

----------------------------------------------------------------------------
(* The regions of the entries.                                             *)

\* What an index of level k tells apart; of level 0 it is the address space.
Span(k) == IF k = 0 THEN AddressSpace ELSE Size(k)

LEMMA Spans ==
    /\ NumEntries \in Nat \ {0}
    /\ \A k \in 0 .. 4 : Span(k) \in Nat \ {0}
    /\ \A k \in 1 .. 4 : Span(k - 1) = NumEntries * Span(k)
<1>1. NumEntries \in Nat \ {0}
  BY NumEntriesAssumption
<1>2. \A d \in Nat \ {0} : NumEntries * d \in Nat \ {0}
  BY <1>1
<1>3. /\ Size(4) \in Nat \ {0} /\ Size(3) = NumEntries * Size(4)
      /\ Size(2) = NumEntries * Size(3) /\ Size(1) = NumEntries * Size(2)
      /\ AddressSpace = NumEntries * Size(1)
  BY PowersAssumption
<1>4. /\ Size(3) \in Nat \ {0} /\ Size(2) \in Nat \ {0} /\ Size(1) \in Nat \ {0}
      /\ AddressSpace \in Nat \ {0}
  BY <1>2, <1>3
<1>5. ASSUME NEW k \in 0 .. 4 PROVE Span(k) \in Nat \ {0}
  <2>1. k \in {0, 1, 2, 3, 4}
    OBVIOUS
  <2> QED
    BY <1>3, <1>4, <2>1 DEF Span
<1>6. ASSUME NEW k \in 1 .. 4 PROVE Span(k - 1) = NumEntries * Span(k)
  <2>1. k \in {1, 2, 3, 4}
    OBVIOUS
  <2> QED
    BY <1>3, <2>1 DEF Span
<1> QED
  BY <1>1, <1>5, <1>6

\* The number of a table's entry among all the entries of its level.
Number(p, k) ==
    CASE k = 0 -> 0
      [] k = 1 -> p[1]
      [] k = 2 -> p[1] * NumEntries + p[2]
      [] k = 3 -> (p[1] * NumEntries + p[2]) * NumEntries + p[3]
      [] k = 4 -> ((p[1] * NumEntries + p[2]) * NumEntries + p[3]) * NumEntries + p[4]

\* The indices of p down to level l are those of tables, and there are no others.
Specified(p, l) ==
    \A k \in Level : IF k <= l THEN p[k] \in Index ELSE p[k] = Unspec

LEMMA Numbers ==
    ASSUME NEW l \in Level, NEW p, Specified(p, l)
    PROVE  /\ Number(p, 0) = 0
           /\ \A k \in 0 .. l : Number(p, k) \in Nat
           /\ \A k \in 1 .. l : Number(p, k) = Number(p, k - 1) * NumEntries + p[k]
<1>1. NumEntries \in Nat \ {0}
  BY Spans
<1>2. \A n \in Nat, i \in Index : n * NumEntries + i \in Nat
  BY <1>1 DEF Index
<1>3. \A k \in 1 .. l : p[k] \in Index
  BY DEF Specified, Level
<1>4. \A i \in Index : i \in Nat
  BY DEF Index
<1>5. ASSUME NEW k \in 1 .. l PROVE Number(p, k) = Number(p, k - 1) * NumEntries + p[k]
  <2>1. k \in {1, 2, 3, 4}
    BY DEF Level
  <2>2. 0 * NumEntries + p[1] = p[1]
    BY <1>1, <1>3, <1>4 DEF Level
  <2> QED
    BY <2>1, <2>2 DEF Number
<1>6. Number(p, 0) = 0
  BY DEF Number
<1>7. Number(p, 1) \in Nat
  BY <1>3, <1>4 DEF Number, Level
<1>8. l >= 2 => Number(p, 2) \in Nat
  BY <1>2, <1>3, <1>5, <1>7 DEF Level
<1>9. l >= 3 => Number(p, 3) \in Nat
  BY <1>2, <1>3, <1>5, <1>8 DEF Level
<1>10. l >= 4 => Number(p, 4) \in Nat
  BY <1>2, <1>3, <1>5, <1>9 DEF Level
<1>11. ASSUME NEW k \in 0 .. l PROVE Number(p, k) \in Nat
  <2>1. k \in {0, 1, 2, 3, 4}
    BY DEF Level
  <2> QED
    BY <1>6, <1>7, <1>8, <1>9, <1>10, <2>1
<1> QED
  BY <1>5, <1>6, <1>11

\* A prefix of p leads to the addresses x below it.
Below(p, k, x) == x \in Part(Number(p, k), Span(k))

\* The processor's walk narrows the addresses down to those.
LEMMA Translated ==
    ASSUME NEW l \in Level, NEW p, Specified(p, l), NEW x \in 0 .. AddressSpace - 1
    PROVE  (\A k \in 1 .. l : HardwareIndex(x, k) = p[k]) <=> Below(p, l, x)
<1>1. /\ NumEntries \in Nat \ {0} /\ x \in Nat
      /\ \A k \in 0 .. 4 : Span(k) \in Nat \ {0}
      /\ \A k \in 1 .. 4 : Span(k - 1) = NumEntries * Span(k)
  BY Spans
<1>2. ASSUME NEW k \in 1 .. l
      PROVE  Below(p, k, x) <=> Below(p, k - 1, x) /\ HardwareIndex(x, k) = p[k]
  <2> DEFINE q == Number(p, k - 1)
             d == Span(k)
             i == p[k]
  <2>1. /\ k \in 1 .. 4 /\ k - 1 \in 0 .. l /\ k \in Level
    BY DEF Level
  <2>2. /\ q \in Nat /\ d \in Nat \ {0} /\ i \in 0 .. NumEntries - 1
        /\ Number(p, k) = q * NumEntries + i /\ Span(k - 1) = NumEntries * d
        /\ Size(k) = d
    BY <1>1, <2>1, Numbers DEF Specified, Index, Span
  <2> HIDE DEF q, d, i
  <2>3. x \in Part(q, NumEntries * d) /\ (x \div d) % NumEntries = i
        <=> x \in Part(q * NumEntries + i, d)
    <3>1. q \in Nat /\ NumEntries \in Nat \ {0} /\ d \in Nat \ {0}
          /\ i \in 0 .. NumEntries - 1 /\ x \in Nat
      BY <1>1, <2>2
    <3> QED
      BY <3>1, Narrowed, Zenon
  <2> QED
    BY <2>2, <2>3 DEF Below, HardwareIndex, q, d, i
<1>3. Below(p, 0, x)
  <2>1. Number(p, 0) * Span(0) = 0
    BY <1>1, Numbers
  <2> QED
    BY <1>1, <2>1 DEF Below, Part, Span
<1>4. l \in {1, 2, 3, 4}
  BY DEF Level
<1> DEFINE B(k) == Below(p, k, x)
           H(k) == HardwareIndex(x, k) = p[k]
<1>5. \A k \in 1 .. l : B(k) <=> B(k - 1) /\ H(k)
  BY <1>2
<1>6. B(0)
  BY <1>3
<1> HIDE DEF B, H
<1>7. (\A k \in 1 .. l : H(k)) <=> B(l)
  BY <1>4, <1>5, <1>6
<1> QED
  BY <1>7 DEF B, H

\* Of a multiple of the address space, or of half of it, the entries of a level take
\* whole numbers.
LEMMA WholeEntries ==
    ASSUME NEW l \in Level
    PROVE  \E g \in Nat \ {0}, h \in Nat \ {0} :
              /\ AddressSpace = g * Span(l) /\ AddressSpace \div 2 = h * Span(l)
              /\ AddressSpace = 2 * (AddressSpace \div 2)
              /\ \A p : Specified(p, l) => Number(p, l) < g
<1>1. /\ NumEntries \in Nat \ {0}
      /\ \A k \in 0 .. 4 : Span(k) \in Nat \ {0}
      /\ \A k \in 1 .. 4 : Span(k - 1) = NumEntries * Span(k)
  BY Spans
<1> DEFINE P(k, g, h) == /\ AddressSpace = g * Span(k) /\ AddressSpace \div 2 = h * Span(k)
                         /\ \A p : Specified(p, l) => Number(p, k) < g
<1>2. PICK half \in Nat \ {0} : NumEntries = 2 * half
  <2>1. NumEntries % 2 = 0
    BY PowersAssumption
  <2>2. NumEntries = 2 * (NumEntries \div 2) /\ NumEntries \div 2 \in Nat \ {0}
    BY <1>1, <2>1
  <2> QED
    BY <2>2
<1>3. /\ AddressSpace = NumEntries * Span(1) /\ AddressSpace \div 2 = half * Span(1)
      /\ AddressSpace = 2 * (AddressSpace \div 2)
  <2>1. AddressSpace = NumEntries * Span(1)
    BY <1>1 DEF Span
  <2>2. half * Span(1) \in Nat /\ AddressSpace = 2 * (half * Span(1))
    BY <1>1, <1>2, <2>1
  <2> DEFINE m == half * Span(1)
  <2>3. m \in Nat /\ AddressSpace = 2 * m
    BY <2>2
  <2> HIDE DEF m
  <2>4. AddressSpace \div 2 = m
    BY <2>3
  <2> QED
    BY <2>1, <2>3, <2>4 DEF m
<1>4. ASSUME NEW p, Specified(p, l)
      PROVE  Number(p, 1) < NumEntries
  <2>1. 1 \in 1 .. l /\ Number(p, 1) = Number(p, 0) * NumEntries + p[1] /\ Number(p, 0) = 0
        /\ p[1] \in Index
    BY <1>4, Numbers DEF Level, Specified
  <2> QED
    BY <1>1, <2>1 DEF Index
<1>5. P(1, NumEntries, half)
  BY <1>3, <1>4
<1>6. ASSUME NEW j \in 1 .. 3, NEW k \in 2 .. 4, j = k - 1, k <= l,
             NEW g \in Nat \ {0}, NEW h \in Nat \ {0}, P(j, g, h)
      PROVE  /\ g * NumEntries \in Nat \ {0} /\ h * NumEntries \in Nat \ {0}
             /\ P(k, g * NumEntries, h * NumEntries)
  <2>1. Span(k - 1) = NumEntries * Span(k) /\ Span(k) \in Nat \ {0} /\ k \in 1 .. l
    BY <1>1, <1>6 DEF Level
  <2>2. g * NumEntries \in Nat \ {0} /\ h * NumEntries \in Nat \ {0}
    BY <1>1
  <2>3. /\ AddressSpace = (g * NumEntries) * Span(k)
        /\ AddressSpace \div 2 = (h * NumEntries) * Span(k)
    BY <1>1, <1>6, <2>1
  <2>4. ASSUME NEW p, Specified(p, l) PROVE Number(p, k) < g * NumEntries
    <3>1. /\ Number(p, k) = Number(p, k - 1) * NumEntries + p[k] /\ p[k] \in Index
          /\ Number(p, k - 1) \in Nat
      BY <1>6, <2>1, <2>4, Numbers DEF Specified, Level
    <3>2. Number(p, k - 1) < g
      <4>1. \A f : Specified(f, l) => Number(f, k - 1) < g
        BY <1>6
      <4> QED
        BY <2>4, <4>1
    <3>3. Number(p, k - 1) * NumEntries + NumEntries <= g * NumEntries
      BY <1>1, <3>1, <3>2, Multiples
    <3>4. Number(p, k - 1) * NumEntries \in Int /\ g * NumEntries \in Int
      BY <1>1, <3>1
    <3> DEFINE a == Number(p, k - 1) * NumEntries
               b == g * NumEntries
    <3> HIDE DEF a, b
    <3>5. Number(p, k) = a + p[k] /\ a \in Int /\ b \in Int /\ a + NumEntries <= b
      BY <3>1, <3>3, <3>4 DEF a, b
    <3>6. Number(p, k) < b
      BY <1>1, <3>1, <3>5 DEF Index
    <3> QED
      BY <3>6 DEF b
  <2> QED
    BY <2>2, <2>3, <2>4
<1> HIDE DEF P
<1>7. \E g \in Nat \ {0}, h \in Nat \ {0} : P(l, g, h)
  <2>1. l \in {1, 2, 3, 4}
    BY DEF Level
  <2>2. ASSUME NEW j \in 1 .. 3, NEW k \in 2 .. 4, j = k - 1, k <= l,
               \E g \in Nat \ {0}, h \in Nat \ {0} : P(j, g, h)
        PROVE  \E g \in Nat \ {0}, h \in Nat \ {0} : P(k, g, h)
    <3>1. PICK g \in Nat \ {0}, h \in Nat \ {0} : P(j, g, h)
      BY <2>2
    <3>2. /\ g * NumEntries \in Nat \ {0} /\ h * NumEntries \in Nat \ {0}
          /\ P(k, g * NumEntries, h * NumEntries)
      BY <1>6, <2>2, <3>1
    <3> QED
      BY <3>2
  <2> DEFINE E(k) == \E g \in Nat \ {0}, h \in Nat \ {0} : P(k, g, h)
  <2>3. \A j \in 1 .. 3, k \in 2 .. 4 : j = k - 1 /\ k <= l /\ E(j) => E(k)
    BY <2>2
  <2>4. E(1)
    BY <1>1, <1>2, <1>5
  <2> HIDE DEF E
  <2>5. E(l)
    BY <2>1, <2>3, <2>4
  <2> QED
    BY <2>5 DEF E
<1> QED
  BY <1>3, <1>7 DEF P

\* The parts of an address add up to the first address below the path.
LEMMA Sums ==
    ASSUME NEW l \in Level, NEW p, Specified(p, l), NEW k \in 1 .. l
    PROVE  /\ Number(p, k) * Span(k) = Number(p, k - 1) * Span(k - 1) + p[k] * Size(k)
           /\ Number(p, k) * Span(k) \in Nat /\ Number(p, k - 1) * Span(k - 1) \in Nat
           /\ p[k] * Size(k) \in Nat
<1> DEFINE q == Number(p, k - 1)
           d == Span(k)
           i == p[k]
<1>1. k \in 1 .. 4 /\ k - 1 \in 0 .. l /\ k \in Level /\ k \in 0 .. l
  BY DEF Level
<1>2. /\ NumEntries \in Nat \ {0} /\ d \in Nat \ {0} /\ q \in Nat /\ i \in Nat
      /\ Number(p, k) = q * NumEntries + i /\ Span(k - 1) = NumEntries * d /\ Size(k) = d
  <2>1. NumEntries \in Nat \ {0} /\ d \in Nat \ {0} /\ Span(k - 1) = NumEntries * d
    BY <1>1, Spans
  <2>2. q \in Nat /\ Number(p, k) = q * NumEntries + i
    BY <1>1, Numbers
  <2>3. i \in Nat
    BY <1>1, <2>1 DEF Specified, Index
  <2>4. Size(k) = d
    BY <1>1 DEF Span
  <2> QED
    BY <2>1, <2>2, <2>3, <2>4
<1> HIDE DEF q, d, i
<1>3. (q * NumEntries + i) * d = q * (NumEntries * d) + i * d
  BY <1>2
<1>4. (q * NumEntries + i) * d \in Nat /\ q * (NumEntries * d) \in Nat /\ i * d \in Nat
  BY <1>2
<1>5. /\ Number(p, k) * Span(k) = (q * NumEntries + i) * d
      /\ Number(p, k - 1) * Span(k - 1) = q * (NumEntries * d)
      /\ p[k] * Size(k) = i * d
  BY <1>2 DEF q, d, i
<1> QED
  BY <1>3, <1>4, <1>5

\* What _gb_vme_path_to_user_va() computes is that address, with the bits above the
\* address space equal to the highest one of it.
LEMMA Address ==
    ASSUME NEW l \in Level, NEW p, Specified(p, l), NEW b, b = Number(p, l) * Span(l)
    PROVE  UserVA(p) = IF b >= AddressSpace \div 2 THEN b + Word - AddressSpace ELSE b
<1> DEFINE part(k) == IF p[k] = Unspec THEN 0 ELSE p[k] * Size(k)
           base(k) == Number(p, k) * Span(k)
<1>1. ASSUME NEW k \in 1 .. l
      PROVE  /\ base(k) = base(k - 1) + part(k) /\ base(k) \in Nat /\ base(k - 1) \in Nat
             /\ part(k) \in Nat
  <2>1. p[k] # Unspec
    BY DEF Specified, Level, Index, Unspec
  <2> QED
    BY <2>1, Sums
<1>2. base(0) = 0
  <2>1. Number(p, 0) = 0 /\ Span(0) \in Nat
    BY Numbers, Spans
  <2> QED
    BY <2>1
<1>3. \A k \in Level : k > l => part(k) = 0
  BY DEF Specified, Level
<1>4. l \in {1, 2, 3, 4}
  BY DEF Level
<1>5. part(1) + part(2) + part(3) + part(4) = base(l)
  <2> HIDE DEF part, base
  <2>1. base(1) = part(1) /\ part(1) \in Nat
    BY <1>1, <1>2 DEF Level
  <2>2. l >= 2 => base(2) = base(1) + part(2) /\ part(2) \in Nat
    BY <1>1 DEF Level
  <2>3. l >= 3 => base(3) = base(2) + part(3) /\ part(3) \in Nat
    BY <1>1 DEF Level
  <2>4. l >= 4 => base(4) = base(3) + part(4) /\ part(4) \in Nat
    BY <1>1 DEF Level
  <2>5. (l < 2 => part(2) = 0) /\ (l < 3 => part(3) = 0) /\ (l < 4 => part(4) = 0)
    BY <1>3 DEF Level
  <2> QED
    BY <1>4, <2>1, <2>2, <2>3, <2>4, <2>5
<1>6. UserVA(p) = LET va == part(1) + part(2) + part(3) + part(4)
                  IN  IF va >= AddressSpace \div 2 THEN va + Word - AddressSpace ELSE va
  BY DEF UserVA
<1> HIDE DEF part
<1> QED
  BY <1>5, <1>6

\* An address in the upper half is looked up like the one that has zeroes above the
\* address space.
LEMMA UpperHalf ==
    ASSUME NEW k \in Level, NEW x \in Nat
    PROVE  /\ Word - AddressSpace \in Nat /\ Word - AddressSpace >= AddressSpace
           /\ HardwareIndex(x + (Word - AddressSpace), k) = HardwareIndex(x, k)
<1>1. k \in 1 .. 4 /\ k \in 0 .. 4 /\ (k = 1 \/ k - 1 \in Level) /\ 0 \in 0 .. 4
  BY DEF Level
<1>2. /\ NumEntries \in Nat \ {0} /\ Size(k) \in Nat \ {0} /\ Span(k - 1) = NumEntries * Size(k)
      /\ Span(0) = AddressSpace /\ AddressSpace \in Nat \ {0}
  BY <1>1, Spans DEF Span
<1>3. PICK g \in Nat \ {0} : AddressSpace = g * Span(k - 1)
  <2>1. CASE k = 1
    <3>1. AddressSpace = 1 * Span(k - 1)
      BY <1>2, <2>1
    <3> QED
      BY <3>1
  <2>2. CASE k - 1 \in Level
    BY <2>2, WholeEntries
  <2> QED
    BY <1>1, <2>1, <2>2
<1>4. PICK n \in Nat : n >= 2 /\ Word = n * AddressSpace
  BY PowersAssumption
<1> DEFINE A == AddressSpace
           e == NumEntries * Size(k)
           m == (n - 1) * g
<1>5. /\ Word - A = (n - 1) * A /\ (n - 1) * A = A + (n - 2) * A
      /\ (n - 1) * A \in Nat /\ (n - 2) * A \in Nat /\ A \in Nat
  BY <1>2, <1>4
<1>6. m \in Nat /\ e \in Nat /\ (n - 1) * A = m * e
  <2>1. A = g * e /\ g \in Nat /\ e \in Nat /\ n - 1 \in Nat
    BY <1>2, <1>3, <1>4
  <2> HIDE DEF A, e
  <2>2. (n - 1) * (g * e) = ((n - 1) * g) * e /\ (n - 1) * g \in Nat
    BY <2>1
  <2> QED
    BY <2>1, <2>2
<1> HIDE DEF A, m
<1>7. ((x + m * (NumEntries * Size(k))) \div Size(k)) % NumEntries = (x \div Size(k)) % NumEntries
  <2> DEFINE Same(y, o, c, d) == ((y + o * (c * d)) \div d) % c = (y \div d) % c
  <2>1. \A y, o \in Nat, c, d \in Nat \ {0} : Same(y, o, c, d)
    BY Shifted
  <2>2. x \in Nat /\ m \in Nat /\ NumEntries \in Nat \ {0} /\ Size(k) \in Nat \ {0}
    BY <1>2, <1>6
  <2> HIDE DEF Same
  <2>3. Same(x, m, NumEntries, Size(k))
    BY <2>1, <2>2
  <2> QED
    BY <2>3 DEF Same
<1>8. Word - A = m * (NumEntries * Size(k))
  BY <1>5, <1>6
<1>9. Word - A \in Nat /\ Word - A >= A
  BY <1>5
<1> QED
  BY <1>7, <1>8, <1>9 DEF A, HardwareIndex

\* The end of a region that ends with the address space is 0, and its last address is
\* right nevertheless.
LEMMA LastAddress ==
    ASSUME NEW w \in Nat \ {0}, NEW v \in 1 .. w
    PROVE  ((v % w) - 1) % w = v - 1
<1>1. ASSUME NEW y \in 0 .. w - 1 PROVE y % w = y
  OBVIOUS
<1>2. CASE v < w
  BY <1>1, <1>2
<1>3. CASE v = w
  <2>1. w % w = 0
    OBVIOUS
  <2>2. (0 - 1) % w = w - 1
    OBVIOUS
  <2> QED
    BY <1>3, <2>1, <2>2
<1> QED
  BY <1>2, <1>3

\* The addresses that the processor looks up by the path p, in one of the halves, are
\* those of the region that _gb_vme_path_to_user_va() and the bridge make of it.
LEMMA Region ==
    ASSUME NEW l \in Level, NEW p, Specified(p, l)
    PROVE  {a \in Canonical : \A k \in 1 .. l : HardwareIndex(a, k) = p[k]}
           = UserVA(p) .. (((UserVA(p) + Size(l)) % Word) - 1) % Word
<1> DEFINE A == AddressSpace
           H == AddressSpace \div 2
           d == Size(l)
           b == Number(p, l) * Span(l)
           Found(a) == \A k \in 1 .. l : HardwareIndex(a, k) = p[k]
<1>1. A \in Nat \ {0} /\ H \in Nat \ {0} /\ d \in Nat \ {0} /\ A = 2 * H
  <2>1. A \in Nat \ {0} /\ Span(l) \in Nat \ {0} /\ Span(l) = d
    BY Spans DEF Span, Level
  <2>2. PICK h \in Nat \ {0} : H = h * Span(l) /\ A = 2 * H
    BY WholeEntries
  <2> HIDE DEF A, H
  <2> QED
    BY <2>1, <2>2
<1>2. /\ b \in Nat /\ b + d <= A
      /\ b < H => b + d <= H
  <2> DEFINE q == Number(p, l)
  <2>1. Span(l) = d /\ q \in Nat
    BY Numbers DEF Span, Level
  <2>2. PICK g \in Nat \ {0}, h \in Nat \ {0} : A = g * d /\ H = h * d /\ q < g
    BY <2>1, WholeEntries
  <2>3. b = q * d
    BY <2>1
  <2> HIDE DEF A, H, d, q, b
  <2>4. q * d \in Nat /\ q * d + d <= g * d
    BY <1>1, <2>1, <2>2, Multiples
  <2>5. q < h => q * d + d <= h * d
    BY <1>1, <2>1, <2>2, Multiples
  <2>6. q >= h => h * d <= q * d
    BY <1>1, <2>1, <2>2, Multiples
  <2> QED
    BY <1>1, <2>1, <2>2, <2>3, <2>4, <2>5, <2>6
<1>3. \A x \in 0 .. A - 1 : Found(x) <=> x \in b .. b + d - 1
  <2>1. Span(l) = d
    BY DEF Span, Level
  <2> QED
    BY <2>1, Translated DEF Below, Part
<1>4. /\ Word - A \in Nat /\ Word - A >= A
      /\ \A x \in Nat : Found(x + (Word - A)) <=> Found(x)
  BY UpperHalf DEF Level
<1>5. UserVA(p) = IF b >= H THEN b + Word - A ELSE b
  BY Address
<1>6. Canonical = (0 .. H - 1) \cup (Word - H .. Word - 1)
  BY DEF Canonical
<1>7. Word \in Nat \ {0}
  <2>1. PICK n \in Nat \ {0} : Word = n * A
    BY PowersAssumption
  <2> QED
    BY <1>1, <2>1
<1> HIDE DEF A, H, d, b, Found
<1> DEFINE va == UserVA(p)
           last == (((va + d) % Word) - 1) % Word
<1>8. va \in Nat /\ va + d \in 1 .. Word
  BY <1>1, <1>2, <1>4, <1>5, <1>7
<1>9. last = va + d - 1
  <2>1. \A v \in 1 .. Word : ((v % Word) - 1) % Word = v - 1
    BY <1>7, LastAddress
  <2> HIDE DEF va
  <2>2. (((va + d) % Word) - 1) % Word = (va + d) - 1
    BY <1>8, <2>1, Zenon
  <2> QED
    BY <1>1, <1>8, <2>2 DEF last
<1>10. ASSUME NEW a
       PROVE  a \in Canonical /\ Found(a) <=> a \in va .. va + d - 1
  <2>1. CASE a \in 0 .. H - 1
    <3>1. a \in 0 .. A - 1
      BY <1>1, <2>1
    <3>2. Found(a) <=> a \in b .. b + d - 1
      BY <1>3, <3>1
    <3> QED
      BY <1>1, <1>2, <1>4, <1>5, <1>6, <2>1, <3>2
  <2>2. CASE a \in Word - H .. Word - 1
    <3> DEFINE x == a - (Word - A)
    <3>1. x \in H .. A - 1 /\ x \in Nat /\ x \in 0 .. A - 1 /\ a = x + (Word - A)
      BY <1>1, <1>4, <1>7, <2>2
    <3>2. Found(a) <=> x \in b .. b + d - 1
      BY <1>3, <1>4, <3>1
    <3> QED
      BY <1>1, <1>2, <1>4, <1>5, <1>6, <1>7, <2>2, <3>1, <3>2
  <2>3. CASE a \notin Canonical
    BY <1>1, <1>2, <1>4, <1>5, <1>6, <1>7, <2>3
  <2> QED
    BY <1>6, <2>1, <2>2, <2>3
<1> QED
  BY <1>9, <1>10 DEF d, Found

\* In a valid path nothing is specified below an index that is not.
LEMMA ValidSuffix ==
    ASSUME NEW p, ValidPath(p), NEW k \in Level,
           \A j \in Level : j < k => p[j] # Unspec,
           p[k] = Unspec
    PROVE  \A j \in Level : j >= k => p[j] = Unspec
<1>1. k \in {1, 2, 3, 4} /\ \A j \in Level : j \in {1, 2, 3, 4}
  BY DEF Level
<1>2. CASE k = 1
  BY <1>1, <1>2 DEF ValidPath, Level
<1>3. CASE k = 2
  <2>1. p[1] # Unspec
    BY <1>3 DEF Level
  <2> QED
    BY <1>1, <1>3, <2>1 DEF ValidPath, Level
<1>4. CASE k = 3
  <2>1. p[1] # Unspec /\ p[2] # Unspec
    BY <1>4 DEF Level
  <2> QED
    BY <1>1, <1>4, <2>1 DEF ValidPath, Level
<1>5. CASE k = 4
  BY <1>1, <1>5 DEF Level
<1> QED
  BY <1>1, <1>2, <1>3, <1>4, <1>5

\* A table that has been filled is the one that the path leads to, and its entries are
\* those of _gb_vme_fill_l4() to _gb_vme_fill_l1().
FilledInv ==
    /\ path \in [Level -> Typed]
    /\ status \in {"filled", "answered"} =>
         /\ \A k \in Level : IF k < level THEN path[k] \in Index ELSE path[k] = Unspec
         /\ \A i \in Index : entries[i] \in {NoneEntry, FilledEntry(i)}

LEMMA FilledInit == Init => FilledInv
BY DEF Init, FilledInv

LEMMA FilledStep == WalkInv /\ FilledInv /\ [Next]_vars => FilledInv'
<1> SUFFICES ASSUME WalkInv, FilledInv, [Next]_vars
             PROVE  FilledInv'
  OBVIOUS
<1>1. CASE Reject \/ Accept \/ Descend \/ Fault \/ TooDeep
  BY <1>1 DEF FilledInv, Reject, Accept, Descend, Fault, TooDeep
<1>2. CASE Fill
  <2>1. /\ status = "walking" /\ level \in Level /\ path[level] = Unspec
        /\ path' = path /\ level' = level /\ ValidPath(path)
        /\ \A k \in Level : k < level => path[k] # Unspec
    BY <1>2 DEF Fill, WalkInv
  <2>2. ASSUME NEW k \in Level
        PROVE  IF k < level THEN path[k] \in Index ELSE path[k] = Unspec
    <3>1. CASE k < level
      <4>1. path[k] # Unspec /\ \A j \in Level : j < k => path[j] # Unspec
        BY <2>1, <3>1 DEF Level
      <4> QED
        BY <2>1, <3>1, <4>1, ValidPrefix
    <3>2. CASE k >= level
      BY <2>1, <3>2, ValidSuffix DEF Level
    <3> QED
      BY <2>1, <3>1, <3>2 DEF Level
  <2>3. \A i \in Index : entries'[i] \in {NoneEntry, FilledEntry(i)}
    BY <1>2 DEF Fill
  <2>4. \A i : FilledEntry(i)' = FilledEntry(i) /\ NoneEntry' = NoneEntry
    BY <2>1 DEF FilledEntry, NoneEntry
  <2> QED
    BY <2>1, <2>2, <2>3, <2>4 DEF FilledInv
<1>3. CASE Dump \/ Explored \/ DumpFails
  <2>1. /\ path' = path /\ level' = level /\ entries' = entries
        /\ status' \in {"filled", "answered"} => status = "filled"
    BY <1>3 DEF Dump, Explored, DumpFails, dumpVars
  <2>2. \A i : FilledEntry(i)' = FilledEntry(i) /\ NoneEntry' = NoneEntry
    BY <2>1 DEF FilledEntry, NoneEntry
  <2> QED
    BY <2>1, <2>2 DEF FilledInv
<1>4. CASE UNCHANGED vars
  <2>1. path' = path /\ level' = level /\ entries' = entries /\ status' = status
    BY <1>4 DEF vars, dumpVars
  <2>2. \A i : FilledEntry(i)' = FilledEntry(i) /\ NoneEntry' = NoneEntry
    BY <2>1 DEF FilledEntry, NoneEntry
  <2> QED
    BY <2>1, <2>2 DEF FilledInv
<1> QED
  BY <1>1, <1>2, <1>3, <1>4 DEF Next

\* Whatever the widths are, of which the page tables only need that a table has an even
\* number of entries and the address space is a proper part of the word: the region
\* that the client is shown with an entry is the set of the canonical addresses that
\* the processor translates by this entry.
THEOREM Regions == Spec => []RegionsMatchHardware
<1>1. WalkInv /\ DumpInv /\ FilledInv => RegionsMatchHardware
  <2> SUFFICES ASSUME WalkInv, DumpInv, FilledInv, status = "answered",
                      NEW i \in Index, ~Shown(i).none
               PROVE  {a \in Canonical : \A k \in 1 .. level :
                           HardwareIndex(a, k) = [path EXCEPT ![level] = i][k]}
                      = Shown(i).va .. (UserVAEnd(Shown(i)) - 1) % Word
    BY DEF RegionsMatchHardware
  <2> DEFINE p == [path EXCEPT ![level] = i]
  <2>1. level \in Level /\ path \in [Level -> Typed]
    BY DEF WalkInv, FilledInv
  <2>2. Specified(p, level)
    BY <2>1 DEF Specified, FilledInv, Level
  <2>3. Shown(i) = entries[i]
    <3>1. DumpInv => EntriesInPlace
      BY NumEntriesAssumption DEF DumpInv, EntriesInPlace, Shown, Index
    <3> QED
      BY <3>1 DEF EntriesInPlace
  <2>4. Shown(i) = FilledEntry(i)
    BY <2>3 DEF FilledInv, NoneEntry
  <2>5. Shown(i).va = UserVA(p) /\ Shown(i).size = Size(level)
    BY <2>4 DEF FilledEntry
  <2> HIDE DEF p
  <2>6. {a \in Canonical : \A k \in 1 .. level : HardwareIndex(a, k) = p[k]}
        = UserVA(p) .. (((UserVA(p) + Size(level)) % Word) - 1) % Word
    BY <2>1, <2>2, Region
  <2> QED
    BY <2>5, <2>6 DEF p, UserVAEnd
<1> QED
  BY <1>1, WalkInit, WalkStep, DumpInit, DumpStep, FilledInit, FilledStep, PTL DEF Spec
=============================================================================
