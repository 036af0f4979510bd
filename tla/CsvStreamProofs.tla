-------------------------- MODULE CsvStreamProofs --------------------------
(***************************************************************************)
(* The streaming parser, for every text, every way of cutting it into      *)
(* chunks and every pair of caps.                                          *)
(*                                                                         *)
(* The argument has three layers.  Rank counts the positions of a set up   *)
(* to a point; that numbers the pieces a text is cut into, and says which  *)
(* piece lies between two neighbouring cuts.  A part of a text then has    *)
(* the quotes and the record ends of the text, moved by where it begins,   *)
(* when the flag it is scanned with is that of the place (InsidePart,      *)
(* ScanFinds), so the records a scan finds are the next of the text        *)
(* (Scanning), and its rows the next rows (Wanted, ScanTrue).  Last, the   *)
(* invariant: what is held is the text from the last record end handed     *)
(* over to where it was scanned, under the right flag, and the rows are    *)
(* as many of the text's as were complete there.                           *)
(*                                                                         *)
(* What the records say is a second argument, about the text alone: the    *)
(* fields parseRecord collects character by character are those between    *)
(* the delimiters outside quotes (SeenSplits, CellsAre), a CR at the end   *)
(* changes neither fields nor delimiter (FormFields, FormDelimiter), and   *)
(* the lines of the buffered parser are the raw records when no line break *)
(* is quoted (UnixPieces, PlainLines).                                     *)
(*                                                                         *)
(* Quotes are counted twice only by a chunk that begins inside quotes, so  *)
(* both properties hold without exception when no chunk does.              *)
(*                                                                         *)
(* Facts that need induction are stated for a set of numbers that has 0    *)
(* and the successor of each of its members (Induction).                   *)
(***************************************************************************)
EXTENDS CsvStream, FiniteSetTheorems, SequenceTheorems, WellFoundedInduction, TLAPS

-----------------------------------------------------------------------------
(* Positions and their order *)

\* Every nonempty set of numbers has a least one.
LEMMA Least ==
    ASSUME NEW T \in SUBSET Nat, T # {}
    PROVE  \E x \in T : \A y \in T : x <= y
  <1> DEFINE R == OpToRel(LAMBDA x, y : x < y, Nat)
  <1>1. PICK x \in T : \A y \in T : ~(<<y, x>> \in R)
    BY NatLessThanWellFounded, WFMin
  <1>2. \A y \in T : ~(y < x)
    BY <1>1 DEF OpToRel
  <1> QED BY <1>2

\* Induction, for a set.
LEMMA Induction ==
    ASSUME NEW T \in SUBSET Nat, 0 \in T, \A k \in T : k + 1 \in T
    PROVE  T = Nat
  <1> SUFFICES ASSUME Nat \ T # {} PROVE FALSE
    OBVIOUS
  <1>1. PICK x \in Nat \ T : \A y \in Nat \ T : x <= y
    BY Least
  <1>2. x - 1 \in T
    BY <1>1
  <1> QED BY <1>2

Positions == SUBSET (Nat \ {0})

\* How many positions of P are not behind i.
Rank(P, i) == Cardinality({j \in P : j <= i})

LEMMA RankStep ==
    ASSUME NEW P \in Positions, NEW i \in Nat
    PROVE  /\ Rank(P, 0) = 0 /\ Rank(P, i) \in Nat
           /\ Rank(P, i + 1) = IF i + 1 \in P THEN Rank(P, i) + 1 ELSE Rank(P, i)
  <1> DEFINE U(k) == {j \in P : j <= k}
  <1>0. \A j \in P : j \in Nat /\ j # 0
    BY DEF Positions
  <1>1. U(0) = {}
    BY <1>0
  <1>2. \A k \in Nat : IsFiniteSet(U(k))
    BY FS_BoundedSetOfNaturals DEF Positions
  <1>3. U(i + 1) = IF i + 1 \in P THEN U(i) \cup {i + 1} ELSE U(i)
    BY <1>0
  <1>4. i + 1 \notin U(i)
    OBVIOUS
  <1> HIDE DEF U
  <1>5. Cardinality(U(0)) = 0 /\ Cardinality(U(i)) \in Nat
    BY <1>1, <1>2, FS_EmptySet, FS_CardinalityType
  <1>6. Cardinality(U(i + 1)) = IF i + 1 \in P THEN Cardinality(U(i)) + 1 ELSE Cardinality(U(i))
    BY <1>2, <1>3, <1>4, FS_AddElement
  <1> QED BY <1>5, <1>6 DEF Rank, U

LEMMA RankGrows ==
    ASSUME NEW P \in Positions, NEW i \in Nat, NEW k \in Nat, i <= k
    PROVE  /\ Rank(P, i) <= Rank(P, k)
           /\ k \in P /\ i < k => Rank(P, i) < Rank(P, k)
           /\ (\A j \in P : ~(i < j /\ j <= k)) => Rank(P, k) = Rank(P, i)
  <1> DEFINE Gap(m) == \A j \in P : ~(i < j /\ j <= i + m)
             T == {m \in Nat : /\ Rank(P, i) <= Rank(P, i + m)
                               /\ Gap(m) => Rank(P, i + m) = Rank(P, i)}
  <1>1. T = Nat
    <2>1. 0 \in T
      <3>1. i + 0 = i /\ Rank(P, i) \in Nat
        BY RankStep
      <3> QED BY <3>1
    <2>2. ASSUME NEW m \in T PROVE m + 1 \in T
      <3>1. m \in Nat /\ i + m \in Nat /\ (i + m) + 1 = i + (m + 1)
        OBVIOUS
      <3>2. /\ Rank(P, i) \in Nat /\ Rank(P, i + m) \in Nat
            /\ Rank(P, (i + m) + 1) = IF (i + m) + 1 \in P THEN Rank(P, i + m) + 1 ELSE Rank(P, i + m)
        BY <3>1, RankStep
      <3>3. Gap(m + 1) => Gap(m) /\ i + (m + 1) \notin P
        BY <3>1 DEF Positions
      <3> HIDE DEF Gap
      <3>4. /\ Rank(P, i) <= Rank(P, i + m)
            /\ Gap(m) => Rank(P, i + m) = Rank(P, i)
        OBVIOUS
      <3>5. /\ Rank(P, i) <= Rank(P, i + (m + 1))
            /\ Gap(m + 1) => Rank(P, i + (m + 1)) = Rank(P, i)
        BY <3>1, <3>2, <3>3, <3>4
      <3> QED BY <3>1, <3>5
    <2> HIDE DEF T
    <2>3. T \in SUBSET Nat
      BY DEF T
    <2> QED BY <2>1, <2>2, <2>3, Induction
  <1>2. ASSUME NEW m \in Nat PROVE /\ Rank(P, i) <= Rank(P, i + m)
                                   /\ Gap(m) => Rank(P, i + m) = Rank(P, i)
    BY <1>1
  <1> HIDE DEF T
  <1>3. k - i \in Nat /\ i + (k - i) = k
    OBVIOUS
  <1>4. Rank(P, i) <= Rank(P, k) /\ (Gap(k - i) => Rank(P, k) = Rank(P, i))
    BY <1>2, <1>3
  <1>5. CASE k \in P /\ i < k
    <2>1. k - 1 - i \in Nat /\ i + (k - 1 - i) = k - 1 /\ k - 1 \in Nat /\ (k - 1) + 1 = k
      BY <1>5
    <2>2. Rank(P, i) <= Rank(P, k - 1)
      BY <1>2, <2>1
    <2>3. Rank(P, i) \in Nat /\ Rank(P, k - 1) \in Nat /\ Rank(P, k) = Rank(P, k - 1) + 1
      BY <1>5, <2>1, RankStep
    <2>4. ~(\A j \in P : ~(i < j /\ j <= k))
      BY <1>5
    <2> QED BY <1>4, <2>2, <2>3, <2>4
  <1>6. (\A j \in P : ~(i < j /\ j <= k)) => Gap(k - i)
    BY <1>3
  <1> QED BY <1>4, <1>5, <1>6

LEMMA RankOfAll ==
    ASSUME NEW n \in Nat, NEW P \in SUBSET (1..n)
    PROVE  P \in Positions /\ IsFiniteSet(P) /\ Rank(P, n) = Cardinality(P) /\ Cardinality(P) \in Nat
  <1>1. P \in Positions
    BY DEF Positions
  <1>2. IsFiniteSet(P)
    <2>1. IsFiniteSet(1..n)
      BY FS_Interval
    <2> QED BY <2>1, FS_Subset
  <1>3. {j \in P : j <= n} = P
    <2>1. \A j \in P : j <= n
      OBVIOUS
    <2> QED BY <2>1
  <1> QED BY <1>1, <1>2, <1>3, FS_CardinalityType DEF Rank

\* The positions in order: the k-th has rank k.
LEMMA Ordered ==
    ASSUME NEW n \in Nat, NEW P \in SUBSET (1..n)
    PROVE  /\ InOrder(P) \in Seq(P) /\ Len(InOrder(P)) = Cardinality(P)
           /\ \A k \in 1..Cardinality(P) : InOrder(P)[k] \in P /\ Rank(P, InOrder(P)[k]) = k
           /\ \A i \in P : Rank(P, i) \in 1..Cardinality(P) /\ InOrder(P)[Rank(P, i)] = i
  <1>1. /\ P \in Positions /\ Rank(P, n) = Cardinality(P) /\ Cardinality(P) \in Nat
        /\ \A i \in Nat : Rank(P, i) \in Nat
    BY RankOfAll, RankStep
  <1>2. ASSUME NEW k \in 1..Cardinality(P)
        PROVE  \E i \in P : Rank(P, i) = k
    <2> DEFINE T == {i \in Nat : Rank(P, i) >= k}
    <2>1. T \in SUBSET Nat /\ n \in T
      BY <1>1
    <2>2. PICK i \in T : \A j \in T : i <= j
      BY <2>1, Least
    <2>3. i \in Nat /\ Rank(P, i) >= k /\ i # 0
      BY <1>1, <2>2, RankStep
    <2>4. i - 1 \in Nat /\ ~(Rank(P, i - 1) >= k)
      BY <2>2, <2>3
    <2>5. Rank(P, i) = IF i \in P THEN Rank(P, i - 1) + 1 ELSE Rank(P, i - 1)
      <3>1. (i - 1) + 1 = i
        BY <2>3
      <3> QED BY <1>1, <2>4, <3>1, RankStep
    <2>6. Rank(P, i - 1) \in Nat /\ k \in Nat
      BY <1>1, <2>4
    <2> QED BY <2>3, <2>4, <2>5, <2>6
  <1>3. \A k \in 1..Cardinality(P) : InOrder(P)[k] \in P /\ Rank(P, InOrder(P)[k]) = k
    <2> SUFFICES ASSUME NEW k \in 1..Cardinality(P)
                 PROVE  InOrder(P)[k] \in P /\ Rank(P, InOrder(P)[k]) = k
      OBVIOUS
    <2>1. InOrder(P)[k] = CHOOSE i \in P : Rank(P, i) = k
      BY DEF InOrder, Rank
    <2> QED BY <1>2, <2>1
  <1>4. InOrder(P) \in Seq(P) /\ Len(InOrder(P)) = Cardinality(P)
    <2>1. PICK c \in Nat : c = Cardinality(P)
      BY <1>1
    <2>2. InOrder(P) \in [1..c -> P]
      BY <1>3, <2>1 DEF InOrder
    <2>3. InOrder(P) \in Seq(P) /\ Len(InOrder(P)) = c
      BY <2>2
    <2> QED BY <2>1, <2>3
  <1>5. ASSUME NEW i \in P
        PROVE  Rank(P, i) \in 1..Cardinality(P) /\ InOrder(P)[Rank(P, i)] = i
    <2>1. Rank(P, i) \in 1..Cardinality(P)
      <3>1. i \in Nat /\ 0 < i /\ i <= n /\ 0 \in Nat
        OBVIOUS
      <3>2. Rank(P, 0) = 0 /\ Rank(P, 0) < Rank(P, i) /\ Rank(P, i) <= Rank(P, n)
        BY <1>1, <3>1, RankGrows, RankStep
      <3> QED BY <1>1, <3>1, <3>2
    <2>2. PICK j \in P : j = InOrder(P)[Rank(P, i)] /\ Rank(P, j) = Rank(P, i)
      BY <1>3, <2>1
    <2>3. i \in Nat /\ j \in Nat
      OBVIOUS
    <2>4. ~(i < j) /\ ~(j < i)
      BY <1>1, <2>2, <2>3, RankGrows
    <2> QED BY <2>1, <2>2, <2>3, <2>4
  <1> QED BY <1>3, <1>4, <1>5

\* The first c positions of Q are those of P behind b.
Shifted(P, Q, b, c) == \A i \in 1..c : i \in Q <=> b + i \in P

LEMMA RankShift ==
    ASSUME NEW P \in Positions, NEW Q \in Positions, NEW b \in Nat, NEW c \in Nat,
           Shifted(P, Q, b, c)
    PROVE  \A i \in 0..c : Rank(P, b + i) = Rank(P, b) + Rank(Q, i)
  <1> DEFINE T == {m \in Nat : m <= c => Rank(P, b + m) = Rank(P, b) + Rank(Q, m)}
  <1>1. 0 \in T
    <2>1. Rank(Q, 0) = 0 /\ Rank(P, b) \in Nat /\ b + 0 = b
      BY RankStep
    <2> QED BY <2>1
  <1>2. ASSUME NEW m \in T PROVE m + 1 \in T
    <2>1. m \in Nat /\ b + m \in Nat /\ (b + m) + 1 = b + (m + 1)
      OBVIOUS
    <2>2. /\ Rank(P, b) \in Nat /\ Rank(P, b + m) \in Nat /\ Rank(Q, m) \in Nat
          /\ Rank(P, (b + m) + 1) = IF (b + m) + 1 \in P THEN Rank(P, b + m) + 1 ELSE Rank(P, b + m)
          /\ Rank(Q, m + 1) = IF m + 1 \in Q THEN Rank(Q, m) + 1 ELSE Rank(Q, m)
      BY <2>1, RankStep
    <2>3. CASE m + 1 <= c
      <3>1. (m + 1 \in Q <=> b + (m + 1) \in P) /\ m <= c
        <4>1. m + 1 \in 1..c
          BY <2>1, <2>3
        <4> QED BY <2>1, <2>3, <4>1 DEF Shifted
      <3>2. Rank(P, b + m) = Rank(P, b) + Rank(Q, m)
        BY <3>1
      <3>3. Rank(P, b + (m + 1)) = Rank(P, b) + Rank(Q, m + 1)
        BY <2>1, <2>2, <3>1, <3>2
      <3> QED BY <3>3
    <2> QED BY <2>1, <2>3
  <1> HIDE DEF T
  <1>3. T = Nat
    <2>1. T \in SUBSET Nat
      BY DEF T
    <2> QED BY <1>1, <1>2, <2>1, Induction
  <1> QED BY <1>3 DEF T

LEMMA RankRange ==
    ASSUME NEW P \in Positions, NEW a \in Nat, NEW b \in Nat, a <= b
    PROVE  Cardinality({j \in P : a < j /\ j <= b}) = Rank(P, b) - Rank(P, a)
  <1> DEFINE U(k) == {j \in P : j <= k}
             V == {j \in P : a < j /\ j <= b}
  <1>1. \A j \in P : j \in Nat
    BY DEF Positions
  <1>2. IsFiniteSet(U(a)) /\ IsFiniteSet(U(b))
    BY <1>1, FS_BoundedSetOfNaturals
  <1>3. V \in SUBSET U(b) /\ U(b) = U(a) \cup V /\ U(a) \cap V = {}
    BY <1>1
  <1> HIDE DEF U, V
  <1>4. IsFiniteSet(V)
    BY <1>2, <1>3, FS_Subset
  <1>5. Cardinality(U(b)) = Cardinality(U(a)) + Cardinality(V) - Cardinality({})
    BY <1>2, <1>3, <1>4, FS_Union
  <1>6. Cardinality({}) = 0 /\ Cardinality(U(a)) \in Nat /\ Cardinality(V) \in Nat
    BY <1>2, <1>4, FS_EmptySet, FS_CardinalityType
  <1>7. Cardinality(V) = Cardinality(U(b)) - Cardinality(U(a))
    BY <1>5, <1>6
  <1> QED BY <1>7 DEF Rank, U, V

-----------------------------------------------------------------------------
(* Texts, quotes, pieces *)

Strings == Seq(Symbols)

Quotes(s) == {j \in 1..Len(s) : s[j] = "q"}

\* Position i is inside quotes, counted from the beginning.
Inside(s, i) == Rank(Quotes(s), i) % 2 = 1

LEMMA QuoteRanks ==
    ASSUME NEW s \in Strings
    PROVE  /\ Quotes(s) \in Positions /\ Quotes(s) \in SUBSET (1..Len(s))
           /\ Len(s) \in Nat
           /\ \A i \in Nat : Rank(Quotes(s), i) \in Nat /\ Rank(Quotes(s), i) % 2 \in {0, 1}
           /\ ~Inside(s, 0)
  <1>1. Len(s) \in Nat
    BY DEF Strings
  <1>2. Quotes(s) \in Positions /\ Quotes(s) \in SUBSET (1..Len(s))
    BY <1>1 DEF Quotes, Positions
  <1>3. \A i \in Nat : Rank(Quotes(s), i) \in Nat
    BY <1>2, RankStep
  <1>4. \A n \in Nat : n % 2 \in {0, 1}
    OBVIOUS
  <1>5. ~Inside(s, 0)
    <2>1. Rank(Quotes(s), 0) = 0 /\ 0 % 2 = 0
      BY <1>2, RankStep
    <2> QED BY <2>1 DEF Inside
  <1> QED BY <1>1, <1>2, <1>3, <1>4, <1>5

LEMMA Parity ==
    ASSUME NEW a \in Nat, NEW b \in Nat, a <= b
    PROVE  ((b - a) % 2 = 1) <=> ~((a % 2 = 1) <=> (b % 2 = 1))
  <1>1. PICK c \in Nat : c = b - a
    OBVIOUS
  <1>2. a % 2 \in {0, 1} /\ b % 2 \in {0, 1} /\ c % 2 \in {0, 1}
    OBVIOUS
  <1>3. b = a + c
    BY <1>1
  <1>4. b % 2 = ((a % 2) + (c % 2)) % 2
    BY <1>3
  <1> QED BY <1>1, <1>2, <1>4

\* A scan that begins with the right flag knows what is inside quotes.
LEMMA QuotedBy ==
    ASSUME NEW s \in Strings, NEW from \in 0..Len(s), NEW i \in from..Len(s), NEW q \in BOOLEAN
    PROVE  /\ Quoted(s, from, q, i) <=> (q <=> (Inside(s, from) <=> Inside(s, i)))
           /\ Unquoted(s, i) <=> ~Inside(s, i)
  <1>1. /\ Quotes(s) \in Positions /\ Len(s) \in Nat /\ from \in Nat /\ i \in Nat /\ from <= i
        /\ Rank(Quotes(s), from) \in Nat /\ Rank(Quotes(s), i) \in Nat
        /\ Rank(Quotes(s), i) % 2 \in {0, 1}
    BY QuoteRanks
  <1>2. Rank(Quotes(s), from) <= Rank(Quotes(s), i)
    BY <1>1, RankGrows
  <1>3. {j \in (from + 1)..i : s[j] = "q"} = {j \in Quotes(s) : from < j /\ j <= i}
    BY <1>1 DEF Quotes
  <1>4. {j \in 1..i : s[j] = "q"} = {j \in Quotes(s) : j <= i}
    BY <1>1 DEF Quotes
  <1>5. Cardinality({j \in (from + 1)..i : s[j] = "q"}) = Rank(Quotes(s), i) - Rank(Quotes(s), from)
    BY <1>1, <1>3, RankRange
  <1>6. (Cardinality({j \in (from + 1)..i : s[j] = "q"}) % 2 = 1) <=> ~(Inside(s, from) <=> Inside(s, i))
    BY <1>1, <1>2, <1>5, Parity DEF Inside
  <1>7. Quoted(s, from, q, i) <=> (q <=> (Inside(s, from) <=> Inside(s, i)))
    <2>1. Quoted(s, from, q, i) <=> ~(q <=> (Cardinality({j \in (from + 1)..i : s[j] = "q"}) % 2 = 1))
      BY DEF Quoted
    <2> QED BY <1>6, <2>1
  <1>8. Unquoted(s, i) <=> ~Inside(s, i)
    <2>1. Cardinality({j \in 1..i : s[j] = "q"}) = Rank(Quotes(s), i)
      BY <1>4 DEF Rank
    <2>2. Unquoted(s, i) <=> Rank(Quotes(s), i) % 2 = 0
      BY <2>1 DEF Unquoted
    <2>3. Unquoted(s, i) <=> ~Inside(s, i)
      BY <1>1, <2>2 DEF Inside
    <2> QED BY <2>3
  <1> QED BY <1>7, <1>8

LEMMA SubText ==
    ASSUME NEW S, NEW s \in Seq(S), NEW a \in Nat, NEW b \in Nat, a <= b, b <= Len(s)
    PROVE  /\ SubSeq(s, a + 1, b) \in Seq(S) /\ Len(SubSeq(s, a + 1, b)) = b - a
           /\ \A i \in 1..(b - a) : SubSeq(s, a + 1, b)[i] = s[a + i]
  <1>1. \A i \in (a + 1)..b : s[i] \in S
    OBVIOUS
  <1>2. /\ SubSeq(s, a + 1, b) \in Seq(S)
        /\ Len(SubSeq(s, a + 1, b)) = IF a + 1 <= b THEN b - (a + 1) + 1 ELSE 0
        /\ \A i \in 1..(b - (a + 1) + 1) : SubSeq(s, a + 1, b)[i] = s[(a + 1) + i - 1]
    BY <1>1, SubSeqProperties
  <1>3. b - (a + 1) + 1 = b - a /\ \A i \in Int : (a + 1) + i - 1 = a + i
    OBVIOUS
  <1> QED BY <1>2, <1>3

\* A part of a part.
LEMMA SubSubText ==
    ASSUME NEW S, NEW s \in Seq(S), NEW a \in Nat, NEW b \in Nat, a <= b, b <= Len(s),
           NEW c \in Nat, NEW d \in Nat, c <= d, d <= b - a
    PROVE  SubSeq(SubSeq(s, a + 1, b), c + 1, d) = SubSeq(s, a + c + 1, a + d)
  <1> DEFINE u == SubSeq(s, a + 1, b)
             v == SubSeq(u, c + 1, d)
             w == SubSeq(s, a + c + 1, a + d)
  <1>1. u \in Seq(S) /\ Len(u) = b - a /\ \A i \in 1..(b - a) : u[i] = s[a + i]
    BY SubText
  <1>2. v \in Seq(S) /\ Len(v) = d - c /\ \A i \in 1..(d - c) : v[i] = u[c + i]
    BY <1>1, SubText
  <1>3. w \in Seq(S) /\ Len(w) = d - c /\ \A i \in 1..(d - c) : w[i] = s[a + c + i]
    <2>1. a + c \in Nat /\ a + d \in Nat /\ a + c <= a + d /\ a + d <= Len(s)
          /\ (a + d) - (a + c) = d - c
      OBVIOUS
    <2> QED BY <2>1, SubText
  <1> HIDE DEF u, v, w
  <1>4. \A i \in 1..(d - c) : v[i] = w[i]
    <2> SUFFICES ASSUME NEW i \in 1..(d - c) PROVE v[i] = w[i]
      OBVIOUS
    <2>1. c + i \in 1..(b - a) /\ a + (c + i) = a + c + i
      OBVIOUS
    <2> QED BY <1>1, <1>2, <1>3, <2>1
  <1>5. v = w
    BY <1>2, <1>3, <1>4, SeqEqual
  <1> QED BY <1>5 DEF u, v, w

\* Two parts that meet.
LEMMA JoinedText ==
    ASSUME NEW S, NEW s \in Seq(S), NEW a \in Nat, NEW b \in Nat, NEW c \in Nat,
           a <= b, b <= c, c <= Len(s)
    PROVE  SubSeq(s, a + 1, b) \o SubSeq(s, b + 1, c) = SubSeq(s, a + 1, c)
  <1>1. a + 1 \in 1..(Len(s) + 1) /\ b \in (a + 1) - 1..Len(s) /\ c \in b..Len(s)
    OBVIOUS
  <1> QED BY <1>1, ConcatAdjacentSubSeq

\* b is the part of t between two positions.
PartOf(t, b, base, p) == base <= p /\ p <= Len(t) /\ b = SubSeq(t, base + 1, p)

LEMMA Part ==
    ASSUME NEW t \in Strings, NEW base \in Nat, NEW p \in Nat, NEW b, PartOf(t, b, base, p)
    PROVE  /\ b \in Strings /\ Len(b) \in Nat /\ Len(b) = p - base /\ base + Len(b) = p
           /\ \A i \in 1..Len(b) : b[i] = t[base + i]
           /\ \A i \in 0..Len(b) : PartOf(t, SubSeq(b, i + 1, Len(b)), base + i, p)
           /\ \A i \in 1..Len(b) : PartOf(t, SubSeq(b, 1, i - 1), base, base + (i - 1))
           /\ \A r \in Nat : p <= r /\ r <= Len(t) => PartOf(t, b \o SubSeq(t, p + 1, r), base, r)
  <1>1. base <= p /\ p <= Len(t) /\ b = SubSeq(t, base + 1, p)
    BY DEF PartOf
  <1>2. t \in Seq(Symbols) /\ Len(t) \in Nat
    BY DEF Strings
  <1>3. b \in Strings /\ Len(b) = p - base /\ \A i \in 1..(p - base) : b[i] = t[base + i]
    BY <1>1, <1>2, SubText DEF Strings
  <1>4. Len(b) \in Nat /\ base + Len(b) = p
    BY <1>1, <1>3
  <1>5. ASSUME NEW i \in 0..Len(b)
        PROVE  PartOf(t, SubSeq(b, i + 1, Len(b)), base + i, p)
    <2>1. i \in Nat /\ i <= Len(b) /\ Len(b) <= p - base /\ base + i <= p
      BY <1>1, <1>3, <1>4
    <2>2. SubSeq(SubSeq(t, base + 1, p), i + 1, Len(b)) = SubSeq(t, base + i + 1, base + Len(b))
      BY <1>1, <1>2, <1>4, <2>1, SubSubText
    <2> QED BY <1>1, <1>4, <2>1, <2>2 DEF PartOf
  <1>6. ASSUME NEW i \in 1..Len(b)
        PROVE  PartOf(t, SubSeq(b, 1, i - 1), base, base + (i - 1))
    <2>1. 0 \in Nat /\ i - 1 \in Nat /\ 0 <= i - 1 /\ i - 1 <= p - base
          /\ base <= base + (i - 1) /\ base + (i - 1) <= Len(t)
      BY <1>1, <1>2, <1>3, <1>4
    <2>2. SubSeq(SubSeq(t, base + 1, p), 0 + 1, i - 1) = SubSeq(t, base + 0 + 1, base + (i - 1))
      BY <1>1, <1>2, <2>1, SubSubText
    <2>3. 0 + 1 = 1 /\ base + 0 + 1 = base + 1
      OBVIOUS
    <2> QED BY <1>1, <2>1, <2>2, <2>3 DEF PartOf
  <1>7. ASSUME NEW r \in Nat, p <= r, r <= Len(t)
        PROVE  PartOf(t, b \o SubSeq(t, p + 1, r), base, r)
    <2>1. SubSeq(t, base + 1, p) \o SubSeq(t, p + 1, r) = SubSeq(t, base + 1, r)
      BY <1>1, <1>2, <1>7, JoinedText
    <2> QED BY <1>1, <1>7, <2>1 DEF PartOf
  <1> QED BY <1>3, <1>4, <1>5, <1>6, <1>7

\* What is left of a sequence at some positions, in order.
LEMMA OnlyThese ==
    ASSUME NEW S, NEW s \in Seq(S), NEW P \in SUBSET (1..Len(s))
    PROVE  /\ Only(s, P) \in Seq(S) /\ Len(Only(s, P)) = Cardinality(P) /\ Cardinality(P) \in Nat
           /\ \A j \in 1..Cardinality(P) : InOrder(P)[j] \in P /\ Only(s, P)[j] = s[InOrder(P)[j]]
           /\ \A i \in P : /\ Rank(P, i) \in 1..Cardinality(P)
                           /\ Only(s, P)[Rank(P, i)] = s[i]
  <1> DEFINE o == InOrder(P)
             c == Cardinality(P)
  <1>1. Len(s) \in Nat /\ \A i \in 1..Len(s) : s[i] \in S
    OBVIOUS
  <1>2. /\ o \in Seq(P) /\ Len(o) = c /\ c \in Nat
        /\ \A j \in 1..c : o[j] \in P
        /\ \A i \in P : Rank(P, i) \in 1..c /\ o[Rank(P, i)] = i
    BY <1>1, Ordered, RankOfAll
  <1>3. Only(s, P) = [j \in DOMAIN o |-> s[o[j]]]
    BY DEF Only
  <1> HIDE DEF o, c
  <1>4. DOMAIN o = 1..c
    BY <1>2
  <1>5. \A j \in 1..c : s[o[j]] \in S
    BY <1>1, <1>2
  <1>6. Only(s, P) \in [1..c -> S]
    BY <1>3, <1>4, <1>5
  <1>7. Only(s, P) \in Seq(S) /\ Len(Only(s, P)) = c
    BY <1>2, <1>6
  <1>8. \A j \in 1..c : o[j] \in P /\ Only(s, P)[j] = s[o[j]]
    BY <1>2, <1>3, <1>4
  <1>9. \A i \in P : Rank(P, i) \in 1..c /\ Only(s, P)[Rank(P, i)] = s[i]
    BY <1>2, <1>8
  <1> QED BY <1>2, <1>7, <1>8, <1>9 DEF o, c

\* The pieces of a string between cuts: as many as cuts and one more.
LEMMA PieceAt ==
    ASSUME NEW s \in Strings, NEW cuts \in SUBSET (1..Len(s))
    PROVE  /\ Cardinality(cuts) \in Nat
           /\ Pieces(s, cuts) \in Seq(Strings) /\ Len(Pieces(s, cuts)) = Cardinality(cuts) + 1
           /\ \A k \in 1..(Cardinality(cuts) + 1) :
                /\ k = 1 \/ InOrder(cuts)[k - 1] \in cuts
                /\ k = Cardinality(cuts) + 1 \/ InOrder(cuts)[k] \in cuts
                /\ Pieces(s, cuts)[k] =
                     SubSeq(s, (IF k = 1 THEN 0 ELSE InOrder(cuts)[k - 1]) + 1,
                               (IF k = Cardinality(cuts) + 1 THEN Len(s) + 1 ELSE InOrder(cuts)[k]) - 1)
                /\ (IF k = 1 THEN 0 ELSE InOrder(cuts)[k - 1]) <
                   (IF k = Cardinality(cuts) + 1 THEN Len(s) + 1 ELSE InOrder(cuts)[k])
  <1> DEFINE c == Cardinality(cuts)
             o == InOrder(cuts)
             ends == Append(o, Len(s) + 1)
             from(k) == IF k = 1 THEN 0 ELSE o[k - 1]
             to(k) == IF k = c + 1 THEN Len(s) + 1 ELSE o[k]
  <1>1. /\ Len(s) \in Nat /\ c \in Nat /\ o \in Seq(cuts) /\ Len(o) = c
        /\ \A k \in 1..c : o[k] \in cuts /\ o[k] \in Nat /\ Rank(cuts, o[k]) = k
    <2>1. Len(s) \in Nat /\ \A e \in cuts : e \in Nat
      BY DEF Strings
    <2> QED BY <2>1, Ordered, RankOfAll
  <1>2. /\ ends \in Seq(Nat) /\ Len(ends) = c + 1 /\ DOMAIN ends = 1..(c + 1)
        /\ \A k \in 1..(c + 1) : ends[k] = to(k)
    <2>1. o \in Seq(Nat)
      <3>1. cuts \subseteq Nat
        OBVIOUS
      <3> QED BY <1>1, <3>1, SeqMonotonic
    <2>2. ends \in Seq(Nat) /\ Len(ends) = c + 1
      BY <1>1, <2>1, AppendProperties
    <2>3. \A k \in 1..c : ends[k] = o[k]
      BY <1>1, <2>1, AppendProperties
    <2>4. ends[c + 1] = Len(s) + 1
      BY <1>1, <2>1, AppendProperties
    <2> HIDE DEF ends, c, o
    <2>5. DOMAIN ends = 1..(c + 1)
      BY <2>2
    <2> QED BY <1>1, <2>2, <2>3, <2>4, <2>5
  <1>3. \A k \in 1..(c + 1) : /\ k = 1 \/ o[k - 1] \in cuts
                              /\ k = c + 1 \/ o[k] \in cuts
    BY <1>1
  <1>4. ASSUME NEW k \in 1..(c + 1)
        PROVE  from(k) \in 0..Len(s) /\ to(k) \in 1..(Len(s) + 1) /\ from(k) < to(k)
    <2> HIDE DEF c, o
    <2>1. from(k) \in 0..Len(s) /\ to(k) \in 1..(Len(s) + 1)
      <3>1. \A e \in cuts : e \in 0..Len(s) /\ e \in 1..(Len(s) + 1)
        BY <1>1
      <3>2. 0 \in 0..Len(s) /\ Len(s) + 1 \in 1..(Len(s) + 1)
        BY <1>1
      <3> QED BY <1>3, <3>1, <3>2
    <2>2. CASE k # 1 /\ k # c + 1
      <3>0. k - 1 \in 1..c /\ k \in 1..c
        BY <1>1, <2>2
      <3>1. /\ o[k - 1] \in Nat /\ o[k] \in Nat
            /\ Rank(cuts, o[k - 1]) = k - 1 /\ Rank(cuts, o[k]) = k
        BY <1>1, <3>0
      <3>2. cuts \in Positions
        BY <1>1, RankOfAll
      <3>3. ~(o[k] <= o[k - 1])
        BY <3>1, <3>2, RankGrows
      <3> QED BY <2>1, <2>2, <3>1, <3>3
    <2>3. CASE k = 1 \/ k = c + 1
      BY <1>1, <1>3, <2>1, <2>3
    <2> QED BY <2>1, <2>2, <2>3
  <1>5. Pieces(s, cuts) = [k \in 1..(c + 1) |-> SubSeq(s, from(k) + 1, to(k) - 1)]
    <2>1. Pieces(s, cuts) =
             [k \in DOMAIN ends |-> SubSeq(s, IF k = 1 THEN 1 ELSE ends[k - 1] + 1, ends[k] - 1)]
      BY DEF Pieces, Before
    <2>2. ASSUME NEW k \in 1..(c + 1)
          PROVE  (IF k = 1 THEN 1 ELSE ends[k - 1] + 1) = from(k) + 1 /\ ends[k] - 1 = to(k) - 1
      <3>1. k # 1 => k - 1 \in 1..(c + 1) /\ k - 1 # c + 1
        BY <1>1
      <3> HIDE DEF ends, c, o
      <3>2. k # 1 => ends[k - 1] = o[k - 1]
        BY <1>2, <3>1
      <3> QED BY <1>2, <3>2
    <2> HIDE DEF ends, c, o, from, to
    <2> QED BY <1>2, <2>1, <2>2
  <1>6. ASSUME NEW k \in 1..(c + 1) PROVE SubSeq(s, from(k) + 1, to(k) - 1) \in Strings
    <2>1. from(k) \in Nat /\ to(k) - 1 \in Nat /\ from(k) <= to(k) - 1 /\ to(k) - 1 <= Len(s)
      BY <1>1, <1>4
    <2> HIDE DEF from, to
    <2> QED BY <2>1, SubText DEF Strings
  <1> HIDE DEF from, to, o, c, ends
  <1>7. Pieces(s, cuts) \in Seq(Strings) /\ Len(Pieces(s, cuts)) = c + 1
    <2>1. Pieces(s, cuts) \in [1..(c + 1) -> Strings]
      BY <1>5, <1>6
    <2> QED BY <1>1, <2>1
  <1>8. \A k \in 1..(c + 1) : Pieces(s, cuts)[k] = SubSeq(s, from(k) + 1, to(k) - 1)
    BY <1>5
  <1> QED BY <1>1, <1>3, <1>4, <1>7, <1>8 DEF from, to, o, c

\* Where the k-th piece begins and ends.
PieceFrom(cuts, k) == IF k = 1 THEN 0 ELSE InOrder(cuts)[k - 1]
PieceTo(s, cuts, k) == IF k = Cardinality(cuts) + 1 THEN Len(s) + 1 ELSE InOrder(cuts)[k]

LEMMA PieceEnds ==
    ASSUME NEW s \in Strings, NEW cuts \in SUBSET (1..Len(s)), NEW k \in 1..(Cardinality(cuts) + 1)
    PROVE  /\ PieceFrom(cuts, k) \in {0} \cup cuts /\ PieceTo(s, cuts, k) \in cuts \cup {Len(s) + 1}
           /\ PieceFrom(cuts, k) < PieceTo(s, cuts, k)
           /\ Rank(cuts, PieceFrom(cuts, k)) = k - 1
           /\ \A c \in cuts : ~(PieceFrom(cuts, k) < c /\ c < PieceTo(s, cuts, k))
           /\ Pieces(s, cuts)[k] = SubSeq(s, PieceFrom(cuts, k) + 1, PieceTo(s, cuts, k) - 1)
  <1> DEFINE o == InOrder(cuts)
             n == Cardinality(cuts)
             f == PieceFrom(cuts, k)
             e == PieceTo(s, cuts, k)
  <1>1. /\ Len(s) \in Nat /\ n \in Nat /\ \A j \in 1..n : o[j] \in cuts /\ Rank(cuts, o[j]) = j
        /\ cuts \in Positions /\ (\A c \in cuts : c \in 1..Len(s) /\ Rank(cuts, c) \in 1..n)
        /\ Rank(cuts, 0) = 0
    <2>1. Len(s) \in Nat /\ cuts \in Positions
      BY RankOfAll DEF Strings
    <2> QED BY <2>1, Ordered, RankOfAll, RankStep
  <1>2. /\ f \in {0} \cup cuts /\ e \in cuts \cup {Len(s) + 1} /\ f < e
        /\ Pieces(s, cuts)[k] = SubSeq(s, f + 1, e - 1)
    BY PieceAt DEF PieceFrom, PieceTo
  <1>3. Rank(cuts, f) = k - 1
    <2>1. k # 1 => k - 1 \in 1..n
      BY <1>1
    <2> HIDE DEF n, o
    <2>2. CASE k = 1
      BY <1>1, <2>2 DEF PieceFrom
    <2>3. CASE k # 1
      <3>1. f = o[k - 1]
        BY <2>3 DEF PieceFrom, o
      <3> QED BY <1>1, <2>1, <2>3, <3>1
    <2> QED BY <2>2, <2>3
  <1>4. e \in cuts => Rank(cuts, e) = k
    <2>1. CASE k = n + 1
      BY <1>1, <2>1 DEF PieceTo
    <2>2. CASE k # n + 1
      <3>1. k \in 1..n /\ e = o[k]
        BY <1>1, <2>2 DEF PieceTo
      <3> HIDE DEF n, o, e
      <3> QED BY <1>1, <3>1
    <2> QED BY <2>1, <2>2
  <1>5. e \notin cuts => k = n + 1
    <2>1. k # n + 1 => k \in 1..n /\ e = o[k]
      BY <1>1 DEF PieceTo
    <2> HIDE DEF n, o, e
    <2> QED BY <1>1, <2>1
  <1> HIDE DEF f, e, o, n
  <1>6. ASSUME NEW c \in cuts, f < c, c < e
        PROVE  FALSE
    <2>1. f \in Nat /\ c \in Nat /\ e \in Nat
      BY <1>1, <1>2
    <2>2. Rank(cuts, f) < Rank(cuts, c)
      BY <1>1, <1>6, <2>1, RankGrows
    <2>3. e \in cuts => Rank(cuts, c) < Rank(cuts, e)
      BY <1>1, <1>6, <2>1, RankGrows
    <2>4. Rank(cuts, c) \in 1..n /\ k \in 1..(n + 1)
      BY <1>1 DEF n
    <2> QED BY <1>1, <1>3, <1>4, <1>5, <2>2, <2>3, <2>4
  <1> QED BY <1>2, <1>3, <1>6 DEF f, e

\* No cut is between b and e.
Neighbours(cuts, b, e) == b < e /\ \A c \in cuts : ~(b < c /\ c < e)

\* The piece between two neighbouring cuts, by the rank of the first.
LEMMA PieceBetween ==
    ASSUME NEW s \in Strings, NEW cuts \in SUBSET (1..Len(s)),
           NEW b \in Nat, NEW e \in Nat, b = 0 \/ b \in cuts, e \in cuts \/ e = Len(s) + 1,
           Neighbours(cuts, b, e)
    PROVE  /\ Rank(cuts, b) + 1 \in 1..(Cardinality(cuts) + 1)
           /\ Pieces(s, cuts)[Rank(cuts, b) + 1] = SubSeq(s, b + 1, e - 1)
           /\ e \in cuts => Rank(cuts, e) = Rank(cuts, b) + 1
           /\ e \notin cuts => Cardinality(cuts) = Rank(cuts, b)
  <1> DEFINE n == Cardinality(cuts)
             k == Rank(cuts, b) + 1
             f == PieceFrom(cuts, k)
             g == PieceTo(s, cuts, k)
  <1>0. b < e /\ \A c \in cuts : ~(b < c /\ c < e)
    BY DEF Neighbours
  <1>1. /\ Len(s) \in Nat /\ n \in Nat /\ cuts \in Positions
        /\ (\A c \in cuts : c \in 1..Len(s) /\ Rank(cuts, c) \in 1..n)
        /\ Rank(cuts, 0) = 0 /\ Rank(cuts, Len(s)) = n
    <2>1. Len(s) \in Nat /\ cuts \in Positions
      BY RankOfAll DEF Strings
    <2> QED BY <2>1, Ordered, RankOfAll, RankStep
  <1>2. b \in Nat /\ e \in Nat /\ b <= Len(s) /\ e <= Len(s) + 1
    BY <1>1, <1>0
  <1>3. Rank(cuts, b) \in 0..n /\ k \in 1..(n + 1)
    BY <1>1
  <1> HIDE DEF n
  <1>4. e \in cuts => Rank(cuts, e) = k
    <2> SUFFICES ASSUME e \in cuts PROVE Rank(cuts, e) = k
      OBVIOUS
    <2>1. e - 1 \in Nat /\ b <= e - 1 /\ (e - 1) + 1 = e
      BY <1>2, <1>0
    <2>2. \A c \in cuts : ~(b < c /\ c <= e - 1)
      BY <1>1, <1>2, <1>0
    <2>3. Rank(cuts, e - 1) = Rank(cuts, b)
      BY <1>1, <1>2, <2>1, <2>2, RankGrows
    <2>4. Rank(cuts, e) = Rank(cuts, e - 1) + 1
      BY <1>1, <2>1, RankStep
    <2> QED BY <2>3, <2>4
  <1>5. e \notin cuts => n = Rank(cuts, b)
    <2> SUFFICES ASSUME e \notin cuts PROVE n = Rank(cuts, b)
      OBVIOUS
    <2>1. e = Len(s) + 1
      OBVIOUS
    <2>2. \A c \in cuts : ~(b < c /\ c <= Len(s))
      BY <1>1, <2>1, <1>0
    <2> QED BY <1>1, <1>2, <2>2, RankGrows
  <1>6. k \in 1..(Cardinality(cuts) + 1)
    BY <1>3 DEF n
  <1> HIDE DEF k
  <1>7. /\ f \in {0} \cup cuts /\ g \in cuts \cup {Len(s) + 1} /\ f < g /\ Rank(cuts, f) = k - 1
        /\ \A c \in cuts : ~(f < c /\ c < g)
        /\ Pieces(s, cuts)[k] = SubSeq(s, f + 1, g - 1)
    BY <1>6, PieceEnds
  <1> HIDE DEF f, g
  <1>8. f \in Nat /\ g \in Nat /\ Rank(cuts, b) = k - 1
    BY <1>1, <1>3, <1>7 DEF k
  <1>9. f = b
    <2>1. ~(f < b)
      <3>1. b \in cuts /\ f < b => Rank(cuts, f) < Rank(cuts, b)
        BY <1>1, <1>2, <1>8, RankGrows
      <3> QED BY <1>3, <1>2, <1>7, <1>8, <3>1 DEF k
    <2>2. ~(b < f)
      <3>1. f \in cuts /\ b < f => Rank(cuts, b) < Rank(cuts, f)
        BY <1>1, <1>2, <1>8, RankGrows
      <3> QED BY <1>3, <1>2, <1>7, <1>8, <3>1 DEF k
    <2> QED BY <1>2, <1>8, <2>1, <2>2
  <1>10. g = e
    <2>1. e \in cuts => ~(e < g)
      BY <1>7, <1>9, <1>0
    <2>2. g \in cuts => ~(g < e)
      BY <1>7, <1>9, <1>0
    <2> QED BY <1>1, <1>2, <1>7, <1>8, <1>9, <2>1, <2>2, <1>0
  <1> QED BY <1>3, <1>4, <1>5, <1>7, <1>9, <1>10 DEF k, n

-----------------------------------------------------------------------------
(* What a scan finds *)

Ends(t) == {i \in DOMAIN t : t[i] = "n" /\ Unquoted(t, i)}

\* The raw records of a text, and which of them are rows.
Raw(t)  == Pieces(t, Ends(t))
Data(t) == {k \in 2..Len(Raw(t)) : ~Blank(Raw(t)[k])}
RawRows(t) == Only(Raw(t), Data(t))

\* No record ends behind a and not behind b.
Clear(t, a, b) == \A e \in Ends(t) : ~(a < e /\ e <= b)

LEMMA EndsType ==
    ASSUME NEW t \in Strings
    PROVE  /\ Len(t) \in Nat
           /\ Ends(t) \in SUBSET (1..Len(t)) /\ Ends(t) \in Positions /\ Cardinality(Ends(t)) \in Nat
           /\ Rank(Ends(t), 0) = 0 /\ Rank(Ends(t), Len(t)) = Cardinality(Ends(t))
           /\ \A i \in 1..Len(t) : i \in Ends(t) <=> t[i] = "n" /\ ~Inside(t, i)
           /\ Raw(t) \in Seq(Strings) /\ Len(Raw(t)) = Cardinality(Ends(t)) + 1
  <1>1. Len(t) \in Nat /\ DOMAIN t = 1..Len(t)
    BY DEF Strings
  <1>2. Ends(t) \in SUBSET (1..Len(t))
    BY <1>1 DEF Ends
  <1>3. \A i \in 1..Len(t) : i \in Ends(t) <=> t[i] = "n" /\ ~Inside(t, i)
    <2> SUFFICES ASSUME NEW i \in 1..Len(t)
                 PROVE  i \in Ends(t) <=> t[i] = "n" /\ ~Inside(t, i)
      OBVIOUS
    <2>1. 0 \in 0..Len(t) /\ i \in 0..Len(t) /\ TRUE \in BOOLEAN
      BY <1>1
    <2>2. Unquoted(t, i) <=> ~Inside(t, i)
      BY <2>1, QuotedBy
    <2> QED BY <1>1, <2>2 DEF Ends
  <1>4. /\ Ends(t) \in Positions /\ Cardinality(Ends(t)) \in Nat
        /\ Rank(Ends(t), Len(t)) = Cardinality(Ends(t))
    BY <1>1, <1>2, RankOfAll
  <1>5. Rank(Ends(t), 0) = 0
    <2>1. 0 \in Nat
      OBVIOUS
    <2> QED BY <1>4, <2>1, RankStep
  <1>6. Raw(t) \in Seq(Strings) /\ Len(Raw(t)) = Cardinality(Ends(t)) + 1
    BY <1>2, PieceAt DEF Raw
  <1> QED BY <1>1, <1>2, <1>3, <1>4, <1>5, <1>6

\* The quotes of a part of t, which begins behind position base.
LEMMA InsidePart ==
    ASSUME NEW t \in Strings, NEW base \in Nat, NEW p \in Nat, NEW b, PartOf(t, b, base, p)
    PROVE  \A i \in 0..Len(b) : Inside(b, i) <=> ~(Inside(t, base) <=> Inside(t, base + i))
  <1>0. /\ b \in Strings /\ base + Len(b) = p /\ \A i \in 1..Len(b) : b[i] = t[base + i]
    BY Part
  <1>01. p <= Len(t)
    BY DEF PartOf
  <1>1. Len(b) \in Nat /\ Len(t) \in Nat
    BY <1>0 DEF Strings
  <1>2. /\ Quotes(t) \in Positions /\ Quotes(b) \in Positions
        /\ \A i \in Nat : Rank(Quotes(t), i) \in Nat /\ Rank(Quotes(b), i) \in Nat
    BY <1>0, QuoteRanks
  <1>3. \A i \in 1..Len(b) : i \in Quotes(b) <=> base + i \in Quotes(t)
    BY <1>0, <1>01, <1>1 DEF Quotes
  <1>4. PICK P \in Positions : P = Quotes(t)
    BY <1>2
  <1>5. PICK Q \in Positions : Q = Quotes(b)
    BY <1>2
  <1>6. PICK n \in Nat : n = Len(b)
    BY <1>1
  <1>7. \A i \in 0..n : Rank(P, base + i) = Rank(P, base) + Rank(Q, i)
    <2>1. Shifted(P, Q, base, n)
      BY <1>3, <1>4, <1>5, <1>6 DEF Shifted
    <2> QED BY <2>1, RankShift
  <1> SUFFICES ASSUME NEW i \in 0..Len(b)
               PROVE  Inside(b, i) <=> ~(Inside(t, base) <=> Inside(t, base + i))
    OBVIOUS
  <1>8. i \in Nat /\ base + i \in Nat
    BY <1>1
  <1>9. PICK x \in Nat : x = Rank(Quotes(t), base)
    BY <1>2
  <1>10. PICK y \in Nat : y = Rank(Quotes(t), base + i)
    BY <1>2, <1>8
  <1>11. PICK z \in Nat : z = Rank(Quotes(b), i)
    BY <1>2, <1>8
  <1>12. y = x + z
    BY <1>4, <1>5, <1>6, <1>7, <1>9, <1>10, <1>11
  <1>13. x <= y /\ y - x = z
    BY <1>12
  <1>14. ((y - x) % 2 = 1) <=> ~((x % 2 = 1) <=> (y % 2 = 1))
    BY <1>13, Parity
  <1> QED BY <1>9, <1>10, <1>11, <1>13, <1>14 DEF Inside

\* A scan of a part of t that begins with the right flag knows where t's
\* records end, and leaves the right flag.
LEMMA ScanFinds ==
    ASSUME NEW t \in Strings, NEW base \in Nat, NEW p \in Nat, NEW b, PartOf(t, b, base, p),
           NEW from \in 0..Len(b), NEW q \in BOOLEAN, q <=> Inside(t, base + from),
           Clear(t, base, base + from)
    PROVE  /\ Terminators(b, from, q) = {i \in 1..Len(b) : base + i \in Ends(t)}
           /\ Quoted(b, from, q, Len(b)) <=> Inside(t, p)
  <1>0. /\ b \in Strings /\ base + Len(b) = p /\ \A i \in 1..Len(b) : b[i] = t[base + i]
    BY Part
  <1>01. p <= Len(t)
    BY DEF PartOf
  <1>1. Len(b) \in Nat /\ Len(t) \in Nat /\ from \in Nat /\ from <= Len(b)
    BY <1>0 DEF Strings
  <1>2. \A i \in 0..Len(b) : Inside(b, i) <=> ~(Inside(t, base) <=> Inside(t, base + i))
    BY InsidePart
  <1>3. ASSUME NEW i \in from..Len(b)
        PROVE  Quoted(b, from, q, i) <=> Inside(t, base + i)
    <2>1. i \in 0..Len(b)
      BY <1>1
    <2>2. Quoted(b, from, q, i) <=> (q <=> (Inside(b, from) <=> Inside(b, i)))
      BY <1>0, QuotedBy
    <2>3. Inside(b, from) <=> ~(Inside(t, base) <=> Inside(t, base + from))
      BY <1>2
    <2>4. Inside(b, i) <=> ~(Inside(t, base) <=> Inside(t, base + i))
      BY <1>2, <2>1
    <2>5. q <=> Inside(t, base + from)
      OBVIOUS
    <2> QED BY <2>2, <2>3, <2>4, <2>5
  <1>4. Quoted(b, from, q, Len(b)) <=> Inside(t, p)
    <2>1. Len(b) \in from..Len(b)
      BY <1>1
    <2> QED BY <1>0, <1>3, <2>1
  <1>5. ASSUME NEW i \in 1..Len(b)
        PROVE  i \in Terminators(b, from, q) <=> base + i \in Ends(t)
    <2>1. base + i \in 1..Len(t)
      BY <1>0, <1>01, <1>1
    <2>2. base + i \in Ends(t) <=> b[i] = "n" /\ ~Inside(t, base + i)
      <3>1. \A k \in 1..Len(t) : k \in Ends(t) <=> t[k] = "n" /\ ~Inside(t, k)
        BY EndsType
      <3> QED BY <1>0, <2>1, <3>1
    <2>3. CASE i <= from
      <3>1. base + i \notin Ends(t)
        BY <1>1, <2>3 DEF Clear
      <3>2. i \notin (from + 1)..Len(b)
        BY <1>1, <2>3
      <3> QED BY <3>1, <3>2 DEF Terminators
    <2>4. CASE from < i
      <3>1. i \in (from + 1)..Len(b) /\ i \in from..Len(b)
        BY <1>1, <2>4
      <3>2. Quoted(b, from, q, i) <=> Inside(t, base + i)
        BY <1>3, <3>1
      <3> QED BY <2>2, <3>1, <3>2 DEF Terminators
    <2> QED BY <1>1, <2>3, <2>4
  <1>6. \A i \in Terminators(b, from, q) : i \in 1..Len(b)
    BY <1>1 DEF Terminators
  <1> QED BY <1>4, <1>5, <1>6

\* The pieces such a scan completes are the next of the text's.
LEMMA PieceFound ==
    ASSUME NEW t \in Strings, NEW X \in SUBSET (1..Len(t)),
           NEW base \in Nat, base = 0 \/ base \in X,
           NEW p \in Nat, NEW b, PartOf(t, b, base, p),
           NEW E \in SUBSET (1..Len(b)), Shifted(X, E, base, Len(b)),
           NEW k \in 1..Cardinality(E)
    PROVE  /\ Rank(X, base) + k \in 1..Cardinality(X)
           /\ Pieces(b, E)[k] = Pieces(t, X)[Rank(X, base) + k]
  <1> DEFINE f == PieceFrom(E, k)
             e == PieceTo(b, E, k)
             m == Rank(X, base)
  <1>0. b \in Strings /\ base + Len(b) = p
    BY Part
  <1>01. base <= p /\ p <= Len(t) /\ b = SubSeq(t, base + 1, p)
    BY DEF PartOf
  <1>1. /\ Len(t) \in Nat /\ Len(b) \in Nat /\ base \in Nat
        /\ X \in Positions /\ Cardinality(X) \in Nat
        /\ E \in Positions /\ Cardinality(E) \in Nat
    <2>1. Len(t) \in Nat /\ Len(b) \in Nat
      BY <1>0 DEF Strings
    <2> QED BY <2>1, RankOfAll
  <1>2. k \in 1..(Cardinality(E) + 1) /\ k # Cardinality(E) + 1 /\ k \in Nat
    BY <1>1
  <1>3. /\ f \in {0} \cup E /\ f < e /\ Rank(E, f) = k - 1
        /\ \A j \in E : ~(f < j /\ j < e)
        /\ Pieces(b, E)[k] = SubSeq(b, f + 1, e - 1)
    BY <1>0, <1>2, PieceEnds
  <1>4. e \in E
    BY <1>0, <1>2, PieceAt DEF PieceTo
  <1> HIDE DEF f, e
  <1>5. f \in 0..Len(b) /\ e \in 1..Len(b) /\ f \in Nat /\ e \in Nat
    BY <1>1, <1>3, <1>4
  <1>6. Rank(X, base + f) = Rank(X, base) + Rank(E, f)
    <2>1. \A i \in 0..Len(b) : Rank(X, base + i) = Rank(X, base) + Rank(E, i)
      BY <1>1, RankShift
    <2> QED BY <1>5, <2>1
  <1>7. PICK g \in Nat : g = base + f
    BY <1>1, <1>5
  <1>8. PICK h \in Nat : h = base + e
    BY <1>1, <1>5
  <1>9. (g = 0 \/ g \in X) /\ h \in X /\ g < h
    <2>1. \A i \in E : base + i \in X
      BY DEF Shifted
    <2>2. g = 0 \/ g \in X
      BY <1>1, <1>3, <1>7, <2>1
    <2> QED BY <1>1, <1>3, <1>4, <1>5, <1>7, <1>8, <2>1, <2>2
  <1>10. \A j \in X : ~(g < j /\ j < h)
    <2> SUFFICES ASSUME NEW j \in X, g < j, j < h PROVE FALSE
      OBVIOUS
    <2>1. j \in Nat
      BY <1>1
    <2>2. j - base \in 1..Len(b) /\ base + (j - base) = j /\ f < j - base /\ j - base < e
      BY <1>1, <1>5, <1>7, <1>8, <2>1
    <2>3. j - base \in E
      BY <2>2 DEF Shifted
    <2> QED BY <1>3, <2>2, <2>3
  <1>11. /\ Pieces(t, X)[Rank(X, g) + 1] = SubSeq(t, g + 1, h - 1)
         /\ Rank(X, h) = Rank(X, g) + 1
    <2> HIDE DEF m
    <2>1. Neighbours(X, g, h)
      BY <1>9, <1>10 DEF Neighbours
    <2>2. (g = 0 \/ g \in X) /\ h \in X
      BY <1>9
    <2>3. /\ Pieces(t, X)[Rank(X, g) + 1] = SubSeq(t, g + 1, h - 1)
          /\ h \in X => Rank(X, h) = Rank(X, g) + 1
      BY <2>1, <2>2, PieceBetween, SMTT(30)
    <2> QED BY <2>2, <2>3
  <1>12. Rank(X, h) \in 1..Cardinality(X)
    BY <1>1, <1>9, Ordered
  <1>13. Rank(X, base) + k = Rank(X, g) + 1 /\ Rank(X, base) + k = Rank(X, h)
    <2>1. Rank(X, base) \in Nat
      BY <1>1, RankStep
    <2>2. Rank(X, g) = Rank(X, base) + (k - 1)
      BY <1>3, <1>6, <1>7
    <2>3. Rank(X, h) = Rank(X, g) + 1
      BY <1>11
    <2> QED BY <1>2, <2>1, <2>2, <2>3
  <1>14. SubSeq(b, f + 1, e - 1) = SubSeq(t, g + 1, h - 1)
    <2>1. e - 1 \in Nat /\ f <= e - 1 /\ e - 1 <= p - base /\ base + (e - 1) = h - 1
      BY <1>0, <1>1, <1>3, <1>5, <1>8
    <2>2. t \in Seq(Symbols)
      BY DEF Strings
    <2>3. SubSeq(SubSeq(t, base + 1, p), f + 1, e - 1) = SubSeq(t, base + f + 1, base + (e - 1))
      BY <1>01, <1>1, <1>5, <2>1, <2>2, SubSubText
    <2> QED BY <1>01, <1>7, <2>1, <2>3
  <1> QED BY <1>3, <1>11, <1>12, <1>13, <1>14

\* The greatest of some numbers that have a bound.
LEMMA Greatest ==
    ASSUME NEW n \in Nat, NEW P \in SUBSET (0..n), P # {}
    PROVE  Max(P) \in P /\ \A i \in P : i <= Max(P)
  <1> DEFINE T == {n - i : i \in P}
  <1>0. \A i \in P : i \in 0..n /\ n - i \in Nat
    <2>1. \A i \in P : i \in 0..n
      OBVIOUS
    <2>2. \A i \in 0..n : n - i \in Nat
      OBVIOUS
    <2> QED BY <2>1, <2>2
  <1>1. T \in SUBSET Nat /\ T # {}
    BY <1>0
  <1>2. PICK w \in T : \A y \in T : w <= y
    BY <1>1, Least
  <1>3. PICK z \in P : w = n - z
    BY <1>2
  <1>4. ASSUME NEW y \in P PROVE z >= y
    <2>1. n - z <= n - y
      BY <1>2, <1>3
    <2>2. y \in Nat /\ z \in Nat
      BY <1>0
    <2> QED BY <2>1, <2>2
  <1>5. Max(P) \in P /\ \A i \in P : Max(P) >= i
    BY <1>4 DEF Max
  <1> QED BY <1>5

\* The first and the last of some positions.
LEMMA FirstLast ==
    ASSUME NEW n \in Nat, NEW P \in SUBSET (1..n), P # {}
    PROVE  /\ Min(P) \in P /\ \A i \in P : Min(P) <= i
           /\ Max(P) \in P /\ \A i \in P : i <= Max(P)
  <1>1. PICK x \in P : \A y \in P : x <= y
    <2>1. P \in SUBSET Nat
      OBVIOUS
    <2> QED BY <2>1, Least
  <1>3. \A i \in P : i \in Nat
    OBVIOUS
  <1>4. Min(P) \in P /\ \A i \in P : Min(P) <= i
    BY <1>1, <1>3 DEF Min
  <1>5. Max(P) \in P /\ \A i \in P : i <= Max(P)
    <2>1. P \in SUBSET (0..n)
      OBVIOUS
    <2> QED BY <2>1, Greatest
  <1> QED BY <1>4, <1>5

\* A record of t begins behind base.
Begins(t, base) == base = 0 \/ base \in Ends(t)

\* A scan of a part that begins with a record: the records it completes are
\* the next of the text's, and behind the last of them none ends.
LEMMA Scanning ==
    ASSUME NEW t \in Strings, NEW base \in Nat, NEW p \in Nat, NEW b, PartOf(t, b, base, p),
           Begins(t, base), NEW from \in 0..Len(b), NEW q \in BOOLEAN,
           q <=> Inside(t, base + from), Clear(t, base, base + from),
           NEW E, E = Terminators(b, from, q)
    PROVE  /\ E \in SUBSET (1..Len(b)) /\ Cardinality(E) \in Nat
           /\ Quoted(b, from, q, Len(b)) <=> Inside(t, p)
           /\ Rank(Ends(t), base) \in Nat
           /\ Rank(Ends(t), p) = Rank(Ends(t), base) + Cardinality(E)
           /\ \A k \in 1..Cardinality(E) :
                /\ Rank(Ends(t), base) + k \in 1..Cardinality(Ends(t))
                /\ Pieces(b, E)[k] = Raw(t)[Rank(Ends(t), base) + k]
           /\ \A i \in 1..Len(b) : i \in E <=> base + i \in Ends(t)
           /\ E = {} => Clear(t, base, p)
           /\ E # {} => Max(E) \in 1..Len(b) /\ Begins(t, base + Max(E)) /\ Clear(t, base + Max(E), p)
  <1>1. b \in Strings /\ Len(b) \in Nat /\ base + Len(b) = p /\ \A i \in 1..Len(b) : b[i] = t[base + i]
    BY Part
  <1>2. /\ E = {i \in 1..Len(b) : base + i \in Ends(t)}
        /\ Quoted(b, from, q, Len(b)) <=> Inside(t, p)
    BY ScanFinds
  <1>3. /\ Len(t) \in Nat /\ Ends(t) \in SUBSET (1..Len(t)) /\ Ends(t) \in Positions /\ Rank(Ends(t), 0) = 0
    BY EndsType
  <1>4. E \in SUBSET (1..Len(b)) /\ \A i \in 1..Len(b) : i \in E <=> base + i \in Ends(t)
    BY <1>2
  <1>41. Shifted(Ends(t), E, base, Len(b))
    BY <1>4 DEF Shifted
  <1>5. E \in Positions /\ Cardinality(E) \in Nat /\ Rank(E, Len(b)) = Cardinality(E)
    BY <1>1, <1>4, RankOfAll
  <1>6. Rank(Ends(t), base) \in Nat
    BY <1>3, RankStep
  <1>7. Rank(Ends(t), p) = Rank(Ends(t), base) + Cardinality(E)
    <2>1. \A i \in 0..Len(b) : Rank(Ends(t), base + i) = Rank(Ends(t), base) + Rank(E, i)
      BY <1>1, <1>3, <1>5, <1>41, RankShift
    <2>2. Len(b) \in 0..Len(b)
      BY <1>1
    <2>3. Rank(Ends(t), base + Len(b)) = Rank(Ends(t), base) + Rank(E, Len(b))
      BY <2>1, <2>2
    <2> QED BY <1>1, <1>5, <2>3
  <1>8. \A k \in 1..Cardinality(E) :
          /\ Rank(Ends(t), base) + k \in 1..Cardinality(Ends(t))
          /\ Pieces(b, E)[k] = Raw(t)[Rank(Ends(t), base) + k]
    <2>1. base = 0 \/ base \in Ends(t)
      BY DEF Begins
    <2> SUFFICES ASSUME NEW k \in 1..Cardinality(E)
                 PROVE  /\ Rank(Ends(t), base) + k \in 1..Cardinality(Ends(t))
                        /\ Pieces(b, E)[k] = Pieces(t, Ends(t))[Rank(Ends(t), base) + k]
      BY DEF Raw
    <2> QED BY <1>3, <1>4, <1>41, <2>1, PieceFound
  <1>9. \A e \in Ends(t) : base < e /\ e <= p => e - base \in E
    <2> SUFFICES ASSUME NEW e \in Ends(t), base < e, e <= p PROVE e - base \in E
      OBVIOUS
    <2>1. e \in Nat
      BY <1>3
    <2>2. e - base \in 1..Len(b) /\ base + (e - base) = e
      BY <1>1, <2>1
    <2> QED BY <1>4, <2>2
  <1>10. E = {} => Clear(t, base, p)
    BY <1>9 DEF Clear
  <1>11. ASSUME E # {}
         PROVE  Max(E) \in 1..Len(b) /\ Begins(t, base + Max(E)) /\ Clear(t, base + Max(E), p)
    <2>1. Max(E) \in E /\ \A i \in E : i <= Max(E)
      BY <1>1, <1>4, <1>11, FirstLast
    <2>2. Max(E) \in 1..Len(b) /\ Begins(t, base + Max(E))
      BY <1>4, <2>1 DEF Begins
    <2>3. Clear(t, base + Max(E), p)
      <3> SUFFICES ASSUME NEW e \in Ends(t), base + Max(E) < e, e <= p PROVE FALSE
        BY DEF Clear
      <3>1. e \in Nat /\ Max(E) \in Nat
        BY <1>3, <2>2
      <3>2. base < e /\ ~(e - base <= Max(E))
        BY <3>1
      <3> QED BY <1>9, <2>1, <3>2
    <2> QED BY <2>2, <2>3
  <1> QED BY <1>2, <1>4, <1>5, <1>6, <1>7, <1>8, <1>10, <1>11

\* A record that none ended yet is the beginning of the text's next one.
LEMMA UnderWay ==
    ASSUME NEW t \in Strings, NEW base \in Nat, NEW p \in Nat, NEW b, PartOf(t, b, base, p),
           Begins(t, base), Clear(t, base, p)
    PROVE  /\ Rank(Ends(t), base) + 1 \in 1..Len(Raw(t))
           /\ Len(b) <= Len(Raw(t)[Rank(Ends(t), base) + 1])
           /\ p = Len(t) => /\ Raw(t)[Rank(Ends(t), base) + 1] = b
                            /\ Rank(Ends(t), base) + 1 = Len(Raw(t))
           /\ \A e \in Ends(t) : base < e /\ (\A i \in Ends(t) : ~(base < i /\ i < e)) =>
                /\ Raw(t)[Rank(Ends(t), base) + 1] = SubSeq(t, base + 1, e - 1)
                /\ Rank(Ends(t), e) = Rank(Ends(t), base) + 1
  <1> DEFINE X == Ends(t)
  <1>1. /\ base <= p /\ p <= Len(t) /\ b = SubSeq(t, base + 1, p) /\ Len(b) = p - base
    <2>1. Len(b) = p - base
      BY Part
    <2> QED BY <2>1 DEF PartOf
  <1>2. /\ Len(t) \in Nat /\ X \in SUBSET (1..Len(t)) /\ X \in Positions /\ Cardinality(X) \in Nat
        /\ Raw(t) = Pieces(t, X) /\ Len(Raw(t)) = Cardinality(X) + 1
    BY EndsType DEF Raw
  <1>3. base = 0 \/ base \in X
    BY DEF Begins
  <1>4. \A i \in X : ~(base < i /\ i <= p)
    BY DEF Clear
  <1> HIDE DEF X
  <1>5. ASSUME NEW e \in Nat, e \in X \/ e = Len(t) + 1, Neighbours(X, base, e)
        PROVE  /\ Rank(X, base) + 1 \in 1..Len(Raw(t))
               /\ Raw(t)[Rank(X, base) + 1] = SubSeq(t, base + 1, e - 1)
               /\ e \in X => Rank(X, e) = Rank(X, base) + 1
               /\ e \notin X => Cardinality(X) = Rank(X, base)
    BY <1>2, <1>3, <1>5, PieceBetween
  <1>6. \E e \in Nat : (e \in X \/ e = Len(t) + 1) /\ Neighbours(X, base, e) /\ p < e
    <2>1. CASE \A i \in X : ~(p < i)
      <3>1. \A c \in X : ~(base < c /\ c < Len(t) + 1)
        BY <1>2, <1>4, <2>1
      <3>2. Neighbours(X, base, Len(t) + 1)
        BY <1>1, <1>2, <3>1 DEF Neighbours
      <3> QED BY <1>1, <1>2, <3>2
    <2>2. CASE {i \in X : p < i} # {}
      <3> DEFINE T == {i \in X : p < i}
      <3>1. T \in SUBSET Nat /\ T # {}
        <4>1. \A i \in X : i \in Nat
          BY <1>2
        <4> QED BY <2>2, <4>1
      <3>2. PICK e \in T : \A y \in T : e <= y
        BY <3>1, Least
      <3>3. e \in X /\ e \in Nat /\ p < e
        BY <3>1, <3>2
      <3>4. \A c \in X : ~(base < c /\ c < e)
        <4> SUFFICES ASSUME NEW c \in X, base < c, c < e PROVE FALSE
          OBVIOUS
        <4>1. c \in Nat
          BY <1>2
        <4>2. p < c
          BY <1>4, <4>1
        <4>3. e <= c
          BY <3>2, <4>2
        <4> QED BY <3>3, <4>1, <4>3
      <3>5. Neighbours(X, base, e)
        BY <1>1, <3>3, <3>4 DEF Neighbours
      <3> QED BY <3>3, <3>5
    <2> QED BY <2>1, <2>2
  <1>7. PICK e \in Nat : (e \in X \/ e = Len(t) + 1) /\ Neighbours(X, base, e) /\ p < e
    BY <1>6
  <1>8. /\ Rank(X, base) + 1 \in 1..Len(Raw(t))
        /\ Raw(t)[Rank(X, base) + 1] = SubSeq(t, base + 1, e - 1)
        /\ e \notin X => Cardinality(X) = Rank(X, base)
    BY <1>5, <1>7
  <1>9. e <= Len(t) + 1
    BY <1>2, <1>7
  <1>10. Len(b) <= Len(Raw(t)[Rank(X, base) + 1])
    <2>1. e - 1 \in Nat /\ base <= e - 1 /\ e - 1 <= Len(t)
      BY <1>1, <1>2, <1>7, <1>9
    <2>2. Len(SubSeq(t, base + 1, e - 1)) = (e - 1) - base
      BY <2>1, SubText DEF Strings
    <2>3. p - base <= (e - 1) - base
      BY <1>7
    <2> QED BY <1>1, <1>8, <2>2, <2>3
  <1>11. ASSUME p = Len(t)
         PROVE  Raw(t)[Rank(X, base) + 1] = b /\ Rank(X, base) + 1 = Len(Raw(t))
    <2>1. e = Len(t) + 1 /\ e \notin X
      BY <1>2, <1>7, <1>9, <1>11
    <2>2. e - 1 = p
      BY <1>2, <1>11, <2>1
    <2> QED BY <1>1, <1>2, <1>8, <2>1, <2>2
  <1>12. ASSUME NEW f \in X, base < f, \A i \in X : ~(base < i /\ i < f)
         PROVE  /\ Raw(t)[Rank(X, base) + 1] = SubSeq(t, base + 1, f - 1)
                /\ Rank(X, f) = Rank(X, base) + 1
    <2>1. f \in Nat /\ Neighbours(X, base, f)
      BY <1>2, <1>12 DEF Neighbours
    <2> QED BY <1>5, <2>1
  <1> QED BY <1>8, <1>10, <1>11, <1>12 DEF X

-----------------------------------------------------------------------------
(* Records and rows *)

LEMMA ChompKeeps ==
    ASSUME NEW s \in Strings
    PROVE  /\ Chomp(s) \in Strings /\ Len(Chomp(s)) \in Nat /\ Len(s) \in Nat /\ Len(Chomp(s)) <= Len(s)
           /\ Blank(Chomp(s)) <=> Blank(s)
  <1>1. Len(s) \in Nat /\ DOMAIN s = 1..Len(s) /\ s \in Seq(Symbols)
    BY DEF Strings
  <1>2. CASE s # <<>> /\ Last(s) = "r"
    <2>1. Chomp(s) = SubSeq(s, 1, Len(s) - 1) /\ s[Len(s)] = "r" /\ Len(s) # 0
      BY <1>1, <1>2 DEF Chomp, Front, Last
    <2>2. 0 \in Nat /\ Len(s) - 1 \in Nat /\ 0 <= Len(s) - 1 /\ Len(s) - 1 <= Len(s) /\ 0 + 1 = 1
      BY <1>1, <2>1
    <2>3. /\ SubSeq(s, 0 + 1, Len(s) - 1) \in Seq(Symbols)
          /\ Len(SubSeq(s, 0 + 1, Len(s) - 1)) = (Len(s) - 1) - 0
          /\ \A i \in 1..((Len(s) - 1) - 0) : SubSeq(s, 0 + 1, Len(s) - 1)[i] = s[0 + i]
      BY <1>1, <2>2, SubText
    <2>4. PICK c : c = Chomp(s)
      OBVIOUS
    <2>5. c \in Strings /\ Len(c) = Len(s) - 1 /\ \A i \in 1..(Len(s) - 1) : c[i] = s[i]
      BY <1>1, <2>1, <2>2, <2>3, <2>4 DEF Strings
    <2>6. DOMAIN c = 1..(Len(s) - 1)
      BY <1>1, <2>5 DEF Strings
    <2>7. Blank(c) <=> Blank(s)
      <3>1. ASSUME Blank(c) PROVE Blank(s)
        <4> SUFFICES ASSUME NEW i \in 1..Len(s) PROVE s[i] \in Whitespace
          BY <1>1 DEF Blank
        <4>1. CASE i = Len(s)
          BY <2>1, <4>1 DEF Whitespace
        <4>2. CASE i # Len(s)
          <5>0. Len(s) \in Nat
            BY <1>1
          <5>1. i \in 1..(Len(s) - 1)
            BY <4>2, <5>0
          <5> QED BY <2>5, <2>6, <3>1, <5>1 DEF Blank
        <4> QED BY <4>1, <4>2
      <3>2. ASSUME Blank(s) PROVE Blank(c)
        <4> SUFFICES ASSUME NEW i \in 1..(Len(s) - 1) PROVE c[i] \in Whitespace
          BY <2>6 DEF Blank
        <4>1. i \in DOMAIN s /\ c[i] = s[i]
          BY <1>1, <2>5
        <4> QED BY <3>2, <4>1 DEF Blank
      <3> QED BY <3>1, <3>2
    <2> QED BY <1>1, <2>2, <2>4, <2>5, <2>7
  <1>3. CASE ~(s # <<>> /\ Last(s) = "r")
    <2>1. Chomp(s) = s
      BY <1>3 DEF Chomp
    <2> QED BY <1>1, <2>1
  <1> QED BY <1>2, <1>3

\* What a raw record may be handed over as.
Forms(r) == {r, Chomp(r)}

\* The records in found are those of t behind the m-th.
Records(t, found, m) ==
    /\ found \in Seq(Strings) /\ m + Len(found) <= Len(Raw(t))
    /\ \A k \in 1..Len(found) : found[k] \in Forms(Raw(t)[m + k])

LEMMA DataType ==
    ASSUME NEW t \in Strings
    PROVE  /\ Len(Raw(t)) \in Nat /\ Data(t) \in SUBSET (1..Len(Raw(t))) /\ Data(t) \in Positions
           /\ RawRows(t) \in Seq(Strings) /\ Len(RawRows(t)) = Cardinality(Data(t))
           /\ Len(RawRows(t)) \in Nat
           /\ \A i \in 1..Len(RawRows(t)) : \E k \in Data(t) : RawRows(t)[i] = Raw(t)[k]
           /\ \A k \in Data(t) : /\ Rank(Data(t), k) \in 1..Len(RawRows(t))
                                 /\ RawRows(t)[Rank(Data(t), k)] = Raw(t)[k]
           /\ \A k \in Nat : Rank(Data(t), k) \in Nat /\ Rank(Data(t), k) <= Len(RawRows(t))
           /\ Rank(Data(t), Len(Raw(t))) = Len(RawRows(t))
  <1>1. Raw(t) \in Seq(Strings) /\ Len(Raw(t)) \in Nat
    BY EndsType
  <1>2. Data(t) \in SUBSET (1..Len(Raw(t)))
    BY <1>1 DEF Data
  <1>3. Data(t) \in Positions /\ Cardinality(Data(t)) \in Nat /\ Rank(Data(t), Len(Raw(t))) = Cardinality(Data(t))
    BY <1>1, <1>2, RankOfAll
  <1>4. /\ RawRows(t) \in Seq(Strings) /\ Len(RawRows(t)) = Cardinality(Data(t))
        /\ \A j \in 1..Cardinality(Data(t)) :
             InOrder(Data(t))[j] \in Data(t) /\ RawRows(t)[j] = Raw(t)[InOrder(Data(t))[j]]
        /\ \A k \in Data(t) : /\ Rank(Data(t), k) \in 1..Cardinality(Data(t))
                              /\ RawRows(t)[Rank(Data(t), k)] = Raw(t)[k]
    BY <1>1, <1>2, OnlyThese DEF RawRows
  <1>5. \A k \in Nat : Rank(Data(t), k) \in Nat /\ Rank(Data(t), k) <= Cardinality(Data(t))
    <2> SUFFICES ASSUME NEW k \in Nat
                 PROVE  Rank(Data(t), k) \in Nat /\ Rank(Data(t), k) <= Cardinality(Data(t))
      OBVIOUS
    <2>1. Rank(Data(t), k) \in Nat
      BY <1>3, RankStep
    <2>2. CASE k <= Len(Raw(t))
      BY <1>1, <1>3, <2>1, <2>2, RankGrows
    <2>3. CASE Len(Raw(t)) <= k
      <3>1. \A j \in Data(t) : ~(Len(Raw(t)) < j /\ j <= k)
        BY <1>1, <1>2
      <3>2. Rank(Data(t), k) = Rank(Data(t), Len(Raw(t)))
        BY <1>1, <1>3, <2>3, <3>1, RankGrows
      <3> QED BY <1>3, <3>2
    <2> QED BY <1>1, <2>1, <2>2, <2>3
  <1> QED BY <1>1, <1>2, <1>3, <1>4, <1>5

\* Those of them that are not blank are the next rows of t.
LEMMA Wanted ==
    ASSUME NEW t \in Strings, NEW m \in Nat, 1 <= m, NEW found, Records(t, found, m),
           NEW wanted, wanted = Only(found, Filled(found))
    PROVE  /\ wanted \in Seq(Strings) /\ Len(wanted) \in Nat /\ Rank(Data(t), m) \in Nat
           /\ Rank(Data(t), m + Len(found)) = Rank(Data(t), m) + Len(wanted)
           /\ Rank(Data(t), m) + Len(wanted) <= Len(RawRows(t))
           /\ \A j \in 1..Len(wanted) : wanted[j] \in Forms(RawRows(t)[Rank(Data(t), m) + j])
  <1> DEFINE D == Data(t)
             F == Filled(found)
             c == Len(found)
  <1>1. /\ found \in Seq(Strings) /\ c \in Nat /\ DOMAIN found = 1..c /\ m + c <= Len(Raw(t))
        /\ \A k \in 1..c : found[k] \in Forms(Raw(t)[m + k])
    BY DEF Records
  <1>2. /\ Len(Raw(t)) \in Nat /\ D \in Positions /\ Len(RawRows(t)) \in Nat
        /\ \A k \in D : RawRows(t)[Rank(D, k)] = Raw(t)[k]
        /\ \A k \in Nat : Rank(D, k) \in Nat /\ Rank(D, k) <= Len(RawRows(t))
    BY DataType
  <1>3. F \in SUBSET (1..c) /\ \A k \in 1..c : k \in F <=> ~Blank(found[k])
    BY <1>1 DEF Filled
  <1>4. F \in Positions /\ Cardinality(F) \in Nat /\ Rank(F, c) = Cardinality(F)
    BY <1>1, <1>3, RankOfAll
  <1>5. ASSUME NEW k \in 1..c PROVE k \in F <=> m + k \in D
    <2>1. m + k \in 2..Len(Raw(t)) /\ m + k \in 1..Len(Raw(t))
      BY <1>1, <1>2
    <2>2. Raw(t)[m + k] \in Strings
      BY <2>1, EndsType
    <2>3. Blank(found[k]) <=> Blank(Raw(t)[m + k])
      <3>1. found[k] = Raw(t)[m + k] \/ found[k] = Chomp(Raw(t)[m + k])
        BY <1>1 DEF Forms
      <3>2. Blank(Chomp(Raw(t)[m + k])) <=> Blank(Raw(t)[m + k])
        BY <2>2, ChompKeeps
      <3> QED BY <3>1, <3>2
    <2>4. m + k \in D <=> ~Blank(Raw(t)[m + k])
      BY <2>1 DEF Data
    <2> QED BY <1>3, <2>3, <2>4
  <1>6. Shifted(D, F, m, c)
    BY <1>5 DEF Shifted
  <1> HIDE DEF D, F, c
  <1>7. \A i \in 0..c : Rank(D, m + i) = Rank(D, m) + Rank(F, i)
    BY <1>1, <1>2, <1>4, <1>6, RankShift
  <1>8. /\ wanted \in Seq(Strings) /\ Len(wanted) = Cardinality(F)
        /\ \A j \in 1..Cardinality(F) : InOrder(F)[j] \in F /\ wanted[j] = found[InOrder(F)[j]]
    <2>1. F \in SUBSET (1..Len(found))
      BY <1>3 DEF c
    <2>2. wanted = Only(found, F)
      BY DEF F
    <2>3. found \in Seq(Strings)
      BY <1>1
    <2>4. /\ Only(found, F) \in Seq(Strings) /\ Len(Only(found, F)) = Cardinality(F)
          /\ \A j \in 1..Cardinality(F) : InOrder(F)[j] \in F /\ Only(found, F)[j] = found[InOrder(F)[j]]
      BY <2>1, <2>3, OnlyThese
    <2> QED BY <2>2, <2>4
  <1>9. \A j \in 1..Cardinality(F) : Rank(F, InOrder(F)[j]) = j
    BY <1>1, <1>3, Ordered
  <1>10. Rank(D, m) \in Nat /\ Rank(D, m + c) = Rank(D, m) + Len(wanted)
    <2>1. c \in 0..c
      BY <1>1
    <2>2. Rank(D, m + c) = Rank(D, m) + Rank(F, c)
      BY <1>7, <2>1
    <2> QED BY <1>2, <1>4, <1>8, <2>2
  <1>11. Rank(D, m) + Len(wanted) <= Len(RawRows(t))
    <2>1. m + c \in Nat
      BY <1>1
    <2> QED BY <1>2, <1>10, <2>1
  <1>12. ASSUME NEW j \in 1..Len(wanted)
         PROVE  wanted[j] \in Forms(RawRows(t)[Rank(D, m) + j])
    <2>1. PICK i \in F : i = InOrder(F)[j] /\ wanted[j] = found[i] /\ Rank(F, i) = j
      BY <1>8, <1>9
    <2>2. i \in 1..c /\ i \in 0..c
      BY <1>1, <1>3
    <2>3. m + i \in D
      BY <1>3, <1>5, <2>2 DEF D, F, c
    <2>4. Rank(D, m + i) = Rank(D, m) + j
      BY <1>7, <2>1, <2>2
    <2>5. RawRows(t)[Rank(D, m) + j] = Raw(t)[m + i]
      BY <1>2, <2>3, <2>4
    <2> QED BY <1>1, <2>1, <2>2, <2>5
  <1> QED BY <1>4, <1>8, <1>10, <1>11, <1>12 DEF D, c

-----------------------------------------------------------------------------
(* One chunk of records *)

\* What Scan finds in b, what it keeps of it, and where that begins.
Found(b, E)       == [k \in 1..Cardinality(E) |-> Chomp(Pieces(b, E)[k])]
Rest(b, E)        == IF E = {} THEN b ELSE From(b, Max(E) + 1)
RestFrom(base, E) == IF E = {} THEN base ELSE base + Max(E)

\* Of the records w, those that are over a cap when r were handed over.
Over(r, w) == {k \in DOMAIN w : Len(w[k]) > MaxRecordBytes \/ r + k > MaxRows}

LEMMA WantedType ==
    ASSUME NEW found \in Seq(Strings)
    PROVE  Only(found, Filled(found)) \in Seq(Strings) /\ Len(Only(found, Filled(found))) \in Nat
  <1>1. Filled(found) \in SUBSET (1..Len(found))
    BY DEF Filled
  <1> QED BY <1>1, OnlyThese

LEMMA ScanType ==
    ASSUME NEW t \in Strings, NEW base \in Nat, NEW p \in Nat, NEW b, PartOf(t, b, base, p),
           NEW from \in Nat, NEW q \in BOOLEAN,
           NEW E, E = Terminators(b, from, q)
    PROVE  /\ E \in SUBSET (1..Len(b)) /\ Cardinality(E) \in Nat
           /\ E # {} => Max(E) \in 1..Len(b) /\ Min(E) \in 1..Len(b)
           /\ Found(b, E) \in Seq(Strings) /\ Len(Found(b, E)) = Cardinality(E)
           /\ RestFrom(base, E) \in Nat /\ PartOf(t, Rest(b, E), RestFrom(base, E), p)
  <1>1. /\ b \in Strings /\ Len(b) \in Nat
        /\ \A i \in 0..Len(b) : PartOf(t, SubSeq(b, i + 1, Len(b)), base + i, p)
    BY Part
  <1>2. E \in SUBSET (1..Len(b))
    BY <1>1 DEF Terminators
  <1>3. Cardinality(E) \in Nat
    BY <1>1, <1>2, RankOfAll
  <1>4. ASSUME E # {} PROVE Max(E) \in 1..Len(b) /\ Min(E) \in 1..Len(b)
    <2>1. Max(E) \in E /\ Min(E) \in E
      BY <1>1, <1>2, <1>4, FirstLast
    <2> QED BY <1>2, <2>1
  <1>5. Found(b, E) \in Seq(Strings) /\ Len(Found(b, E)) = Cardinality(E)
    <2>1. ASSUME NEW k \in 1..Cardinality(E) PROVE Chomp(Pieces(b, E)[k]) \in Strings
      <3>1. Pieces(b, E) \in Seq(Strings) /\ Len(Pieces(b, E)) = Cardinality(E) + 1
        BY <1>1, <1>2, PieceAt
      <3>2. k \in 1..Len(Pieces(b, E))
        BY <1>3, <3>1
      <3>3. Pieces(b, E)[k] \in Strings
        BY <3>1, <3>2
      <3> QED BY <3>3, ChompKeeps
    <2>2. Found(b, E) \in [1..Cardinality(E) -> Strings]
      BY <2>1 DEF Found
    <2> QED BY <1>3, <2>2
  <1>6. RestFrom(base, E) \in Nat /\ PartOf(t, Rest(b, E), RestFrom(base, E), p)
    <2>1. CASE E = {}
      BY <2>1 DEF Rest, RestFrom
    <2>2. CASE E # {}
      <3>1. Max(E) \in 0..Len(b) /\ Max(E) \in Nat
        BY <1>1, <1>4, <2>2
      <3>2. PartOf(t, SubSeq(b, Max(E) + 1, Len(b)), base + Max(E), p)
        BY <1>1, <3>1
      <3> QED BY <2>2, <3>1, <3>2 DEF Rest, RestFrom, From
    <2> QED BY <2>1, <2>2
  <1> QED BY <1>2, <1>3, <1>4, <1>5, <1>6

\* With the right flag, Scan finds the next records of the text.
LEMMA ScanTrue ==
    ASSUME NEW t \in Strings, NEW base \in Nat, NEW p \in Nat, NEW b, PartOf(t, b, base, p),
           Begins(t, base), NEW from \in 0..Len(b), NEW q \in BOOLEAN,
           q <=> Inside(t, base + from), Clear(t, base, base + from),
           NEW E, E = Terminators(b, from, q)
    PROVE  /\ Rank(Ends(t), base) \in Nat /\ Records(t, Found(b, E), Rank(Ends(t), base))
           /\ Rank(Ends(t), RestFrom(base, E)) = Rank(Ends(t), base) + Len(Found(b, E))
           /\ Begins(t, RestFrom(base, E)) /\ Clear(t, RestFrom(base, E), p)
           /\ base \in Ends(t) \/ E # {} => RestFrom(base, E) \in Ends(t)
           /\ Quoted(b, from, q, Len(b)) <=> Inside(t, p)
  <1> DEFINE m == Rank(Ends(t), base)
             u == RestFrom(base, E)
  <1>1. /\ b \in Strings /\ Len(b) \in Nat /\ base + Len(b) = p /\ p <= Len(t)
    <2>1. b \in Strings /\ Len(b) \in Nat /\ base + Len(b) = p
      BY Part
    <2> QED BY <2>1 DEF PartOf
  <1>2. from \in Nat
    BY <1>1
  <1>3. /\ E \in SUBSET (1..Len(b)) /\ Cardinality(E) \in Nat
        /\ E # {} => Max(E) \in 1..Len(b)
        /\ Found(b, E) \in Seq(Strings) /\ Len(Found(b, E)) = Cardinality(E)
        /\ u \in Nat /\ PartOf(t, Rest(b, E), u, p)
    <2> HIDE DEF m, u
    <2>1. E \in SUBSET (1..Len(b)) /\ Cardinality(E) \in Nat
      BY <1>2, ScanType
    <2>2. E # {} => Max(E) \in 1..Len(b)
      BY <1>2, ScanType
    <2>3. Found(b, E) \in Seq(Strings) /\ Len(Found(b, E)) = Cardinality(E)
      BY <1>2, ScanType
    <2>4. RestFrom(base, E) \in Nat /\ PartOf(t, Rest(b, E), RestFrom(base, E), p)
      BY <1>2, ScanType
    <2> QED BY <2>1, <2>2, <2>3, <2>4 DEF u
  <1>4. /\ Quoted(b, from, q, Len(b)) <=> Inside(t, p)
        /\ m \in Nat /\ Rank(Ends(t), p) = m + Cardinality(E)
        /\ \A k \in 1..Cardinality(E) :
             m + k \in 1..Cardinality(Ends(t)) /\ Pieces(b, E)[k] = Raw(t)[m + k]
        /\ \A i \in 1..Len(b) : i \in E <=> base + i \in Ends(t)
        /\ E = {} => Clear(t, base, p)
        /\ E # {} => Begins(t, base + Max(E)) /\ Clear(t, base + Max(E), p)
    BY Scanning, SMTT(30)
  <1>5. /\ Ends(t) \in Positions /\ Len(Raw(t)) = Cardinality(Ends(t)) + 1 /\ Cardinality(Ends(t)) \in Nat
        /\ Ends(t) \in SUBSET (1..Len(t)) /\ Rank(Ends(t), Len(t)) = Cardinality(Ends(t)) /\ Len(t) \in Nat
    BY EndsType
  <1> HIDE DEF m, u
  <1>6. Records(t, Found(b, E), m)
    <2>1. m + Len(Found(b, E)) <= Len(Raw(t))
      <3>1. Rank(Ends(t), p) <= Rank(Ends(t), Len(t))
        BY <1>1, <1>5, RankGrows
      <3> QED BY <1>3, <1>4, <1>5, <3>1
    <2>2. ASSUME NEW k \in 1..Len(Found(b, E)) PROVE Found(b, E)[k] \in Forms(Raw(t)[m + k])
      <3>1. k \in 1..Cardinality(E)
        BY <1>3
      <3>2. Found(b, E)[k] = Chomp(Pieces(b, E)[k])
        BY <3>1 DEF Found
      <3> QED BY <1>4, <3>1, <3>2 DEF Forms
    <2> QED BY <1>3, <2>1, <2>2 DEF Records
  <1>7. Begins(t, u) /\ Clear(t, u, p)
    BY <1>4 DEF u, RestFrom
  <1>8. base \in Ends(t) \/ E # {} => u \in Ends(t)
    <2>1. CASE E = {}
      BY <2>1 DEF u, RestFrom
    <2>2. CASE E # {}
      <3>1. Max(E) \in E
        BY <1>1, <1>3, <2>2, FirstLast
      <3> QED BY <1>3, <1>4, <2>2, <3>1 DEF u, RestFrom
    <2> QED BY <2>1, <2>2
  <1>9. Rank(Ends(t), u) = m + Len(Found(b, E))
    <2>1. u <= p /\ \A j \in Ends(t) : ~(u < j /\ j <= p)
      BY <1>3, <1>7 DEF PartOf, Clear
    <2>2. Rank(Ends(t), p) = Rank(Ends(t), u)
      BY <1>3, <1>5, <2>1, RankGrows
    <2> QED BY <1>3, <1>4, <2>2
  <1> QED BY <1>4, <1>6, <1>7, <1>8, <1>9 DEF m, u

\* The consumer gets n of them before one is over a cap.
Stops(r, w, n) ==
    /\ r + n <= MaxRows /\ \A k \in 1..n : Len(w[k]) <= MaxRecordBytes
    /\ Over(r, w) = {} => n = Len(w)
    /\ Over(r, w) # {} =>
         /\ n = Min(Over(r, w)) - 1 /\ Min(Over(r, w)) \in 1..Len(w)
         /\ Len(w[Min(Over(r, w))]) > MaxRecordBytes \/ r + Min(Over(r, w)) > MaxRows

LEMMA OverFirst ==
    ASSUME NEW r \in Nat, r <= MaxRows, NEW w \in Seq(Strings)
    PROVE  \E n \in 0..Len(w) : Stops(r, w, n)
  <1>0. PICK over : over = Over(r, w)
    OBVIOUS
  <1>1. Len(w) \in Nat /\ DOMAIN w = 1..Len(w) /\ MaxRows \in Nat /\ MaxRecordBytes \in Nat
    BY CapAssumption
  <1>2. \A k \in 1..Len(w) : Len(w[k]) \in Nat
    <2>1. \A k \in 1..Len(w) : w[k] \in Strings
      OBVIOUS
    <2> QED BY <2>1 DEF Strings
  <1>3. over \in SUBSET (1..Len(w))
    BY <1>0, <1>1 DEF Over
  <1>4. \A k \in 1..Len(w) : k \notin over => Len(w[k]) <= MaxRecordBytes /\ r + k <= MaxRows
    BY <1>0, <1>1, <1>2 DEF Over
  <1>5. CASE over = {}
    <2>1. \A k \in 1..Len(w) : Len(w[k]) <= MaxRecordBytes /\ r + k <= MaxRows
      BY <1>4, <1>5
    <2>2. r + Len(w) <= MaxRows
      <3>1. CASE Len(w) = 0
        BY <3>1
      <3>2. CASE Len(w) # 0
        <4>1. Len(w) \in 1..Len(w)
          BY <1>1, <3>2
        <4> QED BY <2>1, <4>1
      <3> QED BY <3>1, <3>2
    <2>3. Len(w) \in 0..Len(w)
      BY <1>1
    <2> QED BY <1>0, <1>5, <2>1, <2>2, <2>3 DEF Stops
  <1>6. CASE over # {}
    <2>1. Min(over) \in over /\ \A i \in over : Min(over) <= i
      BY <1>1, <1>3, <1>6, FirstLast
    <2>2. Min(over) \in 1..Len(w)
      BY <1>3, <2>1
    <2>3. Len(w[Min(over)]) > MaxRecordBytes \/ r + Min(over) > MaxRows
      BY <1>0, <2>1 DEF Over
    <2>4. \A k \in 1..(Min(over) - 1) : k \in 1..Len(w) /\ k \notin over
      BY <1>1, <2>1, <2>2
    <2>5. \A k \in 1..(Min(over) - 1) : Len(w[k]) <= MaxRecordBytes /\ r + k <= MaxRows
      BY <1>4, <2>4
    <2>6. r + (Min(over) - 1) <= MaxRows
      <3>1. CASE Min(over) = 1
        BY <3>1
      <3>2. CASE Min(over) # 1
        <4>1. Min(over) - 1 \in 1..(Min(over) - 1)
          BY <1>1, <2>2, <3>2
        <4> QED BY <2>5, <4>1
      <3> QED BY <3>1, <3>2
    <2>7. Min(over) - 1 \in 0..Len(w)
      BY <1>1, <2>2
    <2> QED BY <1>0, <1>6, <2>2, <2>3, <2>5, <2>6, <2>7 DEF Stops
  <1> QED BY <1>5, <1>6

-----------------------------------------------------------------------------
(* The inductive invariant *)

TypeInv ==
    /\ text \in Texts /\ at \in 0..Len(text)
    /\ phase \in {"header", "rows", "done", "failed"}
    /\ lead \in Strings /\ buf \in Strings /\ inQuotes \in BOOLEAN /\ scanPos \in Nat
    /\ header \in Strings /\ rows \in Seq(Strings)
    /\ verdict \in {"none", "size", "limit"} /\ torn \in BOOLEAN

\* Where the scanner is, and where the record it holds begins.
Scanned == at - Len(lead)
Base    == Scanned - Len(buf)

\* What is held is what was pulled and not handed over.
Placed ==
    phase # "failed" =>
      /\ Scanned \in Nat /\ PartOf(text, lead, Scanned, at)
      /\ Base \in Nat /\ PartOf(text, buf, Base, Scanned)
      /\ scanPos \in {0, Len(buf)}
      /\ phase = "header" => lead = <<>> /\ Base = 0 /\ scanPos = 0 /\ rows = <<>>

Small(rs) == \A j \in 1..Len(rs) : Len(rs[j]) <= MaxRecordBytes

Capped ==
    /\ phase # "failed" => Len(buf) <= MaxRecordBytes
    /\ Len(rows) <= MaxRows /\ Small(rows)
    /\ phase \in {"rows", "done"} => Len(header) <= MaxRecordBytes

\* Unless quotes were counted twice, it begins with a record, the flag is
\* right, and every row before it was handed over.
Synced ==
    ~torn /\ phase \in {"header", "rows"} =>
      /\ Begins(text, Base) /\ Clear(text, Base, Scanned)
      /\ inQuotes <=> Inside(text, Scanned)
      /\ phase = "rows" => Base \in Ends(text) /\ Len(rows) = Rank(Data(text), Rank(Ends(text), Base))

\* The records rs are the first rows of t.
Handed(t, rs) ==
    /\ Len(rs) <= Len(RawRows(t))
    /\ \A j \in 1..Len(rs) : rs[j] \in Forms(RawRows(t)[j])

Given ==
    ~torn =>
      /\ Handed(text, rows)
      /\ phase \in {"rows", "done"} => header \in Forms(Raw(text)[1])
      /\ phase = "done" => Len(rows) = Len(RawRows(text))

TooLarge(t) == \E k \in 1..Len(Raw(t)) : Len(Raw(t)[k]) > MaxRecordBytes
TooMany(t)  == Len(RawRows(t)) > MaxRows

Judged ==
    ~torn =>
      /\ verdict = "size" => TooLarge(text)
      /\ verdict = "limit" => TooMany(text)

IInv == TypeInv /\ Placed /\ Capped /\ Synced /\ Given /\ Judged

LEMMA TextType ==
    ASSUME TypeInv
    PROVE  text \in Strings /\ Len(text) \in Nat /\ at \in Nat /\ at <= Len(text)
  <1>1. text \in Strings
    BY TextAssumption DEF TypeInv, Strings
  <1>2. Len(text) \in Nat
    BY <1>1 DEF Strings
  <1> QED BY <1>1, <1>2 DEF TypeInv

LEMMA NothingLeft ==
    ASSUME NEW t \in Strings, NEW p \in Nat, p <= Len(t)
    PROVE  PartOf(t, <<>>, p, p)
  <1>1. t \in Seq(Symbols)
    BY DEF Strings
  <1>2. SubSeq(t, p + 1, p) \in Seq(Symbols) /\ Len(SubSeq(t, p + 1, p)) = p - p
    BY <1>1, SubText
  <1>3. p - p = 0
    OBVIOUS
  <1>4. SubSeq(t, p + 1, p) = <<>>
    BY <1>2, <1>3, EmptySeq
  <1> QED BY <1>4 DEF PartOf

LEMMA InitInv == Init => IInv
  <1> SUFFICES ASSUME Init PROVE IInv
    OBVIOUS
  <1>1. /\ text \in Texts /\ at = 0 /\ phase = "header" /\ lead = <<>> /\ buf = <<>>
        /\ inQuotes = FALSE /\ scanPos = 0 /\ header = <<>> /\ rows = <<>>
        /\ verdict = "none" /\ torn = FALSE
    BY DEF Init
  <1>2. /\ text \in Strings /\ Len(text) \in Nat /\ <<>> \in Strings /\ <<>> \in Seq(Strings)
        /\ Len(<<>>) = 0 /\ MaxRows \in Nat /\ MaxRecordBytes \in Nat
    <2>1. text \in Strings
      BY <1>1, TextAssumption DEF Strings
    <2> QED BY <2>1, CapAssumption DEF Strings
  <1>3. TypeInv
    <2>1. at \in 0..Len(text) /\ scanPos \in Nat
      BY <1>1, <1>2
    <2>2. lead \in Strings /\ buf \in Strings /\ header \in Strings /\ rows \in Seq(Strings)
      BY <1>1, <1>2, Zenon
    <2> QED BY <1>1, <2>1, <2>2 DEF TypeInv
  <1>4. Scanned = 0 /\ Base = 0
    <2>1. Len(lead) = 0 /\ Len(buf) = 0
      BY <1>1, <1>2, Zenon
    <2>2. at = 0
      BY <1>1
    <2> QED BY <2>1, <2>2 DEF Scanned, Base
  <1>5. Placed
    <2>1. PartOf(text, <<>>, 0, 0)
      BY <1>2, NothingLeft
    <2> QED BY <1>1, <1>4, <2>1 DEF Placed
  <1>6. Capped
    BY <1>1, <1>2 DEF Capped, Small
  <1>7. Synced
    <2>1. Clear(text, 0, 0)
      <3>1. \A e \in Ends(text) : e \in Nat
        BY <1>2, EndsType
      <3> QED BY <3>1 DEF Clear
    <2>2. ~Inside(text, 0)
      BY <1>2, QuoteRanks
    <2> QED BY <1>1, <1>4, <2>1, <2>2 DEF Synced, Begins
  <1>8. Given
    <2>1. Len(RawRows(text)) \in Nat
      BY <1>2, DataType
    <2> QED BY <1>1, <1>2, <2>1 DEF Given, Handed
  <1>9. Judged
    BY <1>1 DEF Judged
  <1> QED BY <1>3, <1>5, <1>6, <1>7, <1>8, <1>9 DEF IInv

\* The next rows, handed over as far as n.
LEMMA HandOver ==
    ASSUME NEW rs \in Seq(Strings), Small(rs), NEW w \in Seq(Strings), NEW n \in 0..Len(w),
           \A k \in 1..n : Len(w[k]) <= MaxRecordBytes
    PROVE  /\ rs \o SubSeq(w, 1, n) \in Seq(Strings) /\ Len(rs \o SubSeq(w, 1, n)) = Len(rs) + n
           /\ Small(rs \o SubSeq(w, 1, n))
           /\ \A t \in Strings :
                Handed(t, rs) /\ Len(rs) + n <= Len(RawRows(t))
                /\ (\A j \in 1..Len(w) : w[j] \in Forms(RawRows(t)[Len(rs) + j]))
                => Handed(t, rs \o SubSeq(w, 1, n))
           /\ n = Len(w) => rs \o SubSeq(w, 1, n) = rs \o w
  <1>1. Len(w) \in Nat /\ n \in Nat /\ n <= Len(w) /\ Len(rs) \in Nat
    OBVIOUS
  <1>2. PICK v : v = SubSeq(w, 1, n)
    OBVIOUS
  <1>3. v \in Seq(Strings) /\ Len(v) = n /\ \A k \in 1..n : v[k] = w[k]
    <2>1. 0 \in Nat /\ 0 <= n /\ 0 + 1 = 1 /\ n - 0 = n
      BY <1>1
    <2>2. /\ SubSeq(w, 0 + 1, n) \in Seq(Strings) /\ Len(SubSeq(w, 0 + 1, n)) = n - 0
          /\ \A i \in 1..(n - 0) : SubSeq(w, 0 + 1, n)[i] = w[0 + i]
      BY <1>1, <2>1, SubText
    <2> QED BY <1>2, <2>1, <2>2
  <1>4. PICK x : x = rs \o v
    OBVIOUS
  <1>5. /\ x \in Seq(Strings) /\ Len(x) = Len(rs) + n
        /\ \A j \in 1..(Len(rs) + n) : x[j] = IF j <= Len(rs) THEN rs[j] ELSE v[j - Len(rs)]
    <2>1. /\ rs \o v \in Seq(Strings) /\ Len(rs \o v) = Len(rs) + Len(v)
          /\ \A j \in 1..(Len(rs) + Len(v)) :
               (rs \o v)[j] = IF j <= Len(rs) THEN rs[j] ELSE v[j - Len(rs)]
      BY <1>3, ConcatProperties
    <2> QED BY <1>3, <1>4, <2>1
  <1>6. ASSUME NEW j \in 1..Len(x)
        PROVE  \/ j \in 1..Len(rs) /\ x[j] = rs[j]
               \/ j - Len(rs) \in 1..n /\ x[j] = w[j - Len(rs)] /\ Len(rs) + (j - Len(rs)) = j
    <2>1. j \in 1..(Len(rs) + n)
      BY <1>5
    <2>2. CASE j <= Len(rs)
      BY <1>1, <1>5, <2>1, <2>2
    <2>3. CASE Len(rs) < j
      <3>1. j - Len(rs) \in 1..n /\ ~(j <= Len(rs)) /\ Len(rs) + (j - Len(rs)) = j
        BY <1>1, <2>1, <2>3
      <3>2. x[j] = v[j - Len(rs)]
        BY <1>5, <2>1, <3>1
      <3> QED BY <1>3, <3>1, <3>2
    <2> QED BY <1>1, <2>1, <2>2, <2>3
  <1>7. Small(x)
    <2> SUFFICES ASSUME NEW j \in 1..Len(x) PROVE Len(x[j]) <= MaxRecordBytes
      BY DEF Small
    <2>1. \A i \in 1..Len(rs) : Len(rs[i]) <= MaxRecordBytes
      BY DEF Small
    <2> QED BY <1>6, <2>1
  <1>8. ASSUME NEW t \in Strings, Handed(t, rs), Len(rs) + n <= Len(RawRows(t)),
               \A j \in 1..Len(w) : w[j] \in Forms(RawRows(t)[Len(rs) + j])
        PROVE  Handed(t, x)
    <2> SUFFICES ASSUME NEW j \in 1..Len(x) PROVE x[j] \in Forms(RawRows(t)[j])
      BY <1>5, <1>8 DEF Handed
    <2>1. \A i \in 1..Len(rs) : rs[i] \in Forms(RawRows(t)[i])
      BY <1>8 DEF Handed
    <2>2. \A i \in 1..n : w[i] \in Forms(RawRows(t)[Len(rs) + i])
      BY <1>1, <1>8
    <2>3. CASE j \in 1..Len(rs) /\ x[j] = rs[j]
      BY <2>1, <2>3
    <2>4. CASE j - Len(rs) \in 1..n /\ x[j] = w[j - Len(rs)] /\ Len(rs) + (j - Len(rs)) = j
      <3>1. w[j - Len(rs)] \in Forms(RawRows(t)[Len(rs) + (j - Len(rs))])
        BY <2>2, <2>4
      <3> QED BY <2>4, <3>1
    <2> QED BY <1>6, <2>3, <2>4
  <1>9. n = Len(w) => v = w
    <2> SUFFICES ASSUME n = Len(w) PROVE v = w
      OBVIOUS
    <2>1. \A k \in 1..Len(w) : v[k] = w[k]
      BY <1>3
    <2> QED BY <1>3, <2>1, SeqEqual
  <1> QED BY <1>2, <1>4, <1>5, <1>7, <1>8, <1>9

LEMMA LargeRow ==
    ASSUME NEW t \in Strings, NEW i \in 1..Len(RawRows(t)), NEW r \in Forms(RawRows(t)[i]),
           Len(r) > MaxRecordBytes
    PROVE  TooLarge(t)
  <1>1. PICK k \in Data(t) : RawRows(t)[i] = Raw(t)[k]
    BY DataType
  <1>2. k \in 1..Len(Raw(t))
    BY DataType
  <1>3. Raw(t)[k] \in Strings
    BY <1>2, EndsType
  <1>4. Len(Chomp(Raw(t)[k])) <= Len(Raw(t)[k]) /\ Len(Raw(t)[k]) \in Nat /\ Len(Chomp(Raw(t)[k])) \in Nat
    BY <1>3, ChompKeeps
  <1>5. r = Raw(t)[k] \/ r = Chomp(Raw(t)[k])
    BY <1>1 DEF Forms
  <1>6. Len(Raw(t)[k]) > MaxRecordBytes
    BY <1>4, <1>5, CapAssumption
  <1> QED BY <1>2, <1>6 DEF TooLarge

\* The consumer that has rs and is given w gets rows of t, and a cap is exceeded
\* only if t exceeds it.
Gets(t, rs, w, over) ==
    /\ \E n \in 0..Len(w) :
         /\ Handed(t, rs \o SubSeq(w, 1, n))
         /\ over = {} => n = Len(w) /\ rs \o SubSeq(w, 1, n) = rs \o w
                         /\ Len(rs \o w) = Len(rs) + Len(w)
         /\ over # {} => n = Min(over) - 1
    /\ over # {} => /\ Len(w[Min(over)]) > MaxRecordBytes => TooLarge(t)
                    /\ ~(Len(w[Min(over)]) > MaxRecordBytes) => TooMany(t)

LEMMA Giving ==
    ASSUME NEW t \in Strings, NEW m \in Nat, 1 <= m, NEW found, Records(t, found, m),
           NEW w, w = Only(found, Filled(found)),
           NEW rs \in Seq(Strings), Len(rs) = Rank(Data(t), m), Handed(t, rs), Small(rs),
           Len(rs) <= MaxRows, NEW over, over = Over(Len(rs), w)
    PROVE  Len(rs) + Len(w) = Rank(Data(t), m + Len(found)) /\ Gets(t, rs, w, over)
  <1>1. /\ w \in Seq(Strings) /\ Len(w) \in Nat
        /\ Rank(Data(t), m + Len(found)) = Rank(Data(t), m) + Len(w)
        /\ Rank(Data(t), m) + Len(w) <= Len(RawRows(t))
        /\ \A j \in 1..Len(w) : w[j] \in Forms(RawRows(t)[Rank(Data(t), m) + j])
    BY Wanted
  <1>2. Len(rs) \in Nat /\ Len(RawRows(t)) \in Nat /\ MaxRows \in Nat /\ MaxRecordBytes \in Nat
    BY DataType, CapAssumption
  <1>3. PICK n \in 0..Len(w) :
             /\ Len(rs) + n <= MaxRows /\ \A k \in 1..n : Len(w[k]) <= MaxRecordBytes
             /\ over = {} => n = Len(w)
             /\ over # {} => /\ n = Min(over) - 1 /\ Min(over) \in 1..Len(w)
                             /\ Len(w[Min(over)]) > MaxRecordBytes \/ Len(rs) + Min(over) > MaxRows
    <2>1. \E n \in 0..Len(w) : Stops(Len(rs), w, n)
      BY <1>1, <1>2, OverFirst
    <2> QED BY <2>1 DEF Stops
  <1>4. Len(rs) + n <= Len(RawRows(t))
    BY <1>1, <1>2
  <1>5. \A j \in 1..Len(w) : w[j] \in Forms(RawRows(t)[Len(rs) + j])
    BY <1>1
  <1>6. /\ Handed(t, rs \o SubSeq(w, 1, n))
        /\ n = Len(w) => rs \o SubSeq(w, 1, n) = rs \o w
        /\ Len(rs \o SubSeq(w, 1, n)) = Len(rs) + n
    <2>1. \A k \in 1..n : Len(w[k]) <= MaxRecordBytes
      BY <1>3
    <2>2. \A s \in Strings :
                Handed(s, rs) /\ Len(rs) + n <= Len(RawRows(s))
                /\ (\A j \in 1..Len(w) : w[j] \in Forms(RawRows(s)[Len(rs) + j]))
                => Handed(s, rs \o SubSeq(w, 1, n))
      BY <1>1, <2>1, HandOver
    <2>3. /\ n = Len(w) => rs \o SubSeq(w, 1, n) = rs \o w
          /\ Len(rs \o SubSeq(w, 1, n)) = Len(rs) + n
      BY <1>1, <2>1, HandOver
    <2> QED BY <1>4, <1>5, <2>2, <2>3
  <1>7. over = {} => n = Len(w) /\ rs \o SubSeq(w, 1, n) = rs \o w /\ Len(rs \o w) = Len(rs) + Len(w)
    BY <1>3, <1>6
  <1>8. ASSUME over # {}, Len(w[Min(over)]) > MaxRecordBytes
        PROVE  TooLarge(t)
    <2>1. Min(over) \in 1..Len(w)
      BY <1>3, <1>8
    <2>2. Len(rs) + Min(over) \in 1..Len(RawRows(t))
      BY <1>1, <1>2, <2>1
    <2>3. w[Min(over)] \in Forms(RawRows(t)[Len(rs) + Min(over)])
      BY <1>5, <2>1
    <2> QED BY <1>8, <2>2, <2>3, LargeRow
  <1>9. ASSUME over # {}, ~(Len(w[Min(over)]) > MaxRecordBytes)
        PROVE  TooMany(t)
    <2>1. Min(over) \in 1..Len(w) /\ Len(rs) + Min(over) > MaxRows
      BY <1>3, <1>9
    <2>2. Len(RawRows(t)) > MaxRows
      BY <1>1, <1>2, <2>1
    <2> QED BY <2>2 DEF TooMany
  <1>10. \E i \in 0..Len(w) :
           /\ Handed(t, rs \o SubSeq(w, 1, i))
           /\ over = {} => i = Len(w) /\ rs \o SubSeq(w, 1, i) = rs \o w
                           /\ Len(rs \o w) = Len(rs) + Len(w)
           /\ over # {} => i = Min(over) - 1
    BY <1>3, <1>6, <1>7
  <1> QED BY <1>1, <1>8, <1>9, <1>10 DEF Gets

\* Whatever they are, the caps hold of what the consumer has.
GetsCapped(rs, w, over) ==
    \E n \in 0..Len(w) :
      /\ over = {} => rs \o SubSeq(w, 1, n) = rs \o w
      /\ over # {} => n = Min(over) - 1
      /\ rs \o SubSeq(w, 1, n) \in Seq(Strings) /\ Len(rs \o SubSeq(w, 1, n)) <= MaxRows
      /\ Small(rs \o SubSeq(w, 1, n))

LEMMA GivingCapped ==
    ASSUME NEW w \in Seq(Strings), NEW rs \in Seq(Strings), Small(rs), Len(rs) <= MaxRows,
           NEW over, over = Over(Len(rs), w)
    PROVE  GetsCapped(rs, w, over)
  <1>1. Len(rs) \in Nat
    OBVIOUS
  <1>2. PICK n \in 0..Len(w) :
             /\ Len(rs) + n <= MaxRows /\ \A k \in 1..n : Len(w[k]) <= MaxRecordBytes
             /\ over = {} => n = Len(w)
             /\ over # {} => n = Min(over) - 1
    <2>1. \E n \in 0..Len(w) : Stops(Len(rs), w, n)
      BY <1>1, OverFirst
    <2> QED BY <2>1 DEF Stops
  <1>3. /\ rs \o SubSeq(w, 1, n) \in Seq(Strings) /\ Len(rs \o SubSeq(w, 1, n)) = Len(rs) + n
        /\ Small(rs \o SubSeq(w, 1, n))
        /\ n = Len(w) => rs \o SubSeq(w, 1, n) = rs \o w
    <2>1. \A k \in 1..n : Len(w[k]) <= MaxRecordBytes
      BY <1>2
    <2> QED BY <2>1, HandOver
  <1> QED BY <1>2, <1>3 DEF GetsCapped

\* What one Scan of chunk does, named.
Held(chunk)      == buf \o chunk
NewEnds(chunk)   == Terminators(Held(chunk), scanPos, inQuotes)
NewRows(chunk)   == Only(Found(Held(chunk), NewEnds(chunk)), Filled(Found(Held(chunk), NewEnds(chunk))))
Excess(chunk)    == Over(Len(rows), NewRows(chunk))
Remainder(chunk) == Rest(Held(chunk), NewEnds(chunk))

\* All of it was handed over, and the rest is held; or the rest is too long; or
\* some of it was over a cap.
AllTaken(chunk) ==
    /\ Excess(chunk) = {} /\ rows' = rows \o NewRows(chunk)
    /\ Len(Remainder(chunk)) <= MaxRecordBytes
    /\ buf' = Remainder(chunk)
    /\ inQuotes' = Quoted(Held(chunk), scanPos, inQuotes, Len(Held(chunk)))
    /\ scanPos' = (IF NewEnds(chunk) = {} THEN Len(Held(chunk)) ELSE 0)
    /\ phase' = phase /\ verdict' = verdict

RestTooLong(chunk) ==
    /\ Excess(chunk) = {} /\ rows' = rows \o NewRows(chunk)
    /\ Len(Remainder(chunk)) > MaxRecordBytes
    /\ phase' = "failed" /\ verdict' = "size"
    /\ buf' = buf /\ inQuotes' = inQuotes /\ scanPos' = scanPos

SomeTaken(chunk) ==
    /\ Excess(chunk) # {}
    /\ rows' = rows \o SubSeq(NewRows(chunk), 1, Min(Excess(chunk)) - 1)
    /\ phase' = "failed"
    /\ verdict' = (IF Len(NewRows(chunk)[Min(Excess(chunk))]) > MaxRecordBytes THEN "size" ELSE "limit")
    /\ buf' = buf /\ inQuotes' = inQuotes /\ scanPos' = scanPos

LEMMA ScanSplit ==
    ASSUME TypeInv, NEW chunk \in Strings, Scan(chunk), Len(Remainder(chunk)) \in Nat
    PROVE  /\ torn' = (torn \/ (inQuotes /\ scanPos < Len(buf)))
           /\ AllTaken(chunk) \/ RestTooLong(chunk) \/ SomeTaken(chunk)
  <1>1. torn' = (torn \/ (inQuotes /\ scanPos < Len(buf)))
    BY DEF Scan
  <1>2. Yield(Found(Held(chunk), NewEnds(chunk)),
              IF Len(Remainder(chunk)) > MaxRecordBytes
              THEN Fail("size") /\ UNCHANGED scanner
              ELSE /\ buf' = Remainder(chunk)
                   /\ inQuotes' = Quoted(Held(chunk), scanPos, inQuotes, Len(Held(chunk)))
                   /\ scanPos' = IF NewEnds(chunk) = {} THEN Len(Held(chunk)) ELSE 0
                   /\ UNCHANGED <<phase, verdict>>)
    BY DEF Scan, Found, Held, NewEnds, Remainder, Rest
  <1>3. IF Excess(chunk) = {}
        THEN rows' = rows \o NewRows(chunk)
             /\ IF Len(Remainder(chunk)) > MaxRecordBytes
                THEN Fail("size") /\ UNCHANGED scanner
                ELSE /\ buf' = Remainder(chunk)
                     /\ inQuotes' = Quoted(Held(chunk), scanPos, inQuotes, Len(Held(chunk)))
                     /\ scanPos' = IF NewEnds(chunk) = {} THEN Len(Held(chunk)) ELSE 0
                     /\ UNCHANGED <<phase, verdict>>
        ELSE /\ rows' = rows \o SubSeq(NewRows(chunk), 1, Min(Excess(chunk)) - 1)
             /\ Fail(IF Len(NewRows(chunk)[Min(Excess(chunk))]) > MaxRecordBytes THEN "size" ELSE "limit")
             /\ UNCHANGED scanner
    BY <1>2 DEF Yield, Excess, Over, NewRows
  <1>4. CASE Excess(chunk) = {} /\ Len(Remainder(chunk)) > MaxRecordBytes
    BY <1>1, <1>3, <1>4 DEF RestTooLong, Fail, scanner
  <1>5. CASE Excess(chunk) = {} /\ ~(Len(Remainder(chunk)) > MaxRecordBytes)
    <2>1. Len(Remainder(chunk)) <= MaxRecordBytes
      BY <1>5, CapAssumption
    <2> QED BY <1>1, <1>3, <1>5, <2>1 DEF AllTaken
  <1>6. CASE Excess(chunk) # {}
    BY <1>1, <1>3, <1>6 DEF SomeTaken, Fail, scanner
  <1> QED BY <1>4, <1>5, <1>6

\* The types and the caps, whatever the quotes.
LEMMA ScanKeeps ==
    ASSUME IInv, phase = "rows", NEW p \in Nat, Scanned <= p, p <= Len(text),
           NEW chunk, chunk = SubSeq(text, Scanned + 1, p), Scan(chunk),
           at' = p, lead' = <<>>, text' = text, header' = header
    PROVE  /\ TypeInv' /\ Placed' /\ Capped'
           /\ PartOf(text, Held(chunk), Base, p)
           /\ RestFrom(Base, NewEnds(chunk)) \in Nat
           /\ PartOf(text, Remainder(chunk), RestFrom(Base, NewEnds(chunk)), p)
           /\ Len(Remainder(chunk)) \in Nat
           /\ phase' # "failed" => Scanned' = p /\ Base' = RestFrom(Base, NewEnds(chunk))
  <1> DEFINE u == RestFrom(Base, NewEnds(chunk))
             b == Held(chunk)
             w == NewRows(chunk)
  <1>1. /\ text \in Strings /\ Len(text) \in Nat /\ text \in Texts
        /\ scanPos \in Nat /\ inQuotes \in BOOLEAN /\ rows \in Seq(Strings) /\ header \in Strings
        /\ buf \in Strings /\ verdict \in {"none", "size", "limit"} /\ torn \in BOOLEAN
    BY TextType DEF IInv, TypeInv
  <1>2. /\ Scanned \in Nat /\ Base \in Nat /\ PartOf(text, buf, Base, Scanned)
        /\ scanPos \in {0, Len(buf)}
    BY DEF IInv, Placed
  <1>3. PartOf(text, b, Base, p)
    <2>1. \A r \in Nat : Scanned <= r /\ r <= Len(text) => PartOf(text, buf \o SubSeq(text, Scanned + 1, r), Base, r)
      BY <1>1, <1>2, Part
    <2> QED BY <2>1 DEF Held
  <1>4. /\ Found(b, NewEnds(chunk)) \in Seq(Strings)
        /\ u \in Nat /\ PartOf(text, Remainder(chunk), u, p)
    <2> HIDE DEF u
    <2>1. NewEnds(chunk) = Terminators(b, scanPos, inQuotes)
      BY DEF NewEnds
    <2> HIDE DEF b
    <2>2. /\ Found(b, NewEnds(chunk)) \in Seq(Strings)
          /\ RestFrom(Base, NewEnds(chunk)) \in Nat
          /\ PartOf(text, Rest(b, NewEnds(chunk)), RestFrom(Base, NewEnds(chunk)), p)
      BY <1>1, <1>2, <1>3, <2>1, ScanType
    <2> QED BY <2>2 DEF u, b, Remainder
  <1>5. w \in Seq(Strings)
    BY <1>4, WantedType DEF NewRows
  <1> HIDE DEF u, b, w
  <1>6. /\ Remainder(chunk) \in Strings /\ Len(Remainder(chunk)) \in Nat
        /\ u + Len(Remainder(chunk)) = p
    BY <1>1, <1>4, Part
  <1>7. chunk \in Strings
    <2>1. text \in Seq(Symbols)
      BY <1>1 DEF Strings
    <2>2. SubSeq(text, Scanned + 1, p) \in Seq(Symbols)
      BY <1>1, <1>2, <2>1, SubText
    <2> QED BY <2>2 DEF Strings
  <1>8. /\ torn' = (torn \/ (inQuotes /\ scanPos < Len(buf)))
        /\ AllTaken(chunk) \/ RestTooLong(chunk) \/ SomeTaken(chunk)
    BY <1>6, <1>7, ScanSplit DEF IInv
  <1>9. rows' \in Seq(Strings) /\ Len(rows') <= MaxRows /\ Small(rows')
    <2>1. Small(rows) /\ Len(rows) <= MaxRows
      BY DEF IInv, Capped
    <2>2. Excess(chunk) = Over(Len(rows), w)
      BY DEF Excess, w
    <2>3. PICK n \in 0..Len(w) :
             /\ Excess(chunk) = {} => rows \o SubSeq(w, 1, n) = rows \o w
             /\ Excess(chunk) # {} => n = Min(Excess(chunk)) - 1
             /\ rows \o SubSeq(w, 1, n) \in Seq(Strings) /\ Len(rows \o SubSeq(w, 1, n)) <= MaxRows
             /\ Small(rows \o SubSeq(w, 1, n))
      <3>1. GetsCapped(rows, w, Excess(chunk))
        BY <1>1, <1>5, <2>1, <2>2, GivingCapped
      <3> QED BY <3>1 DEF GetsCapped
    <2>4. rows' = rows \o SubSeq(w, 1, n)
      BY <1>8, <2>3 DEF AllTaken, RestTooLong, SomeTaken, w
    <2> QED BY <2>3, <2>4
  <1>10. /\ buf' \in Strings /\ inQuotes' \in BOOLEAN /\ scanPos' \in Nat /\ torn' \in BOOLEAN
         /\ verdict' \in {"none", "size", "limit"} /\ phase' \in {"rows", "failed"}
    <2>1. CASE AllTaken(chunk)
      <3>1. Len(b) \in Nat
        BY <1>1, <1>2, <1>3, Part
      <3>2. inQuotes' \in BOOLEAN
        BY <1>1, <2>1 DEF AllTaken, Quoted
      <3>3. scanPos' \in Nat
        BY <2>1, <3>1 DEF AllTaken, b
      <3> QED BY <1>1, <1>6, <1>8, <2>1, <3>2, <3>3 DEF AllTaken
    <2>2. CASE RestTooLong(chunk)
      BY <1>1, <1>8, <2>2 DEF RestTooLong
    <2>3. CASE SomeTaken(chunk)
      BY <1>1, <1>8, <2>3 DEF SomeTaken
    <2> QED BY <1>8, <2>1, <2>2, <2>3
  <1>11. <<>> \in Strings /\ Len(<<>>) = 0
    BY DEF Strings
  <1>12. TypeInv'
    <2>1. p \in 0..Len(text)
      BY <1>1
    <2>2. lead' \in Strings
      BY <1>11
    <2> QED BY <1>1, <1>9, <1>10, <2>1, <2>2 DEF TypeInv
  <1>13. Scanned' = p
    <2>1. Len(lead') = 0
      BY <1>11
    <2> QED BY <2>1 DEF Scanned
  <1>14. ASSUME phase' # "failed"
         PROVE  Base' = u /\ buf' = Remainder(chunk) /\ Len(buf') <= MaxRecordBytes
                /\ scanPos' \in {0, Len(buf')} /\ phase' = "rows"
    <2>1. AllTaken(chunk)
      BY <1>8, <1>14 DEF RestTooLong, SomeTaken
    <2>2. buf' = Remainder(chunk) /\ Len(buf') <= MaxRecordBytes /\ phase' = "rows"
      BY <2>1 DEF AllTaken
    <2>3. Base' = u
      <3>1. p - Len(Remainder(chunk)) = u
        BY <1>4, <1>6
      <3>2. Base' = Scanned' - Len(buf')
        BY DEF Base
      <3> QED BY <1>13, <2>2, <3>1, <3>2
    <2>4. scanPos' \in {0, Len(buf')}
      <3>1. CASE NewEnds(chunk) = {}
        BY <2>1, <2>2, <3>1 DEF AllTaken, Remainder, Rest
      <3>2. CASE NewEnds(chunk) # {}
        BY <2>1, <3>2 DEF AllTaken
      <3> QED BY <3>1, <3>2
    <2> QED BY <2>2, <2>3, <2>4
  <1>15. Placed'
    <2>1. PartOf(text', lead', p, p)
      BY <1>1, NothingLeft
    <2>2. ASSUME phase' # "failed"
          PROVE /\ Scanned' \in Nat /\ PartOf(text', lead', Scanned', at')
                /\ Base' \in Nat /\ PartOf(text', buf', Base', Scanned')
                /\ scanPos' \in {0, Len(buf')} /\ phase' # "header"
      BY <1>4, <1>13, <1>14, <2>1, <2>2
    <2> QED BY <2>2 DEF Placed
  <1>16. Capped'
    <2>1. Len(header') <= MaxRecordBytes
      BY DEF IInv, Capped
    <2> QED BY <1>9, <1>14, <2>1 DEF Capped
  <1> QED BY <1>3, <1>4, <1>6, <1>12, <1>13, <1>14, <1>15, <1>16 DEF u, b

\* Unless quotes are counted twice: what Scan hands over are the next rows.
LEMMA ScanKeepsTruth ==
    ASSUME IInv, phase = "rows", NEW p \in Nat, Scanned <= p, p <= Len(text),
           NEW chunk, chunk = SubSeq(text, Scanned + 1, p), Scan(chunk),
           at' = p, lead' = <<>>, text' = text, header' = header
    PROVE  Synced' /\ Given' /\ Judged'
  <1> DEFINE u == RestFrom(Base, NewEnds(chunk))
             b == Held(chunk)
             w == NewRows(chunk)
             E == NewEnds(chunk)
             m == Rank(Ends(text), Base)
             found == Found(b, E)
             over == Excess(chunk)
  <1>1. /\ text \in Strings /\ Len(text) \in Nat
        /\ scanPos \in Nat /\ inQuotes \in BOOLEAN /\ rows \in Seq(Strings) /\ torn \in BOOLEAN
    BY TextType DEF IInv, TypeInv
  <1>2. /\ Scanned \in Nat /\ Base \in Nat /\ PartOf(text, buf, Base, Scanned)
        /\ scanPos \in {0, Len(buf)}
    BY DEF IInv, Placed
  <1>3. /\ TypeInv' /\ PartOf(text, b, Base, p)
        /\ u \in Nat /\ PartOf(text, Remainder(chunk), u, p) /\ Len(Remainder(chunk)) \in Nat
        /\ phase' # "failed" => Scanned' = p /\ Base' = u
    BY ScanKeeps
  <1>4. chunk \in Strings
    <2>1. text \in Seq(Symbols)
      BY <1>1 DEF Strings
    <2>2. SubSeq(text, Scanned + 1, p) \in Seq(Symbols)
      BY <1>1, <1>2, <2>1, SubText
    <2> QED BY <2>2 DEF Strings
  <1>5. /\ torn' = (torn \/ (inQuotes /\ scanPos < Len(buf)))
        /\ AllTaken(chunk) \/ RestTooLong(chunk) \/ SomeTaken(chunk)
    BY <1>3, <1>4, ScanSplit DEF IInv
  <1> HIDE DEF u, b, w, E, m, found, over
  <1> SUFFICES ASSUME ~torn' PROVE Synced' /\ Given' /\ Judged'
    BY DEF Synced, Given, Judged
  <1>6. ~torn /\ ~(inQuotes /\ scanPos < Len(buf))
    BY <1>1, <1>5
  <1>7. /\ Base \in Ends(text) /\ Clear(text, Base, Scanned) /\ (inQuotes <=> Inside(text, Scanned))
        /\ Len(rows) = Rank(Data(text), m) /\ Begins(text, Base)
    BY <1>6 DEF IInv, Synced, m
  <1>8. /\ Handed(text, rows) /\ header \in Forms(Raw(text)[1])
        /\ Small(rows) /\ Len(rows) <= MaxRows
        /\ verdict = "size" => TooLarge(text)
        /\ verdict = "limit" => TooMany(text)
    BY <1>6 DEF IInv, Given, Capped, Judged
  <1>9. /\ Len(buf) \in Nat /\ Base + Len(buf) = Scanned
        /\ Len(b) \in Nat /\ Base + Len(b) = p /\ Len(buf) <= Len(b)
    <2>1. Len(buf) \in Nat /\ Base + Len(buf) = Scanned
      BY <1>1, <1>2, Part
    <2>2. Len(b) \in Nat /\ Base + Len(b) = p
      BY <1>1, <1>2, <1>3, Part
    <2> QED BY <1>2, <2>1, <2>2
  <1>10. inQuotes <=> Inside(text, Base + scanPos)
    <2>1. CASE scanPos = Len(buf)
      BY <1>7, <1>9, <2>1
    <2>2. CASE scanPos # Len(buf)
      <3>1. scanPos = 0 /\ scanPos < Len(buf)
        BY <1>2, <1>9, <2>2
      <3>2. ~inQuotes
        BY <1>6, <3>1
      <3>3. ~Inside(text, Base)
        BY <1>1, <1>7, EndsType
      <3>4. Base + scanPos = Base
        BY <1>2, <3>1
      <3> QED BY <3>2, <3>3, <3>4
    <2> QED BY <2>1, <2>2
  <1>11. Clear(text, Base, Base + scanPos)
    <2>1. Base + scanPos <= Scanned
      BY <1>2, <1>9
    <2>2. \A e \in Ends(text) : e \in Nat
      BY <1>1, EndsType
    <2>3. \A e \in Ends(text) : ~(Base < e /\ e <= Scanned)
      BY <1>7 DEF Clear
    <2>4. \A e \in Ends(text) : ~(Base < e /\ e <= Base + scanPos)
      BY <1>1, <1>2, <2>1, <2>2, <2>3
    <2> QED BY <2>4 DEF Clear
  <1>12. /\ m \in Nat /\ Records(text, found, m)
         /\ Rank(Ends(text), u) = m + Len(found)
         /\ Begins(text, u) /\ Clear(text, u, p) /\ u \in Ends(text)
         /\ Quoted(b, scanPos, inQuotes, Len(b)) <=> Inside(text, p)
    <2>1. scanPos \in 0..Len(b)
      BY <1>2, <1>9
    <2>2. E = Terminators(b, scanPos, inQuotes)
      BY DEF E, b, NewEnds
    <2>3. /\ Rank(Ends(text), Base) \in Nat /\ Records(text, Found(b, E), Rank(Ends(text), Base))
          /\ Rank(Ends(text), RestFrom(Base, E)) = Rank(Ends(text), Base) + Len(Found(b, E))
          /\ Begins(text, RestFrom(Base, E)) /\ Clear(text, RestFrom(Base, E), p)
          /\ Base \in Ends(text) \/ E # {} => RestFrom(Base, E) \in Ends(text)
          /\ Quoted(b, scanPos, inQuotes, Len(b)) <=> Inside(text, p)
      BY <1>1, <1>2, <1>3, <1>7, <1>10, <1>11, <2>1, <2>2, ScanTrue
    <2> QED BY <1>7, <2>3 DEF u, E, m, found
  <1>13. 1 <= m
    <2>1. Rank(Ends(text), Base) \in 1..Cardinality(Ends(text))
      <3>1. Ends(text) \in SUBSET (1..Len(text))
        BY <1>1, EndsType
      <3> QED BY <1>1, <1>7, <3>1, Ordered
    <2> QED BY <2>1 DEF m
  <1>14. w = Only(found, Filled(found)) /\ over = Over(Len(rows), w)
    BY DEF w, found, b, E, over, NewRows, Excess
  <1>15. /\ Len(rows) + Len(w) = Rank(Data(text), m + Len(found))
         /\ \E n \in 0..Len(w) :
              /\ Handed(text, rows \o SubSeq(w, 1, n))
              /\ over = {} => n = Len(w) /\ rows \o SubSeq(w, 1, n) = rows \o w
                              /\ Len(rows \o w) = Len(rows) + Len(w)
              /\ over # {} => n = Min(over) - 1
         /\ over # {} => /\ Len(w[Min(over)]) > MaxRecordBytes => TooLarge(text)
                         /\ ~(Len(w[Min(over)]) > MaxRecordBytes) => TooMany(text)
    <2>1. /\ text \in Strings /\ m \in Nat /\ 1 <= m /\ Records(text, found, m)
          /\ rows \in Seq(Strings) /\ Len(rows) = Rank(Data(text), m) /\ Handed(text, rows)
          /\ Small(rows) /\ Len(rows) <= MaxRows
      BY <1>1, <1>7, <1>8, <1>12, <1>13
    <2>2. Len(rows) + Len(w) = Rank(Data(text), m + Len(found)) /\ Gets(text, rows, w, over)
      BY <1>14, <2>1, Giving
    <2> QED BY <2>2 DEF Gets
  <1>16. CASE AllTaken(chunk)
    <2>1. /\ over = {} /\ rows' = rows \o w /\ phase' = "rows" /\ verdict' = verdict
          /\ inQuotes' = Quoted(b, scanPos, inQuotes, Len(b))
      BY <1>16 DEF AllTaken, over, w, b
    <2>2. Handed(text, rows') /\ Len(rows') = Rank(Data(text), Rank(Ends(text), u))
      BY <1>12, <1>15, <2>1
    <2>3. Scanned' = p /\ Base' = u
      BY <1>3, <2>1
    <2>4. Synced'
      BY <1>12, <2>1, <2>2, <2>3 DEF Synced
    <2>5. Given'
      BY <1>8, <2>1, <2>2 DEF Given
    <2>6. Judged'
      BY <1>8, <2>1 DEF Judged
    <2> QED BY <2>4, <2>5, <2>6
  <1>17. CASE RestTooLong(chunk)
    <2>1. /\ over = {} /\ rows' = rows \o w /\ phase' = "failed" /\ verdict' = "size"
          /\ Len(Remainder(chunk)) > MaxRecordBytes
      BY <1>17 DEF RestTooLong, over, w
    <2>2. Handed(text, rows')
      BY <1>15, <2>1
    <2>3. TooLarge(text)
      <3>1. /\ Rank(Ends(text), u) + 1 \in 1..Len(Raw(text))
            /\ Len(Remainder(chunk)) <= Len(Raw(text)[Rank(Ends(text), u) + 1])
        BY <1>1, <1>3, <1>12, UnderWay
      <3>2. Raw(text)[Rank(Ends(text), u) + 1] \in Strings
        BY <1>1, <3>1, EndsType
      <3>3. Len(Raw(text)[Rank(Ends(text), u) + 1]) \in Nat
        BY <3>2 DEF Strings
      <3>4. Len(Raw(text)[Rank(Ends(text), u) + 1]) > MaxRecordBytes
        BY <1>3, <2>1, <3>1, <3>3, CapAssumption
      <3> QED BY <3>1, <3>4 DEF TooLarge
    <2> QED BY <2>1, <2>2, <2>3 DEF Synced, Given, Judged
  <1>18. CASE SomeTaken(chunk)
    <2>1. /\ over # {} /\ rows' = rows \o SubSeq(w, 1, Min(over) - 1) /\ phase' = "failed"
          /\ verdict' = (IF Len(w[Min(over)]) > MaxRecordBytes THEN "size" ELSE "limit")
      BY <1>18 DEF SomeTaken, over, w
    <2>2. Handed(text, rows')
      BY <1>15, <2>1
    <2>3. Judged'
      <3>1. CASE Len(w[Min(over)]) > MaxRecordBytes
        BY <1>15, <2>1, <3>1 DEF Judged
      <3>2. CASE ~(Len(w[Min(over)]) > MaxRecordBytes)
        BY <1>15, <2>1, <3>2 DEF Judged
      <3> QED BY <3>1, <3>2
    <2> QED BY <2>1, <2>2, <2>3 DEF Synced, Given
  <1> QED BY <1>5, <1>16, <1>17, <1>18

-----------------------------------------------------------------------------
(* The steps *)

LEMMA ScanLeadStep == IInv /\ ScanLead => IInv'
  <1> SUFFICES ASSUME IInv, ScanLead PROVE IInv'
    OBVIOUS
  <1>1. /\ phase = "rows" /\ Scan(lead) /\ lead' = <<>> /\ text' = text /\ at' = at /\ header' = header
    BY DEF ScanLead
  <1>2. text \in Strings /\ at \in Nat /\ at <= Len(text)
    BY TextType DEF IInv
  <1>3. Scanned \in Nat /\ PartOf(text, lead, Scanned, at)
    BY <1>1 DEF IInv, Placed
  <1>4. Scanned <= at /\ lead = SubSeq(text, Scanned + 1, at)
    BY <1>3 DEF PartOf
  <1>5. TypeInv' /\ Placed' /\ Capped'
    BY <1>1, <1>2, <1>4, ScanKeeps
  <1>6. Synced' /\ Given' /\ Judged'
    BY <1>1, <1>2, <1>4, ScanKeepsTruth
  <1> QED BY <1>5, <1>6 DEF IInv

\* What may arrive next.
LEMMA ChunkType ==
    ASSUME TypeInv, NEW chunk \in Chunks
    PROVE  \E p \in Nat : /\ at <= p /\ p <= Len(text) /\ p = at + Len(chunk)
                          /\ chunk = SubSeq(text, at + 1, p) /\ chunk \in Strings
  <1>1. text \in Strings /\ Len(text) \in Nat /\ at \in Nat /\ at <= Len(text)
    BY TextType
  <1>2. PICK k \in 0..(Len(text) - at) : chunk = SubSeq(text, at + 1, at + k)
    BY DEF Chunks
  <1>3. at + k \in Nat /\ at <= at + k /\ at + k <= Len(text) /\ (at + k) - at = k
    BY <1>1
  <1>4. text \in Seq(Symbols)
    BY <1>1 DEF Strings
  <1>5. chunk \in Seq(Symbols) /\ Len(chunk) = k
    BY <1>1, <1>2, <1>3, <1>4, SubText
  <1> QED BY <1>2, <1>3, <1>5 DEF Strings

LEMMA ScanChunkStep == IInv /\ ScanChunk => IInv'
  <1> SUFFICES ASSUME IInv, ScanChunk PROVE IInv'
    OBVIOUS
  <1>1. phase = "rows" /\ lead = <<>> /\ text' = text /\ lead' = lead /\ header' = header
    BY DEF ScanChunk
  <1>2. PICK chunk \in Chunks : Scan(chunk) /\ at' = at + Len(chunk)
    BY DEF ScanChunk
  <1>3. text \in Strings /\ at \in Nat /\ at <= Len(text) /\ TypeInv
    BY TextType DEF IInv
  <1>4. PICK p \in Nat : /\ at <= p /\ p <= Len(text) /\ p = at + Len(chunk)
                         /\ chunk = SubSeq(text, at + 1, p) /\ chunk \in Strings
    BY <1>3, ChunkType
  <1>5. Scanned = at
    <2>1. Len(lead) = 0
      BY <1>1
    <2> QED BY <1>3, <2>1 DEF Scanned
  <1>6. Scanned <= p /\ p <= Len(text) /\ chunk = SubSeq(text, Scanned + 1, p) /\ at' = p /\ lead' = <<>>
    BY <1>1, <1>2, <1>4, <1>5
  <1>7. TypeInv' /\ Placed' /\ Capped'
    BY <1>1, <1>2, <1>6, ScanKeeps
  <1>8. Synced' /\ Given' /\ Judged'
    BY <1>1, <1>2, <1>6, ScanKeepsTruth
  <1> QED BY <1>7, <1>8 DEF IInv

LEMMA FlushStep == IInv /\ Flush => IInv'
  <1> SUFFICES ASSUME IInv, Flush PROVE IInv'
    OBVIOUS
  <1> DEFINE found == <<buf>>
             w == Only(found, Filled(found))
             over == Over(Len(rows), w)
             m == Rank(Ends(text), Base)
  <1>1. /\ phase = "rows" /\ lead = <<>> /\ at = Len(text)
        /\ text' = text /\ at' = at /\ lead' = lead /\ header' = header /\ torn' = torn
    BY DEF Flush
  <1>2. \/ over = {} /\ rows' = rows \o w /\ phase' = "done" /\ verdict' = verdict
        \/ /\ over # {} /\ rows' = rows \o SubSeq(w, 1, Min(over) - 1) /\ phase' = "failed"
           /\ verdict' = (IF Len(w[Min(over)]) > MaxRecordBytes THEN "size" ELSE "limit")
    <2>1. IF over = {}
          THEN rows' = rows \o w /\ (phase' = "done" /\ UNCHANGED <<scanner, verdict>>)
          ELSE /\ rows' = rows \o SubSeq(w, 1, Min(over) - 1)
               /\ Fail(IF Len(w[Min(over)]) > MaxRecordBytes THEN "size" ELSE "limit")
               /\ UNCHANGED scanner
      BY DEF Flush, Yield, Over
    <2> QED BY <2>1 DEF Fail
  <1>3. buf' = buf /\ inQuotes' = inQuotes /\ scanPos' = scanPos
    <2>1. UNCHANGED scanner
      BY DEF Flush, Yield
    <2> QED BY <2>1 DEF scanner
  <1>4. /\ text \in Strings /\ Len(text) \in Nat /\ TypeInv
        /\ buf \in Strings /\ rows \in Seq(Strings) /\ torn \in BOOLEAN
        /\ verdict \in {"none", "size", "limit"}
    BY TextType DEF IInv, TypeInv
  <1>5. found \in Seq(Strings) /\ Len(found) = 1 /\ found[1] = buf
    BY <1>4
  <1>6. w \in Seq(Strings)
    <2> HIDE DEF found
    <2> QED BY <1>5, WantedType
  <1>7. over = Over(Len(rows), w) /\ w = Only(found, Filled(found))
    OBVIOUS
  <1> HIDE DEF found, w, over, m
  <1>8. rows' \in Seq(Strings) /\ Len(rows') <= MaxRows /\ Small(rows')
    <2>1. Small(rows) /\ Len(rows) <= MaxRows
      BY DEF IInv, Capped
    <2>2. PICK n \in 0..Len(w) :
             /\ over = {} => rows \o SubSeq(w, 1, n) = rows \o w
             /\ over # {} => n = Min(over) - 1
             /\ rows \o SubSeq(w, 1, n) \in Seq(Strings) /\ Len(rows \o SubSeq(w, 1, n)) <= MaxRows
             /\ Small(rows \o SubSeq(w, 1, n))
      <3>1. GetsCapped(rows, w, over)
        BY <1>4, <1>6, <1>7, <2>1, GivingCapped
      <3> QED BY <3>1 DEF GetsCapped
    <2>3. rows' = rows \o SubSeq(w, 1, n)
      BY <1>2, <2>2
    <2> QED BY <2>2, <2>3
  <1>9. TypeInv'
    <2>1. verdict' \in {"none", "size", "limit"} /\ phase' \in {"done", "failed"}
      BY <1>2, <1>4
    <2> QED BY <1>1, <1>3, <1>4, <1>8, <2>1 DEF TypeInv
  <1>10. Scanned' = Scanned /\ Base' = Base
    BY <1>1, <1>3 DEF Scanned, Base
  <1>11. Placed' /\ Capped'
    <2>1. phase' \in {"done", "failed"}
      BY <1>2
    <2>2. Placed'
      BY <1>1, <1>3, <1>10, <2>1 DEF IInv, Placed
    <2>3. Capped'
      BY <1>1, <1>3, <1>8 DEF IInv, Capped
    <2> QED BY <2>2, <2>3
  <1>12. ASSUME ~torn PROVE Given' /\ Judged'
    <2>1. Scanned = at
      <3>1. Len(lead) = 0
        BY <1>1
      <3> QED BY <1>1, <1>4, <3>1 DEF Scanned
    <2>2. /\ Base \in Nat /\ PartOf(text, buf, Base, Len(text))
      BY <1>1, <2>1 DEF IInv, Placed
    <2>3. /\ Base \in Ends(text) /\ Clear(text, Base, Len(text)) /\ Begins(text, Base)
          /\ Len(rows) = Rank(Data(text), m)
      BY <1>1, <1>12, <2>1 DEF IInv, Synced, m
    <2>4. /\ Handed(text, rows) /\ header \in Forms(Raw(text)[1])
          /\ Small(rows) /\ Len(rows) <= MaxRows
          /\ verdict = "size" => TooLarge(text)
          /\ verdict = "limit" => TooMany(text)
      BY <1>1, <1>12 DEF IInv, Given, Capped, Judged
    <2>5. m \in Nat /\ 1 <= m
      <3>1. Rank(Ends(text), Base) \in 1..Cardinality(Ends(text))
        <4>1. Ends(text) \in SUBSET (1..Len(text))
          BY <1>4, EndsType
        <4> QED BY <1>4, <2>3, <4>1, Ordered
      <3> QED BY <3>1 DEF m
    <2>6. m + 1 = Len(Raw(text)) /\ Raw(text)[m + 1] = buf
      BY <1>4, <2>2, <2>3, UnderWay DEF m
    <2>7. Records(text, found, m)
      <3>1. \A k \in 1..Len(found) : found[k] \in Forms(Raw(text)[m + k])
        BY <1>5, <2>6 DEF Forms
      <3>2. m + Len(found) <= Len(Raw(text))
        BY <1>5, <2>5, <2>6
      <3> QED BY <1>5, <3>1, <3>2 DEF Records
    <2>8. Len(rows) + Len(w) = Rank(Data(text), m + Len(found)) /\ Gets(text, rows, w, over)
      BY <1>4, <1>7, <2>3, <2>4, <2>5, <2>7, Giving
    <2>9. Len(rows) + Len(w) = Len(RawRows(text))
      BY <1>4, <1>5, <2>6, <2>8, DataType
    <2>10. CASE over = {}
      <3>1. rows' = rows \o w /\ phase' = "done" /\ verdict' = verdict
        BY <1>2, <2>10
      <3>2. Handed(text, rows') /\ Len(rows') = Len(RawRows(text))
        BY <2>8, <2>9, <2>10, <3>1 DEF Gets
      <3> QED BY <1>1, <2>4, <3>1, <3>2 DEF Given, Judged
    <2>11. CASE over # {}
      <3>1. /\ rows' = rows \o SubSeq(w, 1, Min(over) - 1) /\ phase' = "failed"
            /\ verdict' = (IF Len(w[Min(over)]) > MaxRecordBytes THEN "size" ELSE "limit")
        BY <1>2, <2>11
      <3>2. Handed(text, rows')
        BY <2>8, <2>11, <3>1 DEF Gets
      <3>3. Given'
        BY <1>1, <3>1, <3>2 DEF Given
      <3>4. CASE Len(w[Min(over)]) > MaxRecordBytes
        <4>1. TooLarge(text)
          BY <2>8, <2>11, <3>4 DEF Gets
        <4> QED BY <1>1, <3>1, <3>3, <3>4, <4>1 DEF Judged
      <3>5. CASE ~(Len(w[Min(over)]) > MaxRecordBytes)
        <4>1. TooMany(text)
          BY <2>8, <2>11, <3>5 DEF Gets
        <4> QED BY <1>1, <3>1, <3>3, <3>5, <4>1 DEF Judged
      <3> QED BY <3>4, <3>5
    <2> QED BY <2>10, <2>11
  <1>13. Synced' /\ Given' /\ Judged'
    <2>1. phase' \in {"done", "failed"}
      BY <1>2
    <2>2. Synced'
      BY <2>1 DEF Synced
    <2>3. CASE torn
      BY <1>1, <2>2, <2>3 DEF Given, Judged
    <2> QED BY <1>12, <2>2, <2>3, <1>1
  <1> QED BY <1>9, <1>11, <1>13 DEF IInv

LEMMA HeaderIsAllStep == IInv /\ HeaderIsAll => IInv'
  <1> SUFFICES ASSUME IInv, HeaderIsAll PROVE IInv'
    OBVIOUS
  <1>1. /\ phase = "header" /\ at = Len(text) /\ header' = buf /\ phase' = "done"
        /\ text' = text /\ at' = at /\ lead' = lead /\ rows' = rows /\ verdict' = verdict /\ torn' = torn
        /\ buf' = buf /\ inQuotes' = inQuotes /\ scanPos' = scanPos
    BY DEF HeaderIsAll, scanner
  <1>2. text \in Strings /\ Len(text) \in Nat /\ TypeInv
    BY TextType DEF IInv
  <1>3. TypeInv'
    BY <1>1, <1>2 DEF TypeInv
  <1>4. Scanned' = Scanned /\ Base' = Base
    BY <1>1 DEF Scanned, Base
  <1>5. Placed' /\ Capped'
    <2>1. Placed'
      BY <1>1, <1>4 DEF IInv, Placed
    <2>2. Capped'
      BY <1>1 DEF IInv, Capped
    <2> QED BY <2>1, <2>2
  <1>6. ASSUME ~torn PROVE Given'
    <2>1. /\ lead = <<>> /\ Base = 0 /\ rows = <<>> /\ PartOf(text, buf, Base, Scanned)
      BY <1>1 DEF IInv, Placed
    <2>2. Scanned = Len(text)
      <3>1. Len(lead) = 0
        BY <2>1
      <3> QED BY <1>1, <1>2, <3>1 DEF Scanned
    <2>3. PartOf(text, buf, 0, Len(text)) /\ Begins(text, 0) /\ Clear(text, 0, Len(text)) /\ Handed(text, rows)
      BY <1>1, <1>6, <2>1, <2>2 DEF IInv, Synced, Given
    <2>4. Rank(Ends(text), 0) = 0
      BY <1>2, EndsType
    <2>5. Rank(Ends(text), 0) + 1 = Len(Raw(text)) /\ Raw(text)[Rank(Ends(text), 0) + 1] = buf
      BY <1>2, <2>3, UnderWay
    <2>6. Len(Raw(text)) = 1 /\ Raw(text)[1] = buf
      BY <2>4, <2>5
    <2>7. Data(text) = {}
      BY <2>6 DEF Data
    <2>8. Len(RawRows(text)) = 0
      BY <1>2, <2>7, DataType, FS_EmptySet
    <2>9. Len(rows) = 0
      BY <2>1
    <2> QED BY <1>1, <2>3, <2>6, <2>8, <2>9 DEF Given, Forms
  <1>7. Synced' /\ Given' /\ Judged'
    <2>1. Synced'
      BY <1>1 DEF Synced
    <2>2. Judged'
      BY <1>1 DEF IInv, Judged
    <2>3. Given'
      BY <1>1, <1>6 DEF Given
    <2> QED BY <2>1, <2>2, <2>3
  <1> QED BY <1>3, <1>5, <1>7 DEF IInv

\* The first record of a text, once its end is among those found.
LEMMA FirstRecord ==
    ASSUME NEW t \in Strings, NEW p \in Nat, NEW b, PartOf(t, b, 0, p),
           NEW q \in BOOLEAN, ~q, NEW E, E = Terminators(b, 0, q)
    PROVE  /\ Quoted(b, 0, q, Len(b)) <=> Inside(t, p)
           /\ E = {} => Clear(t, 0, p) /\ Len(b) <= Len(Raw(t)[1])
           /\ E # {} => /\ Min(E) \in Ends(t) /\ Rank(Ends(t), Min(E)) = 1
                        /\ SubSeq(b, 1, Min(E) - 1) = Raw(t)[1]
           /\ 1 \in 1..Len(Raw(t))
  <1>1. /\ Len(t) \in Nat /\ Ends(t) \in SUBSET (1..Len(t)) /\ Rank(Ends(t), 0) = 0 /\ ~Inside(t, 0)
    BY EndsType, QuoteRanks
  <1>2. Begins(t, 0) /\ Clear(t, 0, 0) /\ 0 + 0 = 0 /\ PartOf(t, <<>>, 0, 0)
    <2>1. Clear(t, 0, 0)
      BY <1>1 DEF Clear
    <2>2. PartOf(t, <<>>, 0, 0)
      BY <1>1, NothingLeft
    <2> QED BY <2>1, <2>2 DEF Begins
  <1>3. Len(b) \in Nat /\ Len(b) = p /\ 0 \in 0..Len(b) /\ b \in Strings
        /\ \A i \in 1..Len(b) : PartOf(t, SubSeq(b, 1, i - 1), 0, 0 + (i - 1))
    <2>1. Len(b) \in Nat /\ Len(b) = p - 0 /\ b \in Strings
      BY Part
    <2>2. \A i \in 1..Len(b) : PartOf(t, SubSeq(b, 1, i - 1), 0, 0 + (i - 1))
      BY Part
    <2> QED BY <2>1, <2>2
  <1>4. /\ E \in SUBSET (1..Len(b))
        /\ Quoted(b, 0, q, Len(b)) <=> Inside(t, p)
        /\ \A i \in 1..Len(b) : i \in E <=> 0 + i \in Ends(t)
        /\ E = {} => Clear(t, 0, p)
    <2>1. q <=> Inside(t, 0 + 0)
      BY <1>1, <1>2
    <2>2. Clear(t, 0, 0 + 0)
      BY <1>2
    <2> QED BY <1>2, <1>3, <2>1, <2>2, Scanning
  <1>5. 0 + 1 = 1 /\ 1 \in 1..Len(Raw(t))
    <2>1. Rank(Ends(t), 0) + 1 \in 1..Len(Raw(t))
      BY <1>2, UnderWay
    <2> QED BY <1>1, <2>1
  <1>6. E = {} => Clear(t, 0, p) /\ Len(b) <= Len(Raw(t)[1])
    <2> SUFFICES ASSUME E = {} PROVE Clear(t, 0, p) /\ Len(b) <= Len(Raw(t)[1])
      OBVIOUS
    <2>1. Clear(t, 0, p)
      BY <1>4
    <2>2. Len(b) <= Len(Raw(t)[Rank(Ends(t), 0) + 1])
      BY <1>2, <2>1, UnderWay
    <2> QED BY <1>1, <2>1, <2>2
  <1>7. ASSUME E # {}
        PROVE  /\ Min(E) \in Ends(t) /\ Rank(Ends(t), Min(E)) = 1
               /\ SubSeq(b, 1, Min(E) - 1) = Raw(t)[1]
    <2>1. Min(E) \in E /\ \A i \in E : Min(E) <= i
      BY <1>3, <1>4, <1>7, FirstLast
    <2>2. Min(E) \in Nat /\ Min(E) \in 1..Len(b) /\ 0 < Min(E)
      BY <1>3, <1>4, <2>1
    <2>3. Min(E) \in Ends(t)
      BY <1>4, <2>1, <2>2
    <2>4. \A i \in Ends(t) : ~(0 < i /\ i < Min(E))
      <3> SUFFICES ASSUME NEW i \in Ends(t), i < Min(E) PROVE FALSE
        OBVIOUS
      <3>1. i \in 1..Len(b)
        BY <1>1, <1>3, <2>2
      <3>2. i \in E
        BY <1>4, <3>1
      <3> QED BY <2>1, <2>2, <3>1, <3>2
    <2>5. \A e \in Ends(t) : 0 < e /\ (\A i \in Ends(t) : ~(0 < i /\ i < e)) =>
             /\ Raw(t)[Rank(Ends(t), 0) + 1] = SubSeq(t, 0 + 1, e - 1)
             /\ Rank(Ends(t), e) = Rank(Ends(t), 0) + 1
      BY <1>2, UnderWay
    <2>6. /\ Raw(t)[Rank(Ends(t), 0) + 1] = SubSeq(t, 0 + 1, Min(E) - 1)
          /\ Rank(Ends(t), Min(E)) = Rank(Ends(t), 0) + 1
      BY <2>2, <2>3, <2>4, <2>5
    <2>7. SubSeq(b, 1, Min(E) - 1) = SubSeq(t, 0 + 1, 0 + (Min(E) - 1))
      BY <1>3, <2>2 DEF PartOf
    <2>8. 0 + (Min(E) - 1) = Min(E) - 1 /\ 0 + 1 = 1
      BY <2>2
    <2> QED BY <1>1, <2>3, <2>6, <2>7, <2>8
  <1> QED BY <1>4, <1>5, <1>6, <1>7

LEMMA TakeHeaderStep == IInv /\ TakeHeader => IInv'
  <1> SUFFICES ASSUME IInv, TakeHeader PROVE IInv'
    OBVIOUS
  <1>1. phase = "header" /\ text' = text /\ rows' = rows
    BY DEF TakeHeader
  <1>2. PICK chunk \in Chunks :
          /\ at' = at + Len(chunk)
          /\ torn' = (torn \/ (inQuotes /\ buf # <<>>))
          /\ LET b == Held(chunk)
                 E == Terminators(Held(chunk), 0, inQuotes)
                 record == IF E = {} THEN b ELSE Chomp(SubSeq(b, 1, Min(E) - 1))
             IN  IF Len(record) > MaxRecordBytes
                 THEN Fail("size") /\ UNCHANGED <<lead, scanner, header>>
                 ELSE IF E = {}
                 THEN /\ buf' = b /\ inQuotes' = Quoted(b, 0, inQuotes, Len(b))
                      /\ UNCHANGED <<phase, lead, scanPos, header, verdict>>
                 ELSE /\ header' = record /\ lead' = From(b, Min(E) + 1)
                      /\ buf' = <<>> /\ inQuotes' = FALSE
                      /\ phase' = "rows"
                      /\ UNCHANGED <<scanPos, verdict>>
    BY DEF TakeHeader, Held
  <1>3. PICK b : b = Held(chunk)
    OBVIOUS
  <1>4. PICK E : E = Terminators(b, 0, inQuotes)
    OBVIOUS
  <1>5. PICK record : record = IF E = {} THEN b ELSE Chomp(SubSeq(b, 1, Min(E) - 1))
    OBVIOUS
  <1>6. /\ at' = at + Len(chunk) /\ torn' = (torn \/ (inQuotes /\ buf # <<>>))
        /\ IF Len(record) > MaxRecordBytes
           THEN Fail("size") /\ UNCHANGED <<lead, scanner, header>>
           ELSE IF E = {}
           THEN /\ buf' = b /\ inQuotes' = Quoted(b, 0, inQuotes, Len(b))
                /\ UNCHANGED <<phase, lead, scanPos, header, verdict>>
           ELSE /\ header' = record /\ lead' = From(b, Min(E) + 1)
                /\ buf' = <<>> /\ inQuotes' = FALSE
                /\ phase' = "rows"
                /\ UNCHANGED <<scanPos, verdict>>
    BY <1>2, <1>3, <1>4, <1>5
  <1>7. /\ text \in Strings /\ Len(text) \in Nat /\ at \in Nat /\ at <= Len(text) /\ TypeInv
        /\ text \in Texts /\ lead \in Strings /\ buf \in Strings /\ inQuotes \in BOOLEAN /\ scanPos \in Nat
        /\ header \in Strings /\ rows \in Seq(Strings)
        /\ verdict \in {"none", "size", "limit"} /\ torn \in BOOLEAN
    BY TextType DEF IInv, TypeInv
  <1>8. /\ lead = <<>> /\ Base = 0 /\ scanPos = 0 /\ rows = <<>> /\ PartOf(text, buf, Base, Scanned)
    BY <1>1 DEF IInv, Placed
  <1>9. Scanned = at /\ Len(lead) = 0
    <2>1. Len(lead) = 0
      BY <1>8
    <2> QED BY <1>7, <2>1 DEF Scanned
  <1>10. PICK p \in Nat : /\ at <= p /\ p <= Len(text) /\ p = at + Len(chunk)
                          /\ chunk = SubSeq(text, at + 1, p) /\ chunk \in Strings
    BY <1>7, ChunkType
  <1>11. PartOf(text, b, 0, p)
    <2>1. PartOf(text, buf, 0, at)
      BY <1>8, <1>9
    <2>2. 0 \in Nat
      OBVIOUS
    <2>3. \A r \in Nat : at <= r /\ r <= Len(text) => PartOf(text, buf \o SubSeq(text, at + 1, r), 0, r)
      BY <1>7, <2>1, <2>2, Part
    <2> QED BY <1>3, <1>10, <2>3 DEF Held
  <1>12. /\ b \in Strings /\ Len(b) \in Nat /\ Len(b) = p
         /\ \A i \in 0..Len(b) : PartOf(text, SubSeq(b, i + 1, Len(b)), 0 + i, p)
         /\ \A i \in 1..Len(b) : PartOf(text, SubSeq(b, 1, i - 1), 0, 0 + (i - 1))
    <2>1. 0 \in Nat
      OBVIOUS
    <2>2. b \in Strings /\ Len(b) \in Nat /\ Len(b) = p - 0
      BY <1>7, <1>11, <2>1, Part
    <2>3. \A i \in 0..Len(b) : PartOf(text, SubSeq(b, i + 1, Len(b)), 0 + i, p)
      BY <1>7, <1>11, <2>1, Part
    <2>4. \A i \in 1..Len(b) : PartOf(text, SubSeq(b, 1, i - 1), 0, 0 + (i - 1))
      BY <1>7, <1>11, <2>1, Part
    <2> QED BY <2>2, <2>3, <2>4
  <1>13. E \in SUBSET (1..Len(b)) /\ (E # {} => Min(E) \in 1..Len(b))
    <2>1. 0 \in Nat
      OBVIOUS
    <2> QED BY <1>4, <1>7, <1>11, <2>1, ScanType
  <1>14. record \in Strings /\ Len(record) \in Nat
    <2>1. CASE E = {}
      BY <1>5, <1>12, <2>1
    <2>2. CASE E # {}
      <3>1. PartOf(text, SubSeq(b, 1, Min(E) - 1), 0, 0 + (Min(E) - 1))
        BY <1>12, <1>13, <2>2
      <3>2. 0 \in Nat /\ 0 + (Min(E) - 1) \in Nat
        BY <1>13, <2>2
      <3>3. SubSeq(b, 1, Min(E) - 1) \in Strings
        BY <1>7, <3>1, <3>2, Part
      <3>4. record = Chomp(SubSeq(b, 1, Min(E) - 1))
        BY <1>5, <2>2
      <3> QED BY <3>3, <3>4, ChompKeeps
    <2> QED BY <2>1, <2>2
  \* What the text says, unless quotes are counted twice.
  <1>15. ASSUME ~torn'
         PROVE  /\ ~torn /\ Handed(text, rows)
                /\ verdict = "size" => TooLarge(text)
                /\ verdict = "limit" => TooMany(text)
                /\ Quoted(b, 0, inQuotes, Len(b)) <=> Inside(text, p)
                /\ E = {} => Clear(text, 0, p)
                /\ E # {} => /\ Min(E) \in Ends(text) /\ Rank(Ends(text), Min(E)) = 1
                             /\ record = Chomp(Raw(text)[1])
                /\ Len(record) > MaxRecordBytes => TooLarge(text)
    <2>1. ~torn /\ (~inQuotes \/ buf = <<>>)
      BY <1>6, <1>7, <1>15
    <2>2. (inQuotes <=> Inside(text, at)) /\ Handed(text, rows)
          /\ (verdict = "size" => TooLarge(text)) /\ (verdict = "limit" => TooMany(text))
      BY <1>1, <1>9, <2>1 DEF IInv, Synced, Given, Judged
    <2>3. ~inQuotes
      <3>1. CASE buf = <<>>
        <4>1. Len(buf) = 0
          BY <3>1
        <4>2. Base = Scanned - Len(buf)
          BY DEF Base
        <4>3. at = 0
          BY <1>7, <1>8, <1>9, <4>1, <4>2
        <4>4. ~Inside(text, 0)
          BY <1>7, QuoteRanks
        <4> QED BY <2>2, <4>3, <4>4
      <3> QED BY <2>1, <3>1
    <2>4. /\ Quoted(b, 0, inQuotes, Len(b)) <=> Inside(text, p)
          /\ E = {} => Clear(text, 0, p) /\ Len(b) <= Len(Raw(text)[1])
          /\ E # {} => /\ Min(E) \in Ends(text) /\ Rank(Ends(text), Min(E)) = 1
                       /\ SubSeq(b, 1, Min(E) - 1) = Raw(text)[1]
          /\ 1 \in 1..Len(Raw(text))
      BY <1>4, <1>7, <1>11, <2>3, FirstRecord
    <2>5. Raw(text)[1] \in Strings
      <3>1. Raw(text) \in Seq(Strings)
        BY <1>7, EndsType
      <3> QED BY <2>4, <3>1
    <2>6. /\ Len(Raw(text)[1]) \in Nat /\ Len(Chomp(Raw(text)[1])) <= Len(Raw(text)[1])
          /\ Len(Chomp(Raw(text)[1])) \in Nat
      BY <2>5, ChompKeeps
    <2>7. E # {} => record = Chomp(Raw(text)[1])
      BY <1>5, <2>4
    <2>8. Len(record) <= Len(Raw(text)[1])
      BY <1>5, <2>4, <2>6, <2>7
    <2>9. Len(record) > MaxRecordBytes => TooLarge(text)
      <3> SUFFICES ASSUME Len(record) > MaxRecordBytes PROVE TooLarge(text)
        OBVIOUS
      <3>1. Len(Raw(text)[1]) > MaxRecordBytes
        BY <1>14, <2>6, <2>8, CapAssumption
      <3> QED BY <2>4, <3>1 DEF TooLarge
    <2> QED BY <2>1, <2>2, <2>4, <2>7, <2>9
  <1>16. torn' \in BOOLEAN /\ at' = p /\ p \in 0..Len(text)
    BY <1>6, <1>7, <1>10
  <1>17. Len(rows) <= MaxRows /\ Small(rows)
    BY DEF IInv, Capped
  <1>18. CASE Len(record) > MaxRecordBytes
    <2>1. /\ phase' = "failed" /\ verdict' = "size" /\ lead' = lead /\ header' = header
          /\ buf' = buf /\ inQuotes' = inQuotes /\ scanPos' = scanPos
      BY <1>6, <1>18 DEF Fail, scanner
    <2>2. TypeInv'
      BY <1>1, <1>7, <1>16, <2>1 DEF TypeInv
    <2>3. Placed' /\ Capped' /\ Synced'
      BY <1>1, <1>17, <2>1 DEF Placed, Capped, Synced
    <2>4. Given'
      <3> SUFFICES ASSUME ~torn' PROVE Given'
        BY DEF Given
      <3>1. Handed(text, rows)
        BY <1>15
      <3> QED BY <1>1, <2>1, <3>1 DEF Given
    <2>5. Judged'
      <3> SUFFICES ASSUME ~torn' PROVE Judged'
        BY DEF Judged
      <3>1. TooLarge(text)
        BY <1>15, <1>18
      <3> QED BY <1>1, <2>1, <3>1 DEF Judged
    <2> QED BY <2>2, <2>3, <2>4, <2>5 DEF IInv
  <1>19. CASE ~(Len(record) > MaxRecordBytes) /\ E = {}
    <2>1. /\ buf' = b /\ inQuotes' = Quoted(b, 0, inQuotes, Len(b))
          /\ phase' = phase /\ lead' = lead /\ scanPos' = scanPos /\ header' = header /\ verdict' = verdict
      BY <1>6, <1>19
    <2>2. record = b /\ Len(b) <= MaxRecordBytes
      BY <1>5, <1>14, <1>19, CapAssumption
    <2>3. TypeInv'
      <3>1. inQuotes' \in BOOLEAN
        BY <1>7, <2>1 DEF Quoted
      <3> QED BY <1>1, <1>7, <1>12, <1>16, <2>1, <3>1 DEF TypeInv
    <2>4. Scanned' = p
      BY <1>9, <1>16, <2>1 DEF Scanned
    <2>5. Base' = 0
      <3>1. Base' = Scanned' - Len(buf')
        BY DEF Base
      <3> QED BY <1>12, <2>1, <2>4, <3>1
    <2>6. Placed'
      <3>1. PartOf(text, <<>>, p, p)
        BY <1>7, <1>10, NothingLeft
      <3> QED BY <1>1, <1>8, <1>11, <1>16, <2>1, <2>4, <2>5, <3>1 DEF Placed
    <2>7. Capped'
      BY <1>1, <1>17, <2>1, <2>2 DEF Capped
    <2>8. Synced'
      <3> SUFFICES ASSUME ~torn' PROVE Synced'
        BY DEF Synced
      <3>1. Clear(text, 0, p) /\ (Quoted(b, 0, inQuotes, Len(b)) <=> Inside(text, p))
        BY <1>15, <1>19
      <3> QED BY <1>1, <2>1, <2>4, <2>5, <3>1 DEF Synced, Begins
    <2>9. Given' /\ Judged'
      <3> SUFFICES ASSUME ~torn' PROVE Given' /\ Judged'
        BY DEF Given, Judged
      <3>1. /\ Handed(text, rows)
            /\ verdict = "size" => TooLarge(text)
            /\ verdict = "limit" => TooMany(text)
        BY <1>15
      <3>2. Given'
        BY <1>1, <2>1, <3>1 DEF Given
      <3>3. Judged'
        BY <1>1, <2>1, <3>1 DEF Judged
      <3> QED BY <3>2, <3>3
    <2> QED BY <2>3, <2>6, <2>7, <2>8, <2>9 DEF IInv
  <1>20. CASE ~(Len(record) > MaxRecordBytes) /\ E # {}
    <2>1. /\ header' = record /\ lead' = SubSeq(b, Min(E) + 1, Len(b)) /\ buf' = <<>> /\ inQuotes' = FALSE
          /\ phase' = "rows" /\ scanPos' = scanPos /\ verdict' = verdict
      BY <1>6, <1>20 DEF From
    <2>2. PICK e \in Nat : e = Min(E) /\ e \in 1..Len(b)
      BY <1>13, <1>20
    <2>3. PartOf(text, lead', e, p)
      <3>1. e \in 0..Len(b) /\ 0 + e = e
        BY <2>2
      <3> QED BY <1>12, <2>1, <2>2, <3>1
    <2>4. lead' \in Strings /\ Len(lead') = p - e
      BY <1>7, <2>3, Part
    <2>5. Scanned' = e
      <3>1. Scanned' = at' - Len(lead')
        BY DEF Scanned
      <3> QED BY <1>16, <2>2, <2>4, <3>1
    <2>6. Base' = e
      <3>1. Base' = Scanned' - Len(buf')
        BY DEF Base
      <3>2. Len(buf') = 0
        BY <2>1
      <3> QED BY <2>2, <2>5, <3>1, <3>2
    <2>7. <<>> \in Strings
      BY DEF Strings
    <2>8. TypeInv'
      BY <1>1, <1>7, <1>14, <1>16, <2>1, <2>4, <2>7 DEF TypeInv
    <2>9. Placed'
      <3>1. e <= Len(text)
        <4>1. p <= Len(text) /\ Len(b) = p
          BY <1>10, <1>12
        <4> QED BY <1>7, <2>2, <4>1
      <3>2. PartOf(text, <<>>, e, e)
        BY <1>7, <3>1, NothingLeft
      <3> QED BY <1>1, <1>8, <1>16, <2>1, <2>3, <2>5, <2>6, <3>2 DEF Placed
    <2>10. Capped'
      <3>1. Len(record) <= MaxRecordBytes
        BY <1>14, <1>20, CapAssumption
      <3>2. Len(<<>>) <= MaxRecordBytes
        BY CapAssumption
      <3> QED BY <1>1, <1>17, <2>1, <3>1, <3>2 DEF Capped
    <2>11. Synced'
      <3> SUFFICES ASSUME ~torn' PROVE Synced'
        BY DEF Synced
      <3>1. e \in Ends(text) /\ Rank(Ends(text), e) = 1
        BY <1>15, <1>20, <2>2
      <3>2. Clear(text, e, e)
        <4>1. \A i \in Ends(text) : ~(e < i /\ i <= e)
          <5>1. Ends(text) \in SUBSET (1..Len(text))
            BY <1>7, EndsType
          <5> QED BY <2>2, <5>1
        <4> QED BY <4>1 DEF Clear
      <3>3. ~Inside(text, e)
        BY <1>7, <3>1, EndsType
      <3>4. Rank(Data(text), 1) = 0
        <4>1. Data(text) \in Positions /\ 1 \notin Data(text)
          <5>1. Data(text) \in Positions
            BY <1>7, DataType
          <5>2. 1 \notin Data(text)
            BY DEF Data
          <5> QED BY <5>1, <5>2
        <4>2. 0 \in Nat /\ 0 + 1 = 1
          OBVIOUS
        <4>3. /\ Rank(Data(text), 0) = 0
              /\ Rank(Data(text), 0 + 1) = IF 0 + 1 \in Data(text) THEN Rank(Data(text), 0) + 1 ELSE Rank(Data(text), 0)
          BY <4>1, <4>2, RankStep
        <4> QED BY <4>1, <4>2, <4>3
      <3>5. Len(rows') = 0
        BY <1>1, <1>8
      <3> QED BY <1>1, <2>1, <2>5, <2>6, <3>1, <3>2, <3>3, <3>4, <3>5 DEF Synced, Begins
    <2>12. Given' /\ Judged'
      <3> SUFFICES ASSUME ~torn' PROVE Given' /\ Judged'
        BY DEF Given, Judged
      <3>1. /\ Handed(text, rows) /\ record = Chomp(Raw(text)[1])
            /\ verdict = "size" => TooLarge(text)
            /\ verdict = "limit" => TooMany(text)
        BY <1>15, <1>20
      <3>2. record \in Forms(Raw(text)[1])
        BY <3>1 DEF Forms
      <3>3. Given'
        BY <1>1, <2>1, <3>1, <3>2 DEF Given
      <3>4. Judged'
        BY <1>1, <2>1, <3>1 DEF Judged
      <3> QED BY <3>3, <3>4
    <2> QED BY <2>8, <2>9, <2>10, <2>11, <2>12 DEF IInv
  <1> QED BY <1>18, <1>19, <1>20

LEMMA StutterStep == IInv /\ UNCHANGED vars => IInv'
  <1> SUFFICES ASSUME IInv, UNCHANGED vars PROVE IInv'
    OBVIOUS
  <1>1. /\ text' = text /\ at' = at /\ phase' = phase /\ lead' = lead /\ buf' = buf
        /\ inQuotes' = inQuotes /\ scanPos' = scanPos /\ header' = header /\ rows' = rows
        /\ verdict' = verdict /\ torn' = torn
    BY DEF vars, scanner
  <1>2. TypeInv' /\ Capped' /\ Given' /\ Judged'
    BY <1>1 DEF IInv, TypeInv, Capped, Given, Judged
  <1>3. Scanned' = Scanned /\ Base' = Base
    BY <1>1 DEF Scanned, Base
  <1>4. Placed' /\ Synced'
    BY <1>1, <1>3 DEF IInv, Placed, Synced
  <1> QED BY <1>2, <1>4 DEF IInv

THEOREM Invariance == Spec => []IInv
  <1>1. IInv /\ [Next]_vars => IInv'
    BY TakeHeaderStep, HeaderIsAllStep, ScanLeadStep, ScanChunkStep, FlushStep, StutterStep DEF Next
  <1> QED BY <1>1, InitInv, PTL DEF Spec

-----------------------------------------------------------------------------
(* The caps *)

LEMMA RecordLength ==
    ASSUME NEW t \in Strings, NEW k \in 1..Len(Raw(t))
    PROVE  Len(Raw(t)[k]) \in 0..Len(t)
  <1> DEFINE f == PieceFrom(Ends(t), k)
             e == PieceTo(t, Ends(t), k)
  <1>1. /\ Len(t) \in Nat /\ Ends(t) \in SUBSET (1..Len(t))
        /\ k \in 1..(Cardinality(Ends(t)) + 1) /\ t \in Seq(Symbols)
    BY EndsType DEF Strings
  <1>2. /\ f \in {0} \cup Ends(t) /\ e \in Ends(t) \cup {Len(t) + 1} /\ f < e
        /\ Raw(t)[k] = SubSeq(t, f + 1, e - 1)
    BY <1>1, PieceEnds DEF Raw
  <1> HIDE DEF f, e
  <1>3. f \in Nat /\ e \in Nat /\ e <= Len(t) + 1
    BY <1>1, <1>2
  <1>4. e - 1 \in Nat /\ f <= e - 1 /\ e - 1 <= Len(t)
    BY <1>1, <1>2, <1>3
  <1>5. Len(Raw(t)[k]) = (e - 1) - f
    BY <1>1, <1>2, <1>3, <1>4, SubText
  <1> QED BY <1>1, <1>3, <1>4, <1>5

\* What the property expects of a text, in terms of its raw records.
LEMMA ExpectedCaps ==
    ASSUME NEW t \in Texts
    PROVE  /\ Expected[t].sizes = {Len(Chomp(Raw(t)[k])) : k \in {1} \cup Data(t)}
           /\ Len(Expected[t].rows) = Len(RawRows(t))
           /\ TooLarge(t) => Expected[t].longest > MaxRecordBytes
  <1>1. t \in Strings
    BY TextAssumption DEF Strings
  <1>2. Expected[t] = Reading(t, Ends(t), Raw(t))
    BY DEF Expected, Ends, Raw
  <1>3. /\ Expected[t].sizes = {Len(Chomp(Raw(t)[k])) : k \in {1} \cup Data(t)}
        /\ Expected[t].rows = AllFields(RawRows(t), DetectDelimiter(Chomp(Raw(t)[1])))
        /\ Expected[t].longest = Max({Len(Raw(t)[k]) : k \in DOMAIN Raw(t)})
    BY <1>2 DEF Reading, RawRows, Data
  <1>4. Len(Expected[t].rows) = Len(RawRows(t))
    <2> DEFINE d == DetectDelimiter(Chomp(Raw(t)[1]))
               n == Len(RawRows(t))
               cells == {FieldsOf(RawRows(t)[k], d) : k \in 1..n}
    <2>1. n \in Nat /\ DOMAIN RawRows(t) = 1..n
      BY <1>1, DataType
    <2>2. AllFields(RawRows(t), d) \in [1..n -> cells]
      BY <2>1 DEF AllFields
    <2> HIDE DEF n, cells
    <2>3. Len(AllFields(RawRows(t), d)) = n
      BY <2>1, <2>2
    <2> QED BY <1>3, <2>3 DEF n
  <1>5. ASSUME TooLarge(t) PROVE Expected[t].longest > MaxRecordBytes
    <2> DEFINE L == {Len(Raw(t)[k]) : k \in DOMAIN Raw(t)}
    <2>1. DOMAIN Raw(t) = 1..Len(Raw(t)) /\ Len(t) \in Nat
      BY <1>1, EndsType
    <2>2. L \in SUBSET (0..Len(t))
      BY <1>1, <2>1, RecordLength
    <2>3. PICK k \in 1..Len(Raw(t)) : Len(Raw(t)[k]) > MaxRecordBytes
      BY <1>5 DEF TooLarge
    <2>4. Len(Raw(t)[k]) \in L
      BY <2>1
    <2>5. PICK x : x = Len(Raw(t)[k])
      OBVIOUS
    <2> HIDE DEF L
    <2>6. Max(L) \in L /\ x <= Max(L) /\ x \in L
      BY <2>1, <2>2, <2>4, <2>5, Greatest
    <2>7. x > MaxRecordBytes
      BY <2>3, <2>5
    <2>8. Max(L) \in Nat /\ x \in Nat /\ MaxRecordBytes \in Nat
      <3>1. Max(L) \in 0..Len(t) /\ x \in 0..Len(t)
        BY <2>2, <2>6
      <3> QED BY <2>1, <3>1, CapAssumption
    <2>9. Max(L) > MaxRecordBytes
      BY <2>6, <2>7, <2>8
    <2> QED BY <1>3, <2>9 DEF L
  <1> QED BY <1>3, <1>4, <1>5

\* A text that was read to its end keeps to the cap.
LEMMA SizesKept ==
    ASSUME IInv, ~torn, phase = "done", NEW n \in Expected[text].sizes
    PROVE  n <= MaxRecordBytes
  <1>1. text \in Texts /\ text \in Strings /\ TypeInv
    BY TextType DEF IInv, TypeInv
  <1>2. PICK k \in {1} \cup Data(text) : n = Len(Chomp(Raw(text)[k]))
    BY <1>1, ExpectedCaps
  <1>3. /\ Handed(text, rows) /\ header \in Forms(Raw(text)[1]) /\ Len(rows) = Len(RawRows(text))
        /\ Small(rows) /\ Len(header) <= MaxRecordBytes
    BY DEF IInv, Given, Capped
  <1>4. /\ Raw(text) \in Seq(Strings) /\ Len(Raw(text)) \in Nat /\ 1 \in 1..Len(Raw(text))
        /\ Data(text) \in SUBSET (1..Len(Raw(text)))
    <2>1. /\ Raw(text) \in Seq(Strings) /\ Len(Raw(text)) = Cardinality(Ends(text)) + 1
          /\ Cardinality(Ends(text)) \in Nat
      BY <1>1, EndsType
    <2>2. Data(text) \in SUBSET (1..Len(Raw(text)))
      BY <1>1, DataType
    <2> QED BY <2>1, <2>2
  <1>5. \E f \in Forms(Raw(text)[k]) : Len(f) <= MaxRecordBytes
    <2>1. CASE k = 1
      BY <1>3, <2>1
    <2>2. CASE k \in Data(text)
      <3>1. PICK j \in 1..Len(rows) : RawRows(text)[j] = Raw(text)[k]
        BY <1>1, <1>3, <2>2, DataType
      <3>2. rows[j] \in Forms(Raw(text)[k])
        BY <1>3, <3>1 DEF Handed
      <3>3. Len(rows[j]) <= MaxRecordBytes
        BY <1>3 DEF Small
      <3> QED BY <3>2, <3>3
    <2> QED BY <1>2, <2>1, <2>2
  <1>6. k \in 1..Len(Raw(text))
    BY <1>2, <1>4
  <1>7. Raw(text)[k] \in Strings
    BY <1>4, <1>6
  <1>8. /\ Len(Raw(text)[k]) \in Nat /\ Len(Chomp(Raw(text)[k])) \in Nat
        /\ Len(Chomp(Raw(text)[k])) <= Len(Raw(text)[k])
    BY <1>7, ChompKeeps
  <1> QED BY <1>2, <1>5, <1>8, CapAssumption DEF Forms

\* However the text is cut: between two chunks no more than a record is held,
\* and no more than MaxRows are handed over; a text is accepted only if all its
\* records keep to the caps and refused only if they do not (the module's own
\* promise, and #578).
THEOREM CapsHold == Spec => []CapsTrue
  <1>1. IInv => CapsTrue
    <2> SUFFICES ASSUME IInv PROVE CapsTrue
      OBVIOUS
    <2>1. (phase # "failed" => Len(buf) <= MaxRecordBytes) /\ Len(rows) <= MaxRows
      BY DEF IInv, Capped
    <2>2. ASSUME ~torn PROVE CapsKept(Expected[text])
      <3>1. text \in Texts
        BY DEF IInv, TypeInv
      <3>2. phase = "done" => \A n \in Expected[text].sizes : n <= MaxRecordBytes
        BY <2>2, SizesKept
      <3>3. (verdict = "size" => TooLarge(text)) /\ (verdict = "limit" => TooMany(text))
        BY <2>2 DEF IInv, Judged
      <3>4. /\ TooLarge(text) => Expected[text].longest > MaxRecordBytes
            /\ TooMany(text) => Len(Expected[text].rows) > MaxRows
        BY <3>1, ExpectedCaps DEF TooMany
      <3> QED BY <3>2, <3>3, <3>4 DEF CapsKept
    <2> QED BY <2>1, <2>2 DEF CapsTrue
  <1> QED BY <1>1, Invariance, PTL

-----------------------------------------------------------------------------
(* parseRecord *)

Delimiters == {"c", "s"}

\* Where a record has its delimiters.
Cuts(r, d) == {i \in 1..Len(r) : r[i] = d /\ ~Inside(r, i)}

\* What the recursive function gives, for a function that satisfies its
\* equation; there is one for every length (SeenIs).
LEMMA SeenOnce ==
    ASSUME NEW r, NEW d, NEW n \in Nat, n = Len(r),
           NEW f, f = [i \in 0..n |-> IF i = 0 THEN NothingSeen ELSE Taken(f[i - 1], r, d, i)]
    PROVE  /\ Seen(r, d)[0] = NothingSeen
           /\ \A i \in 1..n : Seen(r, d)[i] = Taken(Seen(r, d)[i - 1], r, d, i)
  <1> DEFINE Is(g) == g = [i \in 0..n |-> IF i = 0 THEN NothingSeen ELSE Taken(g[i - 1], r, d, i)]
  <1>1. Seen(r, d) = CHOOSE g : Is(g)
    BY DEF Seen
  <1>2. Is(f)
    OBVIOUS
  <1> HIDE DEF Is
  <1>3. Is(Seen(r, d))
    BY <1>1, <1>2
  <1>4. 0 \in 0..n /\ \A i \in 1..n : i \in 0..n /\ i # 0
    OBVIOUS
  <1> QED BY <1>3, <1>4 DEF Is

LEMMA SeenIs ==
    ASSUME NEW r \in Strings, NEW d
    PROVE  /\ Len(r) \in Nat
           /\ Seen(r, d)[0] = NothingSeen
           /\ \A i \in 1..Len(r) : Seen(r, d)[i] = Taken(Seen(r, d)[i - 1], r, d, i)
  <1> DEFINE Runs(m) == \E f : f = [i \in 0..m |-> IF i = 0 THEN NothingSeen ELSE Taken(f[i - 1], r, d, i)]
             T == {m \in Nat : Runs(m)}
  <1>1. 0 \in T
    <2> DEFINE f == [i \in 0..0 |-> NothingSeen]
    <2>1. f = [i \in 0..0 |-> IF i = 0 THEN NothingSeen ELSE Taken(f[i - 1], r, d, i)]
      <3>1. \A i \in 0..0 : i = 0
        OBVIOUS
      <3> QED BY <3>1
    <2> QED BY <2>1
  <1>2. ASSUME NEW m \in T
        PROVE  m + 1 \in T
    <2>1. m \in Nat /\ m + 1 \in Nat
      OBVIOUS
    <2>2. PICK f : f = [i \in 0..m |-> IF i = 0 THEN NothingSeen ELSE Taken(f[i - 1], r, d, i)]
      OBVIOUS
    <2> DEFINE g == [i \in 0..(m + 1) |-> IF i = m + 1 THEN Taken(f[m], r, d, m + 1) ELSE f[i]]
    <2>3. \A i \in 0..(m + 1) : g[i] = IF i = 0 THEN NothingSeen ELSE Taken(g[i - 1], r, d, i)
      <3> SUFFICES ASSUME NEW i \in 0..(m + 1)
                   PROVE  g[i] = IF i = 0 THEN NothingSeen ELSE Taken(g[i - 1], r, d, i)
        OBVIOUS
      <3>1. CASE i = 0
        <4>1. 0 \in 0..m /\ 0 # m + 1 /\ 0 \in 0..(m + 1)
          BY <2>1
        <4> QED BY <2>2, <3>1, <4>1
      <3>2. CASE i = m + 1
        <4>1. i - 1 = m /\ m \in 0..(m + 1) /\ m # m + 1 /\ i # 0
          BY <2>1, <3>2
        <4>2. g[i] = Taken(f[m], r, d, m + 1) /\ g[m] = f[m]
          BY <3>2, <4>1
        <4> QED BY <3>2, <4>1, <4>2
      <3>3. CASE i # 0 /\ i # m + 1
        <4>1. i \in 0..m /\ i - 1 \in 0..m /\ i - 1 \in 0..(m + 1) /\ i - 1 # m + 1
          BY <2>1, <3>3
        <4>2. g[i] = f[i] /\ g[i - 1] = f[i - 1]
          BY <3>3, <4>1
        <4>3. f[i] = Taken(f[i - 1], r, d, i)
          BY <2>2, <3>3, <4>1
        <4> QED BY <3>3, <4>2, <4>3
      <3> QED BY <3>1, <3>2, <3>3
    <2>4. PICK h : h = g
      OBVIOUS
    <2>5. h = [i \in 0..(m + 1) |-> h[i]]
      BY <2>4
    <2>6. \A i \in 0..(m + 1) : h[i] = IF i = 0 THEN NothingSeen ELSE Taken(h[i - 1], r, d, i)
      BY <2>3, <2>4
    <2> HIDE DEF g
    <2>7. h = [i \in 0..(m + 1) |-> IF i = 0 THEN NothingSeen ELSE Taken(h[i - 1], r, d, i)]
      BY <2>5, <2>6
    <2> QED BY <2>1, <2>7
  <1>3. Len(r) \in Nat
    BY DEF Strings
  <1>4. T \in SUBSET Nat
    OBVIOUS
  <1> HIDE DEF T
  <1>5. Len(r) \in T
    BY <1>1, <1>2, <1>3, <1>4, Induction
  <1>6. PICK f : f = [i \in 0..Len(r) |-> IF i = 0 THEN NothingSeen ELSE Taken(f[i - 1], r, d, i)]
    BY <1>5 DEF T
  <1> QED BY <1>3, <1>6, SeenOnce

\* What is left at some positions, by the rank of each.
LEMMA OnlyIs ==
    ASSUME NEW S, NEW s \in Seq(S), NEW P \in SUBSET (1..Len(s)),
           NEW R, NEW w \in Seq(R), Len(w) = Cardinality(P), \A i \in P : w[Rank(P, i)] = s[i]
    PROVE  Only(s, P) = w
  <1> DEFINE c == Cardinality(P)
             o == InOrder(P)
  <1>1. Len(s) \in Nat
    OBVIOUS
  <1>2. /\ Len(o) = c /\ o \in Seq(P)
        /\ \A k \in 1..c : o[k] \in P /\ Rank(P, o[k]) = k
    BY <1>1, Ordered
  <1>3. /\ Only(s, P) \in Seq(S) /\ Len(Only(s, P)) = c /\ c \in Nat
        /\ \A k \in 1..c : Only(s, P)[k] = s[o[k]]
    BY OnlyThese
  <1> HIDE DEF c, o
  <1>4. \A k \in 1..c : Only(s, P)[k] = w[k]
    BY <1>2, <1>3
  <1>5. Len(w) = c
    BY DEF c
  <1>6. DOMAIN Only(s, P) = 1..c /\ DOMAIN w = 1..c
    BY <1>3, <1>5
  <1>7. /\ Only(s, P) = [k \in DOMAIN Only(s, P) |-> Only(s, P)[k]]
        /\ w = [k \in DOMAIN w |-> w[k]]
    BY <1>3
  <1> QED BY <1>4, <1>6, <1>7

\* One more position behind the others.
LEMMA OnlyGrows ==
    ASSUME NEW S, NEW s \in Seq(S), NEW n \in 1..Len(s), NEW P \in SUBSET (1..Len(s)),
           \A i \in P : i < n
    PROVE  /\ Only(s, P \cup {n}) = Append(Only(s, P), s[n])
           /\ Cardinality(P \cup {n}) = Cardinality(P) + 1
  <1> DEFINE Q == P \cup {n}
             w == Append(Only(s, P), s[n])
  <1>1. /\ Len(s) \in Nat /\ n \in Nat /\ s[n] \in S
        /\ (\A i \in P : i \in Nat /\ i # 0) /\ Q \in SUBSET (1..Len(s))
    OBVIOUS
  <1>2. /\ P \in Positions /\ Q \in Positions
        /\ Rank(Q, Len(s)) = Cardinality(Q) /\ Rank(P, Len(s)) = Cardinality(P)
        /\ Cardinality(P) \in Nat /\ Cardinality(Q) \in Nat
    BY <1>1, RankOfAll
  <1>3. \A i \in 0..(n - 1) : Rank(Q, i) = Rank(P, i)
    <2>1. \A i \in 0..(n - 1) : {j \in Q : j <= i} = {j \in P : j <= i}
      BY <1>1
    <2> QED BY <2>1 DEF Rank
  <1>4. \A i \in n..Len(s) : Rank(Q, i) = Rank(P, i) + 1
    <2> SUFFICES ASSUME NEW i \in n..Len(s) PROVE Rank(Q, i) = Rank(P, i) + 1
      OBVIOUS
    <2>1. /\ {j \in Q : j <= i} = {j \in P : j <= i} \cup {n}
          /\ n \notin {j \in P : j <= i}
      BY <1>1
    <2>2. IsFiniteSet({j \in P : j <= i})
      <3>1. IsFiniteSet(P)
        BY <1>1, RankOfAll
      <3>2. {j \in P : j <= i} \subseteq P
        OBVIOUS
      <3> QED BY <3>1, <3>2, FS_Subset
    <2> QED BY <2>1, <2>2, FS_AddElement DEF Rank
  <1>5. Cardinality(Q) = Cardinality(P) + 1
    <2>1. Len(s) \in n..Len(s)
      BY <1>1
    <2> QED BY <1>2, <1>4, <2>1
  <1>6. Only(s, P) \in Seq(S) /\ Len(Only(s, P)) = Cardinality(P)
        /\ \A i \in P : Rank(P, i) \in 1..Cardinality(P) /\ Only(s, P)[Rank(P, i)] = s[i]
    BY OnlyThese
  <1> HIDE DEF Q
  <1>7. /\ w \in Seq(S) /\ Len(w) = Cardinality(P) + 1 /\ w[Cardinality(P) + 1] = s[n]
        /\ \A k \in 1..Cardinality(P) : w[k] = Only(s, P)[k]
    BY <1>1, <1>6, AppendProperties
  <1> HIDE DEF w
  <1>8. \A i \in Q : w[Rank(Q, i)] = s[i]
    <2> SUFFICES ASSUME NEW i \in Q PROVE w[Rank(Q, i)] = s[i]
      OBVIOUS
    <2>1. CASE i = n
      <3>1. Rank(Q, n) = Rank(P, n) + 1
        BY <1>1, <1>4
      <3>2. Rank(P, n) = Cardinality(P)
        <4>1. \A j \in P : ~(n < j /\ j <= Len(s))
          BY <1>1
        <4> QED BY <1>1, <1>2, <4>1, RankGrows
      <3> QED BY <1>7, <2>1, <3>1, <3>2
    <2>2. CASE i # n
      <3>1. i \in P /\ i \in 0..(n - 1)
        BY <1>1, <2>2 DEF Q
      <3>2. Rank(Q, i) = Rank(P, i) /\ Rank(P, i) \in 1..Cardinality(P)
        BY <1>3, <1>6, <3>1
      <3> QED BY <1>6, <1>7, <3>1, <3>2
    <2> QED BY <2>1, <2>2
  <1>9. Only(s, Q) = w
    BY <1>1, <1>5, <1>7, <1>8, OnlyIs
  <1> QED BY <1>5, <1>9 DEF Q, w

LEMMA OnlyNothing ==
    ASSUME NEW S, NEW s \in Seq(S)
    PROVE  Only(s, {}) = <<>>
  <1>1. Cardinality({}) = 0
    BY FS_EmptySet
  <1>2. Only(s, {}) \in Seq(S) /\ Len(Only(s, {})) = 0
    <2>1. {} \in SUBSET (1..Len(s))
      OBVIOUS
    <2> QED BY <1>1, <2>1, OnlyThese
  <1> QED BY <1>2, EmptySeq

\* Positions of a part, and the same ones of the whole.
LEMMA OnlyPart ==
    ASSUME NEW t \in Strings, NEW base \in Nat, NEW p \in Nat, NEW b, PartOf(t, b, base, p),
           NEW P \in SUBSET (1..Len(b)), NEW Q \in SUBSET (1..Len(t)),
           \A i \in Q : base < i /\ i <= p, Shifted(Q, P, base, Len(b))
    PROVE  Only(b, P) = Only(t, Q)
  <1>1. /\ b \in Strings /\ Len(b) \in Nat /\ base + Len(b) = p /\ \A i \in 1..Len(b) : b[i] = t[base + i]
    BY Part
  <1>2. base <= p /\ p <= Len(t) /\ Len(t) \in Nat /\ t \in Seq(Symbols) /\ b \in Seq(Symbols)
    BY <1>1 DEF PartOf, Strings
  <1>3. /\ P \in Positions /\ Q \in Positions /\ Cardinality(P) \in Nat /\ Cardinality(Q) \in Nat
        /\ Rank(P, Len(b)) = Cardinality(P) /\ Rank(Q, Len(t)) = Cardinality(Q)
    BY <1>1, <1>2, RankOfAll
  <1>4. Rank(Q, base) = 0
    <2>1. \A j \in Q : ~(0 < j /\ j <= base)
      BY <1>2
    <2>2. 0 \in Nat /\ 0 <= base
      OBVIOUS
    <2>3. Rank(Q, base) = Rank(Q, 0)
      BY <1>3, <2>1, <2>2, RankGrows
    <2> QED BY <1>3, <2>2, <2>3, RankStep
  <1>5. \A i \in 0..Len(b) : Rank(Q, base + i) = Rank(Q, base) + Rank(P, i)
    BY <1>1, <1>3, RankShift
  <1>6. \A i \in 0..Len(b) : Rank(P, i) \in Nat /\ Rank(Q, base + i) = Rank(P, i)
    <2>1. \A i \in 0..Len(b) : Rank(P, i) \in Nat
      BY <1>3, RankStep
    <2> QED BY <1>4, <1>5, <2>1
  <1>7. Cardinality(Q) = Cardinality(P)
    <2>1. Rank(Q, p) = Rank(Q, Len(t))
      <3>1. \A j \in Q : ~(p < j /\ j <= Len(t))
        BY <1>2
      <3> QED BY <1>2, <1>3, <3>1, RankGrows
    <2>2. Rank(Q, base + Len(b)) = Rank(P, Len(b))
      BY <1>1, <1>6
    <2> QED BY <1>1, <1>3, <2>1, <2>2
  <1>8. /\ Only(t, Q) \in Seq(Symbols) /\ Len(Only(t, Q)) = Cardinality(Q)
        /\ \A i \in Q : Only(t, Q)[Rank(Q, i)] = t[i]
    BY <1>2, OnlyThese
  <1>9. \A i \in P : Only(t, Q)[Rank(P, i)] = b[i]
    <2> SUFFICES ASSUME NEW i \in P PROVE Only(t, Q)[Rank(P, i)] = b[i]
      OBVIOUS
    <2>1. i \in 1..Len(b) /\ i \in 0..Len(b)
      BY <1>1
    <2>2. base + i \in Q
      BY <2>1 DEF Shifted
    <2> QED BY <1>1, <1>6, <1>8, <2>1, <2>2
  <1> QED BY <1>2, <1>7, <1>8, <1>9, OnlyIs

\* The quotes that are part of a field, and everything that is not a quote.
Marks(r) == {i \in 1..Len(r) : r[i] = "q" => i < Len(r) /\ r[i + 1] = "q" /\ ~Inside(r, i)}

\* What a field keeps of the characters between b and e.
Span(r, b, e) == Only(r, {i \in Marks(r) : b < i /\ i < e})

\* b is behind the last cut up to i.
Opens(cuts, b, i) == b <= i /\ \A c \in cuts : ~(b < c /\ c <= i)

\* The fields F are those that end up to i, and c is what the next has up to i.
Split(r, d, F, c, i) ==
    /\ F \in Seq(Strings) /\ c \in Strings /\ Len(F) = Rank(Cuts(r, d), i)
    /\ \A b \in {0} \cup Cuts(r, d), e \in Cuts(r, d) :
         e <= i /\ Neighbours(Cuts(r, d), b, e) => F[Rank(Cuts(r, d), e)] = Span(r, b, e)
    /\ \A b \in {0} \cup Cuts(r, d) : Opens(Cuts(r, d), b, i) => c = Span(r, b, i + 1)

LEMMA CutsType ==
    ASSUME NEW r \in Strings, NEW d
    PROVE  /\ Len(r) \in Nat /\ r \in Seq(Symbols) /\ Cuts(r, d) \in SUBSET (1..Len(r))
           /\ Cuts(r, d) \in Positions /\ Marks(r) \in SUBSET (1..Len(r))
           /\ \A i \in {0} \cup Cuts(r, d) : i \in Nat
  <1>1. Len(r) \in Nat /\ r \in Seq(Symbols)
    BY DEF Strings
  <1>2. Cuts(r, d) \in SUBSET (1..Len(r)) /\ Marks(r) \in SUBSET (1..Len(r))
    BY DEF Cuts, Marks
  <1>3. \A i \in 1..Len(r) : i \in Nat /\ i # 0
    OBVIOUS
  <1> QED BY <1>1, <1>2, <1>3 DEF Positions

LEMMA SpanGrows ==
    ASSUME NEW r \in Strings, NEW b \in Nat, NEW i \in 1..Len(r), b < i
    PROVE  /\ Span(r, i, i + 1) = <<>>
           /\ Span(r, b, i + 1) = IF i \in Marks(r) THEN Append(Span(r, b, i), r[i]) ELSE Span(r, b, i)
  <1> DEFINE P == {j \in Marks(r) : b < j /\ j < i}
  <1>1. Len(r) \in Nat /\ r \in Seq(Symbols) /\ Marks(r) \in SUBSET (1..Len(r))
    BY CutsType
  <1>2. {j \in Marks(r) : i < j /\ j < i + 1} = {}
    BY <1>1
  <1>3. Span(r, i, i + 1) = <<>>
    BY <1>1, <1>2, OnlyNothing DEF Span
  <1>4. P \in SUBSET (1..Len(r)) /\ \A j \in P : j < i
    BY <1>1
  <1>5. CASE i \in Marks(r)
    <2>1. {j \in Marks(r) : b < j /\ j < i + 1} = P \cup {i}
      BY <1>1, <1>5
    <2> HIDE DEF P
    <2>2. Only(r, P \cup {i}) = Append(Only(r, P), r[i])
      BY <1>1, <1>4, OnlyGrows
    <2> QED BY <1>3, <1>5, <2>1, <2>2 DEF Span, P
  <1>6. CASE i \notin Marks(r)
    <2>1. {j \in Marks(r) : b < j /\ j < i + 1} = P
      BY <1>1, <1>6
    <2> QED BY <1>3, <1>6, <2>1 DEF Span
  <1> QED BY <1>5, <1>6

\* A character that does not end a field.
LEMMA SplitKeeps ==
    ASSUME NEW r \in Strings, NEW d, NEW i \in 1..Len(r), NEW F, NEW c, Split(r, d, F, c, i - 1),
           i \notin Cuts(r, d)
    PROVE  Split(r, d, F, IF i \in Marks(r) THEN Append(c, r[i]) ELSE c, i)
  <1> DEFINE C == Cuts(r, d)
             next == IF i \in Marks(r) THEN Append(c, r[i]) ELSE c
  <1>1. /\ Len(r) \in Nat /\ r \in Seq(Symbols) /\ C \in Positions /\ C \in SUBSET (1..Len(r))
        /\ \A b \in {0} \cup C : b \in Nat
    BY CutsType
  <1>2. /\ F \in Seq(Strings) /\ c \in Strings /\ Len(F) = Rank(C, i - 1)
        /\ \A b \in {0} \cup C, e \in C : e <= i - 1 /\ Neighbours(C, b, e) => F[Rank(C, e)] = Span(r, b, e)
        /\ \A b \in {0} \cup C : Opens(C, b, i - 1) => c = Span(r, b, (i - 1) + 1)
    BY DEF Split
  <1>3. i \notin C
    OBVIOUS
  <1>4. i \in Nat /\ i - 1 \in Nat /\ (i - 1) + 1 = i /\ i # 0 /\ r[i] \in Symbols
    BY <1>1
  <1> HIDE DEF C
  <1>5. Rank(C, i) = Rank(C, i - 1)
    BY <1>1, <1>3, <1>4, RankStep
  <1>6. next \in Strings
    BY <1>2, <1>4 DEF Strings
  <1>7. ASSUME NEW b \in {0} \cup C, NEW e \in C, e <= i, Neighbours(C, b, e)
        PROVE  F[Rank(C, e)] = Span(r, b, e)
    <2>1. e \in Nat /\ e # i
      BY <1>1, <1>3
    <2>2. e <= i - 1
      BY <1>4, <1>7, <2>1
    <2> QED BY <1>2, <1>7, <2>2
  <1>8. ASSUME NEW b \in {0} \cup C, Opens(C, b, i)
        PROVE  next = Span(r, b, i + 1)
    <2>1. b \in Nat /\ b # i /\ b <= i /\ \A k \in C : ~(b < k /\ k <= i)
      BY <1>1, <1>3, <1>4, <1>8 DEF Opens
    <2>2. b < i /\ b <= i - 1
      BY <1>4, <2>1
    <2>3. \A k \in C : ~(b < k /\ k <= i - 1)
      <3>1. \A k \in C : k \in Nat
        BY <1>1
      <3> QED BY <1>4, <2>1, <3>1
    <2>4. c = Span(r, b, i)
      BY <1>2, <1>4, <2>2, <2>3 DEF Opens
    <2> QED BY <1>4, <2>1, <2>2, <2>4, SpanGrows
  <1> HIDE DEF next
  <1> QED BY <1>2, <1>5, <1>6, <1>7, <1>8 DEF Split, C, next

\* A delimiter.
LEMMA SplitCuts ==
    ASSUME NEW r \in Strings, NEW d, NEW i \in 1..Len(r), NEW F, NEW c, Split(r, d, F, c, i - 1),
           i \in Cuts(r, d)
    PROVE  Split(r, d, Append(F, c), <<>>, i)
  <1> DEFINE C == Cuts(r, d)
             G == Append(F, c)
  <1>1. /\ Len(r) \in Nat /\ r \in Seq(Symbols) /\ C \in Positions /\ C \in SUBSET (1..Len(r))
        /\ \A b \in {0} \cup C : b \in Nat
    BY CutsType
  <1>2. /\ F \in Seq(Strings) /\ c \in Strings /\ Len(F) = Rank(C, i - 1)
        /\ \A b \in {0} \cup C, e \in C : e <= i - 1 /\ Neighbours(C, b, e) => F[Rank(C, e)] = Span(r, b, e)
        /\ \A b \in {0} \cup C : Opens(C, b, i - 1) => c = Span(r, b, (i - 1) + 1)
    BY DEF Split
  <1>3. i \in C
    OBVIOUS
  <1>4. i \in Nat /\ i - 1 \in Nat /\ (i - 1) + 1 = i /\ i # 0
    BY <1>1
  <1> HIDE DEF C
  <1>5. Rank(C, i) = Rank(C, i - 1) + 1 /\ Rank(C, i - 1) \in Nat
    BY <1>1, <1>3, <1>4, RankStep
  <1>6. /\ G \in Seq(Strings) /\ Len(G) = Len(F) + 1 /\ G[Len(F) + 1] = c
        /\ \A k \in 1..Len(F) : G[k] = F[k]
    BY <1>2, AppendProperties
  <1> HIDE DEF G
  <1>7. <<>> \in Strings
    BY DEF Strings
  <1>8. ASSUME NEW b \in {0} \cup C, NEW e \in C, e <= i, Neighbours(C, b, e)
        PROVE  G[Rank(C, e)] = Span(r, b, e)
    <2>1. b \in Nat /\ e \in Nat /\ e # 0 /\ b < e /\ \A k \in C : ~(b < k /\ k < e)
      BY <1>1, <1>8 DEF Neighbours
    <2>2. CASE e = i
      <3>1. Opens(C, b, i - 1)
        <4>1. \A k \in C : k \in Nat
          BY <1>1
        <4>2. b <= i - 1 /\ \A k \in C : ~(b < k /\ k <= i - 1)
          BY <1>4, <2>1, <2>2, <4>1
        <4> QED BY <4>2 DEF Opens
      <3>2. c = Span(r, b, i)
        BY <1>2, <1>4, <3>1
      <3> QED BY <1>2, <1>5, <1>6, <2>2, <3>2
    <2>3. CASE e # i
      <3>1. e <= i - 1
        BY <1>4, <1>8, <2>1, <2>3
      <3>2. F[Rank(C, e)] = Span(r, b, e)
        BY <1>2, <1>8, <3>1
      <3>3. Rank(C, e) \in 1..Len(F)
        <4>1. Rank(C, e) <= Rank(C, i - 1) /\ Rank(C, 0) < Rank(C, e)
          BY <1>1, <1>4, <2>1, <3>1, RankGrows
        <4>2. Rank(C, 0) = 0 /\ Rank(C, e) \in Nat
          BY <1>1, <2>1, RankStep
        <4> QED BY <1>2, <1>5, <4>1, <4>2
      <3> QED BY <1>6, <3>2, <3>3
    <2> QED BY <2>2, <2>3
  <1>9. ASSUME NEW b \in {0} \cup C, Opens(C, b, i)
        PROVE  <<>> = Span(r, b, i + 1)
    <2>1. b \in Nat /\ b <= i /\ ~(b < i)
      BY <1>1, <1>3, <1>4, <1>9 DEF Opens
    <2>2. b = i
      BY <1>4, <2>1
    <2>3. Span(r, i, i + 1) = <<>>
      <3>1. i - 1 < i
        BY <1>4
      <3> QED BY <1>4, <3>1, SpanGrows
    <2> QED BY <2>2, <2>3
  <1>10. Len(G) = Rank(C, i)
    BY <1>2, <1>5, <1>6
  <1> QED BY <1>6, <1>7, <1>8, <1>9, <1>10 DEF Split, C, G

\* One more character and the quotes.
LEMMA InsideStep ==
    ASSUME NEW r \in Strings, NEW i \in 1..Len(r)
    PROVE  Inside(r, i) <=> (r[i] = "q" <=> ~Inside(r, i - 1))
  <1>1. /\ Quotes(r) \in Positions /\ Len(r) \in Nat
        /\ \A k \in Nat : Rank(Quotes(r), k) \in Nat
    BY QuoteRanks
  <1>2. i \in Nat /\ i - 1 \in Nat /\ (i - 1) + 1 = i
    BY <1>1
  <1>3. Rank(Quotes(r), i) = IF i \in Quotes(r) THEN Rank(Quotes(r), i - 1) + 1 ELSE Rank(Quotes(r), i - 1)
    <2>1. PICK k \in Nat : k = i - 1 /\ i = k + 1
      BY <1>2
    <2>2. Rank(Quotes(r), k + 1) = IF k + 1 \in Quotes(r) THEN Rank(Quotes(r), k) + 1 ELSE Rank(Quotes(r), k)
      BY <1>1, RankStep
    <2> QED BY <2>1, <2>2
  <1>4. i \in Quotes(r) <=> r[i] = "q"
    BY DEF Quotes
  <1>5. PICK a \in Nat : a = Rank(Quotes(r), i - 1)
    BY <1>1, <1>2
  <1>6. PICK b \in Nat : b = Rank(Quotes(r), i)
    BY <1>1, <1>2
  <1>7. b = IF r[i] = "q" THEN a + 1 ELSE a
    BY <1>3, <1>4, <1>5, <1>6
  <1>8. ((a + 1) % 2 = 1) <=> ~(a % 2 = 1)
    OBVIOUS
  <1> QED BY <1>5, <1>6, <1>7, <1>8 DEF Inside

\* The flags of parseRecord after the first i characters.
Flags(r, p, i) ==
    /\ p \in Partial
    /\ p.skip => p.open /\ i < Len(r) /\ r[i + 1] = "q" /\ ~Inside(r, i)
    /\ ~p.skip => (p.open <=> Inside(r, i))

Progress(r, d, p, i) == Flags(r, p, i) /\ Split(r, d, p.fields, p.current, i)

\* One more character.
LEMMA TakenSplits ==
    ASSUME NEW r \in Strings, NEW d \in Delimiters, NEW i \in 1..Len(r), NEW p, Progress(r, d, p, i - 1)
    PROVE  Progress(r, d, Taken(p, r, d, i), i)
  <1> DEFINE m == Taken(p, r, d, i)
             grown == IF i \in Marks(r) THEN Append(p.current, r[i]) ELSE p.current
  <1>1. /\ p \in Partial /\ p.skip \in BOOLEAN /\ p.open \in BOOLEAN
        /\ p.fields \in Seq(Strings) /\ p.current \in Strings
        /\ p = [fields |-> p.fields, current |-> p.current, open |-> p.open, skip |-> p.skip]
    BY DEF Progress, Flags, Partial, Strings
  <1>2. /\ p.skip => p.open /\ i - 1 < Len(r) /\ r[(i - 1) + 1] = "q" /\ ~Inside(r, i - 1)
        /\ ~p.skip => (p.open <=> Inside(r, i - 1))
        /\ Split(r, d, p.fields, p.current, i - 1)
    BY DEF Progress, Flags
  <1>3. Inside(r, i) <=> (r[i] = "q" <=> ~Inside(r, i - 1))
    BY InsideStep
  <1>4. Len(r) \in Nat /\ i \in Nat /\ (i - 1) + 1 = i /\ r[i] \in Symbols
    BY CutsType
  <1>5. i \in Marks(r) <=> (r[i] = "q" => i < Len(r) /\ r[i + 1] = "q" /\ ~Inside(r, i))
    BY DEF Marks
  <1>6. i \in Cuts(r, d) <=> r[i] = d /\ ~Inside(r, i)
    BY DEF Cuts
  <1>7. d # "q"
    BY DEF Delimiters
  <1>8. i \notin Cuts(r, d) => Split(r, d, p.fields, grown, i)
    BY <1>2, SplitKeeps
  <1>9. i \in Cuts(r, d) => Split(r, d, Append(p.fields, p.current), <<>>, i)
    BY <1>2, SplitCuts
  <1>10. /\ Append(p.current, r[i]) \in Strings /\ <<>> \in Strings
         /\ Append(p.fields, p.current) \in Seq(Strings)
    BY <1>1, <1>4 DEF Strings
  <1> HIDE DEF m
  <1>11. CASE p.skip
    <2>1. m = [fields |-> p.fields, current |-> p.current, open |-> p.open, skip |-> FALSE]
      BY <1>1, <1>11 DEF m, Taken
    <2>2. r[i] = "q" /\ Inside(r, i) /\ p.open
      BY <1>2, <1>3, <1>4, <1>11
    <2>3. Split(r, d, p.fields, p.current, i)
      BY <1>5, <1>6, <1>7, <1>8, <2>2
    <2>4. m \in Partial /\ ~m.skip /\ m.open /\ m.fields = p.fields /\ m.current = p.current
      BY <1>1, <2>1, <2>2 DEF Partial, Strings
    <2> QED BY <2>2, <2>3, <2>4 DEF Progress, Flags, m
  <1>12. CASE ~p.skip /\ r[i] = "q" /\ p.open /\ i < Len(r) /\ r[i + 1] = "q"
    <2>1. m = [fields |-> p.fields, current |-> Append(p.current, "q"), open |-> p.open, skip |-> TRUE]
      BY <1>1, <1>12 DEF m, Taken
    <2>2. ~Inside(r, i) /\ i \in Marks(r) /\ i \notin Cuts(r, d)
      BY <1>2, <1>3, <1>5, <1>6, <1>7, <1>12
    <2>3. Split(r, d, p.fields, Append(p.current, r[i]), i)
      BY <1>8, <2>2
    <2>4. /\ m \in Partial /\ m.skip /\ m.open
          /\ m.fields = p.fields /\ m.current = Append(p.current, r[i])
      BY <1>1, <1>10, <1>12, <2>1 DEF Partial, Strings
    <2> QED BY <1>12, <2>2, <2>3, <2>4 DEF Progress, Flags, m
  <1>13. CASE ~p.skip /\ r[i] = "q" /\ ~(p.open /\ i < Len(r) /\ r[i + 1] = "q")
    <2>1. m = [fields |-> p.fields, current |-> p.current, open |-> ~p.open, skip |-> FALSE]
      <3>1. CASE p.open
        <4>1. m = [p EXCEPT !.open = FALSE]
          BY <1>13, <3>1 DEF m, Taken
        <4> QED BY <1>1, <1>13, <3>1, <4>1
      <3>2. CASE ~p.open
        <4>1. m = [p EXCEPT !.open = TRUE]
          BY <1>7, <1>13, <3>2 DEF m, Taken
        <4> QED BY <1>1, <1>13, <3>2, <4>1
      <3> QED BY <3>1, <3>2
    <2>2. (Inside(r, i) <=> ~p.open) /\ i \notin Marks(r) /\ i \notin Cuts(r, d)
      BY <1>2, <1>3, <1>5, <1>6, <1>7, <1>13
    <2>3. Split(r, d, p.fields, p.current, i)
      BY <1>8, <2>2
    <2>4. /\ m \in Partial /\ ~m.skip /\ (m.open <=> ~p.open)
          /\ m.fields = p.fields /\ m.current = p.current
      BY <1>1, <2>1 DEF Partial, Strings
    <2> QED BY <2>2, <2>3, <2>4 DEF Progress, Flags, m
  <1>14. CASE ~p.skip /\ r[i] # "q" /\ r[i] = d /\ ~p.open
    <2>1. m = [fields |-> Append(p.fields, p.current), current |-> <<>>, open |-> p.open, skip |-> FALSE]
      BY <1>1, <1>14 DEF m, Taken
    <2>2. ~Inside(r, i) /\ i \in Cuts(r, d)
      BY <1>2, <1>3, <1>6, <1>14
    <2>3. Split(r, d, Append(p.fields, p.current), <<>>, i)
      BY <1>9, <2>2
    <2>4. /\ m \in Partial /\ ~m.skip /\ ~m.open
          /\ m.fields = Append(p.fields, p.current) /\ m.current = <<>>
      BY <1>1, <1>10, <1>14, <2>1 DEF Partial, Strings
    <2> QED BY <2>2, <2>3, <2>4 DEF Progress, Flags, m
  <1>15. CASE ~p.skip /\ r[i] # "q" /\ ~(r[i] = d /\ ~p.open)
    <2>1. m = [fields |-> p.fields, current |-> Append(p.current, r[i]), open |-> p.open, skip |-> FALSE]
      BY <1>1, <1>15 DEF m, Taken
    <2>2. (Inside(r, i) <=> p.open) /\ i \in Marks(r) /\ i \notin Cuts(r, d)
      BY <1>2, <1>3, <1>5, <1>6, <1>15
    <2>3. Split(r, d, p.fields, Append(p.current, r[i]), i)
      BY <1>8, <2>2
    <2>4. /\ m \in Partial /\ ~m.skip /\ (m.open <=> p.open)
          /\ m.fields = p.fields /\ m.current = Append(p.current, r[i])
      BY <1>1, <1>10, <2>1 DEF Partial, Strings
    <2> QED BY <2>2, <2>3, <2>4 DEF Progress, Flags, m
  <1> QED BY <1>1, <1>11, <1>12, <1>13, <1>14, <1>15

LEMMA NothingSplits ==
    ASSUME NEW r \in Strings, NEW d
    PROVE  Progress(r, d, NothingSeen, 0)
  <1>1. /\ Len(r) \in Nat /\ r \in Seq(Symbols) /\ Cuts(r, d) \in Positions /\ Marks(r) \in SUBSET (1..Len(r))
        /\ \A b \in {0} \cup Cuts(r, d) : b \in Nat
    BY CutsType
  <1>2. <<>> \in Strings /\ <<>> \in Seq(Strings) /\ Len(<<>>) = 0
    BY DEF Strings
  <1>3. Flags(r, NothingSeen, 0)
    <2>1. ~Inside(r, 0)
      BY QuoteRanks
    <2>2. NothingSeen \in Partial /\ NothingSeen.open = FALSE /\ NothingSeen.skip = FALSE
      BY <1>2 DEF NothingSeen, Partial, Strings
    <2> QED BY <2>1, <2>2 DEF Flags
  <1>4. Split(r, d, <<>>, <<>>, 0)
    <2>1. Rank(Cuts(r, d), 0) = 0
      <3>1. 0 \in Nat
        OBVIOUS
      <3> QED BY <1>1, <3>1, RankStep
    <2>2. \A e \in Cuts(r, d) : ~(e <= 0)
      BY <1>1 DEF Positions
    <2>3. ASSUME NEW b \in {0} \cup Cuts(r, d), Opens(Cuts(r, d), b, 0)
          PROVE  <<>> = Span(r, b, 0 + 1)
      <3>1. b = 0
        BY <1>1, <2>3 DEF Opens
      <3>2. {j \in Marks(r) : 0 < j /\ j < 0 + 1} = {}
        BY <1>1
      <3> QED BY <1>1, <3>1, <3>2, OnlyNothing DEF Span
    <2> QED BY <1>2, <2>1, <2>2, <2>3 DEF Split
  <1>5. NothingSeen.fields = <<>> /\ NothingSeen.current = <<>>
    BY DEF NothingSeen
  <1> QED BY <1>3, <1>4, <1>5 DEF Progress

LEMMA SeenSplits ==
    ASSUME NEW r \in Strings, NEW d \in Delimiters
    PROVE  Progress(r, d, Seen(r, d)[Len(r)], Len(r))
  <1> DEFINE T == {i \in Nat : i <= Len(r) => Progress(r, d, Seen(r, d)[i], i)}
  <1>1. /\ Len(r) \in Nat /\ Seen(r, d)[0] = NothingSeen
        /\ \A i \in 1..Len(r) : Seen(r, d)[i] = Taken(Seen(r, d)[i - 1], r, d, i)
    BY SeenIs
  <1>2. T \in SUBSET Nat
    OBVIOUS
  <1>3. 0 \in T
    <2>1. Progress(r, d, NothingSeen, 0)
      BY NothingSplits
    <2> QED BY <1>1, <2>1
  <1>4. ASSUME NEW k \in T PROVE k + 1 \in T
    <2>1. k \in Nat /\ k + 1 \in Nat
      OBVIOUS
    <2> SUFFICES ASSUME k + 1 <= Len(r) PROVE Progress(r, d, Seen(r, d)[k + 1], k + 1)
      BY <2>1
    <2>2. k <= Len(r) /\ k + 1 \in 1..Len(r) /\ (k + 1) - 1 = k
      BY <1>1, <2>1
    <2>3. Progress(r, d, Seen(r, d)[(k + 1) - 1], (k + 1) - 1)
      BY <2>2
    <2>4. Progress(r, d, Taken(Seen(r, d)[(k + 1) - 1], r, d, k + 1), k + 1)
      BY <2>2, <2>3, TakenSplits
    <2> QED BY <1>1, <2>2, <2>4
  <1> HIDE DEF T
  <1>5. Len(r) \in T
    BY <1>1, <1>2, <1>3, <1>4, Induction
  <1>6. Len(r) <= Len(r)
    BY <1>1
  <1> QED BY <1>5, <1>6 DEF T

-----------------------------------------------------------------------------
(* Fields *)

LEMMA CutsAre ==
    ASSUME NEW r \in Strings, NEW d
    PROVE  {i \in DOMAIN r : r[i] = d /\ Unquoted(r, i)} = Cuts(r, d)
  <1>1. Len(r) \in Nat /\ DOMAIN r = 1..Len(r)
    BY DEF Strings
  <1>2. ASSUME NEW i \in 1..Len(r) PROVE Unquoted(r, i) <=> ~Inside(r, i)
    <2>1. 0 \in 0..Len(r) /\ i \in 0..Len(r) /\ TRUE \in BOOLEAN
      BY <1>1
    <2> QED BY <2>1, QuotedBy
  <1> QED BY <1>1, <1>2 DEF Cuts

\* What a piece holds by its own quotes is what the record says of the place.
LEMMA ContentIs ==
    ASSUME NEW r \in Strings, NEW d \in Delimiters, NEW b \in {0} \cup Cuts(r, d),
           NEW e \in Cuts(r, d) \cup {Len(r) + 1}, b < e
    PROVE  Content(SubSeq(r, b + 1, e - 1)) = Trim(Span(r, b, e))
  <1>1. /\ Len(r) \in Nat /\ r \in Seq(Symbols) /\ Cuts(r, d) \in SUBSET (1..Len(r))
        /\ Marks(r) \in SUBSET (1..Len(r)) /\ b \in Nat /\ e \in Nat /\ e <= Len(r) + 1
    BY CutsType
  <1>2. PICK p \in Nat : p = e - 1 /\ b <= p /\ p <= Len(r) /\ e = p + 1
    BY <1>1
  <1>3. PICK s : s = SubSeq(r, b + 1, p)
    OBVIOUS
  <1>4. PartOf(r, s, b, p)
    BY <1>2, <1>3 DEF PartOf
  <1>5. /\ s \in Strings /\ Len(s) \in Nat /\ b + Len(s) = p
        /\ \A i \in 1..Len(s) : s[i] = r[b + i]
    BY <1>1, <1>4, Part
  <1>6. ~Inside(r, b)
    <2>1. ~Inside(r, 0)
      BY QuoteRanks
    <2> QED BY <2>1 DEF Cuts
  <1>7. \A i \in 1..Len(s) : (Inside(s, i) <=> Inside(r, b + i)) /\ (Unquoted(s, i) <=> ~Inside(s, i))
    <2> SUFFICES ASSUME NEW i \in 1..Len(s)
                 PROVE  (Inside(s, i) <=> Inside(r, b + i)) /\ (Unquoted(s, i) <=> ~Inside(s, i))
      OBVIOUS
    <2>1. 0 \in 0..Len(s) /\ i \in 0..Len(s) /\ TRUE \in BOOLEAN
      BY <1>5
    <2>2. Inside(s, i) <=> ~(Inside(r, b) <=> Inside(r, b + i))
      BY <1>1, <1>4, <2>1, InsidePart
    <2>3. Unquoted(s, i) <=> ~Inside(s, i)
      BY <1>5, <2>1, QuotedBy
    <2> QED BY <1>6, <2>2, <2>3
  <1> DEFINE P == {i \in DOMAIN s : s[i] = "q" => i < Len(s) /\ s[i + 1] = "q" /\ Unquoted(s, i)}
             Q == {j \in Marks(r) : b < j /\ j < e}
  <1>8. DOMAIN s = 1..Len(s)
    BY <1>5 DEF Strings
  <1>9. ASSUME NEW i \in 1..Len(s) PROVE i \in P <=> b + i \in Q
    <2>1. /\ i \in Nat /\ b + i \in 1..Len(r) /\ b < b + i /\ b + i < e
          /\ (b + i) + 1 = b + (i + 1) /\ s[i] = r[b + i]
      BY <1>1, <1>2, <1>5
    <2>2. i \in P <=> (s[i] = "q" => i < Len(s) /\ s[i + 1] = "q" /\ ~Inside(r, b + i))
      BY <1>7, <1>8
    <2>3. b + i \in Q <=> (r[b + i] = "q" => b + i < Len(r) /\ r[(b + i) + 1] = "q" /\ ~Inside(r, b + i))
      BY <2>1 DEF Marks
    <2>4. CASE i < Len(s)
      <3>1. i + 1 \in 1..Len(s) /\ b + i < Len(r)
        BY <1>2, <1>5, <2>1, <2>4
      <3>2. s[i + 1] = r[(b + i) + 1]
        BY <1>5, <2>1, <3>1
      <3> HIDE DEF P, Q
      <3> QED BY <2>1, <2>2, <2>3, <2>4, <3>1, <3>2
    <2>5. CASE ~(i < Len(s))
      <3>1. b + i = p /\ (b + i) + 1 = e
        BY <1>1, <1>2, <1>5, <2>1, <2>5
      <3>2. ~(b + i < Len(r) /\ r[(b + i) + 1] = "q")
        <4>1. CASE e = Len(r) + 1
          BY <1>1, <1>2, <3>1, <4>1
        <4>2. CASE e \in Cuts(r, d)
          <5>1. r[e] = d /\ d # "q"
            BY <4>2 DEF Cuts, Delimiters
          <5> QED BY <3>1, <5>1
        <4> QED BY <4>1, <4>2
      <3> HIDE DEF P, Q
      <3> QED BY <2>1, <2>2, <2>3, <2>5, <3>2
    <2> QED BY <2>4, <2>5
  <1>10. P \in SUBSET (1..Len(s)) /\ Q \in SUBSET (1..Len(r)) /\ \A i \in Q : b < i /\ i <= p
    BY <1>1, <1>2, <1>8
  <1>11. Content(s) = Trim(Only(s, P)) /\ Span(r, b, e) = Only(r, Q)
    BY DEF Content, Span
  <1> HIDE DEF P, Q
  <1>12. Shifted(Q, P, b, Len(s))
    BY <1>9 DEF Shifted
  <1>13. Only(s, P) = Only(r, Q)
    BY <1>1, <1>4, <1>10, <1>12, OnlyPart
  <1> QED BY <1>2, <1>3, <1>11, <1>13

\* The fields of a record, as the property has them and as parseRecord does.
FieldAt(r, d, k) == Trim(Span(r, PieceFrom(Cuts(r, d), k), PieceTo(r, Cuts(r, d), k)))

LEMMA FieldsAre ==
    ASSUME NEW r \in Strings, NEW d \in Delimiters
    PROVE  FieldsOf(r, d) = [k \in 1..(Cardinality(Cuts(r, d)) + 1) |-> FieldAt(r, d, k)]
  <1> DEFINE C == Cuts(r, d)
             n == Cardinality(C) + 1
             ps == Pieces(r, C)
  <1>1. C \in SUBSET (1..Len(r)) /\ Len(r) \in Nat
    BY CutsType
  <1>2. ps \in Seq(Strings) /\ Len(ps) = n /\ n \in Nat
    BY <1>1, PieceAt
  <1>3. FieldsOf(r, d) = [k \in DOMAIN ps |-> Content(ps[k])]
    <2>1. {i \in DOMAIN r : r[i] = d /\ Unquoted(r, i)} = C
      BY CutsAre
    <2> QED BY <2>1 DEF FieldsOf, ContentOf
  <1>4. ASSUME NEW k \in 1..n PROVE Content(ps[k]) = FieldAt(r, d, k)
    <2>1. /\ PieceFrom(C, k) \in {0} \cup C /\ PieceTo(r, C, k) \in C \cup {Len(r) + 1}
          /\ PieceFrom(C, k) < PieceTo(r, C, k)
          /\ ps[k] = SubSeq(r, PieceFrom(C, k) + 1, PieceTo(r, C, k) - 1)
      BY <1>1, PieceEnds
    <2> QED BY <2>1, ContentIs DEF FieldAt
  <1> HIDE DEF ps, n
  <1>5. DOMAIN ps = 1..n
    BY <1>2
  <1>6. FieldsOf(r, d) = [k \in 1..n |-> FieldAt(r, d, k)]
    BY <1>3, <1>4, <1>5
  <1> QED BY <1>6 DEF n

LEMMA CellsAre ==
    ASSUME NEW r \in Strings, NEW d \in Delimiters
    PROVE  Cells(r, d) = FieldsOf(r, d)
  <1> DEFINE C == Cuts(r, d)
             n == Cardinality(C)
             end == Seen(r, d)[Len(r)]
             ps == ParseRecord(r, d)
  <1>1. /\ C \in SUBSET (1..Len(r)) /\ C \in Positions /\ Len(r) \in Nat /\ n \in Nat
        /\ Rank(C, Len(r)) = n /\ (\A i \in {0} \cup C : i \in Nat)
        /\ \A i \in C : Rank(C, i) \in 1..n /\ InOrder(C)[Rank(C, i)] = i
    BY CutsType, RankOfAll, Ordered
  <1>2. Split(r, d, end.fields, end.current, Len(r))
    BY SeenSplits DEF Progress
  <1>3. PICK F : F = end.fields
    OBVIOUS
  <1>4. PICK c : c = end.current
    OBVIOUS
  <1>5. ps = Append(F, c)
    BY <1>3, <1>4 DEF ParseRecord
  <1>6. /\ F \in Seq(Strings) /\ c \in Strings /\ Len(F) = n
        /\ \A b \in {0} \cup C, e \in C : e <= Len(r) /\ Neighbours(C, b, e) => F[Rank(C, e)] = Span(r, b, e)
        /\ \A b \in {0} \cup C : Opens(C, b, Len(r)) => c = Span(r, b, Len(r) + 1)
    BY <1>1, <1>2, <1>3, <1>4 DEF Split
  <1> HIDE DEF end, ps
  <1>7. ps \in Seq(Strings) /\ Len(ps) = n + 1 /\ ps[n + 1] = c /\ \A k \in 1..n : ps[k] = F[k]
    BY <1>5, <1>6, AppendProperties
  <1> HIDE DEF n, C
  <1>8. ASSUME NEW k \in 1..(n + 1) PROVE Trim(ps[k]) = FieldAt(r, d, k)
    <2>1. PICK b \in {0} \cup C : b = PieceFrom(C, k)
      BY <1>1, PieceEnds DEF n
    <2>2. PICK e \in C \cup {Len(r) + 1} : e = PieceTo(r, C, k)
      BY <1>1, PieceEnds DEF n
    <2>3. b < e /\ Rank(C, b) = k - 1 /\ (\A i \in C : ~(b < i /\ i < e)) /\ b \in Nat /\ e \in Nat
      BY <1>1, <2>1, <2>2, PieceEnds DEF n
    <2>4. Neighbours(C, b, e)
      BY <2>3 DEF Neighbours
    <2>5. (e \in C => Rank(C, e) = k) /\ (e \notin C => n = k - 1)
      <3>1. /\ e \in C => Rank(C, e) = Rank(C, b) + 1
            /\ e \notin C => Cardinality(C) = Rank(C, b)
        <4>1. (b = 0 \/ b \in C) /\ (e \in C \/ e = Len(r) + 1) /\ C \in SUBSET (1..Len(r))
          BY <1>1
        <4>2. b \in Nat /\ e \in Nat
          BY <2>3
        <4> QED BY <4>1, <4>2, <2>4, PieceBetween
      <3> QED BY <1>1, <2>3, <3>1 DEF n
    <2>6. ps[k] = Span(r, b, e)
      <3>1. CASE e \in C
        <4>1. k \in 1..n /\ e <= Len(r)
          BY <1>1, <2>5, <3>1
        <4> QED BY <1>6, <1>7, <2>4, <2>5, <3>1, <4>1
      <3>2. CASE e \notin C
        <4>1. k = n + 1 /\ e = Len(r) + 1
          BY <1>1, <2>5, <3>2
        <4>2. b <= Len(r) /\ \A i \in C : ~(b < i /\ i <= Len(r))
          <5>1. \A i \in C : i \in Nat
            BY <1>1
          <5> QED BY <1>1, <2>3, <4>1, <5>1
        <4> QED BY <1>6, <1>7, <4>1, <4>2 DEF Opens
      <3> QED BY <3>1, <3>2
    <2> QED BY <2>1, <2>2, <2>6 DEF FieldAt, C
  <1>9. DOMAIN ps = 1..(n + 1)
    BY <1>1, <1>7
  <1>10. Cells(r, d) = [k \in 1..(n + 1) |-> FieldAt(r, d, k)]
    <2>1. Cells(r, d) = [k \in DOMAIN ps |-> Trim(ps[k])]
      BY DEF Cells, ps
    <2> QED BY <1>8, <1>9, <2>1
  <1>11. FieldsOf(r, d) = [k \in 1..(n + 1) |-> FieldAt(r, d, k)]
    BY FieldsAre DEF n, C
  <1> QED BY <1>10, <1>11

\* A CR more at the end.
LEMMA Longer ==
    ASSUME NEW u \in Strings, NEW s, s = Append(u, "r")
    PROVE  /\ s \in Strings /\ Len(u) \in Nat /\ Len(s) = Len(u) + 1 /\ s[Len(u) + 1] = "r"
           /\ \A i \in 1..Len(u) : s[i] = u[i]
           /\ DOMAIN u = 1..Len(u) /\ DOMAIN s = 1..(Len(u) + 1)
           /\ PartOf(s, u, 0, Len(u))
  <1>1. u \in Seq(Symbols) /\ Len(u) \in Nat /\ DOMAIN u = 1..Len(u)
    BY DEF Strings
  <1>2. /\ s \in Seq(Symbols) /\ Len(s) = Len(u) + 1 /\ s[Len(u) + 1] = "r"
        /\ \A i \in 1..Len(u) : s[i] = u[i]
    <2>1. "r" \in Symbols
      BY DEF Symbols
    <2> QED BY <1>1, <2>1, AppendProperties
  <1>3. DOMAIN s = 1..(Len(u) + 1)
    BY <1>1, <1>2
  <1>4. PartOf(s, u, 0, Len(u))
    <2>1. 0 \in Nat /\ 0 <= Len(u) /\ Len(u) <= Len(s) /\ 0 + 1 = 1 /\ Len(u) - 0 = Len(u)
      BY <1>1, <1>2
    <2>2. PICK w : w = SubSeq(s, 0 + 1, Len(u))
      OBVIOUS
    <2>3. w \in Seq(Symbols) /\ Len(w) = Len(u) /\ \A i \in 1..Len(u) : w[i] = s[0 + i]
      BY <1>1, <1>2, <2>1, <2>2, SubText
    <2>4. \A i \in 1..Len(u) : w[i] = u[i]
      <3>1. \A i \in 1..Len(u) : 0 + i = i
        BY <1>1
      <3> QED BY <1>2, <2>3, <3>1
    <2>5. w = u
      BY <1>1, <2>3, <2>4, SeqEqual
    <2> QED BY <2>1, <2>2, <2>5 DEF PartOf
  <1> QED BY <1>1, <1>2, <1>3, <1>4 DEF Strings

LEMMA Chomped ==
    ASSUME NEW s \in Strings
    PROVE  Chomp(s) \in Strings /\ (Chomp(s) = s \/ s = Append(Chomp(s), "r"))
  <1>1. Chomp(s) \in Strings
    BY ChompKeeps
  <1>2. CASE s # <<>> /\ Last(s) = "r"
    <2>1. s \in Seq(Symbols) /\ Len(s) \in Nat
      BY DEF Strings
    <2>2. Chomp(s) = SubSeq(s, 1, Len(s) - 1) /\ s[Len(s)] = "r" /\ Len(s) # 0
      BY <1>2, <2>1 DEF Chomp, Front, Last
    <2>3. PICK c \in Strings : c = Chomp(s)
      BY <1>1
    <2>4. Len(c) = Len(s) - 1 /\ \A i \in 1..(Len(s) - 1) : c[i] = s[i]
      <3>1. 0 \in Nat /\ Len(s) - 1 \in Nat /\ 0 <= Len(s) - 1 /\ Len(s) - 1 <= Len(s) /\ 0 + 1 = 1
            /\ (Len(s) - 1) - 0 = Len(s) - 1
        BY <2>1, <2>2
      <3>2. /\ Len(SubSeq(s, 0 + 1, Len(s) - 1)) = (Len(s) - 1) - 0
            /\ \A i \in 1..((Len(s) - 1) - 0) : SubSeq(s, 0 + 1, Len(s) - 1)[i] = s[0 + i]
        BY <2>1, <3>1, SubText
      <3>3. \A i \in 1..(Len(s) - 1) : 0 + i = i
        BY <2>1
      <3> QED BY <2>2, <2>3, <3>1, <3>2, <3>3
    <2>5. PICK w : w = Append(c, "r")
      OBVIOUS
    <2>7. w \in Strings /\ Len(w) = Len(c) + 1 /\ w[Len(c) + 1] = "r" /\ \A i \in 1..Len(c) : w[i] = c[i]
      BY <2>3, <2>5, Longer
    <2>8. w \in Seq(Symbols) /\ Len(w) = Len(s)
      BY <2>1, <2>2, <2>4, <2>7 DEF Strings
    <2>9. \A i \in 1..Len(s) : w[i] = s[i]
      <3> SUFFICES ASSUME NEW i \in 1..Len(s) PROVE w[i] = s[i]
        OBVIOUS
      <3>1. CASE i = Len(s)
        BY <2>1, <2>2, <2>4, <2>7, <3>1
      <3>2. CASE i # Len(s)
        <4>1. i \in 1..(Len(s) - 1) /\ i \in 1..Len(c)
          BY <2>1, <2>4, <3>2
        <4> QED BY <2>4, <2>7, <4>1
      <3> QED BY <3>1, <3>2
    <2>10. w = s
      BY <2>1, <2>8, <2>9, SeqEqual
    <2> QED BY <1>1, <2>3, <2>5, <2>10
  <1>3. CASE ~(s # <<>> /\ Last(s) = "r")
    BY <1>1, <1>3 DEF Chomp
  <1> QED BY <1>2, <1>3

LEMMA TrimGrows ==
    ASSUME NEW u \in Strings
    PROVE  /\ Trim(Append(u, "r")) = Trim(u)
           /\ Blank(Append(u, "r")) <=> Blank(u)
  <1>1. PICK s : s = Append(u, "r")
    OBVIOUS
  <1>2. "r" \in Whitespace
    BY DEF Whitespace
  <1>3. /\ s \in Strings /\ Len(u) \in Nat /\ Len(s) = Len(u) + 1 /\ s[Len(u) + 1] = "r"
        /\ \A i \in 1..Len(u) : s[i] = u[i]
        /\ DOMAIN u = 1..Len(u) /\ DOMAIN s = 1..(Len(u) + 1)
    BY <1>1, Longer
  <1> DEFINE ink == {i \in DOMAIN u : u[i] \notin Whitespace}
  <1>4. {i \in DOMAIN s : s[i] \notin Whitespace} = ink
    BY <1>2, <1>3
  <1>5. Blank(s) <=> Blank(u)
    <2>1. (Blank(s) <=> {i \in DOMAIN s : s[i] \notin Whitespace} = {}) /\ (Blank(u) <=> ink = {})
      BY DEF Blank
    <2> QED BY <1>4, <2>1
  <1>6. Trim(s) = IF ink = {} THEN <<>> ELSE SubSeq(s, Min(ink), Max(ink))
    BY <1>4 DEF Trim
  <1>7. Trim(u) = IF ink = {} THEN <<>> ELSE SubSeq(u, Min(ink), Max(ink))
    BY DEF Trim
  <1>8. ink \in SUBSET (1..Len(u))
    BY <1>3
  <1> HIDE DEF ink
  <1>9. ASSUME ink # {} PROVE SubSeq(s, Min(ink), Max(ink)) = SubSeq(u, Min(ink), Max(ink))
    <2>1. Min(ink) \in 1..Len(u) /\ Max(ink) \in 1..Len(u) /\ Min(ink) <= Max(ink)
      <3>1. Min(ink) \in ink /\ Max(ink) \in ink /\ Min(ink) <= Max(ink)
        BY <1>3, <1>8, <1>9, FirstLast
      <3> QED BY <1>8, <3>1
    <2>2. PICK a \in Nat : Min(ink) = a + 1
      <3>1. \A i \in 1..Len(u) : i - 1 \in Nat /\ i = (i - 1) + 1
        BY <1>3
      <3> QED BY <2>1, <3>1
    <2>3. PICK b \in Nat : Max(ink) = b /\ b <= Len(u) /\ b <= Len(s) /\ a <= b
      <3>1. PICK b \in 1..Len(u) : b = Max(ink) /\ a + 1 <= b
        BY <2>1, <2>2
      <3>2. b \in Nat /\ b <= Len(u) /\ b <= Len(s) /\ a <= b
        BY <1>3, <3>1
      <3> QED BY <3>1, <3>2
    <2>4. s \in Seq(Symbols) /\ u \in Seq(Symbols)
      BY <1>3 DEF Strings
    <2>5. PICK v : v = SubSeq(s, a + 1, b)
      OBVIOUS
    <2>6. PICK w : w = SubSeq(u, a + 1, b)
      OBVIOUS
    <2>7. v \in Seq(Symbols) /\ Len(v) = b - a /\ \A i \in 1..(b - a) : v[i] = s[a + i]
      BY <2>3, <2>4, <2>5, SubText
    <2>8. w \in Seq(Symbols) /\ Len(w) = b - a /\ \A i \in 1..(b - a) : w[i] = u[a + i]
      BY <2>3, <2>4, <2>6, SubText
    <2>9. \A i \in 1..(b - a) : v[i] = w[i]
      <3>1. \A i \in 1..(b - a) : a + i \in 1..Len(u)
        BY <1>3, <2>3
      <3> QED BY <1>3, <2>7, <2>8, <3>1
    <2>10. v = w
      BY <2>7, <2>8, <2>9, SeqEqual
    <2> QED BY <2>2, <2>3, <2>5, <2>6, <2>10
  <1> QED BY <1>1, <1>5, <1>6, <1>7, <1>9

LEMMA CutsGrow ==
    ASSUME NEW u \in Strings, NEW d \in Delimiters, NEW s, s = Append(u, "r")
    PROVE  /\ Cuts(s, d) = Cuts(u, d)
           /\ \A i \in 1..Len(u) : Inside(s, i) <=> Inside(u, i)
  <1>2. PICK n : n = Len(u)
    OBVIOUS
  <1>3. d # "r"
    BY DEF Delimiters
  <1>4. /\ s \in Strings /\ n \in Nat /\ Len(s) = n + 1 /\ s[n + 1] = "r"
        /\ \A i \in 1..n : s[i] = u[i]
        /\ PartOf(s, u, 0, n)
    BY <1>2, Longer
  <1>5. \A i \in 1..n : Inside(s, i) <=> Inside(u, i)
    <2> SUFFICES ASSUME NEW i \in 1..n PROVE Inside(s, i) <=> Inside(u, i)
      OBVIOUS
    <2>1. i \in 0..Len(u) /\ 0 \in Nat /\ 0 + i = i
      BY <1>2, <1>4
    <2>2. Inside(u, i) <=> ~(Inside(s, 0) <=> Inside(s, 0 + i))
      BY <1>4, <2>1, InsidePart
    <2>3. ~Inside(s, 0)
      BY <1>4, QuoteRanks
    <2> QED BY <2>1, <2>2, <2>3
  <1>6. Cuts(s, d) = Cuts(u, d)
    <2>1. Cuts(u, d) = {i \in 1..n : u[i] = d /\ ~Inside(u, i)}
      BY <1>2 DEF Cuts
    <2>2. Cuts(s, d) = {i \in 1..(n + 1) : s[i] = d /\ ~Inside(s, i)}
      BY <1>4 DEF Cuts
    <2>3. \A i \in 1..(n + 1) : i \in Cuts(s, d) <=> i \in Cuts(u, d)
      <3> SUFFICES ASSUME NEW i \in 1..(n + 1) PROVE i \in Cuts(s, d) <=> i \in Cuts(u, d)
        OBVIOUS
      <3>1. CASE i \in 1..n
        BY <1>4, <1>5, <2>1, <2>2, <3>1
      <3>2. CASE i = n + 1
        <4>1. i \notin 1..n
          BY <1>4, <3>2
        <4> QED BY <1>3, <1>4, <2>1, <2>2, <3>2, <4>1
      <3> QED BY <1>4, <3>1, <3>2
    <2>4. \A i \in Cuts(u, d) : i \in 1..(n + 1)
      BY <1>4, <2>1
    <2> QED BY <2>2, <2>3, <2>4
  <1> QED BY <1>2, <1>5, <1>6

\* Its fields are not changed by a CR at the end.
LEMMA FieldsGrow ==
    ASSUME NEW u \in Strings, NEW d \in Delimiters
    PROVE  FieldsOf(Append(u, "r"), d) = FieldsOf(u, d)
  <1>1. PICK s : s = Append(u, "r")
    OBVIOUS
  <1>2. PICK n : n = Len(u)
    OBVIOUS
  <1>3. d # "r"
    BY DEF Delimiters
  <1>4. /\ s \in Strings /\ n \in Nat /\ Len(s) = n + 1 /\ s[n + 1] = "r"
        /\ \A i \in 1..n : s[i] = u[i]
        /\ PartOf(s, u, 0, n)
    BY <1>1, <1>2, Longer
  <1>5. \A i \in 1..n : Inside(s, i) <=> Inside(u, i)
    BY <1>1, <1>2, CutsGrow
  <1>6. Cuts(s, d) = Cuts(u, d)
    BY <1>1, CutsGrow
  <1>7. \A i \in 1..n : i \in Marks(s) <=> i \in Marks(u)
    <2> SUFFICES ASSUME NEW i \in 1..n PROVE i \in Marks(s) <=> i \in Marks(u)
      OBVIOUS
    <2>1. i \in Nat /\ i < n + 1 /\ i \in 1..Len(s) /\ i \in 1..Len(u)
      BY <1>2, <1>4
    <2>2. i \in Marks(s) <=> (s[i] = "q" => s[i + 1] = "q" /\ ~Inside(s, i))
      BY <1>4, <2>1 DEF Marks
    <2>3. i \in Marks(u) <=> (u[i] = "q" => i < n /\ u[i + 1] = "q" /\ ~Inside(u, i))
      BY <1>2, <2>1 DEF Marks
    <2>4. s[i + 1] = "q" <=> i < n /\ u[i + 1] = "q"
      <3>1. CASE i < n
        <4>1. i + 1 \in 1..n
          BY <1>4, <2>1, <3>1
        <4> QED BY <1>4, <3>1, <4>1
      <3>2. CASE ~(i < n)
        <4>1. i + 1 = n + 1
          BY <1>4, <2>1, <3>2
        <4> QED BY <1>4, <3>2, <4>1
      <3> QED BY <3>1, <3>2
    <2> QED BY <1>4, <1>5, <2>2, <2>3, <2>4
  <1>8. ASSUME NEW b \in Nat, NEW e \in Nat, b < e, e <= n + 1
        PROVE  Span(s, b, e) = Span(u, b, e) /\ Span(u, b, e) \in Strings
    <2> DEFINE Q == {j \in Marks(s) : b < j /\ j < e}
               P == {j \in Marks(u) : b < j /\ j < e}
    <2>1. Marks(s) \in SUBSET (1..(n + 1)) /\ Marks(u) \in SUBSET (1..n) /\ u \in Seq(Symbols)
      BY <1>2, <1>4, CutsType
    <2>2. /\ P \in SUBSET (1..Len(u)) /\ Q \in SUBSET (1..Len(s))
          /\ \A i \in Q : 0 < i /\ i <= n
      BY <1>2, <1>4, <1>8, <2>1
    <2>3. \A i \in 1..Len(u) : i \in P <=> 0 + i \in Q
      BY <1>2, <1>4, <1>7
    <2>4. Span(s, b, e) = Only(s, Q) /\ Span(u, b, e) = Only(u, P)
      BY DEF Span
    <2> HIDE DEF P, Q
    <2>5. Shifted(Q, P, 0, Len(u))
      BY <2>3 DEF Shifted
    <2>6. 0 \in Nat
      OBVIOUS
    <2>7. Only(u, P) = Only(s, Q)
      BY <1>4, <2>2, <2>5, <2>6, OnlyPart
    <2>8. Only(u, P) \in Seq(Symbols)
      BY <2>1, <2>2, OnlyThese
    <2> QED BY <2>4, <2>7, <2>8 DEF Strings
  <1>9. ASSUME NEW k \in 1..(Cardinality(Cuts(u, d)) + 1)
        PROVE  FieldAt(s, d, k) = FieldAt(u, d, k)
    <2> DEFINE C == Cuts(u, d)
    <2>1. C \in SUBSET (1..Len(u)) /\ \A i \in {0} \cup C : i \in Nat
      BY CutsType
    <2>2. PICK b \in {0} \cup C : b = PieceFrom(C, k)
      BY <2>1, PieceEnds
    <2>3. PICK e \in C \cup {n + 1} : e = PieceTo(u, C, k)
      BY <1>2, <2>1, PieceEnds
    <2>4. b < e /\ b \in Nat /\ e \in Nat /\ e <= n + 1
      <3>1. b < e
        BY <2>1, <2>2, <2>3, PieceEnds
      <3> QED BY <1>2, <1>4, <2>1, <3>1
    <2>5. FieldAt(u, d, k) = Trim(Span(u, b, e))
      BY <2>2, <2>3 DEF FieldAt
    <2>6. Span(s, b, e) = Span(u, b, e) /\ Span(u, b, e) \in Strings
      BY <1>8, <2>4
    <2>7. CASE k = Cardinality(C) + 1
      <3>1. e = n + 1 /\ PieceTo(s, C, k) = n + 2
        BY <1>2, <1>4, <2>3, <2>7 DEF PieceTo
      <3>2. FieldAt(s, d, k) = Trim(Span(s, b, n + 2))
        BY <1>6, <2>2, <3>1 DEF FieldAt
      <3>3. Span(s, b, n + 2) = Append(Span(s, b, n + 1), "r")
        <4>1. n + 1 \in 1..Len(s) /\ b < n + 1 /\ (n + 1) + 1 = n + 2
          BY <1>4, <2>4, <3>1
        <4>2. n + 1 \in Marks(s)
          BY <1>4, <4>1 DEF Marks
        <4>3. Span(s, b, (n + 1) + 1) = Append(Span(s, b, n + 1), s[n + 1])
          BY <1>4, <2>4, <4>1, <4>2, SpanGrows
        <4> QED BY <1>4, <4>1, <4>3
      <3> QED BY <2>5, <2>6, <3>1, <3>2, <3>3, TrimGrows
    <2>8. CASE k # Cardinality(C) + 1
      <3>1. PieceTo(s, C, k) = e
        BY <2>3, <2>8 DEF PieceTo
      <3> QED BY <1>6, <2>2, <2>5, <2>6, <3>1 DEF FieldAt
    <2> QED BY <2>7, <2>8
  <1>10. /\ FieldsOf(s, d) = [k \in 1..(Cardinality(Cuts(s, d)) + 1) |-> FieldAt(s, d, k)]
         /\ FieldsOf(u, d) = [k \in 1..(Cardinality(Cuts(u, d)) + 1) |-> FieldAt(u, d, k)]
    BY <1>4, FieldsAre
  <1>11. FieldsOf(s, d) = FieldsOf(u, d)
    BY <1>6, <1>9, <1>10
  <1> QED BY <1>1, <1>11

\* parseRecord reads both forms of a record as the property does.
LEMMA FormFields ==
    ASSUME NEW r \in Strings, NEW f \in Forms(r), NEW d \in Delimiters
    PROVE  Cells(f, d) = FieldsOf(r, d)
  <1>1. Chomp(r) \in Strings /\ (Chomp(r) = r \/ r = Append(Chomp(r), "r"))
    BY Chomped
  <1>2. f \in Strings /\ (f = r \/ f = Chomp(r))
    BY <1>1 DEF Forms
  <1>3. FieldsOf(f, d) = FieldsOf(r, d)
    BY <1>1, <1>2, FieldsGrow
  <1> QED BY <1>2, <1>3, CellsAre

-----------------------------------------------------------------------------
(* Lines and records *)

Breaks(t) == {i \in DOMAIN t : t[i] = "n"}
Kept(t)   == {i \in DOMAIN t : t[i] = "r" => i = Len(t) \/ t[i + 1] # "n"}

LEMMA UnixType ==
    ASSUME NEW t \in Strings
    PROVE  /\ Len(t) \in Nat /\ t \in Seq(Symbols) /\ DOMAIN t = 1..Len(t)
           /\ Kept(t) \in SUBSET (1..Len(t)) /\ Kept(t) \in Positions /\ Rank(Kept(t), 0) = 0
           /\ Breaks(t) \in SUBSET (1..Len(t)) /\ Breaks(t) \in Positions /\ Breaks(t) \subseteq Kept(t)
           /\ Unix(t) = Only(t, Kept(t)) /\ Unix(t) \in Strings /\ Len(Unix(t)) \in Nat
           /\ Len(Unix(t)) = Rank(Kept(t), Len(t))
           /\ \A i \in Nat : Rank(Kept(t), i) \in Nat
           /\ \A i \in Kept(t) : /\ Rank(Kept(t), i) \in 1..Len(Unix(t))
                                 /\ Unix(t)[Rank(Kept(t), i)] = t[i]
  <1>1. Len(t) \in Nat /\ t \in Seq(Symbols) /\ DOMAIN t = 1..Len(t)
    BY DEF Strings
  <1>2. Kept(t) \in SUBSET (1..Len(t)) /\ Breaks(t) \in SUBSET (1..Len(t)) /\ Breaks(t) \subseteq Kept(t)
    BY <1>1 DEF Kept, Breaks
  <1>3. Kept(t) \in Positions /\ Breaks(t) \in Positions /\ Rank(Kept(t), Len(t)) = Cardinality(Kept(t))
    BY <1>1, <1>2, RankOfAll
  <1>4. Rank(Kept(t), 0) = 0 /\ \A i \in Nat : Rank(Kept(t), i) \in Nat
    <2>1. 0 \in Nat
      OBVIOUS
    <2> QED BY <1>3, <2>1, RankStep
  <1>5. Unix(t) = Only(t, Kept(t))
    BY DEF Unix, Kept
  <1>6. /\ Unix(t) \in Seq(Symbols) /\ Len(Unix(t)) = Cardinality(Kept(t)) /\ Cardinality(Kept(t)) \in Nat
        /\ \A i \in Kept(t) : /\ Rank(Kept(t), i) \in 1..Cardinality(Kept(t))
                              /\ Unix(t)[Rank(Kept(t), i)] = t[i]
    BY <1>1, <1>2, <1>5, OnlyThese
  <1>7. Unix(t) \in Strings
    BY <1>6 DEF Strings
  <1> QED BY <1>1, <1>2, <1>3, <1>4, <1>5, <1>6, <1>7

\* As many line breaks up to a place as up to what is left of it.
LEMMA BreakRanks ==
    ASSUME NEW t \in Strings, NEW i \in 0..Len(t)
    PROVE  Rank(Breaks(Unix(t)), Rank(Kept(t), i)) = Rank(Breaks(t), i)
  <1> DEFINE P == Kept(t)
             K == Breaks(t)
             U == Unix(t)
             J == Breaks(U)
             T == {k \in Nat : k <= Len(t) => Rank(J, Rank(P, k)) = Rank(K, k)}
  <1>1. /\ Len(t) \in Nat /\ P \in SUBSET (1..Len(t)) /\ P \in Positions /\ Rank(P, 0) = 0
        /\ K \in Positions /\ K \subseteq P /\ U \in Strings /\ Len(U) \in Nat
        /\ \A k \in Nat : Rank(P, k) \in Nat
        /\ \A k \in P : Rank(P, k) \in 1..Len(U) /\ U[Rank(P, k)] = t[k]
    BY UnixType
  <1>2. J \in Positions /\ \A k \in 1..Len(U) : k \in J <=> U[k] = "n"
    <2>1. DOMAIN U = 1..Len(U)
      BY <1>1, UnixType
    <2> QED BY <1>1, <2>1, UnixType DEF Breaks
  <1>3. \A k \in 1..Len(t) : k \in K <=> t[k] = "n"
    <2>1. DOMAIN t = 1..Len(t)
      BY UnixType
    <2> QED BY <2>1 DEF Breaks
  <1> HIDE DEF P, K, U, J
  <1>4. 0 \in T
    <2>1. 0 \in Nat
      OBVIOUS
    <2>2. Rank(J, 0) = 0 /\ Rank(K, 0) = 0
      BY <1>1, <1>2, <2>1, RankStep
    <2> QED BY <1>1, <2>2
  <1>5. ASSUME NEW k \in T PROVE k + 1 \in T
    <2>1. k \in Nat /\ k + 1 \in Nat /\ Rank(P, k) \in Nat
      BY <1>1
    <2> SUFFICES ASSUME k + 1 <= Len(t) PROVE Rank(J, Rank(P, k + 1)) = Rank(K, k + 1)
      BY <2>1
    <2>2. k + 1 \in 1..Len(t) /\ k <= Len(t)
      BY <1>1, <2>1
    <2>3. Rank(J, Rank(P, k)) = Rank(K, k)
      BY <2>2
    <2>4. /\ Rank(P, k + 1) = IF k + 1 \in P THEN Rank(P, k) + 1 ELSE Rank(P, k)
          /\ Rank(K, k + 1) = IF k + 1 \in K THEN Rank(K, k) + 1 ELSE Rank(K, k)
          /\ Rank(J, Rank(P, k) + 1) =
               IF Rank(P, k) + 1 \in J THEN Rank(J, Rank(P, k)) + 1 ELSE Rank(J, Rank(P, k))
      BY <1>1, <1>2, <2>1, RankStep
    <2>5. CASE k + 1 \in P
      <3>1. Rank(P, k + 1) = Rank(P, k) + 1
        BY <2>4, <2>5
      <3>2. Rank(P, k + 1) \in J <=> k + 1 \in K
        BY <1>1, <1>2, <1>3, <2>2, <2>5
      <3> QED BY <2>3, <2>4, <3>1, <3>2
    <2>6. CASE k + 1 \notin P
      BY <1>1, <2>3, <2>4, <2>6
    <2> QED BY <2>5, <2>6
  <1> HIDE DEF T
  <1>6. T \in SUBSET Nat
    BY DEF T
  <1>7. T = Nat
    BY <1>4, <1>5, <1>6, Induction
  <1>8. i \in T /\ i <= Len(t)
    BY <1>1, <1>7
  <1> QED BY <1>8 DEF T, J, K, P, U

\* A stretch of which everything is left.
LEMMA Stretch ==
    ASSUME NEW t \in Strings, NEW b \in Nat, NEW g \in Nat, b <= g, g <= Len(t),
           \A i \in (b + 1)..g : i \in Kept(t)
    PROVE  SubSeq(Unix(t), Rank(Kept(t), b) + 1, Rank(Kept(t), g)) = SubSeq(t, b + 1, g)
  <1> DEFINE P == Kept(t)
             U == Unix(t)
  <1>1. /\ Len(t) \in Nat /\ t \in Seq(Symbols) /\ P \in Positions
        /\ U \in Seq(Symbols) /\ Len(U) \in Nat /\ Len(U) = Rank(P, Len(t))
        /\ \A i \in Nat : Rank(P, i) \in Nat
        /\ \A i \in P : U[Rank(P, i)] = t[i]
    BY UnixType DEF Strings
  <1> HIDE DEF P, U
  <1>2. ASSUME NEW i \in 0..(g - b) PROVE Rank(P, b + i) = Rank(P, b) + i
    <2>1. i \in Nat /\ b + i \in Nat /\ b <= b + i /\ b + i <= g
      OBVIOUS
    <2>2. {j \in P : b < j /\ j <= b + i} = (b + 1)..(b + i)
      <3>1. \A j \in P : j \in Nat
        BY <1>1 DEF Positions
      <3>2. \A j \in (b + 1)..(b + i) : j \in P /\ b < j /\ j <= b + i
        BY <2>1 DEF P
      <3>3. \A j \in P : b < j /\ j <= b + i => j \in (b + 1)..(b + i)
        BY <2>1, <3>1
      <3> QED BY <3>2, <3>3
    <2>3. Cardinality((b + 1)..(b + i)) = i
      <3>1. PICK f \in Int, m \in Int : f = b + 1 /\ m = b + i
        BY <2>1
      <3>2. Cardinality(f..m) = IF f > m THEN 0 ELSE m - f + 1
        BY FS_Interval
      <3>3. (f > m => i = 0) /\ (~(f > m) => m - f + 1 = i)
        BY <2>1, <3>1
      <3> QED BY <3>1, <3>2, <3>3
    <2>4. Cardinality({j \in P : b < j /\ j <= b + i}) = Rank(P, b + i) - Rank(P, b)
      BY <1>1, <2>1, RankRange
    <2>5. Rank(P, b) \in Nat /\ Rank(P, b + i) \in Nat
      BY <1>1, <2>1
    <2>6. i = Rank(P, b + i) - Rank(P, b)
      BY <2>2, <2>3, <2>4
    <2> QED BY <2>1, <2>5, <2>6
  <1>3. PICK a \in Nat : a = Rank(P, b)
    BY <1>1
  <1>4. PICK c \in Nat : c = g - b
    OBVIOUS
  <1>5. Rank(P, g) = a + c
    <2>1. c \in 0..(g - b) /\ b + c = g
      BY <1>4
    <2> QED BY <1>2, <1>3, <2>1
  <1>6. a <= a + c /\ a + c <= Len(U) /\ (a + c) - a = c /\ a + c \in Nat
    <2>1. Rank(P, g) <= Rank(P, Len(t))
      BY <1>1, RankGrows
    <2>2. Len(U) \in Nat /\ Len(U) = Rank(P, Len(t))
      BY <1>1
    <2> QED BY <1>5, <2>1, <2>2
  <1>7. PICK v : v = SubSeq(U, a + 1, a + c)
    OBVIOUS
  <1>8. PICK w : w = SubSeq(t, b + 1, g)
    OBVIOUS
  <1>9. v \in Seq(Symbols) /\ Len(v) = c /\ \A i \in 1..c : v[i] = U[a + i]
    <2>1. U \in Seq(Symbols)
      BY <1>1
    <2>2. /\ SubSeq(U, a + 1, a + c) \in Seq(Symbols) /\ Len(SubSeq(U, a + 1, a + c)) = (a + c) - a
          /\ \A i \in 1..((a + c) - a) : SubSeq(U, a + 1, a + c)[i] = U[a + i]
      BY <1>6, <2>1, SubText
    <2> QED BY <1>6, <1>7, <2>2
  <1>10. w \in Seq(Symbols) /\ Len(w) = c /\ \A i \in 1..c : w[i] = t[b + i]
    <2>1. t \in Seq(Symbols)
      BY <1>1
    <2>2. /\ SubSeq(t, b + 1, g) \in Seq(Symbols) /\ Len(SubSeq(t, b + 1, g)) = g - b
          /\ \A i \in 1..(g - b) : SubSeq(t, b + 1, g)[i] = t[b + i]
      BY <2>1, SubText
    <2> QED BY <1>4, <1>8, <2>2
  <1>11. ASSUME NEW i \in 1..c PROVE v[i] = w[i]
    <2>1. i \in 0..(g - b) /\ b + i \in (b + 1)..g
      BY <1>4
    <2>2. Rank(P, b + i) = a + i /\ b + i \in P
      BY <1>2, <1>3, <2>1 DEF P
    <2> QED BY <1>1, <1>9, <1>10, <2>2
  <1>12. v = w
    BY <1>9, <1>10, <1>11, SeqEqual
  <1> QED BY <1>3, <1>5, <1>7, <1>8, <1>12 DEF P, U

\* The lines of a text are its pieces between line breaks, some of them without
\* the CR at the end.
LEMMA UnixPieces ==
    ASSUME NEW t \in Strings
    PROVE  /\ Cardinality(Breaks(Unix(t))) = Cardinality(Breaks(t)) /\ Cardinality(Breaks(t)) \in Nat
           /\ \A k \in 1..(Cardinality(Breaks(t)) + 1) :
                Pieces(Unix(t), Breaks(Unix(t)))[k] \in Forms(Pieces(t, Breaks(t))[k])
  <1> DEFINE P == Kept(t)
             K == Breaks(t)
             U == Unix(t)
             J == Breaks(U)
  <1>1. /\ Len(t) \in Nat /\ t \in Seq(Symbols) /\ P \in SUBSET (1..Len(t)) /\ P \in Positions /\ Rank(P, 0) = 0
        /\ K \in SUBSET (1..Len(t)) /\ K \in Positions /\ K \subseteq P
        /\ U \in Strings /\ Len(U) \in Nat /\ Len(U) = Rank(P, Len(t))
        /\ \A i \in Nat : Rank(P, i) \in Nat
        /\ \A i \in P : Rank(P, i) \in 1..Len(U) /\ U[Rank(P, i)] = t[i]
    BY UnixType
  <1>2. J \in SUBSET (1..Len(U)) /\ J \in Positions /\ \A k \in 1..Len(U) : k \in J <=> U[k] = "n"
    <2>1. DOMAIN U = 1..Len(U) /\ J \in SUBSET (1..Len(U)) /\ J \in Positions
      BY <1>1, UnixType
    <2> QED BY <2>1 DEF Breaks
  <1>3. \A k \in 1..Len(t) : k \in K <=> t[k] = "n"
    <2>1. DOMAIN t = 1..Len(t)
      BY UnixType
    <2> QED BY <2>1 DEF Breaks
  <1>4. \A i \in 0..Len(t) : Rank(J, Rank(P, i)) = Rank(K, i)
    BY BreakRanks
  <1>5. Cardinality(J) = Cardinality(K) /\ Cardinality(K) \in Nat
    <2>1. Rank(J, Len(U)) = Cardinality(J) /\ Rank(K, Len(t)) = Cardinality(K) /\ Cardinality(K) \in Nat
      BY <1>1, <1>2, RankOfAll
    <2>2. Len(t) \in 0..Len(t)
      BY <1>1
    <2> QED BY <1>1, <1>4, <2>1, <2>2
  <1> HIDE DEF P, K, U, J
  <1>6. ASSUME NEW k \in 1..(Cardinality(K) + 1)
        PROVE  Pieces(U, J)[k] \in Forms(Pieces(t, K)[k])
    <2>1. PICK b \in {0} \cup K : b = PieceFrom(K, k)
      BY <1>1, PieceEnds
    <2>2. PICK e \in K \cup {Len(t) + 1} : e = PieceTo(t, K, k)
      BY <1>1, PieceEnds
    <2>3. /\ b < e /\ Rank(K, b) = k - 1 /\ (\A c \in K : ~(b < c /\ c < e))
          /\ Pieces(t, K)[k] = SubSeq(t, b + 1, e - 1)
      BY <1>1, <2>1, <2>2, PieceEnds
    <2>4. b \in Nat /\ e \in Nat /\ b \in 0..Len(t) /\ e \in 1..(Len(t) + 1)
      <3>1. PICK n \in Nat : n = Len(t)
        BY <1>1
      <3>2. b = 0 \/ b \in 1..n
        BY <1>1, <3>1
      <3>3. e = n + 1 \/ e \in 1..n
        BY <1>1, <3>1
      <3>4. b \in Nat /\ b \in 0..n
        BY <3>2
      <3>5. e \in Nat /\ e \in 1..(n + 1)
        BY <3>3
      <3> QED BY <3>1, <3>4, <3>5
    <2>5. PICK g \in Nat : g = e - 1 /\ e = g + 1 /\ b <= g /\ g <= Len(t)
      BY <1>1, <2>3, <2>4
    <2>6. PICK x \in Nat : x = Rank(P, b)
      BY <1>1, <2>4
    <2>7. PICK y \in Nat : y = Rank(P, g)
      BY <1>1, <2>5
    <2>8. x <= y
      BY <1>1, <2>4, <2>5, <2>6, <2>7, RankGrows
    <2>9. x = 0 \/ x \in J
      <3>1. CASE b = 0
        BY <1>1, <2>6, <3>1
      <3>2. CASE b \in K
        <4>1. b \in P /\ b \in 1..Len(t) /\ t[b] = "n"
          BY <1>1, <1>3, <3>2
        <4> QED BY <1>1, <1>2, <2>6, <4>1
      <3> QED BY <3>1, <3>2
    <2>10. y + 1 \in J \/ y + 1 = Len(U) + 1
      <3>1. CASE e = Len(t) + 1
        <4>1. g = Len(t)
          BY <1>1, <2>5, <3>1
        <4> QED BY <1>1, <2>7, <4>1
      <3>2. CASE e \in K
        <4>1. e \in P /\ e \in 1..Len(t) /\ t[e] = "n"
          BY <1>1, <1>3, <3>2
        <4>2. Rank(P, e) = y + 1
          <5>1. Rank(P, g + 1) = IF g + 1 \in P THEN Rank(P, g) + 1 ELSE Rank(P, g)
            BY <1>1, <2>5, RankStep
          <5> QED BY <2>5, <2>7, <4>1, <5>1
        <4> QED BY <1>1, <1>2, <4>1, <4>2
      <3> QED BY <3>1, <3>2
    <2>11. Neighbours(J, x, y + 1)
      <3>1. ASSUME NEW c \in J, x < c, c < y + 1 PROVE FALSE
        <4>1. c \in Nat /\ c <= y
          BY <1>2, <2>7, <3>1
        <4>2. Rank(J, x) < Rank(J, c) /\ Rank(J, c) <= Rank(J, y)
          BY <1>2, <2>6, <2>7, <3>1, <4>1, RankGrows
        <4>3. Rank(J, x) = Rank(K, b) /\ Rank(J, y) = Rank(K, g)
          <5>1. b \in 0..Len(t) /\ g \in 0..Len(t)
            BY <2>4, <2>5
          <5> QED BY <1>4, <2>6, <2>7, <5>1
        <4>4. Rank(K, g) = Rank(K, b)
          <5>1. \A m \in K : ~(b < m /\ m <= g)
            <6>1. \A m \in K : m \in Nat
              BY <1>1
            <6> QED BY <2>3, <2>5, <6>1
          <5> QED BY <1>1, <2>4, <2>5, <5>1, RankGrows
        <4>5. Rank(J, x) \in Nat /\ Rank(J, c) \in Nat
          BY <1>2, <2>6, <4>1, RankStep
        <4> QED BY <4>2, <4>3, <4>4, <4>5
      <3> QED BY <2>6, <2>7, <2>8, <3>1 DEF Neighbours
    <2>12. Pieces(U, J)[k] = SubSeq(U, x + 1, y)
      <3>1. y + 1 \in Nat /\ (y + 1) - 1 = y
        OBVIOUS
      <3>2. Pieces(U, J)[Rank(J, x) + 1] = SubSeq(U, x + 1, (y + 1) - 1)
        <4>1. U \in Strings /\ J \in SUBSET (1..Len(U))
          BY <1>1, <1>2
        <4> QED BY <2>9, <2>10, <2>11, <3>1, <4>1, PieceBetween
      <3>3. Rank(J, x) + 1 = k
        <4>1. Rank(J, x) = k - 1
          BY <1>4, <2>3, <2>4, <2>6
        <4>2. k \in Nat
          BY <1>5
        <4> QED BY <4>1, <4>2
      <3> QED BY <3>1, <3>2, <3>3
    <2>13. ASSUME NEW i \in Nat, b < i, i < g PROVE i \in P
      <3>1. i \in 1..Len(t) /\ i + 1 \in 1..Len(t) /\ b < i + 1 /\ i + 1 < e
        <4>1. Len(t) \in Nat
          BY <1>1
        <4> QED BY <2>4, <2>5, <2>13, <4>1
      <3>2. i + 1 \notin K
        BY <2>3, <3>1
      <3>3. t[i + 1] # "n"
        BY <1>3, <3>1, <3>2
      <3> QED BY <3>1, <3>3, UnixType DEF P, Kept
    <2>14. PICK r : r = SubSeq(t, b + 1, g)
      OBVIOUS
    <2>15. Pieces(t, K)[k] = r
      BY <2>3, <2>5, <2>14
    <2>16. r \in Strings /\ Len(r) = g - b /\ \A i \in 1..(g - b) : r[i] = t[b + i]
      <3>1. t \in Seq(Symbols)
        BY <1>1
      <3>2. /\ SubSeq(t, b + 1, g) \in Seq(Symbols) /\ Len(SubSeq(t, b + 1, g)) = g - b
            /\ \A i \in 1..(g - b) : SubSeq(t, b + 1, g)[i] = t[b + i]
        BY <2>4, <2>5, <3>1, SubText
      <3> QED BY <2>14, <3>2 DEF Strings
    <2>17. CASE g = b \/ g \in P
      <3>1. \A i \in (b + 1)..g : i \in P
        <4> SUFFICES ASSUME NEW i \in (b + 1)..g PROVE i \in P
          OBVIOUS
        <4>1. i \in Nat /\ b < i /\ (i < g \/ i = g) /\ g # b
          BY <2>4, <2>5
        <4> QED BY <2>13, <2>17, <4>1
      <3>2. SubSeq(U, x + 1, y) = SubSeq(t, b + 1, g)
        BY <2>4, <2>5, <2>6, <2>7, <3>1, Stretch DEF P, U
      <3> QED BY <2>12, <2>14, <2>15, <3>2 DEF Forms
    <2>18. CASE g # b /\ g \notin P
      <3>1. PICK h \in Nat : h = g - 1 /\ g = h + 1 /\ b <= h /\ h <= Len(t) /\ g \in 1..Len(t)
        <4>1. g - 1 \in Nat /\ g = (g - 1) + 1 /\ b <= g - 1 /\ g - 1 <= Len(t) /\ g \in 1..Len(t)
          BY <1>1, <2>4, <2>5, <2>18
        <4> QED BY <4>1
      <3>2. t[g] = "r"
        BY <2>18, <3>1, UnixType DEF P, Kept
      <3>3. Rank(P, h) = y
        <4>1. Rank(P, h + 1) = IF h + 1 \in P THEN Rank(P, h) + 1 ELSE Rank(P, h)
          BY <1>1, <3>1, RankStep
        <4> QED BY <2>7, <2>18, <3>1, <4>1
      <3>4. \A i \in (b + 1)..h : i \in P
        <4> SUFFICES ASSUME NEW i \in (b + 1)..h PROVE i \in P
          OBVIOUS
        <4>1. i \in Nat /\ b < i /\ i < g
          BY <2>4, <2>5, <3>1
        <4> QED BY <2>13, <4>1
      <3>5. SubSeq(U, x + 1, y) = SubSeq(t, b + 1, h)
        BY <2>4, <2>6, <3>1, <3>3, <3>4, Stretch DEF P, U
      <3>6. Chomp(r) = SubSeq(t, b + 1, h)
        <4>1. Len(r) = g - b /\ g - b \in 1..(g - b) /\ b + (g - b) = g /\ g - b # 0
          BY <2>4, <2>5, <2>16, <2>18
        <4>2. r[Len(r)] = "r"
          BY <2>16, <3>2, <4>1
        <4>3. r # <<>> /\ Last(r) = "r"
          <5>1. r # <<>>
            BY <4>1
          <5> QED BY <4>2, <5>1 DEF Last
        <4>4. Chomp(r) = SubSeq(r, 1, Len(r) - 1)
          BY <4>3 DEF Chomp, Front
        <4>5. 0 \in Nat /\ h - b \in Nat /\ 0 <= h - b /\ h - b <= g - b /\ Len(r) - 1 = h - b
              /\ 0 + 1 = 1 /\ b + 0 + 1 = b + 1 /\ b + (h - b) = h
          BY <2>4, <2>5, <3>1, <4>1
        <4>6. SubSeq(SubSeq(t, b + 1, g), 0 + 1, h - b) = SubSeq(t, b + 0 + 1, b + (h - b))
          BY <1>1, <2>4, <2>5, <4>5, SubSubText
        <4> QED BY <2>14, <4>4, <4>5, <4>6
      <3> QED BY <2>12, <2>15, <3>5, <3>6 DEF Forms
    <2> QED BY <2>17, <2>18
  <1> QED BY <1>5, <1>6 DEF P, K, U, J

-----------------------------------------------------------------------------
(* The delimiter *)

LEMMA OccurrencesAre ==
    ASSUME NEW r \in Strings, NEW d \in Delimiters, NEW f \in Forms(r)
    PROVE  Occurrences(f, d) = Cardinality(Cuts(r, d))
  <1>1. Chomp(r) \in Strings /\ (Chomp(r) = r \/ r = Append(Chomp(r), "r"))
    BY Chomped
  <1>2. f \in Strings /\ (f = r \/ f = Chomp(r))
    BY <1>1 DEF Forms
  <1>3. Cuts(f, d) = Cuts(r, d)
    BY <1>1, <1>2, CutsGrow
  <1>4. Len(f) \in Nat /\ DOMAIN f = 1..Len(f)
    BY <1>2 DEF Strings
  <1>5. ASSUME NEW i \in 1..Len(f) PROVE Quoted(f, 0, FALSE, i) <=> Inside(f, i)
    <2>1. 0 \in 0..Len(f) /\ i \in 0..Len(f) /\ FALSE \in BOOLEAN
      BY <1>4
    <2>2. Quoted(f, 0, FALSE, i) <=> (FALSE <=> (Inside(f, 0) <=> Inside(f, i)))
      BY <1>2, <2>1, QuotedBy
    <2>3. ~Inside(f, 0)
      BY <1>2, QuoteRanks
    <2> QED BY <2>2, <2>3
  <1>6. {i \in DOMAIN f : f[i] = d /\ ~Quoted(f, 0, FALSE, i)} = Cuts(f, d)
    BY <1>4, <1>5 DEF Cuts
  <1> QED BY <1>3, <1>6 DEF Occurrences

\* What there is between line breaks.
Between(t) == Pieces(t, Breaks(t))

\* The lines of a text are those of the pieces that are not blank.
LEMMA LinesAre ==
    ASSUME NEW t \in Strings
    PROVE  /\ Between(t) \in Seq(Strings) /\ Len(Between(t)) = Cardinality(Breaks(t)) + 1
           /\ Len(Between(t)) \in Nat /\ Filled(Between(t)) \in SUBSET (1..Len(Between(t)))
           /\ Lines(t) \in Seq(Strings) /\ Len(Lines(t)) = Cardinality(Filled(Between(t)))
           /\ Len(Lines(t)) \in Nat
           /\ \A j \in 1..Len(Lines(t)) :
                /\ InOrder(Filled(Between(t)))[j] \in Filled(Between(t))
                /\ Lines(t)[j] \in Forms(Between(t)[InOrder(Filled(Between(t)))[j]])
  <1> DEFINE R == Between(t)
             Y == Pieces(Unix(t), Breaks(Unix(t)))
             n == Cardinality(Breaks(t)) + 1
  <1>1. /\ Unix(t) \in Strings /\ Breaks(t) \in SUBSET (1..Len(t))
        /\ Breaks(Unix(t)) \in SUBSET (1..Len(Unix(t)))
    BY UnixType
  <1>2. /\ Cardinality(Breaks(Unix(t))) = Cardinality(Breaks(t)) /\ n \in Nat
        /\ \A k \in 1..n : Y[k] \in Forms(R[k])
    BY UnixPieces DEF Between
  <1>3. R \in Seq(Strings) /\ Len(R) = n
    BY <1>1, PieceAt DEF Between
  <1>4. Y \in Seq(Strings) /\ Len(Y) = n
    BY <1>1, <1>2, PieceAt
  <1>5. Lines(t) = Only(Y, Filled(Y))
    BY DEF Lines, LinesOf, Breaks
  <1>6. n = Cardinality(Breaks(t)) + 1
    OBVIOUS
  <1> HIDE DEF R, Y, n
  <1>7. DOMAIN R = 1..n /\ DOMAIN Y = 1..n
    BY <1>3, <1>4
  <1>8. ASSUME NEW k \in 1..n PROVE Blank(Y[k]) <=> Blank(R[k])
    <2>1. R[k] \in Strings /\ Y[k] \in Forms(R[k])
      BY <1>2, <1>3, <1>7
    <2>2. Blank(Chomp(R[k])) <=> Blank(R[k])
      BY <2>1, ChompKeeps
    <2> QED BY <2>1, <2>2 DEF Forms
  <1>9. Filled(Y) = Filled(R) /\ Filled(R) \in SUBSET (1..n)
    BY <1>7, <1>8 DEF Filled
  <1>10. PICK F : F = Filled(R)
    OBVIOUS
  <1>11. /\ Lines(t) \in Seq(Strings) /\ Len(Lines(t)) = Cardinality(F) /\ Cardinality(F) \in Nat
         /\ \A j \in 1..Cardinality(F) : InOrder(F)[j] \in F /\ Lines(t)[j] = Y[InOrder(F)[j]]
    <2>1. F \in SUBSET (1..Len(Y))
      BY <1>4, <1>9, <1>10
    <2> QED BY <1>4, <1>5, <1>9, <1>10, <2>1, OnlyThese
  <1>12. \A j \in 1..Cardinality(F) : Lines(t)[j] \in Forms(R[InOrder(F)[j]])
    BY <1>2, <1>9, <1>10, <1>11
  <1> QED BY <1>2, <1>3, <1>6, <1>9, <1>10, <1>11, <1>12 DEF R

\* How often the delimiter is in the lines that are looked at.
LEMMA CountsAre ==
    ASSUME NEW t \in Strings, NEW d \in Delimiters, NEW F, F = Filled(Between(t))
    PROVE  Counts(Lines(t), d) =
             {Cardinality(Cuts(Between(t)[InOrder(F)[k]], d)) : k \in (1..5) \cap (1..Cardinality(F))}
  <1> DEFINE R == Between(t)
             n == Cardinality(F)
  <1>1. /\ R \in Seq(Strings) /\ Len(R) \in Nat /\ F \in SUBSET (1..Len(R))
        /\ Lines(t) \in Seq(Strings) /\ Len(Lines(t)) = n /\ n \in Nat
        /\ \A j \in 1..n : InOrder(F)[j] \in F /\ Lines(t)[j] \in Forms(R[InOrder(F)[j]])
    BY LinesAre
  <1> HIDE DEF R, n
  <1>2. ASSUME NEW k \in 1..n PROVE Occurrences(Lines(t)[k], d) = Cardinality(Cuts(R[InOrder(F)[k]], d))
    <2>1. R[InOrder(F)[k]] \in Strings
      BY <1>1
    <2> QED BY <1>1, <2>1, OccurrencesAre
  <1>3. DOMAIN Lines(t) = 1..n
    BY <1>1
  <1>4. Counts(Lines(t), d) = {Occurrences(Lines(t)[k], d) : k \in (1..5) \cap (1..n)}
    BY <1>3 DEF Counts
  <1> QED BY <1>2, <1>4 DEF R, n

\* A CR at the end only makes the last piece longer.
LEMMA PieceGrows ==
    ASSUME NEW u \in Strings, NEW K \in SUBSET (1..Len(u)), NEW k \in 1..(Cardinality(K) + 1),
           NEW s, s = Append(u, "r")
    PROVE  \/ Pieces(s, K)[k] = Pieces(u, K)[k]
           \/ Pieces(s, K)[k] = Append(Pieces(u, K)[k], "r")
  <1>1. PICK n : n = Len(u)
    OBVIOUS
  <1>2. /\ s \in Strings /\ n \in Nat /\ Len(s) = n + 1 /\ s[n + 1] = "r"
        /\ (\A i \in 1..n : s[i] = u[i])
        /\ s \in Seq(Symbols) /\ u \in Seq(Symbols)
    BY <1>1, Longer DEF Strings
  <1>3. K \in SUBSET (1..Len(s))
    <2>1. \A i \in 1..n : i \in 1..(n + 1)
      BY <1>2
    <2> QED BY <1>1, <1>2, <2>1
  <1>4. PICK f \in {0} \cup K : f = PieceFrom(K, k)
    BY PieceEnds
  <1>5. PICK e \in K \cup {n + 1} : e = PieceTo(u, K, k)
    BY <1>1, PieceEnds
  <1>6. f < e /\ Pieces(u, K)[k] = SubSeq(u, f + 1, e - 1)
    BY <1>4, <1>5, PieceEnds
  <1>7. PICK g \in Nat : g = e - 1 /\ f \in Nat /\ f <= g /\ g <= n
    <2>1. \A i \in 1..n : i \in Nat /\ i <= n + 1
      BY <1>2
    <2>2. f \in Nat /\ e \in Nat /\ e <= n + 1
      BY <1>1, <1>2, <2>1
    <2>3. e - 1 \in Nat /\ f <= e - 1 /\ e - 1 <= n
      BY <1>2, <1>6, <2>2
    <2> QED BY <2>2, <2>3
  <1>8. PICK a : a = SubSeq(u, f + 1, g)
    OBVIOUS
  <1>9. /\ a \in Seq(Symbols) /\ Len(a) = g - f /\ g - f \in Nat /\ \A i \in 1..(g - f) : a[i] = u[f + i]
    <2>1. g <= Len(u)
      BY <1>1, <1>7
    <2> QED BY <1>2, <1>7, <1>8, <2>1, SubText
  <1>10. Pieces(u, K)[k] = a
    BY <1>6, <1>7, <1>8
  <1>11. PICK h \in Nat : /\ h = PieceTo(s, K, k) - 1 /\ f <= h /\ h <= n + 1
                          /\ h = g \/ (g = n /\ h = n + 1)
    <2>1. CASE k = Cardinality(K) + 1
      <3>1. PieceTo(s, K, k) = (n + 1) + 1 /\ e = n + 1
        BY <1>1, <1>2, <1>5, <2>1 DEF PieceTo
      <3>2. ((n + 1) + 1) - 1 = n + 1 /\ n + 1 \in Nat /\ g = n /\ f <= n + 1
        BY <1>2, <1>7, <3>1
      <3> QED BY <1>2, <3>1, <3>2
    <2>2. CASE k # Cardinality(K) + 1
      <3>1. PieceTo(s, K, k) = e
        BY <1>5, <2>2 DEF PieceTo
      <3>2. g <= n + 1
        BY <1>2, <1>7
      <3> QED BY <1>7, <3>1, <3>2
    <2> QED BY <2>1, <2>2
  <1>12. Pieces(s, K)[k] = SubSeq(s, f + 1, h)
    <2>0. PICK w \in Strings : w = s
      BY <1>2
    <2>1. Pieces(w, K)[k] = SubSeq(w, PieceFrom(K, k) + 1, PieceTo(w, K, k) - 1)
      <3>1. K \in SUBSET (1..Len(w))
        BY <1>3, <2>0
      <3> QED BY <3>1, PieceEnds
    <2> QED BY <1>4, <1>11, <2>0, <2>1
  <1>13. PICK b : b = SubSeq(s, f + 1, h)
    OBVIOUS
  <1>14. b \in Seq(Symbols) /\ Len(b) = h - f /\ \A i \in 1..(h - f) : b[i] = s[f + i]
    <2>1. h <= Len(s) /\ f \in Nat /\ f <= h
      BY <1>2, <1>7, <1>11
    <2>2. s \in Seq(Symbols)
      BY <1>2
    <2>3. /\ SubSeq(s, f + 1, h) \in Seq(Symbols) /\ Len(SubSeq(s, f + 1, h)) = h - f
          /\ \A i \in 1..(h - f) : SubSeq(s, f + 1, h)[i] = s[f + i]
      BY <2>1, <2>2, SubText
    <2> QED BY <1>13, <2>3
  <1>15. \A i \in 1..(g - f) : i \in 1..(h - f) /\ b[i] = a[i]
    <2> SUFFICES ASSUME NEW i \in 1..(g - f) PROVE i \in 1..(h - f) /\ b[i] = a[i]
      OBVIOUS
    <2>1. f + i \in 1..n /\ i \in 1..(h - f)
      BY <1>2, <1>7, <1>11
    <2> QED BY <1>2, <1>9, <1>14, <2>1
  <1>16. CASE h = g
    <2>1. b = a
      BY <1>9, <1>14, <1>15, <1>16, SeqEqual
    <2> QED BY <1>10, <1>12, <1>13, <2>1
  <1>17. CASE g = n /\ h = n + 1
    <2>1. PICK c : c = Append(a, "r")
      OBVIOUS
    <2>2. a \in Strings
      BY <1>9 DEF Strings
    <2>3. c \in Strings /\ Len(c) = Len(a) + 1 /\ c[Len(a) + 1] = "r" /\ \A i \in 1..Len(a) : c[i] = a[i]
      BY <2>1, <2>2, Longer
    <2>4. h - f = (g - f) + 1 /\ f + (h - f) = n + 1 /\ h - f \in Nat
      BY <1>7, <1>11, <1>17
    <2>5. ASSUME NEW i \in 1..(h - f) PROVE b[i] = c[i]
      <3>1. CASE i = h - f
        BY <1>2, <1>9, <1>14, <2>3, <2>4, <3>1
      <3>2. CASE i # h - f
        <4>1. i \in 1..(g - f)
          BY <1>9, <2>4, <3>2
        <4> QED BY <1>9, <1>15, <2>3, <4>1
      <3> QED BY <3>1, <3>2
    <2>6. c \in Seq(Symbols) /\ Len(c) = h - f
      BY <1>9, <2>3, <2>4 DEF Strings
    <2>7. b = c
      BY <1>14, <2>5, <2>6, SeqEqual
    <2> QED BY <1>10, <1>12, <1>13, <2>1, <2>7
  <1> QED BY <1>11, <1>16, <1>17

\* It does not change which delimiter is taken.
LEMMA DelimiterGrows ==
    ASSUME NEW u \in Strings
    PROVE  DetectDelimiter(Append(u, "r")) = DetectDelimiter(u)
  <1>1. PICK s : s = Append(u, "r")
    OBVIOUS
  <1>2. /\ s \in Strings /\ Len(u) \in Nat /\ Len(s) = Len(u) + 1 /\ s[Len(u) + 1] = "r"
        /\ \A i \in 1..Len(u) : s[i] = u[i]
        /\ DOMAIN u = 1..Len(u) /\ DOMAIN s = 1..(Len(u) + 1)
    BY <1>1, Longer
  <1>3. Breaks(s) = Breaks(u) /\ Breaks(u) \in SUBSET (1..Len(u))
    BY <1>2 DEF Breaks
  <1> DEFINE n == Cardinality(Breaks(u)) + 1
             R == Between(u)
             S == Between(s)
  <1>4. /\ R \in Seq(Strings) /\ Len(R) = n /\ n \in Nat
        /\ S \in Seq(Strings) /\ Len(S) = n
    BY <1>2, <1>3, LinesAre
  <1>5. \A k \in 1..n : S[k] = R[k] \/ S[k] = Append(R[k], "r")
    BY <1>1, <1>3, PieceGrows DEF Between
  <1> HIDE DEF n, R, S
  <1>6. DOMAIN R = 1..n /\ DOMAIN S = 1..n /\ \A k \in 1..n : R[k] \in Strings
    BY <1>4
  <1>7. ASSUME NEW k \in 1..n PROVE Blank(S[k]) <=> Blank(R[k])
    <2>1. R[k] \in Strings
      BY <1>6
    <2>2. Blank(Append(R[k], "r")) <=> Blank(R[k])
      BY <2>1, TrimGrows
    <2> QED BY <1>5, <2>2
  <1>8. Filled(S) = Filled(R)
    BY <1>6, <1>7 DEF Filled
  <1>9. PICK F : F = Filled(R)
    OBVIOUS
  <1>10. /\ F \in SUBSET (1..n) /\ \A k \in 1..Cardinality(F) : InOrder(F)[k] \in 1..n
    <2>1. F \in SUBSET (1..n)
      BY <1>6, <1>9 DEF Filled
    <2> QED BY <1>4, <2>1, Ordered
  <1>11. ASSUME NEW d \in Delimiters PROVE Counts(Lines(s), d) = Counts(Lines(u), d)
    <2>1. Counts(Lines(s), d) = {Cardinality(Cuts(S[InOrder(F)[k]], d)) : k \in (1..5) \cap (1..Cardinality(F))}
      BY <1>2, <1>8, <1>9, CountsAre DEF S
    <2>2. Counts(Lines(u), d) = {Cardinality(Cuts(R[InOrder(F)[k]], d)) : k \in (1..5) \cap (1..Cardinality(F))}
      BY <1>9, CountsAre DEF R
    <2>3. \A k \in 1..n : Cuts(S[k], d) = Cuts(R[k], d)
      BY <1>5, <1>6, CutsGrow
    <2>4. \A k \in (1..5) \cap (1..Cardinality(F)) : Cuts(S[InOrder(F)[k]], d) = Cuts(R[InOrder(F)[k]], d)
      BY <1>10, <2>3
    <2> QED BY <2>1, <2>2, <2>4
  <1>12. Counts(Lines(s), "s") = Counts(Lines(u), "s") /\ Counts(Lines(s), "c") = Counts(Lines(u), "c")
    BY <1>11 DEF Delimiters
  <1>13. DelimiterOf(Lines(s)) = DelimiterOf(Lines(u))
    BY <1>12 DEF DelimiterOf
  <1> QED BY <1>1, <1>13 DEF DetectDelimiter

\* Nor does it matter in which form the header is looked at.
LEMMA FormDelimiter ==
    ASSUME NEW r \in Strings, NEW f \in Forms(r)
    PROVE  DetectDelimiter(f) = DetectDelimiter(Chomp(r)) /\ DetectDelimiter(f) \in Delimiters
  <1>1. Chomp(r) \in Strings /\ (Chomp(r) = r \/ r = Append(Chomp(r), "r"))
    BY Chomped
  <1>2. f = r \/ f = Chomp(r)
    BY DEF Forms
  <1>3. DetectDelimiter(r) = DetectDelimiter(Chomp(r))
    BY <1>1, DelimiterGrows
  <1>4. DetectDelimiter(f) \in Delimiters
    BY DEF DetectDelimiter, DelimiterOf, Delimiters
  <1> QED BY <1>2, <1>3, <1>4

-----------------------------------------------------------------------------
(* The rows *)

\* A row that was handed over had its header first, also of a parse that failed.
HeaderKept == ~torn /\ rows # <<>> => header \in Forms(Raw(text)[1])

LEMMA HeaderKeptStep == IInv /\ HeaderKept /\ [Next]_vars => HeaderKept'
  <1> SUFFICES ASSUME IInv, HeaderKept, [Next]_vars, ~torn', rows' # <<>>
               PROVE  header' \in Forms(Raw(text')[1])
    BY DEF HeaderKept
  <1>1. /\ phase = "header" => rows = <<>>
        /\ ~torn /\ phase = "rows" => header \in Forms(Raw(text)[1])
    BY DEF IInv, Placed, Given
  <1>2. CASE TakeHeader
    <2>1. rows' = rows /\ phase = "header"
      BY <1>2 DEF TakeHeader
    <2> QED BY <1>1, <2>1
  <1>3. CASE HeaderIsAll
    <2>1. rows' = rows /\ phase = "header"
      BY <1>3 DEF HeaderIsAll
    <2> QED BY <1>1, <2>1
  <1>4. CASE ScanLead \/ ScanChunk \/ Flush
    <2>1. phase = "rows" /\ header' = header /\ text' = text
      BY <1>4 DEF ScanLead, ScanChunk, Flush
    <2>2. torn' = torn \/ torn' = (torn \/ (inQuotes /\ scanPos < Len(buf)))
      BY <1>4 DEF ScanLead, ScanChunk, Scan, Flush
    <2> QED BY <1>1, <2>1, <2>2
  <1>5. CASE UNCHANGED vars
    BY <1>5 DEF vars, HeaderKept
  <1> QED BY <1>2, <1>3, <1>4, <1>5 DEF Next

\* Whatever is handed over, and of a parse that fails later as well, the header
\* is the text's first record.
THEOREM HeaderFirst == Spec => []HeaderKept
  <1>1. Init => HeaderKept
    BY DEF Init, HeaderKept
  <1> QED BY <1>1, HeaderKeptStep, Invariance, PTL DEF Spec

\* What the property expects, by the ranks of the records.
LEMMA ExpectedRows ==
    ASSUME NEW t \in Texts, NEW d, d = DetectDelimiter(Chomp(Raw(t)[1]))
    PROVE  /\ Expected[t].header = FieldsOf(Raw(t)[1], d)
           /\ DOMAIN Expected[t].rows = 1..Len(RawRows(t))
           /\ \E S : Expected[t].rows \in Seq(S)
           /\ \A j \in 1..Len(RawRows(t)) : Expected[t].rows[j] = FieldsOf(RawRows(t)[j], d)
           /\ \A i \in 0..Len(t) : Expected[t].ended[i] = Rank(Data(t), Rank(Ends(t), i))
  <1>1. t \in Strings
    BY TextAssumption DEF Strings
  <1>2. Expected[t] = Reading(t, Ends(t), Raw(t))
    BY DEF Expected, Ends, Raw
  <1>3. /\ Expected[t].header = FieldsOf(Raw(t)[1], d)
        /\ Expected[t].rows = AllFields(RawRows(t), d)
        /\ Expected[t].ended = [i \in 0..Len(t) |->
              Cardinality({k \in Data(t) : Cardinality({e \in Ends(t) : e <= i}) >= k})]
    BY <1>2 DEF Reading, RawRows, Data
  <1>4. DOMAIN RawRows(t) = 1..Len(RawRows(t))
    BY <1>1, DataType
  <1>5. Expected[t].rows = [j \in 1..Len(RawRows(t)) |-> FieldsOf(RawRows(t)[j], d)]
    BY <1>3, <1>4 DEF AllFields
  <1>6. ASSUME NEW i \in 0..Len(t) PROVE Expected[t].ended[i] = Rank(Data(t), Rank(Ends(t), i))
    <2>1. Expected[t].ended[i] = Cardinality({k \in Data(t) : Rank(Ends(t), i) >= k})
      BY <1>3 DEF Rank
    <2>2. Rank(Ends(t), i) \in Nat /\ \A k \in Data(t) : k \in Nat
      <3>1. i \in Nat /\ Ends(t) \in Positions
        BY <1>1, EndsType
      <3>2. Rank(Ends(t), i) \in Nat
        BY <3>1, RankStep
      <3> QED BY <1>1, <3>2, DataType
    <2>3. {k \in Data(t) : Rank(Ends(t), i) >= k} = {k \in Data(t) : k <= Rank(Ends(t), i)}
      BY <2>2
    <2> QED BY <2>1, <2>3 DEF Rank
  <1>7. \E S : Expected[t].rows \in Seq(S)
    <2> DEFINE n == Len(RawRows(t))
               S == {FieldsOf(RawRows(t)[j], d) : j \in 1..n}
    <2>1. n \in Nat
      BY <1>1, DataType
    <2>2. Expected[t].rows \in [1..n -> S]
      BY <1>5
    <2> HIDE DEF n, S
    <2>3. Expected[t].rows \in Seq(S)
      BY <2>1, <2>2
    <2> QED BY <2>3
  <1> QED BY <1>3, <1>5, <1>6, <1>7

LEMMA FirstOnes ==
    ASSUME NEW S, NEW q \in Seq(S), NEW k \in Nat, k <= Len(q)
    PROVE  SubSeq(q, 1, k) = [j \in 1..k |-> q[j]]
  <1>1. 0 \in Nat /\ 0 <= k /\ 0 + 1 = 1 /\ k - 0 = k
    OBVIOUS
  <1>2. PICK w : w = SubSeq(q, 0 + 1, k)
    OBVIOUS
  <1>3. w \in Seq(S) /\ Len(w) = k - 0 /\ \A i \in 1..(k - 0) : w[i] = q[0 + i]
    BY <1>1, <1>2, SubText
  <1>4. w = [j \in 1..k |-> w[j]]
    BY <1>1, <1>3
  <1>5. \A j \in 1..k : w[j] = q[j]
    BY <1>1, <1>3
  <1> QED BY <1>1, <1>2, <1>4, <1>5

\* What was handed over, read by parseRecord, is the first rows of the text.
LEMMA ParsedAre ==
    ASSUME NEW t \in Texts, NEW rs \in Seq(Strings), Handed(t, rs), NEW h \in Forms(Raw(t)[1]),
           NEW d, d = DetectDelimiter(h)
    PROVE  /\ Cells(h, d) = Expected[t].header
           /\ DOMAIN AllCells(rs, d) = 1..Len(rs) /\ Len(rs) \in Nat
           /\ \A j \in 1..Len(rs) : AllCells(rs, d)[j] = Expected[t].rows[j]
  <1>1. t \in Strings
    BY TextAssumption DEF Strings
  <1>2. Raw(t)[1] \in Strings
    <2>1. Raw(t) \in Seq(Strings) /\ Len(Raw(t)) = Cardinality(Ends(t)) + 1 /\ Cardinality(Ends(t)) \in Nat
      BY <1>1, EndsType
    <2>2. 1 \in 1..Len(Raw(t))
      BY <2>1
    <2> QED BY <2>1, <2>2
  <1>3. d = DetectDelimiter(Chomp(Raw(t)[1])) /\ d \in Delimiters
    BY <1>2, FormDelimiter
  <1>4. Cells(h, d) = Expected[t].header
    <2>1. Cells(h, d) = FieldsOf(Raw(t)[1], d)
      BY <1>2, <1>3, FormFields
    <2> QED BY <1>3, <2>1, ExpectedRows
  <1>5. DOMAIN rs = 1..Len(rs) /\ Len(rs) \in Nat
    OBVIOUS
  <1>6. AllCells(rs, d) = [j \in 1..Len(rs) |-> Cells(rs[j], d)]
    BY <1>5 DEF AllCells
  <1>7. ASSUME NEW j \in 1..Len(rs) PROVE Cells(rs[j], d) = Expected[t].rows[j]
    <2>1. j \in 1..Len(RawRows(t)) /\ rs[j] \in Forms(RawRows(t)[j]) /\ RawRows(t) \in Seq(Strings)
      <3>1. RawRows(t) \in Seq(Strings) /\ Len(RawRows(t)) \in Nat
        BY <1>1, DataType
      <3>2. Len(rs) <= Len(RawRows(t)) /\ rs[j] \in Forms(RawRows(t)[j])
        BY DEF Handed
      <3> QED BY <1>5, <3>1, <3>2
    <2>2. RawRows(t)[j] \in Strings
      BY <2>1
    <2>3. Cells(rs[j], d) = FieldsOf(RawRows(t)[j], d)
      BY <1>3, <2>1, <2>2, FormFields
    <2>4. Expected[t].rows[j] = FieldsOf(RawRows(t)[j], d)
      BY <1>3, <2>1, ExpectedRows
    <2> QED BY <2>3, <2>4
  <1> QED BY <1>4, <1>5, <1>6, <1>7

\* However the text is cut into chunks, header and rows are those of the text:
\* each as soon as the chunk that ends it was scanned, all at the end, and no
\* others when a cap ends the parse (#578, the parser's own promise); unless
\* quotes are scanned twice.
THEOREM RowsHold == Spec => []RowsTrue
  <1>1. IInv /\ HeaderKept => RowsTrue
    <2> SUFFICES ASSUME IInv, HeaderKept, ~torn PROVE RowsAre(Parsed, Expected[text])
      BY DEF RowsTrue
    <2>1. /\ TypeInv /\ text \in Texts /\ text \in Strings /\ rows \in Seq(Strings) /\ Len(rows) \in Nat
      BY TextType DEF IInv, TypeInv
    <2>2. /\ Handed(text, rows)
          /\ phase \in {"rows", "done"} => header \in Forms(Raw(text)[1])
          /\ phase = "done" => Len(rows) = Len(RawRows(text))
          /\ rows # <<>> => header \in Forms(Raw(text)[1])
      BY DEF IInv, Given, HeaderKept
    <2>3. PICK d : d = DetectDelimiter(header)
      OBVIOUS
    <2>4. PICK m : m = Expected[text]
      OBVIOUS
    <2>5. Parsed = AllCells(rows, d)
      BY <2>3 DEF Parsed
    <2>6. PICK S : m.rows \in Seq(S)
      BY <2>1, <2>4, ExpectedRows
    <2>7. /\ Len(m.rows) = Len(RawRows(text)) /\ Len(m.rows) \in Nat /\ Len(rows) <= Len(m.rows)
          /\ m.rows = [j \in 1..Len(m.rows) |-> m.rows[j]]
      <3>1. Len(RawRows(text)) \in Nat /\ Len(rows) <= Len(RawRows(text))
        BY <2>1, <2>2, DataType DEF Handed
      <3>2. Len(m.rows) = Len(RawRows(text))
        BY <2>1, <2>4, ExpectedCaps
      <3> QED BY <2>6, <3>1, <3>2
    <2>8. Parsed = [j \in 1..Len(rows) |-> Parsed[j]]
      <3>1. DOMAIN rows = 1..Len(rows)
        BY <2>1
      <3> QED BY <2>5, <3>1 DEF AllCells
    <2>9. ASSUME header \in Forms(Raw(text)[1])
          PROVE  Cells(header, d) = m.header /\ Parsed = [j \in 1..Len(rows) |-> m.rows[j]]
      <3>1. Cells(header, d) = m.header /\ \A j \in 1..Len(rows) : Parsed[j] = m.rows[j]
        BY <2>1, <2>2, <2>3, <2>4, <2>5, <2>9, ParsedAre
      <3> QED BY <2>8, <3>1
    <2>10. Parsed = [j \in 1..Len(rows) |-> m.rows[j]]
      <3>1. CASE rows # <<>>
        BY <2>2, <2>9, <3>1
      <3>2. CASE rows = <<>>
        <4>1. 1..Len(rows) = {}
          BY <3>2
        <4> QED BY <2>8, <4>1
      <3> QED BY <3>1, <3>2
    <2>11. Parsed = SubSeq(m.rows, 1, Len(rows))
      BY <2>1, <2>6, <2>7, <2>10, FirstOnes
    <2>12. phase \in {"rows", "done"} => Cells(header, DetectDelimiter(header)) = m.header
      BY <2>2, <2>3, <2>9
    <2>13. ASSUME phase = "rows" PROVE Parsed = SubSeq(m.rows, 1, m.ended[at - Len(lead)])
      <3>1. /\ Clear(text, Base, Scanned) /\ Len(rows) = Rank(Data(text), Rank(Ends(text), Base))
            /\ Scanned \in Nat /\ Base \in Nat /\ PartOf(text, buf, Base, Scanned)
        BY <2>13 DEF IInv, Synced, Placed
      <3>2. Base <= Scanned /\ Scanned <= Len(text) /\ Ends(text) \in Positions
        BY <2>1, <3>1, EndsType DEF PartOf
      <3>3. Rank(Ends(text), Scanned) = Rank(Ends(text), Base)
        BY <3>1, <3>2, RankGrows DEF Clear
      <3>4. Scanned \in 0..Len(text)
        <4>1. Len(text) \in Nat
          BY <2>1, TextType
        <4> QED BY <3>1, <3>2, <4>1
      <3>5. m.ended[Scanned] = Len(rows)
        BY <2>1, <2>4, <3>1, <3>3, <3>4, ExpectedRows
      <3> QED BY <2>11, <3>5 DEF Scanned
    <2>14. ASSUME phase = "done" PROVE Parsed = m.rows
      BY <2>2, <2>7, <2>10, <2>14
    <2>15. IsPrefix(Parsed, m.rows)
      <3>1. PICK w : w = Parsed
        OBVIOUS
      <3>2. w \in Seq(S) /\ Len(w) = Len(rows)
        <4>1. PICK n \in Nat : n = Len(rows)
          BY <2>1
        <4>2. \A j \in 1..n : m.rows[j] \in S
          BY <2>6, <2>7, <4>1
        <4>3. w \in [1..n -> S]
          BY <2>10, <3>1, <4>1, <4>2
        <4>4. w \in Seq(S) /\ Len(w) = n
          BY <4>1, <4>3
        <4> QED BY <4>1, <4>4
      <3>3. SubSeq(w, 1, Len(w)) = w
        BY <3>2, SubSeqFull
      <3> QED BY <2>7, <2>11, <3>1, <3>2, <3>3 DEF IsPrefix
    <2> QED BY <2>4, <2>12, <2>13, <2>14, <2>15 DEF RowsAre
  <1> QED BY <1>1, Invariance, HeaderFirst, PTL

-----------------------------------------------------------------------------
(* The buffered parser *)

\* In a text whose line breaks are not quoted, whose first line is not blank,
\* the lines are the header and the rows.
LEMMA PlainLines ==
    ASSUME NEW t \in Strings, Plain(t)
    PROVE  /\ Between(t) = Raw(t) /\ Raw(t)[1] \in Strings
           /\ Breaks(Raw(t)[1]) = {} /\ ~Blank(Raw(t)[1])
           /\ Lines(t) \in Seq(Strings) /\ Len(Lines(t)) = Len(RawRows(t)) + 1
           /\ Lines(t)[1] \in Forms(Raw(t)[1])
           /\ \A j \in 1..Len(RawRows(t)) : Lines(t)[j + 1] \in Forms(RawRows(t)[j])
  <1> DEFINE F == Filled(Between(t))
             D == Data(t)
  <1>1. Between(t) = Raw(t)
    <2>1. Ends(t) = Breaks(t)
      BY DEF Plain, Ends, Breaks
    <2> QED BY <2>1 DEF Between, Raw
  <1>2. /\ Len(t) \in Nat /\ t \in Seq(Symbols) /\ DOMAIN t = 1..Len(t)
        /\ Ends(t) \in SUBSET (1..Len(t)) /\ Cardinality(Ends(t)) \in Nat
        /\ \A i \in 1..Len(t) : i \in Ends(t) <=> t[i] = "n"
        /\ Raw(t) \in Seq(Strings) /\ Len(Raw(t)) = Cardinality(Ends(t)) + 1
    <2>1. \A i \in 1..Len(t) : i \in Ends(t) <=> t[i] = "n"
      BY EndsType DEF Plain, Ends, Strings
    <2> QED BY <2>1, EndsType DEF Strings
  <1>3. 1 \in 1..Len(Raw(t)) /\ Raw(t)[1] \in Strings /\ 1 \in 1..(Cardinality(Ends(t)) + 1)
    <2>1. 1 \in 1..Len(Raw(t)) /\ 1 \in 1..(Cardinality(Ends(t)) + 1)
      BY <1>2
    <2> QED BY <1>2, <2>1
  <1>4. PICK h \in Strings : h = Raw(t)[1]
    BY <1>3
  <1>5. PICK e \in Ends(t) \cup {Len(t) + 1} : e = PieceTo(t, Ends(t), 1)
    BY <1>2, <1>3, PieceEnds
  <1>6. /\ e \in Nat /\ 0 < e /\ e - 1 \in Nat /\ e <= Len(t) + 1
        /\ \A c \in Ends(t) : ~(0 < c /\ c < e)
        /\ h = SubSeq(t, 0 + 1, e - 1)
    <2>1. PieceFrom(Ends(t), 1) = 0
      BY DEF PieceFrom
    <2>2. 0 < e /\ (\A c \in Ends(t) : ~(0 < c /\ c < e)) /\ h = SubSeq(t, 0 + 1, e - 1)
      <3>1. /\ PieceFrom(Ends(t), 1) < PieceTo(t, Ends(t), 1)
            /\ \A c \in Ends(t) : ~(PieceFrom(Ends(t), 1) < c /\ c < PieceTo(t, Ends(t), 1))
            /\ Pieces(t, Ends(t))[1] = SubSeq(t, PieceFrom(Ends(t), 1) + 1, PieceTo(t, Ends(t), 1) - 1)
        BY <1>2, <1>3, PieceEnds
      <3> QED BY <1>4, <1>5, <2>1, <3>1 DEF Raw
    <2>3. e \in Nat /\ e <= Len(t) + 1
      <3>1. \A i \in 1..Len(t) : i \in Nat /\ i <= Len(t) + 1
        BY <1>2
      <3> QED BY <1>2, <3>1
    <2>4. e - 1 \in Nat
      BY <2>2, <2>3
    <2> QED BY <2>2, <2>3, <2>4
  <1>7. Len(h) = e - 1 /\ DOMAIN h = 1..(e - 1) /\ \A i \in 1..(e - 1) : h[i] = t[i] /\ i \in 1..Len(t)
    <2>1. 0 \in Nat /\ 0 <= e - 1 /\ e - 1 <= Len(t) /\ (e - 1) - 0 = e - 1
      BY <1>2, <1>6
    <2>2. Len(h) = (e - 1) - 0 /\ \A i \in 1..((e - 1) - 0) : h[i] = t[0 + i]
      BY <1>2, <1>6, <2>1, SubText
    <2>3. \A i \in 1..(e - 1) : 0 + i = i /\ i \in 1..Len(t)
      BY <1>2, <1>6
    <2>4. DOMAIN h = 1..Len(h)
      BY DEF Strings
    <2> QED BY <2>1, <2>2, <2>3, <2>4
  <1>8. Breaks(h) = {}
    <2> SUFFICES ASSUME NEW i \in 1..(e - 1), h[i] = "n" PROVE FALSE
      BY <1>7 DEF Breaks
    <2>1. i \in Ends(t)
      BY <1>2, <1>7
    <2>2. 0 < i /\ i < e
      BY <1>6
    <2> QED BY <1>6, <2>1, <2>2
  <1>9. ~Blank(h)
    <2>1. PICK i \in 1..Len(t) : t[i] \notin Whitespace /\ \A j \in 1..(i - 1) : t[j] # "n"
      BY <1>2 DEF Plain
    <2>2. i < e
      <3>1. CASE e = Len(t) + 1
        BY <1>2, <3>1
      <3>2. CASE e \in Ends(t)
        <4>1. e \in 1..Len(t) /\ t[e] = "n"
          BY <1>2, <3>2
        <4>2. e # i
          BY <2>1, <4>1 DEF Whitespace
        <4>3. e \notin 1..(i - 1)
          BY <2>1, <4>1
        <4> QED BY <1>2, <4>1, <4>2, <4>3
      <3> QED BY <3>1, <3>2
    <2>3. i \in 1..(e - 1)
      BY <1>2, <1>6, <2>2
    <2> QED BY <1>7, <2>1, <2>3 DEF Blank
  <1>10. F = D \cup {1} /\ 1 \notin D
    <2>1. DOMAIN Raw(t) = 1..Len(Raw(t)) /\ Len(Raw(t)) \in Nat
      BY <1>2
    <2>2. F = {k \in 1..Len(Raw(t)) : ~Blank(Raw(t)[k])}
      BY <1>1, <2>1 DEF Filled
    <2>3. D = {k \in 2..Len(Raw(t)) : ~Blank(Raw(t)[k])}
      BY DEF Data
    <2>4. \A k \in 1..Len(Raw(t)) : k = 1 \/ k \in 2..Len(Raw(t))
      BY <2>1
    <2>5. (\A k \in 2..Len(Raw(t)) : k \in 1..Len(Raw(t))) /\ 1 \notin 2..Len(Raw(t))
      BY <2>1
    <2> HIDE DEF F, D
    <2>6. 1 \in F
      BY <1>3, <1>4, <1>9, <2>2
    <2> QED BY <2>2, <2>3, <2>4, <2>5, <2>6
  <1>11. /\ D \in Positions /\ Len(RawRows(t)) = Cardinality(D) /\ Cardinality(D) \in Nat
         /\ (\A k \in D : RawRows(t)[Rank(D, k)] = Raw(t)[k] /\ Rank(D, k) \in 1..Cardinality(D))
         /\ D \in SUBSET (1..Len(Raw(t))) /\ Len(Raw(t)) \in Nat
    BY DataType
  <1>12. /\ F \in SUBSET (1..Len(Raw(t)))
         /\ Lines(t) \in Seq(Strings) /\ Len(Lines(t)) = Cardinality(F)
         /\ \A j \in 1..Len(Lines(t)) : InOrder(F)[j] \in F /\ Lines(t)[j] \in Forms(Raw(t)[InOrder(F)[j]])
    BY <1>1, LinesAre
  <1> HIDE DEF F, D
  <1>13. ASSUME NEW k \in Nat, 1 <= k PROVE Rank(F, k) = Rank(D, k) + 1
    <2>1. {j \in F : j <= k} = {j \in D : j <= k} \cup {1} /\ 1 \notin {j \in D : j <= k}
      BY <1>10, <1>13
    <2>2. IsFiniteSet({j \in D : j <= k})
      <3>1. IsFiniteSet(D)
        BY <1>11, RankOfAll
      <3>2. {j \in D : j <= k} \subseteq D
        OBVIOUS
      <3> QED BY <3>1, <3>2, FS_Subset
    <2> QED BY <2>1, <2>2, FS_AddElement DEF Rank
  <1>14. Cardinality(F) = Cardinality(D) + 1
    <2>1. IsFiniteSet(D)
      BY <1>11, RankOfAll
    <2> QED BY <1>10, <2>1, FS_AddElement
  <1>15. Rank(D, 1) = 0
    <2>1. 0 \in Nat /\ 0 + 1 = 1
      OBVIOUS
    <2>2. Rank(D, 0) = 0 /\ Rank(D, 0 + 1) = IF 0 + 1 \in D THEN Rank(D, 0) + 1 ELSE Rank(D, 0)
      BY <1>11, <2>1, RankStep
    <2> QED BY <1>10, <2>1, <2>2
  <1>16. ASSUME NEW j \in 1..Cardinality(F)
         PROVE  \/ j = 1 /\ InOrder(F)[j] = 1
                \/ j # 1 /\ InOrder(F)[j] \in D /\ Rank(D, InOrder(F)[j]) = j - 1
    <2>1. InOrder(F)[j] \in F /\ Rank(F, InOrder(F)[j]) = j
      BY <1>11, <1>12, Ordered
    <2>2. PICK x \in F : x = InOrder(F)[j]
      BY <2>1
    <2>3. x \in Nat /\ 1 <= x
      BY <1>11, <1>12
    <2>4. j = Rank(D, x) + 1 /\ Rank(D, x) \in Nat
      <3>1. Rank(D, x) \in Nat
        BY <1>11, <2>3, RankStep
      <3> QED BY <1>13, <2>1, <2>2, <2>3, <3>1
    <2>5. CASE x = 1
      BY <1>15, <2>2, <2>4, <2>5
    <2>6. CASE x # 1
      <3>1. x \in D
        BY <1>10, <2>6
      <3>2. Rank(D, x) # 0
        BY <1>11, <3>1
      <3> QED BY <2>2, <2>4, <3>1, <3>2
    <2> QED BY <2>5, <2>6
  <1>17. Lines(t)[1] \in Forms(h)
    <2>1. 1 \in 1..Cardinality(F)
      BY <1>11, <1>14
    <2> QED BY <1>4, <1>12, <1>16, <2>1
  <1>18. ASSUME NEW j \in 1..Len(RawRows(t)) PROVE Lines(t)[j + 1] \in Forms(RawRows(t)[j])
    <2>1. j + 1 \in 1..Cardinality(F) /\ j + 1 # 1 /\ (j + 1) - 1 = j
      BY <1>11, <1>14
    <2>2. InOrder(F)[j + 1] \in D /\ Rank(D, InOrder(F)[j + 1]) = j
      BY <1>16, <2>1
    <2>3. Raw(t)[InOrder(F)[j + 1]] = RawRows(t)[j]
      BY <1>11, <2>2
    <2> QED BY <1>12, <2>1, <2>3
  <1> QED BY <1>1, <1>3, <1>4, <1>8, <1>9, <1>11, <1>12, <1>14, <1>17, <1>18

\* Of such a text the header's delimiter is that of the text.
LEMMA PlainDelimiter ==
    ASSUME NEW t \in Strings, Plain(t), NEW f \in Forms(Raw(t)[1])
    PROVE  DetectDelimiter(f) = DetectDelimiter(t) /\ DetectDelimiter(f) \in Delimiters
  <1>1. PICK h \in Strings : h = Raw(t)[1]
    BY PlainLines
  <1>2. /\ Breaks(h) = {} /\ ~Blank(h)
        /\ Lines(t) \in Seq(Strings) /\ Len(Lines(t)) = Len(RawRows(t)) + 1 /\ Len(RawRows(t)) \in Nat
        /\ Lines(t)[1] \in Forms(h)
    BY <1>1, PlainLines, DataType
  <1>3. h \in Forms(h)
    BY DEF Forms
  <1>4. DetectDelimiter(f) = DetectDelimiter(h) /\ DetectDelimiter(f) \in Delimiters
    BY <1>1, <1>3, FormDelimiter
  <1>5. PICK F : F = Filled(Between(h))
    OBVIOUS
  <1>6. Len(Between(h)) = 1 /\ Between(h)[1] = h /\ F = {1}
    <2>1. Cardinality({}) = 0
      BY FS_EmptySet
    <2>2. Between(h) \in Seq(Strings) /\ Len(Between(h)) = 1
      <3>1. Between(h) \in Seq(Strings) /\ Len(Between(h)) = Cardinality(Breaks(h)) + 1
        BY LinesAre
      <3> QED BY <1>2, <2>1, <3>1
    <2>3. Between(h)[1] = h
      <3>1. {} \in SUBSET (1..Len(h)) /\ 1 \in 1..(Cardinality({}) + 1) /\ h \in Seq(Symbols) /\ Len(h) \in Nat
        BY <2>1 DEF Strings
      <3>2. Pieces(h, {})[1] = SubSeq(h, PieceFrom({}, 1) + 1, PieceTo(h, {}, 1) - 1)
        BY <3>1, PieceEnds
      <3>3. PieceFrom({}, 1) + 1 = 1 /\ PieceTo(h, {}, 1) - 1 = Len(h)
        BY <2>1, <3>1 DEF PieceFrom, PieceTo
      <3>4. SubSeq(h, 1, Len(h)) = h
        BY <3>1, SubSeqFull
      <3> QED BY <1>2, <3>2, <3>3, <3>4 DEF Between
    <2>4. DOMAIN Between(h) = {1}
      BY <2>2
    <2>5. F = {1}
      BY <1>2, <1>5, <2>3, <2>4 DEF Filled
    <2> QED BY <2>2, <2>3, <2>5
  <1>7. ASSUME NEW d \in Delimiters PROVE Counts(Lines(h), d) = Counts(Lines(t), d)
    <2> DEFINE n == Cardinality(Cuts(h, d))
    <2>1. Counts(Lines(h), d) = {n}
      <3>1. Counts(Lines(h), d) =
              {Cardinality(Cuts(Between(h)[InOrder(F)[k]], d)) : k \in (1..5) \cap (1..Cardinality(F))}
        BY <1>5, CountsAre
      <3>2. Cardinality(F) = 1
        BY <1>6, FS_Singleton
      <3>3. InOrder(F)[1] = 1
        <4>1. 1 \in Nat /\ F \in SUBSET (1..1) /\ 1 \in 1..Cardinality(F)
          BY <1>6, <3>2
        <4>2. InOrder(F)[1] \in F
          BY <4>1, Ordered
        <4> QED BY <1>6, <4>2
      <3>4. (1..5) \cap (1..Cardinality(F)) = {1}
        BY <3>2
      <3> QED BY <1>6, <3>1, <3>3, <3>4
    <2>2. Occurrences(Lines(t)[1], d) = n
      BY <1>1, <1>2, OccurrencesAre
    <2>3. DOMAIN Lines(t) = 1..Len(Lines(t)) /\ 1 \in (1..5) \cap DOMAIN Lines(t)
      BY <1>2
    <2>4. \A k \in DOMAIN Lines(t) : Occurrences(Lines(t)[k], d) = Occurrences(Lines(t)[1], d)
      BY DEF Plain, Even, Delimiters
    <2> HIDE DEF n
    <2>5. Counts(Lines(t), d) = {Occurrences(Lines(t)[k], d) : k \in (1..5) \cap DOMAIN Lines(t)}
      BY DEF Counts
    <2>6. \A k \in (1..5) \cap DOMAIN Lines(t) : Occurrences(Lines(t)[k], d) = n
      BY <2>2, <2>4
    <2>7. Counts(Lines(t), d) = {n}
      BY <2>3, <2>5, <2>6
    <2> QED BY <2>1, <2>7
  <1>8. Counts(Lines(h), "s") = Counts(Lines(t), "s") /\ Counts(Lines(h), "c") = Counts(Lines(t), "c")
    BY <1>7 DEF Delimiters
  <1>9. DetectDelimiter(h) = DetectDelimiter(t)
    BY <1>8 DEF DetectDelimiter, DelimiterOf
  <1> QED BY <1>4, <1>9

\* On a text that both parsers are to read alike, however it is cut, a parse
\* that ended gave the header and the rows that parseCsv gives for the whole
\* text (comment streaming-csv-parser.ts:505-510).
THEOREM BufferedAgrees == Spec => []AgreesWithBuffered
  <1>1. IInv => AgreesWithBuffered
    <2> SUFFICES ASSUME IInv, phase = "done", ~torn, Plain(text)
                 PROVE  SameRows(Cells(header, DetectDelimiter(header)), Parsed, Buffered[text])
      BY DEF AgreesWithBuffered
    <2>1. /\ text \in Texts /\ text \in Strings /\ rows \in Seq(Strings) /\ Len(rows) \in Nat
      BY TextType DEF IInv, TypeInv
    <2>2. Handed(text, rows) /\ header \in Forms(Raw(text)[1]) /\ Len(rows) = Len(RawRows(text))
      BY DEF IInv, Given
    <2>3. PICK d \in Delimiters : d = DetectDelimiter(header) /\ d = DetectDelimiter(text)
      BY <2>1, <2>2, PlainDelimiter
    <2>4. PICK L : L = Lines(text)
      OBVIOUS
    <2>5. /\ Raw(text)[1] \in Strings /\ L \in Seq(Strings) /\ Len(L) = Len(rows) + 1
          /\ L[1] \in Forms(Raw(text)[1])
          /\ \A j \in 1..Len(rows) : L[j + 1] \in Forms(RawRows(text)[j])
      BY <2>1, <2>2, <2>4, PlainLines
    <2>6. L # <<>> /\ Tail(L) \in Seq(Strings) /\ Len(Tail(L)) = Len(rows)
          /\ \A j \in 1..Len(rows) : Tail(L)[j] = L[j + 1]
      <3>1. L # <<>>
        BY <2>1, <2>5
      <3>2. /\ Tail(L) \in Seq(Strings) /\ Len(Tail(L)) = Len(L) - 1
            /\ \A j \in 1..Len(Tail(L)) : Tail(L)[j] = L[j + 1]
        BY <2>5, <3>1, HeadTailProperties
      <3> QED BY <2>1, <2>5, <3>1, <3>2
    <2>7. Buffered[text] = [header |-> Cells(L[1], d), rows |-> AllCells(Tail(L), d)]
      BY <2>1, <2>3, <2>4, <2>6 DEF Buffered, Table
    <2>8. Cells(header, d) = Cells(L[1], d)
      BY <2>2, <2>3, <2>5, FormFields
    <2>9. ASSUME NEW j \in 1..Len(rows) PROVE Cells(rows[j], d) = Cells(Tail(L)[j], d)
      <3>1. RawRows(text)[j] \in Strings
        <4>1. RawRows(text) \in Seq(Strings)
          BY <2>1, DataType
        <4> QED BY <2>2, <4>1
      <3>2. rows[j] \in Forms(RawRows(text)[j])
        BY <2>2 DEF Handed
      <3>3. Tail(L)[j] \in Forms(RawRows(text)[j])
        BY <2>5, <2>6
      <3> QED BY <2>3, <3>1, <3>2, <3>3, FormFields
    <2>10. Parsed = AllCells(Tail(L), d)
      <3>1. DOMAIN rows = 1..Len(rows) /\ DOMAIN Tail(L) = 1..Len(rows)
        BY <2>1, <2>6
      <3> QED BY <2>3, <2>9, <3>1 DEF Parsed, AllCells
    <2> QED BY <2>3, <2>7, <2>8, <2>10 DEF SameRows
  <1> QED BY <1>1, Invariance, PTL

-----------------------------------------------------------------------------
(* What tears a text                                                        *)

\* While something is left to scan, what was scanned ends outside quotes.
CutsOutside ==
    phase \in {"header", "rows"} /\ Scanned < Len(text) => Unquoted(text, Scanned)

LEMMA UnquotedOutside ==
    ASSUME NEW s \in Strings, NEW i \in Nat, i <= Len(s)
    PROVE  Unquoted(s, i) <=> ~Inside(s, i)
  <1>1. Len(s) \in Nat
    BY DEF Strings
  <1>2. 0 \in 0..Len(s) /\ i \in 0..Len(s) /\ FALSE \in BOOLEAN
    BY <1>1
  <1> QED BY <1>2, QuotedBy

\* A text is torn first by a chunk that arrives inside quotes.
LEMMA TornStep ==
    ASSUME IInv, [Next]_vars, ~torn, torn'
    PROVE  phase \in {"header", "rows"} /\ Scanned < Len(text) /\ ~Unquoted(text, Scanned)
  <1>1. \/ text \in Strings /\ Scanned \in Nat /\ Scanned <= Len(text)
        \/ phase = "failed"
    <2>1. text \in Strings /\ at \in Nat /\ at <= Len(text) /\ Len(text) \in Nat
      BY TextType DEF IInv
    <2>2. lead \in Seq(Symbols) /\ Len(lead) \in Nat
      BY DEF IInv, TypeInv, Strings
    <2> QED BY <2>1, <2>2 DEF IInv, Placed, Scanned
  <1>2. phase \in {"header", "rows"} /\ inQuotes
    <2>1. CASE TakeHeader
      BY <2>1 DEF TakeHeader
    <2>2. CASE ScanLead \/ ScanChunk
      BY <2>2 DEF ScanLead, ScanChunk, Scan
    <2>3. CASE HeaderIsAll \/ Flush \/ UNCHANGED vars
      BY <2>3 DEF HeaderIsAll, Flush, vars
    <2> QED BY <2>1, <2>2, <2>3 DEF Next
  <1>3. Inside(text, Scanned)
    BY <1>2 DEF IInv, Synced
  <1>4. Scanned < Len(text)
    <2>1. text \in Strings /\ at \in Nat /\ at <= Len(text) /\ Len(text) \in Nat
      BY TextType DEF IInv
    <2>2. lead \in Seq(Symbols) /\ Len(lead) \in Nat /\ (lead # <<>> => Len(lead) > 0)
      BY DEF IInv, TypeInv, Strings
    <2>3. \/ at < Len(text)
          \/ lead # <<>>
      <3>1. CASE TakeHeader
        BY <3>1 DEF TakeHeader
      <3>2. CASE ScanLead \/ ScanChunk
        BY <3>2 DEF ScanLead, ScanChunk
      <3>3. CASE HeaderIsAll \/ Flush \/ UNCHANGED vars
        BY <3>3 DEF HeaderIsAll, Flush, vars
      <3> QED BY <3>1, <3>2, <3>3 DEF Next
    <2> QED BY <2>1, <2>2, <2>3 DEF Scanned
  <1> QED BY <1>1, <1>2, <1>3, <1>4, UnquotedOutside

(* Quotes are counted a second time only by a chunk that begins inside a    *)
(* quoted field: a cut anywhere else does no harm (scanRecords and          *)
(* takeHeaderRecord, streaming-csv-parser.ts:220-302, 395-452).             *)
THEOREM TornInQuotes ==
    Spec => [][~torn /\ torn' => phase \in {"header", "rows"} /\ ~Unquoted(text, Scanned)]_vars
  <1>1. IInv /\ [Next]_vars =>
          [~torn /\ torn' => phase \in {"header", "rows"} /\ ~Unquoted(text, Scanned)]_vars
    BY TornStep
  <1> QED BY <1>1, Invariance, PTL DEF Spec

(* So when no chunk but the last ends inside quotes, the rows are those of  *)
(* the text and the caps are kept, without a condition on what was counted. *)
THEOREM CutsOutsideHold ==
    Spec /\ []CutsOutside => [](~torn /\ RowsAre(Parsed, Expected[text]) /\ CapsKept(Expected[text]))
  <1>1. Init => ~torn
    BY DEF Init
  <1>2. IInv /\ CutsOutside /\ ~torn /\ [Next]_vars => ~torn'
    BY TornStep DEF CutsOutside
  <1>3. ~torn /\ RowsTrue /\ CapsTrue =>
          ~torn /\ RowsAre(Parsed, Expected[text]) /\ CapsKept(Expected[text])
    BY DEF RowsTrue, CapsTrue
  <1> QED BY <1>1, <1>2, <1>3, Invariance, RowsHold, CapsHold, PTL DEF Spec

NoQuotes(t) == \A i \in DOMAIN t : t[i] # "q"

LEMMA NoneInside ==
    ASSUME NEW t \in Strings, NoQuotes(t), NEW i \in Nat, i <= Len(t)
    PROVE  Unquoted(t, i)
  <1>1. {j \in 1..i : t[j] = "q"} = {}
    <2>1. \A j \in 1..i : j \in DOMAIN t
      BY DEF Strings
    <2> QED BY <2>1 DEF NoQuotes
  <1>2. Cardinality({}) = 0
    BY FS_EmptySet
  <1>3. Unquoted(t, i) <=> Cardinality({j \in 1..i : t[j] = "q"}) % 2 = 0
    BY DEF Unquoted
  <1>4. 0 % 2 = 0
    OBVIOUS
  <1> QED BY <1>1, <1>2, <1>3, <1>4

(* A text without quotes gives its own rows, cut anywhere.                  *)
THEOREM NoQuotesHold ==
    Spec => [](NoQuotes(text) => ~torn /\ RowsAre(Parsed, Expected[text]) /\ CapsKept(Expected[text]))
  <1> DEFINE Whole == NoQuotes(text) => ~torn
  <1>1. Init => Whole
    BY DEF Init
  <1>2. IInv /\ Whole /\ [Next]_vars => Whole'
    <2> SUFFICES ASSUME IInv, Whole, [Next]_vars, NoQuotes(text'), torn' PROVE FALSE
      OBVIOUS
    <2>1. text' = text
      BY DEF Next, TakeHeader, HeaderIsAll, ScanLead, ScanChunk, Flush, vars
    <2>2. ~torn /\ phase \in {"header", "rows"} /\ ~Unquoted(text, Scanned)
      BY <2>1, TornStep
    <2>3. text \in Strings /\ Scanned \in Nat /\ Scanned <= Len(text)
      <3>1. text \in Strings /\ at \in Nat /\ at <= Len(text) /\ Len(text) \in Nat
        BY TextType DEF IInv
      <3>2. lead \in Seq(Symbols) /\ Len(lead) \in Nat
        BY DEF IInv, TypeInv, Strings
      <3> QED BY <2>2, <3>1, <3>2 DEF IInv, Placed, Scanned
    <2> QED BY <2>1, <2>2, <2>3, NoneInside
  <1>3. Whole /\ RowsTrue /\ CapsTrue =>
          (NoQuotes(text) => ~torn /\ RowsAre(Parsed, Expected[text]) /\ CapsKept(Expected[text]))
    BY DEF RowsTrue, CapsTrue
  <1> HIDE DEF Whole
  <1> QED BY <1>1, <1>2, <1>3, Invariance, RowsHold, CapsHold, PTL DEF Spec
=============================================================================
