----------------------------- MODULE FTPProofs -----------------------------
(***************************************************************************)
(* Theorems about FTP, for any paths, any limit of an upload and any       *)
(* number of commands and blocks of data.                                  *)
(***************************************************************************)
EXTENDS FTP, WellFoundedInduction, FiniteSetTheorems, SequenceTheorems, TLAPS

Commands == PlainCommands \cup Passive \cup {"USER", "PASS", "PASS-EMPTY", "CWD", "CDUP"}
EntryPaths == CwdPaths \cup {NoPath}
Entries == [cmd : Commands, path : EntryPaths, codes : Seq(Nat),
            events : Seq({"command", "auth", "upload"})]

LogOK == log \in Seq(Entries)

(* Which command the handler is at while it waits for a data connection, or *)
(* for data; it has one from its reply until it is published.               *)
Midway ==
    /\ handler \in {"accept", "receive", "publish"} => log # <<>>
    /\ handler = "accept" => log[Len(log)].cmd \in {"LIST", "STOR"}
    /\ handler = "receive" => log[Len(log)].cmd = "STOR"

(* No listener is open but the one ftpConn knows of. *)
Known == listeners \subseteq {dataListen}

(* dispatch has returned an upload just when the client was told 226, and   *)
(* it is gone when the events of the command are published.                 *)
UploadTold ==
    /\ handler # "publish" => ~upload
    /\ handler = "publish" =>
          (upload <=> log[Len(log)].cmd = "STOR" /\ Final(log[Len(log)]) = 226)

FTPInv == TypeOK /\ LogOK /\ Midway /\ Known /\ ListenersAsTold /\ Answered
-----------------------------------------------------------------------------
(* A set of naturals that is not empty has a least element.                 *)
LEMMA LeastOf ==
    ASSUME NEW T \in SUBSET Nat, T # {}
    PROVE  \E x \in T : \A y \in T : x <= y
<1> DEFINE R == {ss \in Nat \X Nat : ss[1] < ss[2]}
<1>1. IsWellFoundedOn(R, Nat)
  BY NatLessThanWellFounded DEF OpToRel
<1>2. PICK x \in T : \A y \in T : <<y, x>> \notin R
  <2> HIDE DEF R
  <2> QED BY <1>1, WFMin
<1>3. ASSUME NEW y \in T PROVE x <= y
  <2>1. <<y, x>> \in Nat \X Nat /\ <<y, x>> \notin R
    BY <1>2
  <2> QED BY <2>1
<1> QED BY <1>3

(* ... and a greatest one when it is bounded. *)
LEMMA GreatestOf ==
    ASSUME NEW n \in Nat, NEW T \in SUBSET (1..n), T # {}
    PROVE  \E x \in T : \A y \in T : y <= x
<1> DEFINE U == {n - y : y \in T}
<1>1. U \in SUBSET Nat /\ U # {}
  <2>1. \A y \in T : n - y \in Nat
    OBVIOUS
  <2> QED BY <2>1
<1>2. PICK u \in U : \A v \in U : u <= v
  <2> HIDE DEF U
  <2> QED BY <1>1, LeastOf
<1>3. PICK x \in T : u = n - x
  OBVIOUS
<1>4. ASSUME NEW y \in T PROVE y <= x
  <2>1. n - y \in U
    OBVIOUS
  <2>2. n - x <= n - y
    BY <1>2, <1>3, <2>1
  <2> QED BY <2>2
<1> QED BY <1>4

-----------------------------------------------------------------------------
(* Positions in a sequence are finitely many. *)
LEMMA PositionsFinite ==
    ASSUME NEW a \in Int, NEW n \in Int, NEW S \in SUBSET (a..n)
    PROVE  IsFiniteSet(S) /\ Cardinality(S) \in Nat
<1>1. IsFiniteSet(a..n)
  BY FS_Interval
<1>2. IsFiniteSet(S)
  BY <1>1, FS_Subset
<1> QED BY <1>2, FS_CardinalityType

LEMMA PositionsUpTo ==
    ASSUME NEW n \in Nat, NEW S \in SUBSET (1..n)
    PROVE  /\ IsFiniteSet(S) /\ Cardinality(S) \in Nat
           /\ \A m \in Nat : IsFiniteSet(S \cap 1..m) /\ Cardinality(S \cap 1..m) \in Nat
<1>1. 1 \in Int /\ n \in Int
  OBVIOUS
<1>2. ASSUME NEW m \in Nat
      PROVE  IsFiniteSet(S \cap 1..m) /\ Cardinality(S \cap 1..m) \in Nat
  <2>1. S \cap 1..m \in SUBSET (1..n)
    OBVIOUS
  <2> QED BY <1>1, <2>1, PositionsFinite
<1> QED BY <1>1, <1>2, PositionsFinite

(* One more position. *)
LEMMA PositionAdded ==
    ASSUME NEW n \in Nat, NEW S \in SUBSET (1..n), NEW m \in Nat
    PROVE  /\ Cardinality(S \cap 1..m) \in Nat
           /\ Cardinality(S \cap 1..m) <= Cardinality(S)
           /\ Cardinality(S \cap 1..(m + 1)) =
                 Cardinality(S \cap 1..m) + (IF m + 1 \in S THEN 1 ELSE 0)
<1>1. IsFiniteSet(S) /\ IsFiniteSet(S \cap 1..m) /\ Cardinality(S \cap 1..m) \in Nat
  BY PositionsUpTo
<1>2. Cardinality(S \cap 1..m) <= Cardinality(S)
  <2>1. S \cap 1..m \in SUBSET S
    OBVIOUS
  <2> QED BY <1>1, <2>1, FS_Subset
<1>3. CASE m + 1 \in S
  <2>1. S \cap 1..(m + 1) = (S \cap 1..m) \cup {m + 1} /\ m + 1 \notin S \cap 1..m
    BY <1>3
  <2> QED BY <1>1, <1>2, <1>3, <2>1, FS_AddElement
<1>4. CASE m + 1 \notin S
  <2>1. S \cap 1..(m + 1) = S \cap 1..m
    BY <1>4
  <2>2. Cardinality(S \cap 1..m) + 0 = Cardinality(S \cap 1..m)
    BY <1>1
  <2> QED BY <1>1, <1>2, <1>4, <2>1, <2>2
<1> QED BY <1>3, <1>4

(* Every place of a set of positions is taken ... *)
LEMMA PlaceIs ==
    ASSUME NEW n \in Nat, NEW S \in SUBSET (1..n), NEW k \in 1..Cardinality(S)
    PROVE  Place(S, k) \in S /\ Cardinality(S \cap 1..Place(S, k)) = k
<1>0. Cardinality(S) \in Nat /\ k \in Nat \ {0}
  BY PositionsUpTo
<1> DEFINE T == {m \in Nat : Cardinality(S \cap 1..m) >= k}
<1>1. n \in T
  <2>1. S \cap 1..n = S
    OBVIOUS
  <2> QED BY <1>0, <2>1
<1>2. PICK x \in T : \A y \in T : x <= y
  <2>1. T \in SUBSET Nat /\ T # {}
    BY <1>1
  <2> HIDE DEF T
  <2> QED BY <2>1, LeastOf
<1>3. x # 0
  <2>1. S \cap 1..0 = {}
    OBVIOUS
  <2>2. Cardinality(S \cap 1..0) = 0
    BY <2>1, FS_EmptySet
  <2> QED BY <1>0, <2>2
<1>4. PICK m \in Nat : x = m + 1
  <2>1. x \in Nat /\ x - 1 \in Nat /\ x = (x - 1) + 1
    BY <1>3
  <2> QED BY <2>1
<1>5. m \notin T
  <2>1. ~(x <= m)
    BY <1>4
  <2> HIDE DEF T
  <2> QED BY <1>2, <2>1
<1>6. x \in S /\ Cardinality(S \cap 1..x) = k
  BY <1>0, <1>4, <1>5, PositionAdded
<1>7. \E i \in S : Cardinality(S \cap 1..i) = k
  BY <1>6
<1> QED BY <1>7 DEF Place

(* ... by one position. *)
LEMMA PlaceOnly ==
    ASSUME NEW n \in Nat, NEW S \in SUBSET (1..n), NEW i \in S, NEW j \in S, i < j
    PROVE  Cardinality(S \cap 1..i) < Cardinality(S \cap 1..j)
<1>0. i \in Nat /\ j \in Nat
  OBVIOUS
<1>1. PICK m \in Nat : m + 1 = j
  <2>1. j - 1 \in Nat /\ (j - 1) + 1 = j
    BY <1>0
  <2> QED BY <2>1
<1>2. Cardinality(S \cap 1..i) <= Cardinality(S \cap 1..m)
  <2>1. S \cap 1..i \in SUBSET (S \cap 1..m)
    BY <1>0, <1>1
  <2>2. IsFiniteSet(S \cap 1..m)
    BY PositionsUpTo
  <2> QED BY <2>1, <2>2, FS_Subset
<1>3. Cardinality(S \cap 1..(m + 1)) = Cardinality(S \cap 1..m) + 1
  <2>1. m + 1 \in S
    BY <1>1
  <2> QED BY <2>1, PositionAdded
<1>4. Cardinality(S \cap 1..i) \in Nat /\ Cardinality(S \cap 1..m) \in Nat
  BY <1>0, PositionsUpTo
<1> QED BY <1>1, <1>2, <1>3, <1>4

LEMMA PlaceUnique ==
    ASSUME NEW n \in Nat, NEW S \in SUBSET (1..n), NEW i \in S
    PROVE  Place(S, Cardinality(S \cap 1..i)) = i
<1>1. PICK j \in S : /\ j = Place(S, Cardinality(S \cap 1..i))
                     /\ Cardinality(S \cap 1..j) = Cardinality(S \cap 1..i)
  BY DEF Place
<1>2. i \in Nat /\ j \in Nat
  OBVIOUS
<1>3. Cardinality(S \cap 1..i) \in Nat
  BY <1>2, PositionsUpTo
<1>4. ASSUME i < j PROVE FALSE
  <2>1. Cardinality(S \cap 1..i) < Cardinality(S \cap 1..j)
    BY <1>4, PlaceOnly
  <2> QED BY <1>1, <1>3, <2>1
<1>5. ASSUME j < i PROVE FALSE
  <2>1. Cardinality(S \cap 1..j) < Cardinality(S \cap 1..i)
    BY <1>5, PlaceOnly
  <2> QED BY <1>1, <1>3, <2>1
<1>6. i = j
  BY <1>2, <1>4, <1>5
<1> QED BY <1>1, <1>6

(* A position behind all the others takes the last place. *)
TakesLast(S, x) ==
    /\ Cardinality(S) \in Nat
    /\ Cardinality(S \cup {x}) = Cardinality(S) + 1
    /\ Place(S \cup {x}, Cardinality(S) + 1) = x
    /\ \A k \in 1..Cardinality(S) : Place(S, k) \in S /\ Place(S \cup {x}, k) = Place(S, k)

LEMMA PlaceBehind ==
    ASSUME NEW n \in Nat, NEW S \in SUBSET (1..n), NEW x \in Nat, n < x
    PROVE  TakesLast(S, x)
<1> DEFINE U == S \cup {x}
<1>0. IsFiniteSet(S) /\ Cardinality(S) \in Nat
  BY PositionsUpTo
<1>1. U \in SUBSET (1..x) /\ x \notin S
  OBVIOUS
<1>2. Cardinality(U) = Cardinality(S) + 1
  BY <1>0, <1>1, FS_AddElement
<1>3. Place(U, Cardinality(S) + 1) = x
  <2>1. U \cap 1..x = U /\ x \in U
    BY <1>1
  <2> HIDE DEF U
  <2> QED BY <1>0, <1>1, <1>2, <2>1, PlaceUnique
<1>4. ASSUME NEW k \in 1..Cardinality(S)
      PROVE  Place(S, k) \in S /\ Place(U, k) = Place(S, k)
  <2> DEFINE i == Place(S, k)
  <2>1. i \in S /\ Cardinality(S \cap 1..i) = k
    BY PlaceIs
  <2> HIDE DEF i
  <2>2. U \cap 1..i = S \cap 1..i /\ i \in U
    BY <2>1
  <2> HIDE DEF U
  <2>3. Place(U, k) = i
    BY <1>1, <2>1, <2>2, PlaceUnique
  <2> QED BY <2>1, <2>3 DEF i
<1> QED BY <1>0, <1>2, <1>3, <1>4 DEF TakesLast
-----------------------------------------------------------------------------
(* How many more names than steps up there are among the parts from i to j. *)
Excess(q, i, j) == Cardinality(NamesIn(q, i, j)) - Cardinality(UpsIn(q, i, j))

Gain(p) == IF p \notin Special THEN 1 ELSE IF p = ".." THEN -1 ELSE 0

(* A step up is not a name, nor one of the parts that lead nowhere. *)
LEMMA UpIsSpecial == ".." \in Special /\ ".." \notin Here
BY Zenon DEF Special, Here, Blank

(* ... but it is a part. *)
LEMMA UpIsPart == ".." \in Part
BY UpIsSpecial DEF Part

(* Names and steps up between two places are finitely many. *)
LEMMA CountsAre ==
    ASSUME NEW q, NEW i \in Nat, NEW j \in Nat
    PROVE  /\ IsFiniteSet(NamesIn(q, i, j)) /\ Cardinality(NamesIn(q, i, j)) \in Nat
           /\ IsFiniteSet(UpsIn(q, i, j)) /\ Cardinality(UpsIn(q, i, j)) \in Nat
           /\ Excess(q, i, j) \in Int
           /\ j < i => Excess(q, i, j) = 0
<1>1. NamesIn(q, i, j) \in SUBSET (i..j) /\ UpsIn(q, i, j) \in SUBSET (i..j)
  BY DEF NamesIn, UpsIn
<1>2. /\ IsFiniteSet(NamesIn(q, i, j)) /\ Cardinality(NamesIn(q, i, j)) \in Nat
      /\ IsFiniteSet(UpsIn(q, i, j)) /\ Cardinality(UpsIn(q, i, j)) \in Nat
  <2>1. i \in Int /\ j \in Int
    OBVIOUS
  <2>2. IsFiniteSet(NamesIn(q, i, j)) /\ Cardinality(NamesIn(q, i, j)) \in Nat
    BY <1>1, <2>1, PositionsFinite
  <2>3. IsFiniteSet(UpsIn(q, i, j)) /\ Cardinality(UpsIn(q, i, j)) \in Nat
    BY <1>1, <2>1, PositionsFinite
  <2> QED BY <2>2, <2>3
<1>3. ASSUME j < i PROVE Excess(q, i, j) = 0
  <2>1. NamesIn(q, i, j) = {} /\ UpsIn(q, i, j) = {}
    BY <1>1, <1>3
  <2>2. Cardinality(NamesIn(q, i, j)) = 0 /\ Cardinality(UpsIn(q, i, j)) = 0
    BY <2>1, FS_EmptySet
  <2> QED BY <2>2 DEF Excess
<1>4. Excess(q, i, j) \in Int
  BY <1>2 DEF Excess
<1> QED BY <1>2, <1>3, <1>4

(* One part more. *)
LEMMA ExcessNext ==
    ASSUME NEW q, NEW i \in Nat, NEW j \in Nat, i <= j + 1
    PROVE  Excess(q, i, j + 1) = Excess(q, i, j) + Gain(q[j + 1])
<1>0. /\ IsFiniteSet(NamesIn(q, i, j)) /\ Cardinality(NamesIn(q, i, j)) \in Nat
      /\ IsFiniteSet(UpsIn(q, i, j)) /\ Cardinality(UpsIn(q, i, j)) \in Nat
  BY CountsAre
<1>1. Cardinality(NamesIn(q, i, j + 1)) =
          Cardinality(NamesIn(q, i, j)) + (IF q[j + 1] \notin Special THEN 1 ELSE 0)
  <2>1. CASE q[j + 1] \notin Special
    <3>1. NamesIn(q, i, j + 1) = NamesIn(q, i, j) \cup {j + 1} /\ j + 1 \notin NamesIn(q, i, j)
      BY <2>1 DEF NamesIn
    <3> QED BY <1>0, <2>1, <3>1, FS_AddElement
  <2>2. CASE q[j + 1] \in Special
    <3>1. NamesIn(q, i, j + 1) = NamesIn(q, i, j)
      BY <2>2 DEF NamesIn
    <3> QED BY <1>0, <2>2, <3>1
  <2> QED BY <2>1, <2>2
<1>2. Cardinality(UpsIn(q, i, j + 1)) =
          Cardinality(UpsIn(q, i, j)) + (IF q[j + 1] = ".." THEN 1 ELSE 0)
  <2>1. CASE q[j + 1] = ".."
    <3>1. UpsIn(q, i, j + 1) = UpsIn(q, i, j) \cup {j + 1} /\ j + 1 \notin UpsIn(q, i, j)
      BY <2>1 DEF UpsIn
    <3> QED BY <1>0, <2>1, <3>1, FS_AddElement
  <2>2. CASE q[j + 1] # ".."
    <3>1. UpsIn(q, i, j + 1) = UpsIn(q, i, j)
      BY <2>2 DEF UpsIn
    <3> QED BY <1>0, <2>2, <3>1
  <2> QED BY <2>1, <2>2
<1>3. q[j + 1] = ".." => q[j + 1] \in Special
  BY UpIsSpecial
<1> QED BY <1>0, <1>1, <1>2, <1>3 DEF Excess, Gain

(* Two sets that have nothing in common. *)
LEMMA DisjointCounts ==
    ASSUME NEW S, NEW T, IsFiniteSet(S), IsFiniteSet(T), S \cap T = {}
    PROVE  Cardinality(S \cup T) = Cardinality(S) + Cardinality(T)
<1>1. Cardinality(S \cap T) = 0
  BY FS_EmptySet
<1>2. Cardinality(S \cup T) = Cardinality(S) + Cardinality(T) - Cardinality(S \cap T)
  BY FS_Union
<1>3. Cardinality(S) \in Nat /\ Cardinality(T) \in Nat
  BY FS_CardinalityType
<1> QED BY <1>1, <1>2, <1>3

(* The parts taken in two stretches. *)
LEMMA ExcessSplit ==
    ASSUME NEW q, NEW i \in Nat, NEW k \in Nat, NEW j \in Nat, i <= k + 1, k <= j
    PROVE  Excess(q, i, j) = Excess(q, i, k) + Excess(q, k + 1, j)
<1>1. /\ IsFiniteSet(NamesIn(q, i, k)) /\ Cardinality(NamesIn(q, i, k)) \in Nat
      /\ IsFiniteSet(UpsIn(q, i, k)) /\ Cardinality(UpsIn(q, i, k)) \in Nat
      /\ IsFiniteSet(NamesIn(q, k + 1, j)) /\ Cardinality(NamesIn(q, k + 1, j)) \in Nat
      /\ IsFiniteSet(UpsIn(q, k + 1, j)) /\ Cardinality(UpsIn(q, k + 1, j)) \in Nat
  BY CountsAre
<1>2. /\ NamesIn(q, i, j) = NamesIn(q, i, k) \cup NamesIn(q, k + 1, j)
      /\ NamesIn(q, i, k) \cap NamesIn(q, k + 1, j) = {}
  BY DEF NamesIn
<1>3. /\ UpsIn(q, i, j) = UpsIn(q, i, k) \cup UpsIn(q, k + 1, j)
      /\ UpsIn(q, i, k) \cap UpsIn(q, k + 1, j) = {}
  BY DEF UpsIn
<1>4. Cardinality(NamesIn(q, i, j)) =
          Cardinality(NamesIn(q, i, k)) + Cardinality(NamesIn(q, k + 1, j))
  BY <1>1, <1>2, DisjointCounts
<1>5. Cardinality(UpsIn(q, i, j)) =
          Cardinality(UpsIn(q, i, k)) + Cardinality(UpsIn(q, k + 1, j))
  BY <1>1, <1>3, DisjointCounts
<1> QED BY <1>1, <1>4, <1>5 DEF Excess

(* Parts that are the same count the same. *)
LEMMA ExcessSame ==
    ASSUME NEW q, NEW r, NEW i \in Nat, NEW j \in Nat, \A k \in i..j : q[k] = r[k]
    PROVE  Excess(q, i, j) = Excess(r, i, j)
<1>1. NamesIn(q, i, j) = NamesIn(r, i, j) /\ UpsIn(q, i, j) = UpsIn(r, i, j)
  BY DEF NamesIn, UpsIn
<1> QED BY <1>1 DEF Excess

(* The names that stay, by what is in excess behind them. *)
LEMMA StayingIs ==
    ASSUME NEW P, NEW q \in Seq(P)
    PROVE  /\ Staying(q) \in SUBSET (1..Len(q)) /\ Len(q) \in Nat
           /\ \A i \in 1..Len(q) :
                 i \in Staying(q) <=> /\ q[i] \notin Special
                                      /\ \A j \in i + 1 .. Len(q) : Excess(q, i + 1, j) >= 0
<1>1. Len(q) \in Nat /\ DOMAIN q = 1..Len(q)
  OBVIOUS
<1>2. ASSUME NEW i \in 1..Len(q), NEW j \in i + 1 .. Len(q)
      PROVE  Cardinality(UpsIn(q, i + 1, j)) <= Cardinality(NamesIn(q, i + 1, j))
                <=> Excess(q, i + 1, j) >= 0
  <2>1. Cardinality(UpsIn(q, i + 1, j)) \in Nat /\ Cardinality(NamesIn(q, i + 1, j)) \in Nat
    BY CountsAre
  <2> QED BY <2>1 DEF Excess
<1> QED BY <1>1, <1>2 DEF Staying, Stays
-----------------------------------------------------------------------------
(* A part is appended: which names stay. *)
LEMMA StayingNext ==
    ASSUME NEW P, NEW q \in Seq(P), NEW p \in P
    PROVE  /\ p \in Here => Staying(Append(q, p)) = Staying(q)
           /\ p \notin Special => Staying(Append(q, p)) = Staying(q) \cup {Len(q) + 1}
           /\ p = ".." => Staying(Append(q, p)) =
                             {i \in Staying(q) : Excess(q, i + 1, Len(q)) > 0}
<1> DEFINE r == Append(q, p)
           n == Len(q)
<1>1. /\ n \in Nat /\ r \in Seq(P) /\ Len(r) = n + 1 /\ r[n + 1] = p
      /\ \A i \in 1..n : r[i] = q[i]
  BY AppendProperties
<1> HIDE DEF r, n
<1>2. /\ Staying(q) \in SUBSET (1..n)
      /\ \A i \in 1..n :
            i \in Staying(q) <=> /\ q[i] \notin Special
                                 /\ \A j \in i + 1 .. n : Excess(q, i + 1, j) >= 0
  BY StayingIs DEF n
<1>3. /\ Staying(r) \in SUBSET (1..(n + 1))
      /\ \A i \in 1..(n + 1) :
            i \in Staying(r) <=> /\ r[i] \notin Special
                                 /\ \A j \in i + 1 .. n + 1 : Excess(r, i + 1, j) >= 0
  BY <1>1, StayingIs
<1>4. \A i \in 1..n, j \in 0..n : Excess(r, i + 1, j) = Excess(q, i + 1, j)
  BY <1>1, ExcessSame
<1>5. \A i \in 1..n : /\ Excess(r, i + 1, n + 1) = Excess(q, i + 1, n) + Gain(p)
                      /\ Excess(q, i + 1, n) \in Int
  <2> SUFFICES ASSUME NEW i \in 1..n
               PROVE  /\ Excess(r, i + 1, n + 1) = Excess(q, i + 1, n) + Gain(p)
                      /\ Excess(q, i + 1, n) \in Int
    OBVIOUS
  <2>1. Excess(r, i + 1, n + 1) = Excess(r, i + 1, n) + Gain(p)
    <3>1. i + 1 \in Nat /\ i + 1 <= n + 1
      BY <1>1
    <3>2. Excess(r, i + 1, n + 1) = Excess(r, i + 1, n) + Gain(r[n + 1])
      BY <1>1, <3>1, ExcessNext
    <3> QED BY <1>1, <3>2
  <2>2. Excess(q, i + 1, n) \in Int
    BY <1>1, CountsAre
  <2>3. Excess(r, i + 1, n) = Excess(q, i + 1, n)
    BY <1>1, <1>4
  <2> QED BY <2>1, <2>2, <2>3
<1>6. \A i \in Staying(q) : Excess(q, i + 1, n) >= 0
  <2> SUFFICES ASSUME NEW i \in Staying(q) PROVE Excess(q, i + 1, n) >= 0
    OBVIOUS
  <2>1. CASE i = n
    <3>1. n < i + 1 /\ i + 1 \in Nat
      BY <1>1, <2>1
    <3>2. Excess(q, i + 1, n) = 0
      BY <1>1, <3>1, CountsAre
    <3> QED BY <3>2
  <2>2. CASE i # n
    BY <1>1, <1>2, <2>2
  <2> QED BY <2>1, <2>2
<1>7. \A i \in 1..n : i \in Staying(r) <=> i \in Staying(q) /\ Excess(q, i + 1, n) + Gain(p) >= 0
  <2> SUFFICES ASSUME NEW i \in 1..n
               PROVE  i \in Staying(r) <=>
                         i \in Staying(q) /\ Excess(q, i + 1, n) + Gain(p) >= 0
    OBVIOUS
  <2>1. (\A j \in i + 1 .. n + 1 : Excess(r, i + 1, j) >= 0) <=>
            /\ \A j \in i + 1 .. n : Excess(q, i + 1, j) >= 0
            /\ Excess(q, i + 1, n) + Gain(p) >= 0
    <3>1. \A j \in i + 1 .. n : Excess(r, i + 1, j) = Excess(q, i + 1, j)
      BY <1>1, <1>4
    <3>2. Excess(r, i + 1, n + 1) = Excess(q, i + 1, n) + Gain(p)
      BY <1>5
    <3>3. \A j : j \in i + 1 .. n + 1 <=> j \in i + 1 .. n \/ j = n + 1
      BY <1>1
    <3> QED BY <3>1, <3>2, <3>3
  <2>2. r[i] = q[i] /\ i \in 1..(n + 1)
    BY <1>1
  <2> QED BY <1>2, <1>3, <2>1, <2>2
<1>8. n + 1 \in Staying(r) <=> p \notin Special
  <2>1. (n + 1) + 1 .. n + 1 = {} /\ n + 1 \in 1..(n + 1)
    BY <1>1
  <2> QED BY <1>1, <1>3, <2>1
<1>9. Here \subseteq Special /\ ".." \notin Here /\ ".." \in Special
  BY UpIsSpecial DEF Special
<1>10. ASSUME p \in Here PROVE Staying(r) = Staying(q)
  <2>1. Gain(p) = 0 /\ n + 1 \notin Staying(r)
    BY <1>8, <1>9, <1>10 DEF Gain
  <2>2. \A i \in 1..n : i \in Staying(r) <=> i \in Staying(q)
    BY <1>5, <1>6, <1>7, <2>1
  <2>3. Staying(r) \subseteq 1..n
    BY <1>1, <1>3, <2>1
  <2> QED BY <1>2, <2>2, <2>3
<1>11. ASSUME p \notin Special PROVE Staying(r) = Staying(q) \cup {n + 1}
  <2>1. Gain(p) = 1 /\ n + 1 \in Staying(r)
    BY <1>8, <1>11 DEF Gain
  <2>2. \A i \in 1..n : i \in Staying(r) <=> i \in Staying(q)
    BY <1>5, <1>6, <1>7, <2>1
  <2> QED BY <1>1, <1>2, <1>3, <2>1, <2>2
<1>12. ASSUME p = ".."
       PROVE  Staying(r) = {i \in Staying(q) : Excess(q, i + 1, n) > 0}
  <2>1. Gain(p) = -1 /\ n + 1 \notin Staying(r)
    BY <1>8, <1>9, <1>12 DEF Gain
  <2>2. \A i \in 1..n : i \in Staying(r) <=> i \in Staying(q) /\ Excess(q, i + 1, n) > 0
    BY <1>5, <1>6, <1>7, <2>1
  <2>3. Staying(r) \subseteq 1..n
    BY <1>1, <1>3, <2>1
  <2>4. \A i : i \in Staying(r) <=> i \in Staying(q) /\ Excess(q, i + 1, n) > 0
    BY <1>2, <2>2, <2>3
  <2> QED BY <2>4
<1> QED BY <1>10, <1>11, <1>12 DEF r, n

(* A name that stays is the last one to stay when the steps up behind it make *)
(* up for the names.                                                          *)
LEMMA LastStaying ==
    ASSUME NEW P, NEW q \in Seq(P), NEW i \in Staying(q)
    PROVE  Excess(q, i + 1, Len(q)) > 0 <=> \E k \in Staying(q) : i < k
<1> DEFINE n == Len(q)
<1>1. /\ n \in Nat /\ Staying(q) \in SUBSET (1..n)
      /\ \A k \in 1..n :
            k \in Staying(q) <=> /\ q[k] \notin Special
                                 /\ \A j \in k + 1 .. n : Excess(q, k + 1, j) >= 0
  BY StayingIs
<1>2. i \in Nat /\ i \in 1..n
  BY <1>1
<1> HIDE DEF n
<1>3. \A k \in Nat : Excess(q, i + 1, k) \in Int
  BY <1>2, CountsAre
<1>4. Excess(q, i + 1, i) = 0
  <2>1. i < i + 1 /\ i + 1 \in Nat
    BY <1>2
  <2> QED BY <1>2, <2>1, CountsAre
<1>5. ASSUME NEW k \in Staying(q), i < k PROVE Excess(q, i + 1, n) > 0
  <2>1. PICK m \in Nat : m + 1 = k
    <3>1. k - 1 \in Nat /\ (k - 1) + 1 = k
      BY <1>1
    <3> QED BY <3>1
  <2>2. Excess(q, i + 1, m) >= 0
    <3>1. CASE m = i
      BY <1>4, <3>1
    <3>2. CASE m # i
      BY <1>1, <1>2, <1>5, <2>1, <3>2
    <3> QED BY <3>1, <3>2
  <2>3. Excess(q, i + 1, k) = Excess(q, i + 1, m) + 1
    <3>1. Excess(q, i + 1, m + 1) = Excess(q, i + 1, m) + Gain(q[m + 1])
      BY <1>2, <1>5, <2>1, ExcessNext
    <3>2. Gain(q[k]) = 1
      BY <1>1 DEF Gain
    <3> QED BY <2>1, <3>1, <3>2
  <2>4. Excess(q, i + 1, n) = Excess(q, i + 1, k) + Excess(q, k + 1, n)
    BY <1>1, <1>2, <1>5, ExcessSplit
  <2>5. Excess(q, k + 1, n) >= 0 /\ Excess(q, k + 1, n) \in Int
    <3>1. k \in Nat /\ k + 1 \in Nat /\ k <= n
      BY <1>1
    <3>2. CASE k = n
      BY <1>1, <3>1, <3>2, CountsAre
    <3>3. CASE k # n
      BY <1>1, <3>1, <3>3, CountsAre
    <3> QED BY <3>2, <3>3
  <2> QED BY <1>3, <2>1, <2>2, <2>3, <2>4, <2>5
<1>6. ASSUME Excess(q, i + 1, n) > 0 PROVE \E k \in Staying(q) : i < k
  <2> DEFINE T == {j \in i..n : Excess(q, i + 1, j) <= 0}
  <2>1. PICK m \in T : \A j \in T : j <= m
    <3>1. i \in T /\ T \in SUBSET (1..n)
      BY <1>2, <1>4
    <3> HIDE DEF T
    <3> QED BY <1>1, <3>1, GreatestOf
  <2>2. m \in Nat /\ i <= m /\ m <= n /\ Excess(q, i + 1, m) <= 0
    BY <1>2
  <2>3. m # n
    BY <1>3, <1>6, <2>2
  <2>4. m + 1 \in 1..n /\ i < m + 1
    BY <1>1, <1>2, <2>2, <2>3
  <2>5. \A j \in m + 1 .. n : Excess(q, i + 1, j) > 0
    <3> SUFFICES ASSUME NEW j \in m + 1 .. n PROVE Excess(q, i + 1, j) > 0
      OBVIOUS
    <3>1. j \in Nat /\ j \in i..n /\ ~(j <= m)
      BY <1>2, <2>2
    <3>2. j \notin T
      <4> HIDE DEF T
      <4> QED BY <2>1, <3>1
    <3> QED BY <1>3, <3>1, <3>2
  <2>6. Excess(q, i + 1, m + 1) = Excess(q, i + 1, m) + Gain(q[m + 1])
    BY <1>2, <2>2, ExcessNext
  <2>7. /\ Excess(q, i + 1, m + 1) > 0 /\ Excess(q, i + 1, m + 1) \in Int
        /\ Excess(q, i + 1, m) \in Int
    BY <1>3, <2>2, <2>4, <2>5
  <2>8. q[m + 1] \notin Special /\ Excess(q, i + 1, m + 1) = 1
    BY <2>2, <2>6, <2>7 DEF Gain
  <2>9. \A j \in (m + 1) + 1 .. n : Excess(q, (m + 1) + 1, j) >= 0
    <3> SUFFICES ASSUME NEW j \in (m + 1) + 1 .. n PROVE Excess(q, (m + 1) + 1, j) >= 0
      OBVIOUS
    <3>1. j \in Nat /\ j \in m + 1 .. n /\ m + 1 \in Nat /\ m + 1 <= j /\ i + 1 <= (m + 1) + 1
      BY <1>2, <2>2
    <3>2. Excess(q, i + 1, j) = Excess(q, i + 1, m + 1) + Excess(q, (m + 1) + 1, j)
      <4>1. i + 1 \in Nat
        BY <1>2
      <4> QED BY <3>1, <4>1, ExcessSplit
    <3>3. Excess(q, (m + 1) + 1, j) \in Int /\ Excess(q, i + 1, j) \in Int
      BY <1>3, <3>1, CountsAre
    <3> QED BY <2>5, <2>8, <3>1, <3>2, <3>3
  <2>10. m + 1 \in Staying(q)
    BY <1>1, <2>4, <2>8, <2>9
  <2> QED BY <2>4, <2>10
<1> QED BY <1>5, <1>6 DEF n
-----------------------------------------------------------------------------
(* A ".." is appended: the last name that stays goes, if there is one.       *)
LEMMA StayingUp ==
    ASSUME NEW P, NEW q \in Seq(P), ".." \in P
    PROVE  \/ Staying(q) = {} /\ Staying(Append(q, "..")) = {}
           \/ \E m \in Staying(q) :
                 /\ Staying(q) = Staying(Append(q, "..")) \cup {m}
                 /\ \A i \in Staying(Append(q, "..")) : i < m
<1> DEFINE S == Staying(q)
           U == Staying(Append(q, ".."))
<1>1. S \in SUBSET (1..Len(q)) /\ Len(q) \in Nat
  BY StayingIs
<1>2. U = {i \in S : Excess(q, i + 1, Len(q)) > 0}
  BY StayingNext
<1>3. \A i \in S : Excess(q, i + 1, Len(q)) > 0 <=> \E k \in S : i < k
  BY LastStaying
<1> HIDE DEF S, U
<1>4. U = {i \in S : \E k \in S : i < k}
  BY <1>2, <1>3
<1>5. CASE S = {}
  BY <1>4, <1>5 DEF S, U
<1>6. CASE S # {}
  <2>1. PICK m \in S : \A k \in S : k <= m
    BY <1>1, <1>6, GreatestOf
  <2>2. \A i : i \in S => i \in Nat
    BY <1>1
  <2>3. S = U \cup {m} /\ \A i \in U : i < m
    BY <1>4, <2>1, <2>2
  <2> QED BY <2>3 DEF S, U
<1> QED BY <1>5, <1>6

(* The canonical directory, name by name. *)
LEMMA CanonicalIs ==
    ASSUME NEW P, NEW q \in Seq(P)
    PROVE  /\ Canonical(q) \in Seq(P)
           /\ Len(Canonical(q)) = Cardinality(Staying(q)) /\ Cardinality(Staying(q)) \in Nat
           /\ \A k \in 1..Cardinality(Staying(q)) :
                 /\ Place(Staying(q), k) \in Staying(q)
                 /\ Place(Staying(q), k) \in 1..Len(q)
                 /\ Canonical(q)[k] = q[Place(Staying(q), k)]
                 /\ Canonical(q)[k] \notin Special
<1>1. /\ Staying(q) \in SUBSET (1..Len(q)) /\ Len(q) \in Nat
      /\ \A i \in Staying(q) : q[i] \notin Special
  BY StayingIs
<1>2. Cardinality(Staying(q)) \in Nat
  BY <1>1, PositionsUpTo
<1>3. \A k \in 1..Cardinality(Staying(q)) : Place(Staying(q), k) \in Staying(q)
  BY <1>1, PlaceIs
<1>4. \A k \in 1..Cardinality(Staying(q)) : q[Place(Staying(q), k)] \in P
  BY <1>1, <1>3
<1>5. PICK c \in Nat : c = Cardinality(Staying(q))
  BY <1>2
<1>6. Canonical(q) = [k \in 1..c |-> q[Place(Staying(q), k)]]
  BY <1>5 DEF Canonical
<1>7. Canonical(q) \in Seq(P) /\ Len(Canonical(q)) = c
  BY <1>4, <1>5, <1>6
<1> QED BY <1>1, <1>2, <1>3, <1>5, <1>6, <1>7

(* One turn of the loop, case by case. *)
LEMMA CleanPartIs ==
    ASSUME NEW clean, NEW p
    PROVE  /\ p \in Here => CleanFTPPart(clean, p) = clean
           /\ p \notin Special => CleanFTPPart(clean, p) = Append(clean, p)
           /\ CleanFTPPart(clean, "..") = IF clean = <<>> THEN <<>> ELSE Front(clean)
<1>1. Special = Here \cup {".."} /\ ".." \notin Here
  BY UpIsSpecial DEF Special
<1>2. CASE p \in Here
  BY <1>1, <1>2 DEF CleanFTPPart
<1>3. CASE p \notin Here
  BY <1>1, <1>3 DEF CleanFTPPart
<1> QED BY <1>2, <1>3

(* The canonical directory of one part more is one turn of the loop on. *)
LEMMA CanonicalNext ==
    ASSUME NEW P, NEW q \in Seq(P), NEW p \in P
    PROVE  Canonical(Append(q, p)) = CleanFTPPart(Canonical(q), p)
<1> DEFINE r == Append(q, p)
           S == Staying(q)
           U == Staying(r)
<1>1. /\ r \in Seq(P) /\ Len(r) = Len(q) + 1 /\ r[Len(q) + 1] = p /\ Len(q) \in Nat
      /\ \A i \in 1..Len(q) : r[i] = q[i]
  BY AppendProperties
<1> HIDE DEF r
<1>2. /\ S \in SUBSET (1..Len(q)) /\ Cardinality(S) \in Nat
      /\ Canonical(q) \in Seq(P) /\ Len(Canonical(q)) = Cardinality(S)
      /\ \A k \in 1..Cardinality(S) : /\ Place(S, k) \in 1..Len(q)
                                      /\ Canonical(q)[k] = q[Place(S, k)]
  BY StayingIs, CanonicalIs
<1>3. /\ U \in SUBSET (1..(Len(q) + 1)) /\ Cardinality(U) \in Nat
      /\ Canonical(r) \in Seq(P) /\ Len(Canonical(r)) = Cardinality(U)
      /\ \A k \in 1..Cardinality(U) : Canonical(r)[k] = r[Place(U, k)]
  BY <1>1, StayingIs, CanonicalIs
<1>4. /\ p \in Here => U = S
      /\ p \notin Special => U = S \cup {Len(q) + 1}
  BY StayingNext DEF r
<1>5. p = ".." => \/ S = {} /\ U = {}
                  \/ \E m \in S : S = U \cup {m} /\ \A i \in U : i < m
  BY StayingUp DEF r
<1>6. CASE p \in Here
  <2>1. U = S
    BY <1>4, <1>6
  <2> HIDE DEF U, S
  <2>2. \A k \in 1..Len(Canonical(q)) : Canonical(r)[k] = Canonical(q)[k]
    BY <1>1, <1>2, <1>3, <2>1
  <2>3. Canonical(r) = Canonical(q)
    BY <1>2, <1>3, <2>1, <2>2, SeqEqual
  <2> QED BY <1>6, <2>3, CleanPartIs DEF r
<1>7. CASE p \notin Special
  <2>1. U = S \cup {Len(q) + 1}
    BY <1>4, <1>7
  <2> HIDE DEF U, S
  <2>2. /\ Cardinality(U) = Cardinality(S) + 1
        /\ Place(U, Cardinality(S) + 1) = Len(q) + 1
        /\ \A k \in 1..Cardinality(S) : Place(U, k) = Place(S, k)
    <3>1. PICK x \in Nat : x = Len(q) + 1 /\ Len(q) < x
      BY <1>1
    <3>2. TakesLast(S, x)
      BY <1>1, <1>2, <3>1, PlaceBehind
    <3> QED BY <2>1, <3>1, <3>2 DEF TakesLast
  <2> DEFINE t == Append(Canonical(q), p)
  <2>3. /\ t \in Seq(P) /\ Len(t) = Cardinality(S) + 1 /\ t[Cardinality(S) + 1] = p
        /\ \A k \in 1..Cardinality(S) : t[k] = Canonical(q)[k]
    BY <1>2, AppendProperties
  <2> HIDE DEF t
  <2>4. ASSUME NEW k \in 1..(Cardinality(S) + 1) PROVE Canonical(r)[k] = t[k]
    <3>1. CASE k = Cardinality(S) + 1
      BY <1>1, <1>2, <1>3, <2>2, <2>3, <3>1
    <3>2. CASE k # Cardinality(S) + 1
      <4>1. k \in 1..Cardinality(S)
        BY <1>2, <3>2
      <4> QED BY <1>1, <1>2, <1>3, <2>2, <2>3, <4>1
    <3> QED BY <3>1, <3>2
  <2>5. Canonical(r) = t
    BY <1>3, <2>2, <2>3, <2>4, SeqEqual
  <2> QED BY <1>7, <2>5, CleanPartIs DEF r, t
<1>8. CASE p = ".."
  <2>1. CASE S = {} /\ U = {}
    <3>1. Cardinality(S) = 0 /\ Cardinality(U) = 0
      BY <2>1, FS_EmptySet
    <3> HIDE DEF U, S
    <3>2. Canonical(r) = <<>> /\ Canonical(q) = <<>>
      BY <1>2, <1>3, <3>1, EmptySeq
    <3> QED BY <1>8, <3>2, CleanPartIs DEF r
  <2>2. ASSUME NEW m \in S, S = U \cup {m}, \A i \in U : i < m
        PROVE  Canonical(r) = CleanFTPPart(Canonical(q), p)
    <3> HIDE DEF U, S
    <3>1. PICK n \in Nat : n + 1 = m
      <4>1. m - 1 \in Nat /\ (m - 1) + 1 = m
        BY <1>2
      <4> QED BY <4>1
    <3>2. /\ Cardinality(S) = Cardinality(U) + 1
          /\ \A k \in 1..Cardinality(U) : Place(S, k) = Place(U, k)
      <4>1. U \in SUBSET (1..n) /\ m \in Nat /\ n < m
        BY <1>3, <2>2, <3>1
      <4>2. TakesLast(U, m)
        BY <4>1, PlaceBehind
      <4> QED BY <2>2, <4>2 DEF TakesLast
    <3>3. /\ Canonical(q) # <<>> /\ Front(Canonical(q)) \in Seq(P)
          /\ Len(Front(Canonical(q))) = Cardinality(U)
          /\ \A k \in 1..Cardinality(U) : Front(Canonical(q))[k] = Canonical(q)[k]
      BY <1>2, <1>3, <3>2 DEF Front
    <3>4. ASSUME NEW k \in 1..Cardinality(U) PROVE Canonical(r)[k] = Front(Canonical(q))[k]
      <4>1. k \in 1..Cardinality(S)
        BY <1>3, <3>2
      <4> QED BY <1>1, <1>2, <1>3, <3>2, <3>3, <4>1
    <3>5. Canonical(r) = Front(Canonical(q))
      BY <1>3, <3>3, <3>4, SeqEqual
    <3> QED BY <1>8, <3>3, <3>5, CleanPartIs DEF r
  <2> QED BY <1>5, <1>8, <2>1, <2>2 DEF r
<1>9. p \in Special => p \in Here \/ p = ".."
  BY DEF Special
<1> QED BY <1>6, <1>7, <1>8, <1>9 DEF r
-----------------------------------------------------------------------------
(* cleanFTPPath's loop: what it has after each part. *)
IsClean(f, q) ==
    f = [k \in 0..Len(q) |-> IF k = 0 THEN <<>> ELSE CleanFTPPart(f[k - 1], q[k])]

CleanOf(q) == CHOOSE f : IsClean(f, q)

LEMMA CleanIsLast == \A q : cleanFTPPath(q) = CleanOf(q)[Len(q)]
BY DEF cleanFTPPath, CleanOf, IsClean

(* The part behind a prefix is appended. *)
LEMMA PrefixNext ==
    ASSUME NEW P, NEW q \in Seq(P), NEW k \in Nat, k < Len(q)
    PROVE  /\ SubSeq(q, 1, k) \in Seq(P) /\ q[k + 1] \in P
           /\ SubSeq(q, 1, k + 1) = Append(SubSeq(q, 1, k), q[k + 1])
<1>1. Len(q) \in Nat /\ \A i \in 1..Len(q) : q[i] \in P
  OBVIOUS
<1>2. /\ SubSeq(q, 1, k) \in Seq(P) /\ Len(SubSeq(q, 1, k)) = k
      /\ \A i \in 1..k : SubSeq(q, 1, k)[i] = q[i]
  BY <1>1
<1>3. /\ SubSeq(q, 1, k + 1) \in Seq(P) /\ Len(SubSeq(q, 1, k + 1)) = k + 1
      /\ \A i \in 1..(k + 1) : SubSeq(q, 1, k + 1)[i] = q[i]
  BY <1>1
<1>4. q[k + 1] \in P
  BY <1>1
<1> DEFINE t == Append(SubSeq(q, 1, k), q[k + 1])
<1>5. /\ t \in Seq(P) /\ Len(t) = k + 1 /\ t[k + 1] = q[k + 1]
      /\ \A i \in 1..k : t[i] = q[i]
  BY <1>2, <1>4, AppendProperties
<1> HIDE DEF t
<1>6. \A i \in 1..(k + 1) : t[i] = SubSeq(q, 1, k + 1)[i]
  BY <1>3, <1>5
<1>7. SubSeq(q, 1, k + 1) = t
  BY <1>3, <1>5, <1>6, SeqEqual
<1> QED BY <1>2, <1>4, <1>7 DEF t

(* Of no parts, the root. *)
LEMMA CanonicalEmpty == Canonical(<<>>) = <<>>
<1> DEFINE P == {}
<1>1. <<>> \in Seq(P) /\ Len(<<>>) = 0
  BY EmptySeq
<1>2. Staying(<<>>) = {}
  <2>1. PICK e \in Seq(P) : e = <<>> /\ Len(e) = 0
    BY <1>1
  <2>2. Staying(e) \in SUBSET (1..Len(e))
    BY StayingIs
  <2>3. 1..0 = {}
    OBVIOUS
  <2>4. Staying(e) \in SUBSET (1..0)
    BY <2>1, <2>2
  <2> QED BY <2>1, <2>3, <2>4
<1>3. Cardinality(Staying(<<>>)) = 0
  BY <1>2, FS_EmptySet
<1>4. Canonical(<<>>) \in Seq(P) /\ Len(Canonical(<<>>)) = 0
  BY <1>1, <1>3, CanonicalIs
<1> QED BY <1>4, EmptySeq

(* The loop of cleanFTPPath has the canonical directory of the parts it has   *)
(* seen, and in the end that of the whole path, for any path of any parts.    *)
THEOREM CleanIs ==
    ASSUME NEW P, NEW q \in Seq(P)
    PROVE  cleanFTPPath(q) = Canonical(q)
<1> DEFINE n == Len(q)
           g == [k \in 0..n |-> Canonical(SubSeq(q, 1, k))]
<1>0. n \in Nat
  OBVIOUS
<1>1. \A k \in 1..n : Canonical(SubSeq(q, 1, k)) =
                          CleanFTPPart(Canonical(SubSeq(q, 1, k - 1)), q[k])
  <2> SUFFICES ASSUME NEW k \in 1..n
               PROVE  Canonical(SubSeq(q, 1, k)) =
                          CleanFTPPart(Canonical(SubSeq(q, 1, k - 1)), q[k])
    OBVIOUS
  <2>1. PICK m \in Nat : m + 1 = k /\ m = k - 1 /\ m < Len(q)
    <3>1. k - 1 \in Nat /\ (k - 1) + 1 = k /\ k - 1 < n
      BY <1>0
    <3> QED BY <3>1
  <2>2. /\ SubSeq(q, 1, m) \in Seq(P) /\ q[m + 1] \in P
        /\ SubSeq(q, 1, m + 1) = Append(SubSeq(q, 1, m), q[m + 1])
    BY <2>1, PrefixNext
  <2>3. Canonical(SubSeq(q, 1, m + 1)) = CleanFTPPart(Canonical(SubSeq(q, 1, m)), q[m + 1])
    BY <2>2, CanonicalNext
  <2> QED BY <2>1, <2>3
<1>2. Canonical(SubSeq(q, 1, 0)) = <<>>
  <2>1. SubSeq(q, 1, 0) = <<>>
    BY SubSeqEmpty
  <2> QED BY <2>1, CanonicalEmpty
<1>3. IsClean(g, q)
  <2>1. \A k \in 0..n : g[k] = IF k = 0 THEN <<>> ELSE CleanFTPPart(g[k - 1], q[k])
    <3> SUFFICES ASSUME NEW k \in 0..n
                 PROVE  g[k] = IF k = 0 THEN <<>> ELSE CleanFTPPart(g[k - 1], q[k])
      OBVIOUS
    <3>1. CASE k = 0
      BY <1>0, <1>2, <3>1
    <3>2. CASE k # 0
      <4>1. k \in 1..n /\ k - 1 \in 0..n
        BY <1>0, <3>2
      <4>2. g[k - 1] = Canonical(SubSeq(q, 1, k - 1)) /\ g[k] = Canonical(SubSeq(q, 1, k))
        BY <4>1
      <4>3. Canonical(SubSeq(q, 1, k)) = CleanFTPPart(Canonical(SubSeq(q, 1, k - 1)), q[k])
        BY <1>1, <4>1
      <4> QED BY <3>2, <4>2, <4>3
    <3> QED BY <3>1, <3>2
  <2>2. g = [k \in 0..n |-> g[k]]
    OBVIOUS
  <2> HIDE DEF g
  <2> QED BY <2>1, <2>2 DEF IsClean
<1>4. IsClean(CleanOf(q), q)
  BY <1>3 DEF CleanOf
<1> DEFINE f == CleanOf(q)
<1> HIDE DEF f
<1>5. \A k \in 0..n : f[k] = IF k = 0 THEN <<>> ELSE CleanFTPPart(f[k - 1], q[k])
  <2>1. f = [k \in 0..n |-> IF k = 0 THEN <<>> ELSE CleanFTPPart(f[k - 1], q[k])]
    BY <1>4 DEF IsClean, f
  <2> QED BY <2>1
<1>6. \A k \in 0..n : f[k] = Canonical(SubSeq(q, 1, k))
  <2> DEFINE T == {k \in 0..n : f[k] # Canonical(SubSeq(q, 1, k))}
  <2>1. ASSUME T # {} PROVE FALSE
    <3>1. PICK k \in T : \A j \in T : k <= j
      <4>1. T \in SUBSET Nat
        OBVIOUS
      <4> HIDE DEF T
      <4> QED BY <2>1, <4>1, LeastOf
    <3>2. k # 0
      BY <1>0, <1>2, <1>5
    <3>3. k \in 1..n /\ k - 1 \in 0..n /\ ~(k <= k - 1)
      BY <1>0, <3>2
    <3>4. k - 1 \notin T
      <4> HIDE DEF T
      <4> QED BY <3>1, <3>3
    <3>5. f[k - 1] = Canonical(SubSeq(q, 1, k - 1))
      BY <3>3, <3>4
    <3>6. f[k] = CleanFTPPart(f[k - 1], q[k])
      BY <1>5, <3>2, <3>3
    <3>7. f[k] = Canonical(SubSeq(q, 1, k))
      BY <1>1, <3>3, <3>5, <3>6
    <3> QED BY <3>7
  <2> QED BY <2>1
<1>7. SubSeq(q, 1, n) = q
  BY SubSeqFull
<1>8. f[n] = Canonical(q)
  <2>1. n \in 0..n
    BY <1>0
  <2>2. f[n] = Canonical(SubSeq(q, 1, n))
    BY <1>6, <2>1
  <2> QED BY <1>7, <2>2
<1> QED BY <1>8, CleanIsLast DEF f

(* A directory is a canonical path. *)
LEMMA CanonicalOfNames ==
    ASSUME NEW P, NEW q \in Seq(P), \A i \in 1..Len(q) : q[i] \notin Special
    PROVE  Canonical(q) = q
<1> DEFINE S == Staying(q)
<1>0. Len(q) \in Nat
  OBVIOUS
<1>1. ASSUME NEW i \in 1..Len(q), NEW j \in i + 1 .. Len(q) PROVE Excess(q, i + 1, j) >= 0
  <2>1. UpsIn(q, i + 1, j) = {}
    BY <1>0, UpIsSpecial DEF UpsIn
  <2>2. Cardinality(UpsIn(q, i + 1, j)) = 0
    BY <2>1, FS_EmptySet
  <2>3. Cardinality(NamesIn(q, i + 1, j)) \in Nat
    BY CountsAre
  <2> QED BY <2>2, <2>3 DEF Excess
<1>2. S = 1..Len(q)
  BY <1>1, StayingIs
<1>3. /\ Canonical(q) \in Seq(P) /\ Len(Canonical(q)) = Cardinality(S)
      /\ \A k \in 1..Cardinality(S) : Canonical(q)[k] = q[Place(S, k)]
  BY CanonicalIs
<1> HIDE DEF S
<1>4. Cardinality(S) = Len(q)
  <2>1. PICK n \in Nat : n = Len(q)
    BY <1>0
  <2>2. Cardinality(1..n) = n
    <3>1. 1 \in Int /\ n \in Int
      OBVIOUS
    <3>2. Cardinality(1..n) = IF 1 > n THEN 0 ELSE n - 1 + 1
      BY <3>1, FS_Interval
    <3> QED BY <3>2
  <2> QED BY <1>2, <2>1, <2>2
<1>5. ASSUME NEW k \in 1..Len(q) PROVE Place(S, k) = k
  <2>1. S \cap 1..k = 1..k /\ k \in S /\ S \in SUBSET (1..Len(q)) /\ k \in Nat
    BY <1>2
  <2>2. Cardinality(1..k) = k
    BY <2>1, FS_Interval
  <2> QED BY <1>0, <2>1, <2>2, PlaceUnique
<1> QED BY <1>3, <1>4, <1>5, SeqEqual

LEMMA ConcatAppend ==
    ASSUME NEW P, NEW c \in Seq(P), NEW s \in Seq(P), NEW p \in P
    PROVE  c \o Append(s, p) = Append(c \o s, p) /\ c \o s \in Seq(P)
OBVIOUS

(* What is taken next does not depend on how the directory was reached. *)
LEMMA CanonicalJoin ==
    ASSUME NEW P, NEW w \in Seq(P), NEW c \in Seq(P), Canonical(c) = Canonical(w),
           NEW t \in Seq(P)
    PROVE  Canonical(c \o t) = Canonical(w \o t)
<1> DEFINE n == Len(t)
           T == {k \in 0..n : Canonical(c \o SubSeq(t, 1, k)) # Canonical(w \o SubSeq(t, 1, k))}
<1>0. n \in Nat
  OBVIOUS
<1>1. ASSUME T # {} PROVE FALSE
  <2>1. PICK k \in T : \A j \in T : k <= j
    <3>1. T \in SUBSET Nat
      OBVIOUS
    <3> HIDE DEF T
    <3> QED BY <1>1, <3>1, LeastOf
  <2>2. k # 0
    <3>1. SubSeq(t, 1, 0) = <<>>
      BY SubSeqEmpty
    <3>2. c \o <<>> = c /\ w \o <<>> = w
      BY ConcatEmptySeq
    <3> QED BY <3>1, <3>2
  <2>3. PICK m \in Nat : m + 1 = k /\ m < Len(t)
    <3>1. k - 1 \in Nat /\ (k - 1) + 1 = k /\ k - 1 < n
      BY <1>0, <2>2
    <3> QED BY <3>1
  <2>4. Canonical(c \o SubSeq(t, 1, m)) = Canonical(w \o SubSeq(t, 1, m))
    <3>1. ~(k <= m) /\ m \in 0..n
      BY <1>0, <2>3
    <3>2. m \notin T
      <4> HIDE DEF T
      <4> QED BY <2>1, <3>1
    <3> QED BY <3>1, <3>2
  <2> DEFINE s == SubSeq(t, 1, m)
             p == t[m + 1]
  <2>5. s \in Seq(P) /\ p \in P /\ SubSeq(t, 1, k) = Append(s, p)
    BY <2>3, PrefixNext
  <2> HIDE DEF s, p
  <2>6. /\ c \o Append(s, p) = Append(c \o s, p) /\ c \o s \in Seq(P)
        /\ w \o Append(s, p) = Append(w \o s, p) /\ w \o s \in Seq(P)
    BY <2>5, ConcatAppend
  <2>7. Canonical(c \o Append(s, p)) = CleanFTPPart(Canonical(c \o s), p)
    BY <2>5, <2>6, CanonicalNext
  <2>8. Canonical(w \o Append(s, p)) = CleanFTPPart(Canonical(w \o s), p)
    BY <2>5, <2>6, CanonicalNext
  <2>9. Canonical(c \o SubSeq(t, 1, k)) = Canonical(w \o SubSeq(t, 1, k))
    BY <2>4, <2>5, <2>7, <2>8 DEF s
  <2> QED BY <2>9
<1>2. Canonical(c \o SubSeq(t, 1, n)) = Canonical(w \o SubSeq(t, 1, n))
  BY <1>0, <1>1
<1> QED BY <1>2, SubSeqFull

(* A path is resolved in the directory that the parts w lead to. *)
LEMMA ResolvedIn ==
    ASSUME NEW P, NEW w \in Seq(P), NEW t \in Seq(P)
    PROVE  cleanFTPPath(Canonical(w) \o t) = Canonical(w \o t)
<1>1. Canonical(w) \in Seq(P) /\ \A i \in 1..Len(Canonical(w)) : Canonical(w)[i] \notin Special
  BY CanonicalIs
<1>2. Canonical(Canonical(w)) = Canonical(w)
  BY <1>1, CanonicalOfNames
<1>3. Canonical(Canonical(w) \o t) = Canonical(w \o t)
  BY <1>1, <1>2, CanonicalJoin
<1>4. Canonical(w) \o t \in Seq(P)
  BY <1>1, ConcatProperties
<1> QED BY <1>3, <1>4, CleanIs
-----------------------------------------------------------------------------
(* Told, of any log. *)
UsesOf(l) == {n \in DOMAIN l : l[n].cmd \in Passive}
LastUse(l) == CHOOSE n \in UsesOf(l) : \A k \in UsesOf(l) : k <= n
ToldOf(l) == IF UsesOf(l) = {} THEN {}
             ELSE IF l[LastUse(l)].codes = <<227>> THEN {LastUse(l)} ELSE {}

(* The last use of a log is its last use. *)
LEMMA LastUseIs ==
    ASSUME NEW l \in Seq(Entries), UsesOf(l) # {}
    PROVE  LastUse(l) \in UsesOf(l) /\ \A k \in UsesOf(l) : k <= LastUse(l)
<1>1. UsesOf(l) \in SUBSET (1..Len(l)) /\ Len(l) \in Nat
  BY DEF UsesOf
<1>2. \E x \in UsesOf(l) : \A y \in UsesOf(l) : y <= x
  BY <1>1, GreatestOf
<1> QED BY <1>2 DEF LastUse

(* A log whose last command is a use. *)
LEMMA ToldOfLast ==
    ASSUME NEW l \in Seq(Entries), l # <<>>, l[Len(l)].cmd \in Passive
    PROVE  ToldOf(l) = IF l[Len(l)].codes = <<227>> THEN {Len(l)} ELSE {}
<1>1. Len(l) \in UsesOf(l) /\ UsesOf(l) \subseteq 1..Len(l) /\ Len(l) \in Nat
  BY DEF UsesOf
<1>2. LastUse(l) = Len(l)
  <2>1. LastUse(l) \in UsesOf(l) /\ Len(l) <= LastUse(l)
    BY <1>1, LastUseIs
  <2> QED BY <1>1, <2>1
<1> QED BY <1>1, <1>2 DEF ToldOf

(* Two logs with the same uses. *)
LEMMA ToldOfSame ==
    ASSUME NEW l \in Seq(Entries), NEW m \in Seq(Entries), UsesOf(l) = UsesOf(m),
           \A n \in UsesOf(l) : l[n].codes = m[n].codes
    PROVE  ToldOf(l) = ToldOf(m)
<1>1. LastUse(l) = LastUse(m)
  BY DEF LastUse
<1>2. CASE UsesOf(l) # {}
  <2>1. LastUse(l) \in UsesOf(l)
    BY <1>2, LastUseIs
  <2> QED BY <1>1, <1>2, <2>1 DEF ToldOf
<1>3. CASE UsesOf(l) = {}
  BY <1>3 DEF ToldOf
<1> QED BY <1>2, <1>3

(* Told is that of the connection's log. *)
LEMMA ToldIs == Told = ToldOf(log) /\ Told' = ToldOf(log')
BY DEF Told, ToldOf, LastUse, UsesOf
-----------------------------------------------------------------------------
(* A command is logged. *)
LEMMA Appended ==
    ASSUME LogOK, NEW e \in Entries, log' = Append(log, e)
    PROVE  /\ LogOK' /\ Len(log) \in Nat /\ Len(log') = Len(log) + 1 /\ log' # <<>>
           /\ DOMAIN log = 1..Len(log) /\ DOMAIN log' = 1..(Len(log) + 1)
           /\ log'[Len(log')] = e /\ log'[Len(log) + 1] = e
           /\ \A n \in 1..Len(log) : log'[n] = log[n] /\ log[n] \in Entries
           /\ e.cmd \notin Passive => Told' = Told
           /\ e.cmd \in Passive => Told' = IF e.codes = <<227>> THEN {Len(log')} ELSE {}
<1>1. /\ LogOK' /\ Len(log) \in Nat /\ Len(log') = Len(log) + 1 /\ log' # <<>>
      /\ DOMAIN log = 1..Len(log) /\ DOMAIN log' = 1..(Len(log) + 1)
      /\ log'[Len(log')] = e /\ log'[Len(log) + 1] = e
      /\ \A n \in 1..Len(log) : log'[n] = log[n] /\ log[n] \in Entries
  BY DEF LogOK
<1>2. ASSUME e.cmd \notin Passive PROVE Told' = Told
  <2>1. UsesOf(log') = UsesOf(log)
    BY <1>1, <1>2 DEF UsesOf
  <2>2. \A n \in UsesOf(log) : log[n].codes = log'[n].codes
    BY <1>1 DEF UsesOf
  <2> QED BY <1>1, <2>1, <2>2, ToldOfSame, ToldIs DEF LogOK
<1>3. ASSUME e.cmd \in Passive PROVE Told' = IF e.codes = <<227>> THEN {Len(log')} ELSE {}
  BY <1>1, <1>3, ToldOfLast, ToldIs DEF LogOK
<1> QED BY <1>1, <1>2, <1>3

(* The entry of the last command is replaced, and stays that of a command. *)
LEMMA Rewritten ==
    ASSUME LogOK, log # <<>>, NEW e \in Entries, log' = [log EXCEPT ![Len(log)] = e]
    PROVE  /\ LogOK' /\ Len(log) \in Nat \ {0} /\ Len(log') = Len(log) /\ log' # <<>>
           /\ DOMAIN log = 1..Len(log) /\ DOMAIN log' = 1..Len(log)
           /\ log'[Len(log)] = e /\ log[Len(log)] \in Entries
           /\ \A n \in 1..Len(log) : n # Len(log) => log'[n] = log[n]
           /\ \A n \in 1..Len(log) : log[n] \in Entries
BY DEF LogOK
-----------------------------------------------------------------------------
(* The replies of the commands answered at once, none of them a 150. *)
LEMMA CodesFinal ==
    \A cmd \in PlainCommands : Codes[cmd] \in Nat \ {150} /\ cmd \in Commands \ Passive
BY DEF PlainCommands, Codes, Commands, Passive

(* A new entry is one of a log. *)
LEMMA EntryIs ==
    ASSUME NEW cmd \in Commands, NEW path \in EntryPaths, NEW code \in Nat
    PROVE  /\ Entry(cmd, path, <<code>>) \in Entries
           /\ Entry(cmd, path, <<code>>).cmd = cmd
           /\ Entry(cmd, path, <<code>>).codes = <<code>>
           /\ Entry(cmd, path, <<code>>).events = <<>>
BY DEF Entry, Entries

(* The earlier commands keep what they had: a command is read only when the *)
(* one before it has been published.                                        *)
LEMMA EarlierAnswered ==
    ASSUME FTPInv, Reading, NEW e \in Entries, log' = Append(log, e),
           NEW n \in 1..Len(log)
    PROVE  AnsweredOnce(n)'
<1>1. AnsweredOnce(n)
  BY DEF FTPInv, Answered, LogOK
<1>2. log'[n] = log[n] /\ n < Len(log') /\ n # Len(log')
  BY Appended DEF FTPInv
<1>3. handler = "reading"
  BY DEF Reading
<1> QED BY <1>1, <1>2, <1>3 DEF AnsweredOnce, Final, Last

(* A command is read and answered at once. *)
LEMMA AtOnce ==
    ASSUME FTPInv, Reading, NEW cmd \in Commands, NEW path \in EntryPaths,
           NEW code \in Nat \ {150}, Logged(cmd, path, <<code>>), handler' = "publish"
    PROVE  /\ LogOK' /\ Midway' /\ Answered'
           /\ Len(log) \in Nat /\ Len(log') = Len(log) + 1
           /\ cmd \notin Passive => Told' = Told
           /\ cmd \in Passive => Told' = IF code = 227 THEN {Len(log')} ELSE {}
<1>0. PICK e \in Entries : e.cmd = cmd /\ e.codes = <<code>> /\ log' = Append(log, e)
  BY EntryIs DEF Logged
<1>1. LogOK
  BY DEF FTPInv
<1>2. Midway'
  BY <1>0, <1>1, Appended DEF Midway
<1>3. Answered'
  <2> SUFFICES ASSUME NEW n \in 1..(Len(log) + 1) PROVE AnsweredOnce(n)'
    BY <1>0, <1>1, Appended DEF Answered
  <2>1. CASE n \in 1..Len(log)
    BY <1>0, <2>1, EarlierAnswered
  <2>2. CASE n = Len(log) + 1
    <3>1. log'[n] = e /\ n = Len(log')
      BY <1>0, <1>1, <2>2, Appended
    <3>2. e.codes[Len(e.codes)] = code /\ e.codes[1] = code /\ Len(e.codes) = 1
      BY <1>0
    <3> QED BY <3>1, <3>2 DEF AnsweredOnce, Final, Last
  <2> QED BY <1>0, <1>1, <2>1, <2>2, Appended
<1>4. e.codes = <<227>> <=> code = 227
  BY <1>0
<1> QED BY <1>0, <1>1, <1>2, <1>3, <1>4, Appended

(* ... and it is not one about data connections. *)
LEMMA AtOnceStep ==
    ASSUME FTPInv, Reading, NEW cmd \in Commands \ Passive, NEW path \in EntryPaths,
           NEW code \in Nat \ {150}, Logged(cmd, path, <<code>>), handler' = "publish",
           login' \in {"init", "user", "auth"},
           UNCHANGED <<ctx, ctrl, dataListen, listeners, peer, got, upload>>
    PROVE  FTPInv'
<1>1. /\ LogOK' /\ Midway' /\ Answered' /\ Told' = Told
      /\ Len(log) \in Nat /\ Len(log') = Len(log) + 1
  BY AtOnce
<1>2. handler = "reading"
  BY DEF Reading
<1>3. TypeOK'
  <2>1. dataListen' \in 0..Len(log') /\ listeners' \subseteq 1..Len(log')
    BY <1>1 DEF FTPInv, TypeOK
  <2> QED BY <1>2, <2>1 DEF FTPInv, TypeOK
<1>4. Known'
  BY DEF FTPInv, Known
<1>5. ListenersAsTold'
  BY <1>1, <1>2 DEF FTPInv, ListenersAsTold
<1> QED BY <1>1, <1>3, <1>4, <1>5 DEF FTPInv

(* openPASV: the listener in dataListen is the only one that can be open.   *)
LEMMA OpenPASVStep ==
    ASSUME FTPInv, openPASV
    PROVE  FTPInv'
<1>0. /\ handler = "reading" /\ Reading /\ handler' = "publish"
      /\ "PASV" \in Commands /\ "PASV" \in Passive /\ NoPath \in EntryPaths
      /\ UNCHANGED <<ctx, ctrl, login, cwd, got, upload>>
      /\ peer' = IF peer.at = "backlog" THEN NoPeer ELSE peer
  BY DEF openPASV, Reading, Commands, Passive, EntryPaths
<1>1. PICK code \in {227, 425} :
          /\ Logged("PASV", NoPath, <<code>>)
          /\ dataListen' = IF code = 227 THEN Len(log) + 1 ELSE dataListen
          /\ listeners' = IF code = 227 THEN (listeners \ {dataListen}) \cup {Len(log) + 1}
                          ELSE listeners \ {dataListen}
  BY DEF openPASV
<1>2. /\ LogOK' /\ Midway' /\ Answered'
      /\ Len(log) \in Nat /\ Len(log') = Len(log) + 1
      /\ Told' = IF code = 227 THEN {Len(log')} ELSE {}
  BY <1>0, <1>1, AtOnce
<1>3. listeners \ {dataListen} = {}
  BY DEF FTPInv, Known
<1>4. listeners' = IF code = 227 THEN {Len(log')} ELSE {}
  BY <1>1, <1>2, <1>3
<1>5. TypeOK'
  <2>0. dataListen \in 0..Len(log)
    BY DEF FTPInv, TypeOK
  <2>1. dataListen' \in 0..Len(log') /\ listeners' \subseteq 1..Len(log')
    <3>1. CASE code = 227
      BY <1>1, <1>2, <1>4, <3>1
    <3>2. CASE code # 227
      BY <1>1, <1>2, <1>4, <2>0, <3>2
    <3> QED BY <3>1, <3>2
  <2>2. /\ peer' \in [at : {"none", "backlog", "accepted"}, sent : 0..MaxData, done : BOOLEAN]
        /\ peer'.at # "accepted" /\ got' = 0
    BY <1>0, FTPAssumption DEF FTPInv, TypeOK, NoPeer
  <2> QED BY <1>0, <2>1, <2>2 DEF FTPInv, TypeOK
<1>6. Known'
  BY <1>1, <1>2, <1>4 DEF Known
<1>7. ListenersAsTold'
  BY <1>0, <1>2, <1>4 DEF ListenersAsTold
<1> QED BY <1>2, <1>5, <1>6, <1>7 DEF FTPInv

(* The peer's record. *)
Peers == [at : {"none", "backlog", "accepted"}, sent : 0..MaxData, done : BOOLEAN]

(* Closing a listener does nothing to a connection that was accepted. *)
LEMMA ClosePeer ==
    ASSUME TypeOK, NEW l, Close(l)
    PROVE  /\ peer' \in Peers
           /\ peer'.at = "accepted" <=> peer.at = "accepted"
BY FTPAssumption DEF TypeOK, Close, NoPeer, Peers

(* RETR, which never waits for a connection. *)
LEMMA RetrStep ==
    ASSUME FTPInv, Retr
    PROVE  FTPInv'
<1>0. /\ handler = "reading" /\ Reading /\ handler' = "publish" /\ dataListen' = 0
      /\ "RETR" \in Commands /\ "RETR" \in Passive /\ NoPath \in EntryPaths
      /\ UNCHANGED <<ctx, ctrl, login, cwd, got, upload>>
      /\ Close(dataListen) /\ Logged("RETR", NoPath, <<550>>)
  BY DEF Retr, Reading, Commands, Passive, EntryPaths
<1>1. /\ LogOK' /\ Midway' /\ Answered'
      /\ Len(log) \in Nat /\ Len(log') = Len(log) + 1 /\ Told' = {}
  BY <1>0, AtOnce
<1>2. listeners' = {}
  BY <1>0 DEF FTPInv, Known, Close
<1>3. /\ peer' \in Peers /\ peer'.at # "accepted"
  BY <1>0, ClosePeer DEF FTPInv, TypeOK
<1>4. TypeOK'
  BY <1>0, <1>1, <1>2, <1>3 DEF FTPInv, TypeOK, Peers
<1>5. Known' /\ ListenersAsTold'
  BY <1>0, <1>1, <1>2 DEF Known, ListenersAsTold
<1> QED BY <1>1, <1>4, <1>5 DEF FTPInv

(* LIST and STOR: without a listener the answer is final, with one the      *)
(* command is busy.                                                         *)
LEMMA TransferStep ==
    ASSUME FTPInv, NEW cmd \in {"LIST", "STOR"}, Transfer(cmd)
    PROVE  FTPInv'
<1>0. /\ handler = "reading" /\ Reading
      /\ cmd \in Commands /\ cmd \in Passive /\ NoPath \in EntryPaths
      /\ UNCHANGED <<ctx, ctrl, login, cwd, dataListen, listeners, peer, got, upload>>
  BY DEF Transfer, Reading, Commands, Passive, EntryPaths
<1>1. CASE dataListen = 0 /\ Logged(cmd, NoPath, <<425>>) /\ handler' = "publish"
  <2>1. /\ LogOK' /\ Midway' /\ Answered'
        /\ Len(log) \in Nat /\ Len(log') = Len(log) + 1 /\ Told' = {}
    BY <1>0, <1>1, AtOnce
  <2>2. listeners = {}
    BY <1>1, <2>1 DEF FTPInv, Known, TypeOK
  <2>3. TypeOK'
    BY <1>0, <1>1, <2>1, <2>2 DEF FTPInv, TypeOK
  <2>4. Known' /\ ListenersAsTold'
    BY <1>0, <1>1, <2>1, <2>2 DEF Known, ListenersAsTold
  <2> QED BY <2>1, <2>3, <2>4 DEF FTPInv
<1>2. CASE dataListen # 0 /\ Logged(cmd, NoPath, <<150>>) /\ handler' = "accept"
  <2>0. PICK e \in Entries : /\ e.cmd = cmd /\ e.codes = <<150>> /\ e.events = <<>>
                             /\ log' = Append(log, e)
    BY <1>0, <1>2, EntryIs DEF Logged
  <2>1. /\ LogOK' /\ Len(log) \in Nat /\ Len(log') = Len(log) + 1 /\ log' # <<>>
        /\ DOMAIN log' = 1..(Len(log) + 1)
        /\ log'[Len(log')] = e
    BY <2>0, Appended DEF FTPInv
  <2>2. Midway'
    BY <1>2, <2>0, <2>1 DEF Midway
  <2>3. Answered'
    <3> SUFFICES ASSUME NEW n \in 1..(Len(log) + 1) PROVE AnsweredOnce(n)'
      BY <2>1 DEF Answered
    <3>1. CASE n \in 1..Len(log)
      BY <1>0, <2>0, <3>1, EarlierAnswered
    <3>2. CASE n = Len(log) + 1
      BY <1>2, <2>0, <2>1, <3>2 DEF AnsweredOnce
    <3> QED BY <2>1, <3>1, <3>2
  <2>4. TypeOK'
    <3>1. dataListen' \in 0..Len(log') /\ listeners' \subseteq 1..Len(log')
      BY <1>0, <2>1 DEF FTPInv, TypeOK
    <3> QED BY <1>0, <1>2, <3>1 DEF FTPInv, TypeOK
  <2>5. Known'
    BY <1>0 DEF FTPInv, Known
  <2>6. ListenersAsTold'
    <3>1. listeners' = {} \/ listeners' = {dataListen}
      BY <1>0 DEF FTPInv, Known
    <3>2. Cardinality(listeners') <= 1
      <4>1. Cardinality({}) = 0 /\ Cardinality({dataListen}) = 1
        BY FS_EmptySet, FS_Singleton
      <4> QED BY <3>1, <4>1
    <3> QED BY <1>2, <3>2 DEF ListenersAsTold
  <2> QED BY <2>1, <2>2, <2>3, <2>4, <2>5, <2>6 DEF FTPInv
<1> QED BY <1>1, <1>2 DEF Transfer

(* The codes c of a command that was told 150, and of one that was then told *)
(* something else.                                                           *)
FirstCode(c) == c = <<150>>
SecondCode(c) == Len(c) = 2 /\ c[1] = 150 /\ c[2] # 150

(* Such a command has been told its second reply last. *)
LEMMA AppendedCode ==
    ASSUME NEW q \in Seq(Nat), FirstCode(q), NEW code \in Nat \ {150}
    PROVE  /\ Append(q, code) \in Seq(Nat) /\ SecondCode(Append(q, code))
           /\ Last(Append(q, code)) = code
<1>1. PICK n \in Nat : n = Len(q)
  OBVIOUS
<1>2. /\ Append(q, code) \in Seq(Nat) /\ Len(Append(q, code)) = n + 1
      /\ Append(q, code)[n + 1] = code
      /\ \A i \in 1..n : Append(q, code)[i] = q[i]
  BY <1>1, AppendProperties
<1>3. q[1] = 150 /\ n = 1
  BY <1>1 DEF FirstCode
<1>4. n + 1 = 2 /\ 1 \in 1..n
  BY <1>3
<1>5. Last(Append(q, code)) = code
  BY <1>2 DEF Last
<1> QED BY <1>2, <1>3, <1>4, <1>5 DEF SecondCode

(* What Reply does to the log while a command is busy. *)
LEMMA ReplyRewrites ==
    ASSUME FTPInv, handler \in {"accept", "receive"}, NEW code \in Nat \ {150}, log' = Reply(code)
    PROVE  \E e \in Entries : /\ e.cmd \in Passive /\ e.cmd = log[Len(log)].cmd
                              /\ SecondCode(e.codes) /\ Final(e) = code
                              /\ log' = [log EXCEPT ![Len(log)] = e]
<1>0. LogOK /\ log # <<>> /\ log[Len(log)].cmd \in Passive
  BY DEF FTPInv, Midway, Passive
<1>1. /\ log[Len(log)].codes = <<150>> /\ log[Len(log)] \in Entries
      /\ Len(log) \in DOMAIN log
  BY <1>0 DEF FTPInv, Answered, AnsweredOnce, LogOK
<1>2. PICK r \in Entries : r = log[Len(log)]
  BY <1>1
<1>3. r.codes \in Seq(Nat) /\ r.codes = <<150>>
  BY <1>1, <1>2 DEF Entries
<1>4. PICK c \in Seq(Nat) : c = Append(r.codes, code) /\ SecondCode(c) /\ Last(c) = code
  BY <1>3, AppendedCode DEF FirstCode
<1>5. log' = [log EXCEPT ![Len(log)] = [r EXCEPT !.codes = c]]
  BY <1>2, <1>4 DEF Reply
<1>6. /\ [r EXCEPT !.codes = c] \in Entries
      /\ [r EXCEPT !.codes = c].cmd = r.cmd
      /\ [r EXCEPT !.codes = c].codes = c
  BY DEF Entries
<1> QED BY <1>0, <1>2, <1>4, <1>5, <1>6 DEF Final

(* A command that was busy gets its final reply. *)
LEMMA FinalReply ==
    ASSUME FTPInv, handler \in {"accept", "receive"}, NEW e \in Entries, e.cmd \in Passive,
           SecondCode(e.codes),
           log' = [log EXCEPT ![Len(log)] = e], handler' = "publish"
    PROVE  /\ LogOK' /\ Midway' /\ Answered' /\ Len(log') = Len(log) /\ Told' = {}
<1>0. LogOK /\ log # <<>>
  BY DEF FTPInv, Midway
<1>3. /\ LogOK' /\ Len(log) \in Nat \ {0} /\ Len(log') = Len(log) /\ log' # <<>>
      /\ DOMAIN log = 1..Len(log) /\ DOMAIN log' = 1..Len(log)
      /\ log'[Len(log)] = e
      /\ \A n \in 1..Len(log) : n # Len(log) => log'[n] = log[n]
  BY <1>0, Rewritten
<1>4. Midway'
  BY <1>3 DEF Midway
<1>5. Answered'
  <2> SUFFICES ASSUME NEW n \in 1..Len(log) PROVE AnsweredOnce(n)'
    BY <1>3 DEF Answered
  <2>1. CASE n = Len(log)
    <3>1. e.codes[Len(e.codes)] # 150 /\ Len(e.codes) = IF e.codes[1] = 150 THEN 2 ELSE 1
      BY DEF SecondCode
    <3>2. log'[n] = e /\ n = Len(log')
      BY <1>3, <2>1
    <3> QED BY <3>1, <3>2 DEF AnsweredOnce, Final, Last
  <2>2. CASE n # Len(log)
    <3>1. AnsweredOnce(n)
      BY <1>3 DEF FTPInv, Answered
    <3>2. n < Len(log)
      <4>1. PICK m \in Nat : m = Len(log)
        BY <1>3
      <4>2. n \in 1..m /\ n # m
        BY <2>2, <4>1
      <4>3. n < m
        BY <4>2
      <4> QED BY <4>1, <4>3
    <3>3. log'[n] = log[n]
      BY <1>3, <2>2
    <3> QED BY <1>3, <2>2, <3>1, <3>2, <3>3 DEF AnsweredOnce, Final, Last
  <2> QED BY <2>1, <2>2
<1>6. Told' = {}
  <2>1. e.codes # <<227>>
    BY DEF SecondCode
  <2> QED BY <1>3, <2>1, ToldOfLast, ToldIs DEF LogOK
<1> QED BY <1>3, <1>4, <1>5, <1>6

(* A connection is accepted: a listing is over, an upload begins. *)
LEMMA AcceptDataStep ==
    ASSUME FTPInv, AcceptData
    PROVE  FTPInv'
<1>0. /\ handler = "accept" /\ dataListen' = 0 /\ listeners' = listeners \ {dataListen}
      /\ UNCHANGED <<ctx, ctrl, login, cwd, got, upload>> /\ peer.at = "backlog"
  BY DEF AcceptData
<1>1. listeners' = {}
  BY <1>0 DEF FTPInv, Known
<1>2. CASE log' = Reply(226) /\ handler' = "publish" /\ peer' = NoPeer
  <2>1. /\ LogOK' /\ Midway' /\ Answered' /\ Len(log') = Len(log) /\ Told' = {}
    BY <1>0, <1>2, ReplyRewrites, FinalReply
  <2>2. TypeOK'
    BY <1>0, <1>1, <1>2, <2>1, FTPAssumption DEF FTPInv, TypeOK, NoPeer
  <2>3. Known' /\ ListenersAsTold'
    BY <1>1, <1>2, <2>1 DEF Known, ListenersAsTold
  <2> QED BY <2>1, <2>2, <2>3 DEF FTPInv
<1>3. CASE /\ log[Len(log)].cmd = "STOR" /\ peer' = [peer EXCEPT !.at = "accepted"]
           /\ handler' = "receive" /\ UNCHANGED log
  <2>1. LogOK' /\ Midway' /\ log # <<>>
    BY <1>0, <1>3 DEF FTPInv, LogOK, Midway
  <2>2. Answered'
    <3> SUFFICES ASSUME NEW n \in DOMAIN log PROVE AnsweredOnce(n)'
      BY <1>3 DEF Answered
    <3>1. AnsweredOnce(n)
      BY DEF FTPInv, Answered
    <3> QED BY <1>0, <1>3, <3>1 DEF AnsweredOnce
  <2>3. Told' = {}
    <3>1. log[Len(log)].codes = <<150>>
      BY <1>0, <2>1 DEF FTPInv, LogOK, Answered, AnsweredOnce
    <3>2. log[Len(log)].codes # <<227>>
      BY <3>1
    <3>3. ToldOf(log) = {}
      BY <1>3, <2>1, <3>2, ToldOfLast DEF Passive, FTPInv, LogOK
    <3> QED BY <1>3, <3>3, ToldIs
  <2>4. TypeOK'
    <3>1. peer' \in Peers /\ peer'.at = "accepted" /\ got = 0
      BY <1>0, <1>3 DEF FTPInv, TypeOK, Peers
    <3> QED BY <1>0, <1>1, <1>3, <3>1 DEF FTPInv, TypeOK, Peers, LogOK
  <2>5. Known' /\ ListenersAsTold'
    BY <1>1, <1>3, <2>3 DEF Known, ListenersAsTold
  <2> QED BY <2>1, <2>2, <2>4, <2>5 DEF FTPInv
<1> QED BY <1>2, <1>3 DEF AcceptData, Last

(* No connection came, or the listener was a closed one. *)
LEMMA AcceptFailsStep ==
    ASSUME FTPInv, AcceptFails
    PROVE  FTPInv'
<1>0. /\ handler = "accept" /\ handler' = "publish" /\ dataListen' = 0 /\ Close(dataListen)
      /\ UNCHANGED <<ctx, ctrl, login, cwd, got, upload>> /\ log' = Reply(425)
  BY DEF AcceptFails
<1>1. /\ LogOK' /\ Midway' /\ Answered' /\ Len(log') = Len(log) /\ Told' = {}
  BY <1>0, ReplyRewrites, FinalReply
<1>2. listeners' = {}
  BY <1>0 DEF FTPInv, Known, Close
<1>3. peer' \in Peers /\ peer'.at # "accepted"
  BY <1>0, ClosePeer DEF FTPInv, TypeOK
<1>4. TypeOK'
  BY <1>0, <1>1, <1>2, <1>3 DEF FTPInv, TypeOK, Peers
<1>5. Known' /\ ListenersAsTold'
  BY <1>0, <1>1, <1>2 DEF Known, ListenersAsTold
<1> QED BY <1>1, <1>4, <1>5 DEF FTPInv

(* The data of an upload have been read. *)
LEMMA UploadEndsStep ==
    ASSUME FTPInv, UploadEnds
    PROVE  FTPInv'
<1>0. /\ handler = "receive" /\ handler' = "publish" /\ peer' = NoPeer /\ got' = 0
      /\ UNCHANGED <<ctx, ctrl, login, cwd, dataListen, listeners>> /\ log' = Reply(226)
      /\ upload' = TRUE
  BY DEF UploadEnds
<1>1. /\ LogOK' /\ Midway' /\ Answered' /\ Len(log') = Len(log) /\ Told' = {}
  BY <1>0, ReplyRewrites, FinalReply
<1>2. Told = {}
  <2>1. LogOK /\ log # <<>> /\ log[Len(log)].cmd \in Passive
    BY <1>0 DEF FTPInv, Midway, Passive
  <2>2. log[Len(log)].codes = <<150>>
    BY <1>0, <2>1 DEF FTPInv, LogOK, Answered, AnsweredOnce
  <2>3. log[Len(log)].codes # <<227>>
    BY <2>2
  <2> QED BY <2>1, <2>3, ToldOfLast, ToldIs DEF LogOK
<1>3. TypeOK'
  BY <1>0, <1>1, FTPAssumption DEF FTPInv, TypeOK, NoPeer
<1>4. Known' /\ ListenersAsTold'
  BY <1>0, <1>1, <1>2 DEF FTPInv, Known, ListenersAsTold
<1> QED BY <1>1, <1>3, <1>4 DEF FTPInv

(* A block of an upload is read. *)
LEMMA ReceiveStep ==
    ASSUME FTPInv, Receive
    PROVE  FTPInv'
<1>1. /\ handler = "receive" /\ got < Limit /\ got < peer.sent /\ got' = got + 1
      /\ UNCHANGED <<ctx, ctrl, handler, login, cwd, dataListen, listeners, peer, log, upload>>
  BY DEF Receive
<1>2. TypeOK'
  <2>1. got' \in 0..Limit /\ got' <= peer.sent
    BY <1>1, FTPAssumption DEF FTPInv, TypeOK
  <2> QED BY <1>1, <2>1 DEF FTPInv, TypeOK
<1>3. Told' = Told
  BY <1>1, ToldIs
<1> QED BY <1>1, <1>2, <1>3
        DEF FTPInv, LogOK, Midway, Known, ListenersAsTold, Answered, AnsweredOnce, Final, Last

(* What handleConnection publishes of a command says what has become of it. *)
LEMMA EventsTell ==
    ASSUME NEW e \in Entries, NEW u \in BOOLEAN, u <=> e.cmd = "STOR" /\ Final(e) = 226
    PROVE  /\ EventsOf(e, u) \in Seq({"command", "auth", "upload"})
           /\ Head(EventsOf(e, u)) = "command"
           /\ "upload" \in ToSet(EventsOf(e, u)) <=> e.cmd = "STOR" /\ Final(e) = 226
           /\ "auth" \in ToSet(EventsOf(e, u)) <=> e.cmd = "PASS"
<1> DEFINE E == {"command", "auth", "upload"}
<1>1. /\ <<"command", "auth">> \in Seq(E) /\ Head(<<"command", "auth">>) = "command"
      /\ ToSet(<<"command", "auth">>) = {"command", "auth"}
  BY DEF ToSet
<1>2. /\ <<"command", "upload">> \in Seq(E) /\ Head(<<"command", "upload">>) = "command"
      /\ ToSet(<<"command", "upload">>) = {"command", "upload"}
  BY DEF ToSet
<1>3. /\ <<"command">> \in Seq(E) /\ Head(<<"command">>) = "command"
      /\ ToSet(<<"command">>) = {"command"}
  BY DEF ToSet
<1>4. CASE e.cmd = "PASS"
  BY <1>1, <1>4 DEF EventsOf
<1>5. CASE e.cmd = "STOR" /\ Final(e) = 226
  BY <1>2, <1>5 DEF EventsOf
<1>6. CASE e.cmd # "PASS" /\ ~(e.cmd = "STOR" /\ Final(e) = 226)
  BY <1>3, <1>6 DEF EventsOf
<1> QED BY <1>4, <1>5, <1>6

(* The events of the last command are published. *)
LEMMA PublishStep ==
    ASSUME FTPInv, UploadTold, Publish
    PROVE  FTPInv'
<1>0. /\ handler = "publish" /\ handler' \in {"return", "top"}
      /\ log' = [log EXCEPT ![Len(log)].events = EventsOf(log[Len(log)], upload)]
      /\ upload' = FALSE
      /\ UNCHANGED <<ctx, ctrl, login, cwd, dataListen, listeners, peer, got>>
  BY DEF Publish, Last
<1>1. LogOK /\ log # <<>>
  BY <1>0 DEF FTPInv, Midway
<1>2. PICK r \in Entries : r = log[Len(log)]
  BY <1>1 DEF LogOK
<1>u. upload \in BOOLEAN /\ (upload <=> r.cmd = "STOR" /\ Final(r) = 226)
  BY <1>0, <1>2 DEF FTPInv, TypeOK, UploadTold
<1>3. PICK v \in Seq({"command", "auth", "upload"}) : v = EventsOf(r, upload)
  BY <1>u, EventsTell
<1>4. PICK e \in Entries : /\ e.cmd = r.cmd /\ e.codes = r.codes /\ e.events = v
                           /\ log' = [log EXCEPT ![Len(log)] = e]
  <2>1. log' = [log EXCEPT ![Len(log)] = [r EXCEPT !.events = v]]
    BY <1>0, <1>2, <1>3
  <2>2. /\ [r EXCEPT !.events = v] \in Entries
        /\ [r EXCEPT !.events = v].cmd = r.cmd
        /\ [r EXCEPT !.events = v].codes = r.codes
        /\ [r EXCEPT !.events = v].events = v
    BY DEF Entries
  <2> QED BY <2>1, <2>2
<1>5. /\ LogOK' /\ Len(log) \in Nat \ {0} /\ Len(log') = Len(log) /\ log' # <<>>
      /\ DOMAIN log = 1..Len(log) /\ DOMAIN log' = 1..Len(log)
      /\ log'[Len(log)] = e /\ log[Len(log)] \in Entries
      /\ \A n \in 1..Len(log) : n # Len(log) => log'[n] = log[n]
  BY <1>1, <1>4, Rewritten
<1>6. Told' = Told
  <2>1. \A n \in 1..Len(log) : log'[n].cmd = log[n].cmd /\ log'[n].codes = log[n].codes
    BY <1>2, <1>4, <1>5
  <2>2. UsesOf(log') = UsesOf(log) /\ \A n \in UsesOf(log) : log[n].codes = log'[n].codes
    BY <1>5, <2>1 DEF UsesOf
  <2> QED BY <1>1, <1>5, <2>2, ToldOfSame, ToldIs DEF LogOK
<1>7. Answered'
  <2> SUFFICES ASSUME NEW n \in 1..Len(log) PROVE AnsweredOnce(n)'
    BY <1>5 DEF Answered
  <2>0. AnsweredOnce(n)
    BY <1>5 DEF FTPInv, Answered
  <2>1. CASE n = Len(log)
    <3>1. /\ log'[n].codes = log[n].codes /\ log'[n].cmd = log[n].cmd /\ log'[n].events = v
      BY <1>2, <1>4, <1>5, <2>1
    <3>2. Final(log'[n]) = Final(r) /\ log'[n].cmd = r.cmd
      BY <1>2, <2>1, <3>1 DEF Final, Last
    <3>3. /\ Head(v) = "command"
          /\ "upload" \in ToSet(v) <=> log'[n].cmd = "STOR" /\ Final(log'[n]) = 226
          /\ "auth" \in ToSet(v) <=> log'[n].cmd = "PASS"
      BY <1>u, <1>3, <3>2, EventsTell
    <3>4. /\ Final(log[n]) # 150
          /\ Len(log[n].codes) = IF log[n].codes[1] = 150 THEN 2 ELSE 1
      BY <1>0, <2>0 DEF AnsweredOnce
    <3>5. /\ Final(log'[n]) # 150
          /\ Len(log'[n].codes) = IF log'[n].codes[1] = 150 THEN 2 ELSE 1
      BY <3>1, <3>4 DEF Final
    <3> QED BY <1>0, <3>1, <3>3, <3>5 DEF AnsweredOnce
  <2>2. CASE n # Len(log)
    <3>1. log'[n] = log[n]
      BY <1>5, <2>2
    <3>2. PICK m \in Nat : m = Len(log)
      BY <1>5
    <3>3. n \in 1..m /\ n # m
      BY <2>2, <3>2
    <3>4. n < m
      BY <3>3
    <3>5. n < Len(log) /\ n < Len(log')
      BY <1>5, <3>2, <3>4
    <3> QED BY <1>0, <1>5, <2>0, <2>2, <3>1, <3>5 DEF AnsweredOnce, Final
  <2> QED BY <2>1, <2>2
<1>8. TypeOK'
  BY <1>0, <1>5 DEF FTPInv, TypeOK
<1>9. Midway' /\ Known' /\ ListenersAsTold'
  BY <1>0, <1>5, <1>6 DEF FTPInv, Midway, Known, ListenersAsTold
<1> QED BY <1>5, <1>7, <1>8, <1>9 DEF FTPInv

(* Between two commands, and at the end, the handler moves on. *)
LEMMA MovesOn ==
    ASSUME FTPInv, handler \in {"top", "reading", "return"}, UNCHANGED log,
           handler' \in {"top", "reading", "return", "returned"}
    PROVE  LogOK' /\ Midway' /\ Answered' /\ Told' = Told
<1>1. Told' = Told
  BY ToldIs
<1>2. Answered'
  <2> SUFFICES ASSUME NEW n \in DOMAIN log PROVE AnsweredOnce(n)'
    BY DEF Answered
  <2>1. AnsweredOnce(n)
    BY DEF FTPInv, Answered
  <2> QED BY <2>1 DEF AnsweredOnce, Final
<1> QED BY <1>1, <1>2 DEF FTPInv, LogOK, Midway

(* The handler goes to the next command or leaves its loop. *)
LEMMA MovesOnStep ==
    ASSUME FTPInv, Top \/ ReadFails
    PROVE  FTPInv'
<1>0. /\ handler \in {"top", "reading", "return"} /\ handler' \in {"top", "reading", "return"}
      /\ UNCHANGED <<ctx, ctrl, login, cwd, dataListen, listeners, peer, got, log, upload>>
  BY DEF Top, ReadFails
<1>1. LogOK' /\ Midway' /\ Answered' /\ Told' = Told
  BY <1>0, MovesOn
<1>2. TypeOK' /\ Known' /\ ListenersAsTold'
  BY <1>0, <1>1 DEF FTPInv, TypeOK, Known, ListenersAsTold
<1> QED BY <1>1, <1>2 DEF FTPInv

(* The deferred calls close the listener that is left. *)
LEMMA ReturnStep ==
    ASSUME FTPInv, Return
    PROVE  FTPInv'
<1>0. /\ handler = "return" /\ handler' = "returned" /\ Close(dataListen)
      /\ UNCHANGED <<ctx, ctrl, login, cwd, dataListen, got, log, upload>>
  BY DEF Return
<1>1. LogOK' /\ Midway' /\ Answered'
  BY <1>0, MovesOn
<1>2. listeners' = {}
  BY <1>0 DEF FTPInv, Known, Close
<1>3. peer' \in Peers /\ peer'.at # "accepted"
  BY <1>0, ClosePeer DEF FTPInv, TypeOK
<1>4. TypeOK' /\ Known' /\ ListenersAsTold'
  BY <1>0, <1>2, <1>3 DEF FTPInv, TypeOK, Known, ListenersAsTold, Peers
<1> QED BY <1>1, <1>4 DEF FTPInv

(* What the client does on its own, and a cancellation. *)
LEMMA OutsideStep ==
    ASSUME FTPInv, ClientLeaves \/ Cancel \/ Data \/ UNCHANGED ftpVars
    PROVE  FTPInv'
<1>0. UNCHANGED <<handler, login, cwd, dataListen, listeners, got, log, upload>>
  BY DEF ClientLeaves, Cancel, Data, Dial, DataSend, DataClose, ftpVars
<1>1. Told' = Told
  BY <1>0, ToldIs
<1>2. ctx' \in {"live", "cancelled"} /\ ctrl' \in {"open", "closed"}
  BY DEF ClientLeaves, Cancel, Data, Dial, DataSend, DataClose, ftpVars, FTPInv, TypeOK
<1>3. /\ peer' \in Peers
      /\ peer'.at = "accepted" <=> handler = "receive"
      /\ got > 0 => got <= peer'.sent
  <2>0. /\ peer \in Peers /\ got \in Nat /\ (peer.at = "accepted" <=> handler = "receive")
        /\ (got > 0 => handler = "receive" /\ got <= peer.sent)
    BY FTPAssumption DEF FTPInv, TypeOK, Peers
  <2>1. CASE ClientLeaves \/ Cancel \/ UNCHANGED ftpVars
    BY <2>0, <2>1 DEF ClientLeaves, Cancel, ftpVars
  <2>2. CASE Dial
    <3>1. peer' = [at |-> "backlog", sent |-> 0, done |-> FALSE] /\ peer.at = "none"
      BY <2>2 DEF Dial, NoPeer
    <3>2. 0 \in 0..MaxData
      BY FTPAssumption
    <3> QED BY <2>0, <3>1, <3>2 DEF Peers
  <2>3. CASE DataSend
    BY <2>0, <2>3, FTPAssumption DEF DataSend, Peers
  <2>4. CASE DataClose
    <3>1. CASE peer' = [peer EXCEPT !.done = TRUE]
      BY <2>0, <3>1 DEF Peers
    <3>2. CASE peer.at = "accepted" /\ peer' = [peer EXCEPT !.done = TRUE, !.sent = got]
      <4>1. got \in 0..MaxData
        BY <2>0, FTPAssumption DEF Peers
      <4>2. peer' = [at |-> "accepted", sent |-> got, done |-> TRUE]
        BY <2>0, <3>2 DEF Peers
      <4>3. peer' \in Peers
        BY <4>1, <4>2 DEF Peers
      <4>4. peer'.at = "accepted" /\ peer'.sent = got /\ got <= got
        BY <4>1, <4>2
      <4> QED BY <2>0, <3>2, <4>3, <4>4
    <3> QED BY <2>4, <3>1, <3>2 DEF DataClose
  <2> QED BY <2>1, <2>2, <2>3, <2>4 DEF Data
<1>4. TypeOK'
  BY <1>0, <1>2, <1>3 DEF FTPInv, TypeOK, Peers
<1> QED BY <1>0, <1>1, <1>4
        DEF FTPInv, LogOK, Midway, Known, ListenersAsTold, Answered, AnsweredOnce, Final, Last
-----------------------------------------------------------------------------
(* The connection begins with nothing logged and no listener. *)
LEMMA FTPInit == Init => FTPInv
<1> SUFFICES ASSUME Init PROVE FTPInv
  OBVIOUS
<1>1. TypeOK /\ LogOK /\ Midway /\ Known /\ Answered
  <2>1. TypeOK
    <3>1. /\ peer = [at |-> "none", sent |-> 0, done |-> FALSE]
          /\ MaxData \in Nat /\ Limit \in Nat
      BY FTPAssumption DEF Init, NoPeer
    <3>2. /\ peer \in [at : {"none", "backlog", "accepted"}, sent : 0..MaxData, done : BOOLEAN]
          /\ peer.at = "none"
      BY <3>1
    <3>3. /\ dataListen \in 0..Len(log) /\ listeners \subseteq 1..Len(log)
          /\ got \in 0..Limit /\ ~(got > 0)
      BY <3>1 DEF Init
    <3>4. /\ upload \in BOOLEAN /\ ctx = "live" /\ ctrl = "open" /\ handler = "top"
          /\ login = "init"
      BY DEF Init
    <3> QED BY <3>2, <3>3, <3>4 DEF TypeOK
  <2> QED BY <2>1, FTPAssumption DEF Init, LogOK, Midway, Known, Answered
<1>2. Told = {}
  BY DEF Init, Told
<1> QED BY <1>1, <1>2 DEF FTPInv, ListenersAsTold, Init

(* Every step preserves the invariant. *)
LEMMA FTPStep == FTPInv /\ UploadTold /\ [Next]_ftpVars => FTPInv'
<1> SUFFICES ASSUME FTPInv, UploadTold, [Next]_ftpVars PROVE FTPInv'
  OBVIOUS
<1>0. NoPath \in EntryPaths /\ login \in {"init", "user", "auth"}
  BY DEF EntryPaths, FTPInv, TypeOK
<1>1. ASSUME NEW cmd \in Plain, Answer(cmd) PROVE FTPInv'
  <2>1. Codes[cmd] \in Nat \ {150} /\ cmd \in Commands \ Passive
    BY CodesFinal, FTPAssumption
  <2> QED BY <1>0, <1>1, <2>1, AtOnceStep DEF Answer
<1>2. CASE User
  <2>1. "USER" \in Commands \ Passive
    BY DEF Commands, Passive
  <2> QED BY <1>0, <1>2, <2>1, AtOnceStep DEF User
<1>3. ASSUME NEW cmd \in {"PASS", "PASS-EMPTY"}, Pass(cmd) PROVE FTPInv'
  <2>1. cmd \in Commands \ Passive
    BY DEF Commands, Passive
  <2> QED BY <1>0, <1>3, <2>1, AtOnceStep DEF Pass
<1>4. ASSUME NEW path \in CwdPaths, Cwd(path) PROVE FTPInv'
  <2>1. "CWD" \in Commands \ Passive /\ path \in EntryPaths
    BY DEF Commands, Passive, EntryPaths
  <2> QED BY <1>0, <1>4, <2>1, AtOnceStep DEF Cwd
<1>5. CASE Cdup
  <2>1. "CDUP" \in Commands \ Passive
    BY DEF Commands, Passive
  <2> QED BY <1>0, <1>5, <2>1, AtOnceStep DEF Cdup
<1>6. CASE openPASV
  BY <1>6, OpenPASVStep
<1>7. CASE Retr
  BY <1>7, RetrStep
<1>8. ASSUME NEW cmd \in {"LIST", "STOR"}, Transfer(cmd) PROVE FTPInv'
  BY <1>8, TransferStep
<1>9. CASE Dispatch
  BY <1>1, <1>2, <1>3, <1>4, <1>5, <1>6, <1>7, <1>8, <1>9 DEF Dispatch
<1>10. CASE Handler
  BY <1>10, AcceptDataStep, ReceiveStep, UploadEndsStep, PublishStep, MovesOnStep, ReturnStep
     DEF Handler
<1>11. CASE AcceptFails
  BY <1>11, AcceptFailsStep
<1> QED BY <1>9, <1>10, <1>11, OutsideStep DEF Next

(* A reply to the command in hand is its final one and leaves its name.     *)
LEMMA RepliedWith ==
    ASSUME FTPInv, handler \in {"accept", "receive"}, NEW code \in Nat \ {150},
           log' = Reply(code)
    PROVE  log'[Len(log')].cmd = log[Len(log)].cmd /\ Final(log'[Len(log')]) = code
<1>1. PICK e \in Entries : /\ e.cmd = log[Len(log)].cmd /\ Final(e) = code
                           /\ log' = [log EXCEPT ![Len(log)] = e]
  BY ReplyRewrites
<1>2. log'[Len(log')] = e
  BY <1>1, Rewritten DEF FTPInv, Midway
<1> QED BY <1>1, <1>2

(* A command answered at once, or one that fails, returns no upload.        *)
LEMMA NoUpload ==
    ASSUME FTPInv, UploadTold, handler # "publish", upload' = upload,
           handler' = "publish" =>
              \/ log'[Len(log')].cmd # "STOR"
              \/ Final(log'[Len(log')]) # 226
    PROVE  UploadTold'
BY DEF UploadTold

(* What a command just read is answered with. *)
LEMMA AnsweredWith ==
    ASSUME FTPInv, NEW cmd \in Commands, NEW path \in EntryPaths, NEW code \in Nat,
           Logged(cmd, path, <<code>>)
    PROVE  log'[Len(log')].cmd = cmd /\ Final(log'[Len(log')]) = code
<1>0. PICK e \in Entries : e.cmd = cmd /\ e.codes = <<code>> /\ log' = Append(log, e)
  BY EntryIs DEF Logged
<1>1. log'[Len(log')] = e
  BY <1>0, Appended DEF FTPInv
<1>2. e.codes[Len(e.codes)] = code
  BY <1>0
<1> QED BY <1>0, <1>1, <1>2 DEF Final, Last

(* Every step keeps the upload that is returned the one the client was told *)
(* has arrived.                                                             *)
LEMMA UploadStep == FTPInv /\ UploadTold /\ [Next]_ftpVars => UploadTold'
<1> SUFFICES ASSUME FTPInv, UploadTold, [Next]_ftpVars PROVE UploadTold'
  OBVIOUS
<1>0. NoPath \in EntryPaths
  BY DEF EntryPaths
<1>1. ASSUME Reading, upload' = upload, NEW cmd \in Commands, cmd # "STOR",
             NEW path \in EntryPaths, NEW code \in Nat, Logged(cmd, path, <<code>>)
      PROVE  UploadTold'
  <2>1. log'[Len(log')].cmd # "STOR"
    BY <1>1, AnsweredWith
  <2> QED BY <1>1, <2>1, NoUpload DEF Reading
<1>2. ASSUME NEW cmd \in Plain, Answer(cmd) PROVE UploadTold'
  <2>1. Codes[cmd] \in Nat \ {150} /\ cmd \in Commands /\ cmd # "STOR"
    <3>1. "STOR" \in Passive
      BY DEF Passive
    <3> QED BY <3>1, CodesFinal, FTPAssumption
  <2> QED BY <1>0, <1>1, <1>2, <2>1 DEF Answer
<1>3. CASE User
  BY <1>0, <1>1, <1>3 DEF User, Commands
<1>4. ASSUME NEW cmd \in {"PASS", "PASS-EMPTY"}, Pass(cmd) PROVE UploadTold'
  BY <1>0, <1>1, <1>4 DEF Pass, Commands
<1>5. ASSUME NEW path \in CwdPaths, Cwd(path) PROVE UploadTold'
  BY <1>1, <1>5 DEF Cwd, Commands, EntryPaths
<1>6. CASE Cdup
  BY <1>0, <1>1, <1>6 DEF Cdup, Commands
<1>7. CASE openPASV
  <2>1. /\ Reading /\ upload' = upload /\ "PASV" \in Commands
        /\ Logged("PASV", NoPath, <<227>>) \/ Logged("PASV", NoPath, <<425>>)
    BY <1>7 DEF openPASV, Commands, Passive
  <2>2. CASE Logged("PASV", NoPath, <<227>>)
    BY <1>0, <1>1, <2>1, <2>2
  <2>3. CASE Logged("PASV", NoPath, <<425>>)
    BY <1>0, <1>1, <2>1, <2>3
  <2> QED BY <2>1, <2>2, <2>3
<1>8. CASE Retr
  BY <1>0, <1>1, <1>8 DEF Retr, Commands, Passive
<1>9. ASSUME NEW cmd \in {"LIST", "STOR"}, Transfer(cmd) PROVE UploadTold'
  <2>1. /\ handler # "publish" /\ upload' = upload /\ cmd \in Commands
        /\ \/ Logged(cmd, NoPath, <<425>>)
           \/ handler' = "accept"
    BY <1>9 DEF Transfer, Reading, Commands, Passive
  <2>2. CASE Logged(cmd, NoPath, <<425>>)
    <3>1. Final(log'[Len(log')]) = 425
      BY <1>0, <2>1, <2>2, AnsweredWith
    <3> QED BY <2>1, <3>1, NoUpload
  <2>3. CASE handler' = "accept"
    BY <2>1, <2>3, NoUpload
  <2> QED BY <2>1, <2>2, <2>3
<1>10. CASE AcceptData
  <2>1. /\ handler = "accept" /\ upload' = upload
        /\ \/ log[Len(log)].cmd = "LIST" /\ log' = Reply(226)
           \/ handler' = "receive"
    BY <1>10 DEF AcceptData, Last
  <2>2. CASE log[Len(log)].cmd = "LIST" /\ log' = Reply(226)
    <3>1. log'[Len(log')].cmd = "LIST"
      BY <2>1, <2>2, RepliedWith
    <3> QED BY <2>1, <3>1, NoUpload
  <2>3. CASE handler' = "receive"
    BY <2>1, <2>3, NoUpload
  <2> QED BY <2>1, <2>2, <2>3
<1>11. CASE AcceptFails
  <2>1. handler = "accept" /\ upload' = upload /\ log' = Reply(425)
    BY <1>11 DEF AcceptFails
  <2>2. Final(log'[Len(log')]) = 425
    BY <2>1, RepliedWith
  <2> QED BY <2>1, <2>2, NoUpload
<1>12. CASE UploadEnds
  <2>1. handler = "receive" /\ upload' /\ handler' = "publish" /\ log' = Reply(226)
    BY <1>12 DEF UploadEnds
  <2>2. log[Len(log)].cmd = "STOR"
    BY <2>1 DEF FTPInv, Midway
  <2>3. log'[Len(log')].cmd = "STOR" /\ Final(log'[Len(log')]) = 226
    BY <2>1, <2>2, RepliedWith
  <2> QED BY <2>1, <2>3 DEF UploadTold
<1>13. CASE Publish
  BY <1>13 DEF Publish, UploadTold
<1>14. CASE Receive \/ Top \/ ReadFails \/ Return
  <2>1. handler # "publish" /\ handler' # "publish" /\ upload' = upload
    BY <1>14 DEF Receive, Top, ReadFails, Return
  <2> QED BY <2>1, NoUpload
<1>15. CASE ClientLeaves \/ Cancel \/ Data \/ UNCHANGED ftpVars
  <2>1. UNCHANGED <<handler, log, upload>>
    BY <1>15 DEF ClientLeaves, Cancel, Data, Dial, DataSend, DataClose, ftpVars
  <2> QED BY <2>1 DEF UploadTold, Final, Last
<1>16. CASE Dispatch
  BY <1>2, <1>3, <1>4, <1>5, <1>6, <1>7, <1>8, <1>9, <1>16 DEF Dispatch
<1>17. CASE Handler
  BY <1>10, <1>12, <1>13, <1>14, <1>17 DEF Handler
<1> QED BY <1>11, <1>15, <1>16, <1>17 DEF Next

(* The inductive invariant of a connection. *)
THEOREM FTPInductive == Spec => [](FTPInv /\ UploadTold)
<1>1. Init => UploadTold
  BY DEF Init, UploadTold
<1> QED BY <1>1, FTPInit, FTPStep, UploadStep, PTL DEF Spec

(* recvUpload keeps no more than its limit, and a data connection is open   *)
(* exactly while an upload is read.                                         *)
THEOREM TypeCorrect == Spec => []TypeOK
<1>1. FTPInv => TypeOK
  BY DEF FTPInv
<1> QED BY <1>1, FTPInductive, PTL

(* The port the last 227 named is open until it is used and no other is:    *)
(* openPASV, acceptData and close leave no listener behind.                 *)
THEOREM ListenersAsToldHolds == Spec => []ListenersAsTold
<1>1. FTPInv => ListenersAsTold
  BY DEF FTPInv
<1> QED BY <1>1, FTPInductive, PTL

(* dispatch gives every command one final reply before the next is read,    *)
(* and handleConnection publishes what that reply says has happened.        *)
THEOREM AnsweredHolds == Spec => []Answered
<1>1. FTPInv => Answered
  BY DEF FTPInv
<1> QED BY <1>1, FTPInductive, PTL
-----------------------------------------------------------------------------
(* Walk, of any log, as the loop over it: where a command leads from v.      *)
WalkOn(v, e) == IF e.path.absolute THEN Steps(e) ELSE v \o Steps(e)

IsWalk(f, l) ==
    f = [n \in 0..Len(l) |-> IF n = 0 THEN <<>>
                             ELSE IF l[n].path.absolute THEN Steps(l[n])
                             ELSE f[n - 1] \o Steps(l[n])]

WalkFn(l) == CHOOSE f : IsWalk(f, l)
WalkOf(l) == WalkFn(l)[Len(l)]

LEMMA WalkIs == Walk = WalkOf(log) /\ Walk' = WalkOf(log')
BY DEF Walk, WalkOf, WalkFn, IsWalk

(* What f has after each of the first n commands of l. *)
Follows(f, l, n) == \A k \in 0..n : f[k] = IF k = 0 THEN <<>> ELSE WalkOn(f[k - 1], l[k])

(* Any number of commands can be followed. *)
LEMMA WalkExists ==
    ASSUME NEW l
    PROVE  \A n \in Nat : \E f : f = [k \in 0..n |-> f[k]] /\ Follows(f, l, n)
<1> DEFINE T == {n \in Nat : ~\E f : f = [k \in 0..n |-> f[k]] /\ Follows(f, l, n)}
<1>1. ASSUME T # {} PROVE FALSE
  <2>1. PICK n \in T : \A m \in T : n <= m
    <3>1. T \in SUBSET Nat
      OBVIOUS
    <3> HIDE DEF T
    <3> QED BY <1>1, <3>1, LeastOf
  <2>2. n # 0
    <3>1. ASSUME n = 0 PROVE FALSE
      <4> DEFINE z == [k \in 0..0 |-> <<>>]
      <4>1. z = [k \in 0..0 |-> z[k]] /\ Follows(z, l, 0)
        BY DEF Follows
      <4> HIDE DEF z
      <4> QED BY <3>1, <4>1
    <3> QED BY <3>1
  <2>3. PICK m \in Nat : m + 1 = n
    <3>1. n - 1 \in Nat /\ (n - 1) + 1 = n
      BY <2>2
    <3> QED BY <3>1
  <2>4. m \notin T
    <3>1. ~(n <= m)
      BY <2>3
    <3> HIDE DEF T
    <3> QED BY <2>1, <3>1
  <2>5. PICK f : f = [k \in 0..m |-> f[k]] /\ Follows(f, l, m)
    BY <2>4
  <2> DEFINE g == [k \in 0..n |-> IF k = n THEN WalkOn(f[m], l[n]) ELSE f[k]]
  <2>6. g = [k \in 0..n |-> g[k]]
    OBVIOUS
  <2>7. ASSUME NEW k \in 0..n
        PROVE  g[k] = IF k = 0 THEN <<>> ELSE WalkOn(g[k - 1], l[k])
    <3>1. CASE k = n
      <4>1. g[n] = WalkOn(f[m], l[n]) /\ m \in 0..n /\ m # n /\ n - 1 = m /\ n \in 0..n
        BY <2>3
      <4>2. g[m] = f[m]
        BY <4>1
      <4> HIDE DEF g
      <4> QED BY <2>2, <3>1, <4>1, <4>2
    <3>2. CASE k # n /\ k # 0
      <4>1. k \in 0..m /\ k - 1 \in 0..m /\ k - 1 \in 0..n /\ k - 1 # n
        BY <2>3, <3>2
      <4>2. g[k] = f[k] /\ g[k - 1] = f[k - 1]
        BY <3>2, <4>1
      <4>3. f[k] = WalkOn(f[k - 1], l[k])
        BY <2>5, <3>2, <4>1 DEF Follows
      <4> HIDE DEF g
      <4> QED BY <3>2, <4>2, <4>3
    <3>3. CASE k = 0
      <4>1. g[0] = f[0] /\ 0 \in 0..m
        BY <2>2, <2>3
      <4>2. f[0] = <<>>
        BY <2>5, <4>1 DEF Follows
      <4> HIDE DEF g
      <4> QED BY <3>3, <4>1, <4>2
    <3> QED BY <3>1, <3>2, <3>3
  <2> HIDE DEF g
  <2>8. Follows(g, l, n)
    BY <2>7 DEF Follows
  <2> QED BY <2>6, <2>8
<1> QED BY <1>1

(* The walk follows its log. *)
LEMMA WalkFollows ==
    ASSUME NEW l \in Seq(Entries)
    PROVE  Len(l) \in Nat /\ Follows(WalkFn(l), l, Len(l))
<1>1. PICK n \in Nat : n = Len(l)
  OBVIOUS
<1>2. PICK f : f = [k \in 0..n |-> f[k]] /\ Follows(f, l, n)
  BY WalkExists
<1>3. \A k \in 0..n : f[k] = IF k = 0 THEN <<>>
                             ELSE IF l[k].path.absolute THEN Steps(l[k])
                             ELSE f[k - 1] \o Steps(l[k])
  BY <1>2 DEF Follows, WalkOn
<1>4. IsWalk(f, l)
  BY <1>1, <1>2, <1>3 DEF IsWalk
<1>5. PICK w : w = WalkFn(l) /\ IsWalk(w, l)
  BY <1>4 DEF WalkFn
<1>6. Follows(w, l, n)
  <2>1. w = [k \in 0..n |-> IF k = 0 THEN <<>>
                            ELSE IF l[k].path.absolute THEN Steps(l[k])
                            ELSE w[k - 1] \o Steps(l[k])]
    BY <1>1, <1>5 DEF IsWalk
  <2>2. \A k \in 0..n : w[k] = IF k = 0 THEN <<>>
                               ELSE IF l[k].path.absolute THEN Steps(l[k])
                               ELSE w[k - 1] \o Steps(l[k])
    BY <2>1
  <2> QED BY <2>2 DEF Follows, WalkOn
<1> QED BY <1>1, <1>5, <1>6

(* Two walks are the same as long as the commands lead the same way. *)
LEMMA WalksAgree ==
    ASSUME NEW f, NEW g, NEW l, NEW m, NEW n \in Nat, Follows(f, l, n), Follows(g, m, n),
           \A k \in 1..n : l[k].path = m[k].path /\ l[k].cmd = m[k].cmd
    PROVE  \A k \in 0..n : f[k] = g[k]
<1> DEFINE T == {k \in 0..n : f[k] # g[k]}
<1>1. ASSUME T # {} PROVE FALSE
  <2>1. PICK k \in T : \A j \in T : k <= j
    <3>1. T \in SUBSET Nat
      OBVIOUS
    <3> HIDE DEF T
    <3> QED BY <1>1, <3>1, LeastOf
  <2>2. k # 0
    BY DEF Follows
  <2>3. k \in 1..n /\ k - 1 \in 0..n /\ ~(k <= k - 1)
    BY <2>2
  <2>4. f[k - 1] = g[k - 1]
    <3>1. k - 1 \notin T
      <4> HIDE DEF T
      <4> QED BY <2>1, <2>3
    <3> QED BY <2>3, <3>1
  <2>5. f[k] = WalkOn(f[k - 1], l[k]) /\ g[k] = WalkOn(g[k - 1], m[k])
    BY <2>2, <2>3 DEF Follows
  <2>6. WalkOn(f[k - 1], l[k]) = WalkOn(f[k - 1], m[k])
    BY <2>3 DEF WalkOn, Steps
  <2>7. f[k] = g[k]
    BY <2>4, <2>5, <2>6
  <2> QED BY <2>7
<1> QED BY <1>1

(* A walk takes one command after another ... *)
LEMMA WalkAppended ==
    ASSUME NEW l \in Seq(Entries), NEW e \in Entries
    PROVE  WalkOf(Append(l, e)) = WalkOn(WalkOf(l), e)
<1>1. PICK n \in Nat : n = Len(l)
  OBVIOUS
<1>2. PICK m \in Seq(Entries) :
          /\ m = Append(l, e) /\ Len(m) = n + 1 /\ m[n + 1] = e
          /\ \A k \in 1..n : m[k] = l[k]
  <2>1. /\ Append(l, e) \in Seq(Entries) /\ Len(Append(l, e)) = Len(l) + 1
        /\ Append(l, e)[Len(l) + 1] = e
        /\ \A k \in 1..Len(l) : Append(l, e)[k] = l[k]
    BY AppendProperties
  <2> QED BY <1>1, <2>1
<1>3. PICK f : f = WalkFn(l) /\ Follows(f, l, n)
  BY <1>1, WalkFollows
<1>4. PICK g : g = WalkFn(m) /\ Follows(g, m, n + 1)
  BY <1>2, WalkFollows
<1>5. Follows(g, m, n)
  BY <1>4 DEF Follows
<1>6. f[n] = g[n]
  <2>1. \A k \in 1..n : l[k].path = m[k].path /\ l[k].cmd = m[k].cmd
    BY <1>2
  <2>2. \A k \in 0..n : f[k] = g[k]
    BY <1>3, <1>5, <2>1, WalksAgree
  <2> QED BY <2>2
<1>7. g[n + 1] = WalkOn(g[n], e)
  <2>1. n + 1 \in 0..(n + 1) /\ n + 1 # 0 /\ (n + 1) - 1 = n
    OBVIOUS
  <2> QED BY <1>2, <1>4, <2>1 DEF Follows
<1> QED BY <1>1, <1>2, <1>3, <1>4, <1>6, <1>7 DEF WalkOf

(* ... and does not look at replies and events. *)
LEMMA WalkSame ==
    ASSUME NEW l \in Seq(Entries), NEW m \in Seq(Entries), Len(l) = Len(m),
           \A k \in 1..Len(l) : l[k].path = m[k].path /\ l[k].cmd = m[k].cmd
    PROVE  WalkOf(l) = WalkOf(m)
<1>1. PICK n \in Nat : n = Len(l) /\ n = Len(m)
  OBVIOUS
<1>2. Follows(WalkFn(l), l, n) /\ Follows(WalkFn(m), m, n)
  BY <1>1, WalkFollows
<1>3. \A k \in 0..n : WalkFn(l)[k] = WalkFn(m)[k]
  BY <1>1, <1>2, WalksAgree
<1> QED BY <1>1, <1>3 DEF WalkOf

(* Where a command leads. *)
LEMMA StepsAre ==
    ASSUME NEW e \in Entries
    PROVE  Steps(e) \in Seq(Part) /\ e.path.absolute \in BOOLEAN
<1>1. ".." \in Part
  BY UpIsPart
<1>2. <<"..">> \in Seq(Part)
  BY <1>1
<1>3. <<>> \in Seq(Part)
  BY EmptySeq
<1>4. e.path \in [absolute : BOOLEAN, parts : Seq(Part)]
  <2>1. e.path \in CwdPaths \/ e.path = [absolute |-> FALSE, parts |-> <<>>]
    BY DEF Entries, EntryPaths, NoPath, Relative
  <2>2. [absolute |-> FALSE, parts |-> <<>>] \in [absolute : BOOLEAN, parts : Seq(Part)]
    BY <1>3
  <2>3. CwdPaths \subseteq [absolute : BOOLEAN, parts : Seq(Part)]
    BY FTPAssumption
  <2> QED BY <2>1, <2>2, <2>3
<1> QED BY <1>2, <1>4 DEF Steps

(* A walk is a sequence of parts. *)
LEMMA WalkType ==
    ASSUME NEW l \in Seq(Entries)
    PROVE  WalkOf(l) \in Seq(Part)
<1>1. PICK n \in Nat : n = Len(l)
  OBVIOUS
<1>2. PICK f : f = WalkFn(l) /\ Follows(f, l, n)
  BY <1>1, WalkFollows
<1> DEFINE T == {k \in 0..n : f[k] \notin Seq(Part)}
<1>3. ASSUME T # {} PROVE FALSE
  <2>1. PICK k \in T : \A j \in T : k <= j
    <3>1. T \in SUBSET Nat
      OBVIOUS
    <3> HIDE DEF T
    <3> QED BY <1>3, <3>1, LeastOf
  <2>2. k # 0
    BY <1>2, EmptySeq DEF Follows
  <2>3. k \in 1..n /\ k - 1 \in 0..n /\ ~(k <= k - 1)
    BY <2>2
  <2>4. f[k - 1] \in Seq(Part)
    <3>1. k - 1 \notin T
      <4> HIDE DEF T
      <4> QED BY <2>1, <2>3
    <3> QED BY <2>3, <3>1
  <2>5. f[k] = WalkOn(f[k - 1], l[k])
    BY <1>2, <2>2, <2>3 DEF Follows
  <2>6. l[k] \in Entries
    BY <1>1, <2>3
  <2>7. f[k] \in Seq(Part)
    <3>1. Steps(l[k]) \in Seq(Part)
      BY <2>6, StepsAre
    <3> QED BY <2>4, <2>5, <3>1, ConcatProperties DEF WalkOn
  <2> QED BY <2>7
<1>4. f[n] \in Seq(Part)
  BY <1>3
<1> QED BY <1>1, <1>2, <1>4 DEF WalkOf
-----------------------------------------------------------------------------
(* A command that names no path stays where it is. *)
LEMMA NoPathStays ==
    ASSUME LogOK, CwdAgrees, UNCHANGED cwd, NEW cmd \in Commands \ {"CDUP"},
           NEW code \in Nat, Logged(cmd, NoPath, <<code>>)
    PROVE  CwdAgrees'
<1>1. PICK e \in Entries : e = Entry(cmd, NoPath, <<code>>)
  <2>1. NoPath \in EntryPaths
    BY DEF EntryPaths
  <2> QED BY <2>1, EntryIs
<1>2. log' = Append(log, e) /\ e.path = NoPath /\ e.cmd = cmd
  BY <1>1 DEF Logged, Entry
<1>3. Steps(e) = <<>> /\ ~e.path.absolute
  BY <1>2 DEF Steps, NoPath, Relative
<1>4. WalkOf(log') = WalkOf(log)
  <2>1. WalkOf(log') = WalkOf(log) \o <<>>
    BY <1>2, <1>3, WalkAppended DEF LogOK, WalkOn
  <2>2. WalkOf(log) \in Seq(Part)
    BY WalkType DEF LogOK
  <2> QED BY <2>1, <2>2, ConcatEmptySeq
<1>5. Walk' = Walk
  BY <1>4, WalkIs
<1> QED BY <1>5 DEF CwdAgrees

(* CWD: resolveFTPPath cleans the path behind the working directory, or the  *)
(* absolute path alone.                                                      *)
LEMMA CwdGoes ==
    ASSUME LogOK, CwdAgrees, NEW path \in CwdPaths, Cwd(path)
    PROVE  CwdAgrees'
<1>1. PICK e \in Entries : e = Entry("CWD", path, <<250>>)
  <2>1. "CWD" \in Commands /\ path \in EntryPaths /\ 250 \in Nat
    BY DEF Commands, EntryPaths
  <2> QED BY <2>1, EntryIs
<1>2. log' = Append(log, e) /\ e.path = path /\ e.cmd = "CWD"
  BY <1>1 DEF Cwd, Logged, Entry
<1>3. /\ Steps(e) = path.parts /\ path.parts \in Seq(Part) /\ path.absolute \in BOOLEAN
  BY <1>2, StepsAre DEF Steps
<1>4. PICK w \in Seq(Part) : w = WalkOf(log)
  BY WalkType DEF LogOK
<1>5. cwd = Canonical(w)
  BY <1>4, WalkIs DEF CwdAgrees
<1>6. WalkOf(log') = IF path.absolute THEN path.parts ELSE w \o path.parts
  BY <1>2, <1>3, <1>4, WalkAppended DEF LogOK, WalkOn
<1>7. cwd' = cleanFTPPath(IF path.absolute THEN path.parts ELSE cwd \o path.parts)
  BY DEF Cwd, resolveFTPPath
<1>8. cwd' = Canonical(WalkOf(log'))
  <2>1. CASE path.absolute
    BY <1>3, <1>6, <1>7, <2>1, CleanIs
  <2>2. CASE ~path.absolute
    BY <1>3, <1>5, <1>6, <1>7, <2>2, ResolvedIn
  <2> QED BY <2>1, <2>2
<1> QED BY <1>8, WalkIs DEF CwdAgrees

(* CDUP: parentFTPPath is what a ".." would do. *)
LEMMA CdupGoes ==
    ASSUME LogOK, CwdAgrees, Cdup
    PROVE  CwdAgrees'
<1>1. PICK e \in Entries : e = Entry("CDUP", NoPath, <<250>>)
  <2>1. "CDUP" \in Commands /\ NoPath \in EntryPaths /\ 250 \in Nat
    BY DEF Commands, EntryPaths
  <2> QED BY <2>1, EntryIs
<1>2. log' = Append(log, e) /\ e.path = NoPath /\ e.cmd = "CDUP"
  BY <1>1 DEF Cdup, Logged, Entry
<1>3. Steps(e) = <<"..">> /\ ~e.path.absolute
  BY <1>2 DEF Steps, NoPath, Relative
<1>4. PICK w \in Seq(Part) : w = WalkOf(log)
  BY WalkType DEF LogOK
<1>5. cwd = Canonical(w)
  BY <1>4, WalkIs DEF CwdAgrees
<1>6. WalkOf(log') = w \o <<"..">>
  BY <1>2, <1>3, <1>4, WalkAppended DEF LogOK, WalkOn
<1>7. ".." \in Part
  BY UpIsPart
<1>8. w \o <<"..">> = Append(w, "..")
  BY <1>7
<1>9. Canonical(WalkOf(log')) = CleanFTPPart(cwd, "..")
  BY <1>5, <1>6, <1>7, <1>8, CanonicalNext
<1>10. cwd' = CleanFTPPart(cwd, "..")
  BY CleanPartIs DEF Cdup, parentFTPPath
<1> QED BY <1>9, <1>10, WalkIs DEF CwdAgrees

(* A command that is answered or published later stays where it is, too. *)
LEMMA RewrittenStays ==
    ASSUME LogOK, LogOK', CwdAgrees, UNCHANGED cwd, log # <<>>,
           \/ \E code : log' = Reply(code)
           \/ \E v : log' = [log EXCEPT ![Len(log)].events = v]
    PROVE  CwdAgrees'
<1>1. PICK n \in Nat : n = Len(log)
  BY DEF LogOK
<1>2. n \in DOMAIN log /\ log[n] \in Entries
  BY <1>1 DEF LogOK
<1>3. PICK e : /\ e.cmd = log[n].cmd /\ e.path = log[n].path
               /\ log' = [log EXCEPT ![n] = e]
  <2>1. PICK r \in Entries : r = log[n]
    BY <1>2
  <2>2. ASSUME NEW code, log' = Reply(code)
        PROVE  \E e : /\ e.cmd = log[n].cmd /\ e.path = log[n].path
                      /\ log' = [log EXCEPT ![n] = e]
    <3>1. PICK c : c = Append(r.codes, code)
      OBVIOUS
    <3>2. log' = [log EXCEPT ![n] = [r EXCEPT !.codes = c]]
      BY <1>1, <2>1, <2>2, <3>1 DEF Reply
    <3>3. [r EXCEPT !.codes = c].cmd = r.cmd /\ [r EXCEPT !.codes = c].path = r.path
      BY DEF Entries
    <3> QED BY <2>1, <3>2, <3>3
  <2>3. ASSUME NEW v, log' = [log EXCEPT ![Len(log)].events = v]
        PROVE  \E e : /\ e.cmd = log[n].cmd /\ e.path = log[n].path
                      /\ log' = [log EXCEPT ![n] = e]
    <3>1. log' = [log EXCEPT ![n] = [r EXCEPT !.events = v]]
      BY <1>1, <2>1, <2>3
    <3>2. [r EXCEPT !.events = v].cmd = r.cmd /\ [r EXCEPT !.events = v].path = r.path
      BY DEF Entries
    <3> QED BY <2>1, <3>1, <3>2
  <2> QED BY <2>2, <2>3
<1>4. Len(log') = Len(log) /\ \A k \in 1..Len(log) : k # n => log'[k] = log[k]
  BY <1>1, <1>2, <1>3 DEF LogOK
<1>5. log'[n] = e
  BY <1>2, <1>3
<1>6. \A k \in 1..Len(log) : log[k].path = log'[k].path /\ log[k].cmd = log'[k].cmd
  BY <1>3, <1>4, <1>5
<1>7. WalkOf(log) = WalkOf(log')
  BY <1>4, <1>6, WalkSame DEF LogOK
<1> QED BY <1>7, WalkIs DEF CwdAgrees

(* Every step leaves the working directory where the commands lead. *)
LEMMA CwdStep == FTPInv /\ UploadTold /\ CwdAgrees /\ [Next]_ftpVars => CwdAgrees'
<1> SUFFICES ASSUME FTPInv, UploadTold, CwdAgrees, [Next]_ftpVars PROVE CwdAgrees'
  OBVIOUS
<1>0. LogOK /\ LogOK'
  BY FTPStep DEF FTPInv
<1>1. CASE Dispatch
  <2>1. ASSUME NEW cmd \in Plain, Answer(cmd) PROVE CwdAgrees'
    <3>1. Codes[cmd] \in Nat /\ cmd \in Commands
      BY CodesFinal, FTPAssumption
    <3>2. cmd # "CDUP"
      BY FTPAssumption DEF PlainCommands
    <3> QED BY <1>0, <2>1, <3>1, <3>2, NoPathStays DEF Answer
  <2>2. CASE User
    <3>1. "USER" \in Commands \ {"CDUP"}
      BY DEF Commands
    <3> QED BY <1>0, <2>2, <3>1, NoPathStays DEF User
  <2>3. ASSUME NEW cmd \in {"PASS", "PASS-EMPTY"}, Pass(cmd) PROVE CwdAgrees'
    <3>1. cmd \in Commands \ {"CDUP"}
      BY DEF Commands
    <3> QED BY <1>0, <2>3, <3>1, NoPathStays DEF Pass
  <2>4. CASE openPASV \/ Retr
    <3>1. "PASV" \in Commands \ {"CDUP"} /\ "RETR" \in Commands \ {"CDUP"}
      BY DEF Commands, Passive
    <3>2. CASE openPASV
      BY <1>0, <3>1, <3>2, NoPathStays DEF openPASV
    <3>3. CASE Retr
      BY <1>0, <3>1, <3>3, NoPathStays DEF Retr
    <3> QED BY <2>4, <3>2, <3>3
  <2>5. ASSUME NEW cmd \in {"LIST", "STOR"}, Transfer(cmd) PROVE CwdAgrees'
    <3>1. cmd \in Commands \ {"CDUP"}
      BY DEF Commands, Passive
    <3> QED BY <1>0, <2>5, <3>1, NoPathStays DEF Transfer
  <2> QED BY <1>0, <1>1, <2>1, <2>2, <2>3, <2>4, <2>5, CwdGoes, CdupGoes DEF Dispatch
<1>2. CASE AcceptData \/ AcceptFails \/ UploadEnds
  <2>1. log # <<>> /\ UNCHANGED cwd
    BY <1>2 DEF AcceptData, AcceptFails, UploadEnds, FTPInv, Midway
  <2>2. UNCHANGED log \/ \E code : log' = Reply(code)
    BY <1>2 DEF AcceptData, AcceptFails, UploadEnds
  <2>3. CASE UNCHANGED log
    BY <2>1, <2>3, WalkIs DEF CwdAgrees
  <2> QED BY <1>0, <2>1, <2>2, <2>3, RewrittenStays
<1>3. CASE Publish
  <2>1. log # <<>> /\ UNCHANGED cwd
    BY <1>3 DEF Publish, FTPInv, Midway
  <2>2. \E v : log' = [log EXCEPT ![Len(log)].events = v]
    BY <1>3 DEF Publish
  <2> QED BY <1>0, <2>1, <2>2, RewrittenStays
<1>4. ASSUME UNCHANGED <<cwd, log>> PROVE CwdAgrees'
  BY <1>4, WalkIs DEF CwdAgrees
<1>5. CASE Receive \/ Top \/ ReadFails \/ Return
  BY <1>4, <1>5 DEF Receive, Top, ReadFails, Return
<1>6. CASE ClientLeaves \/ Cancel \/ Data \/ UNCHANGED ftpVars
  BY <1>4, <1>6 DEF ClientLeaves, Cancel, Data, Dial, DataSend, DataClose, ftpVars
<1> QED BY <1>1, <1>2, <1>3, <1>5, <1>6 DEF Next, Handler

(* The connection begins in the root. *)
LEMMA CwdInit == Init => CwdAgrees
<1> SUFFICES ASSUME Init PROVE CwdAgrees
  OBVIOUS
<1>1. cwd = <<>> /\ log = <<>>
  BY DEF Init
<1>2. PICK l \in Seq(Entries) : l = <<>> /\ Len(l) = 0
  BY EmptySeq
<1>3. WalkFn(l)[0] = <<>>
  <2>1. Follows(WalkFn(l), l, 0)
    BY <1>2, WalkFollows
  <2> QED BY <2>1 DEF Follows
<1>4. WalkOf(log) = <<>>
  BY <1>1, <1>2, <1>3 DEF WalkOf
<1> QED BY <1>1, <1>4, WalkIs, CanonicalEmpty DEF CwdAgrees

(* The working directory resolveFTPPath and parentFTPPath keep is the one    *)
(* that all the commands since the last absolute path lead to as one path,   *)
(* whatever the paths and however long.                                      *)
THEOREM CwdAgreesHolds == Spec => []CwdAgrees
<1>1. FTPInv /\ UploadTold /\ CwdAgrees /\ [Next]_ftpVars => CwdAgrees'
  BY CwdStep
<1> QED BY <1>1, CwdInit, FTPInductive, PTL DEF Spec
=============================================================================
