----------------------------- MODULE LogProofs ------------------------------
(***************************************************************************)
(* Proofs about the log of one symbol, for any number of records,          *)
(* segments, faults and crashes.  First, what a reader makes of the        *)
(* segments: when each is named for the position that follows the one      *)
(* before it, the segments read in the order of their names are one        *)
(* sequence, in which a record is at the position it has in its segment.   *)
(* Then the log itself, with an inductive invariant of two parts.  GInv    *)
(* holds on every file system: the Writer is on the newest segment, what   *)
(* it holds continues that segment, and a segment that is not ready is the *)
(* newest and empty.  SInv needs a file's name to be as durable as its     *)
(* data: all segments but the newest are on the disk, completely, so that  *)
(* a step of the Writer or a crash changes only the end of the log.        *)
(***************************************************************************)
EXTENDS Log, SequenceTheorems, FiniteSetTheorems, WellFoundedInduction, TLAPS

-----------------------------------------------------------------------------
(* Induction and maxima.                                                   *)

(* A set of numbers that has 0 and the successor of each of its members. *)
LEMMA AllNumbers ==
    ASSUME NEW G \in SUBSET Nat, 0 \in G, \A n \in G : n + 1 \in G
    PROVE  \A n \in Nat : n \in G
<1>1. SUFFICES ASSUME Nat \ G # {} PROVE FALSE
  OBVIOUS
<1>2. IsWellFoundedOn(OpToRel(<, Nat), Nat)
  BY NatLessThanWellFounded
<1>3. Nat \ G \subseteq Nat
  OBVIOUS
<1>4. PICK u \in Nat \ G : \A v \in Nat \ G : ~(<<v, u>> \in OpToRel(<, Nat))
  BY <1>1, <1>2, <1>3, WFMin
<1>5. \A v \in Nat \ G : ~(v < u)
  BY <1>4 DEF OpToRel
<1>6. u # 0 /\ u - 1 \in Nat /\ u - 1 < u /\ (u - 1) + 1 = u
  <2>1. u \in Nat /\ u # 0
    OBVIOUS
  <2>2. QED
    BY <2>1
<1>7. u - 1 \in G
  BY <1>5, <1>6
<1>8. QED
  BY <1>4, <1>6, <1>7

(* Max of a set of numbers with an upper bound. *)
LEMMA MaxProperties ==
    ASSUME NEW S \in SUBSET Nat, S # {}, NEW b \in Nat, \A n \in S : n <= b
    PROVE  Max(S) \in S /\ \A n \in S : n <= Max(S)
<1> DEFINE U == { u \in Nat : \A n \in S : n <= u }
<1>1. IsWellFoundedOn(OpToRel(<, Nat), Nat)
  BY NatLessThanWellFounded
<1>2. U \subseteq Nat /\ U # {}
  OBVIOUS
<1>3. PICK u \in U : \A v \in U : ~(<<v, u>> \in OpToRel(<, Nat))
  BY <1>1, <1>2, WFMin
<1>4. \A v \in U : ~(v < u)
  BY <1>3 DEF OpToRel
<1>5. u \in S
  <2>1. SUFFICES ASSUME u \notin S PROVE FALSE
    OBVIOUS
  <2>2. u # 0 /\ u \in Nat
    <3>1. PICK n \in S : n <= u /\ n # u
      BY <2>1
    <3>2. n \in Nat /\ u \in Nat
      OBVIOUS
    <3>3. QED
      BY <3>1, <3>2
  <2>3. \A n \in S : n <= u - 1
    BY <2>1, <2>2
  <2>4. u - 1 \in U
    BY <2>2, <2>3
  <2>5. QED
    BY <2>2, <2>4, <1>4
<1>6. \E m \in S : \A n \in S : m >= n
  BY <1>5
<1>7. QED
  BY <1>6 DEF Max

-----------------------------------------------------------------------------
(* The function that InOrder computes with.                                *)

(* f[n] is what is read of the segments named 1 to n. *)
Reads(files, N, f) ==
    f = [n \in 0 .. N |->
           IF n = 0 THEN <<>>
           ELSE IF n \in DOMAIN files THEN f[n - 1] \o files[n] ELSE f[n - 1]]

LEMMA ReadsExists ==
    ASSUME NEW files
    PROVE  \A N \in Nat : \E f : Reads(files, N, f)
<1> DEFINE G == { N \in Nat : \E f : Reads(files, N, f) }
<1>1. 0 \in G
  <2>1. \A n \in 0 .. 0 : n = 0
    OBVIOUS
  <2>2. Reads(files, 0, [n \in 0 .. 0 |-> <<>>])
    BY <2>1 DEF Reads
  <2>3. QED
    BY <2>2
<1>2. ASSUME NEW N \in G PROVE N + 1 \in G
  <2>1. PICK f : Reads(files, N, f)
    OBVIOUS
  <2> DEFINE last == IF N + 1 \in DOMAIN files THEN f[N] \o files[N + 1] ELSE f[N]
             g == [n \in 0 .. N + 1 |-> IF n = N + 1 THEN last ELSE f[n]]
             step(n) == IF n = 0 THEN <<>>
                        ELSE IF n \in DOMAIN files THEN g[n - 1] \o files[n] ELSE g[n - 1]
  <2>2. N \in Nat
    OBVIOUS
  <2>3. ASSUME NEW n \in 0 .. N + 1 PROVE g[n] = step(n)
    <3>1. CASE n = N + 1
      <4>1. n # 0 /\ n - 1 = N /\ n - 1 \in 0 .. N + 1 /\ n - 1 # N + 1
        BY <2>2, <3>1
      <4>2. g[n] = last /\ g[n - 1] = f[N]
        BY <3>1, <4>1
      <4>3. QED
        BY <3>1, <4>1, <4>2
    <3>2. CASE n # N + 1
      <4>1. n \in 0 .. N
        BY <2>2, <3>2
      <4>2. g[n] = f[n]
        BY <3>2
      <4>3. f[n] = IF n = 0 THEN <<>>
                   ELSE IF n \in DOMAIN files THEN f[n - 1] \o files[n] ELSE f[n - 1]
        BY <2>1, <4>1 DEF Reads
      <4>4. n # 0 => n - 1 \in 0 .. N + 1 /\ n - 1 # N + 1
        BY <2>2, <4>1
      <4>5. n # 0 => g[n - 1] = f[n - 1]
        BY <4>4
      <4>6. QED
        BY <4>2, <4>3, <4>5
    <3>3. QED
      BY <3>1, <3>2
  <2>4. g = [n \in 0 .. N + 1 |-> step(n)]
    BY <2>3
  <2>5. Reads(files, N + 1, g)
    BY <2>4 DEF Reads
  <2>6. QED
    BY <2>2, <2>5
<1>3. QED
  <2>1. G \in SUBSET Nat /\ \A n \in G : n + 1 \in G
    BY <1>2
  <2> HIDE DEF G
  <2>2. \A n \in Nat : n \in G
    BY <1>1, <2>1, AllNumbers
  <2>3. QED
    BY <2>2 DEF G

(* What is read up to a name is decided by the segments up to it. *)
LEMMA ReadsAgree ==
    ASSUME NEW one, NEW two, NEW M \in Nat, NEW N \in Nat, NEW f, NEW g,
           Reads(one, M, f), Reads(two, N, g), NEW b \in Nat, b <= M, b <= N,
           \A n \in 1 .. b : n \in DOMAIN one <=> n \in DOMAIN two,
           \A n \in 1 .. b : n \in DOMAIN one => one[n] = two[n]
    PROVE  f[b] = g[b]
<1> DEFINE G == { k \in Nat : k <= b => f[k] = g[k] }
<1>1. 0 \in G
  BY DEF Reads
<1>2. ASSUME NEW k \in G PROVE k + 1 \in G
  <2>1. k \in Nat
    OBVIOUS
  <2>2. SUFFICES ASSUME k + 1 <= b PROVE f[k + 1] = g[k + 1]
    BY <2>1
  <2>3. k + 1 \in 1 .. b /\ k + 1 \in 0 .. M /\ k + 1 \in 0 .. N /\ k + 1 # 0
        /\ (k + 1) - 1 = k /\ k <= b
    BY <2>1, <2>2
  <2>4. f[k] = g[k]
    BY <2>3
  <2>5. f[k + 1] = IF k + 1 \in DOMAIN one THEN f[k] \o one[k + 1] ELSE f[k]
    BY <2>3 DEF Reads
  <2>6. g[k + 1] = IF k + 1 \in DOMAIN two THEN g[k] \o two[k + 1] ELSE g[k]
    BY <2>3 DEF Reads
  <2>7. (k + 1 \in DOMAIN one <=> k + 1 \in DOMAIN two)
        /\ (k + 1 \in DOMAIN one => one[k + 1] = two[k + 1])
    BY <2>3
  <2>8. QED
    BY <2>4, <2>5, <2>6, <2>7
<1>3. QED
  <2>1. G \in SUBSET Nat /\ \A n \in G : n + 1 \in G
    BY <1>2
  <2> HIDE DEF G
  <2>2. b \in G
    BY <1>1, <2>1, AllNumbers
  <2>3. QED
    BY <2>2 DEF G

(* Where there are no segments nothing is read. *)
LEMMA ReadsNothing ==
    ASSUME NEW files, NEW N \in Nat, NEW f, Reads(files, N, f),
           NEW a \in 0 .. N, NEW b \in a .. N, \A n \in DOMAIN files : ~(a < n /\ n <= b)
    PROVE  f[b] = f[a]
<1> DEFINE G == { k \in Nat : a + k <= b => f[a + k] = f[a] }
<1>1. 0 \in G
  OBVIOUS
<1>2. ASSUME NEW k \in G PROVE k + 1 \in G
  <2>1. k \in Nat
    OBVIOUS
  <2>2. SUFFICES ASSUME a + (k + 1) <= b PROVE f[a + (k + 1)] = f[a]
    BY <2>1
  <2>3. a + (k + 1) \in 0 .. N /\ a + (k + 1) # 0 /\ (a + (k + 1)) - 1 = a + k /\ a + k <= b
        /\ a < a + (k + 1)
    BY <2>1, <2>2
  <2>4. f[a + k] = f[a]
    BY <2>3
  <2>5. a + (k + 1) \notin DOMAIN files
    BY <2>2, <2>3
  <2>6. f[a + (k + 1)] = f[(a + (k + 1)) - 1]
    BY <2>3, <2>5 DEF Reads
  <2>7. QED
    BY <2>3, <2>4, <2>6
<1>3. QED
  <2>1. G \in SUBSET Nat /\ \A n \in G : n + 1 \in G
    BY <1>2
  <2>2. b - a \in Nat /\ a + (b - a) = b
    OBVIOUS
  <2> HIDE DEF G
  <2>3. b - a \in G
    BY <1>1, <2>1, <2>2, AllNumbers
  <2>4. QED
    BY <2>2, <2>3 DEF G

-----------------------------------------------------------------------------
(* What InOrder returns.                                                   *)

(* InOrder is what Reads ends in, at the newest name or beyond it. *)
LEMMA InOrderReads ==
    ASSUME NEW files, NEW N \in Nat, DOMAIN files \subseteq 1 .. N, NEW f, Reads(files, N, f)
    PROVE  InOrder(files) = f[N]
<1> DEFINE newest == Max({0} \cup DOMAIN files)
           g == CHOOSE u : Reads(files, newest, u)
<1>1. newest \in {0} \cup DOMAIN files /\ \A n \in {0} \cup DOMAIN files : n <= newest
  <2> DEFINE T == {0} \cup DOMAIN files
  <2>1. T \in SUBSET Nat /\ T # {} /\ \A n \in T : n <= N
    OBVIOUS
  <2> HIDE DEF T
  <2>2. Max(T) \in T /\ \A n \in T : n <= Max(T)
    BY <2>1, MaxProperties
  <2>3. QED
    BY <2>2 DEF T
<1>2. newest \in 0 .. N
  BY <1>1
<1>3. InOrder(files) = g[newest]
  BY DEF InOrder, Reads
<1> HIDE DEF newest
<1>4. newest \in Nat
  BY <1>2
<1>5. Reads(files, newest, g)
  BY <1>4, ReadsExists
<1> HIDE DEF g
<1>6. g[newest] = f[newest]
  BY <1>2, <1>4, <1>5, ReadsAgree
<1>7. \A n \in DOMAIN files : ~(newest < n /\ n <= N)
  BY <1>1, <1>4
<1>8. f[N] = f[newest]
  BY <1>2, <1>7, ReadsNothing
<1>9. QED
  BY <1>3, <1>6, <1>8

(* No segments, no records. *)
LEMMA InOrderOfNone ==
    ASSUME NEW files, DOMAIN files = {}
    PROVE  InOrder(files) = <<>>
<1>1. PICK f : Reads(files, 0, f)
  BY ReadsExists
<1>2. InOrder(files) = f[0]
  BY <1>1, InOrderReads
<1>3. QED
  BY <1>1, <1>2 DEF Reads

(* The segments of records are read as a sequence of records. *)
LEMMA InOrderType ==
    ASSUME NEW S, NEW files, NEW N \in Nat, DOMAIN files \subseteq 1 .. N,
           \A n \in DOMAIN files : files[n] \in Seq(S)
    PROVE  InOrder(files) \in Seq(S)
<1>1. PICK f : Reads(files, N, f)
  BY ReadsExists
<1> DEFINE G == { k \in Nat : k <= N => f[k] \in Seq(S) }
<1>2. 0 \in G
  BY <1>1 DEF Reads
<1>3. ASSUME NEW k \in G PROVE k + 1 \in G
  <2>1. k \in Nat
    OBVIOUS
  <2>2. SUFFICES ASSUME k + 1 <= N PROVE f[k + 1] \in Seq(S)
    BY <2>1
  <2>3. k + 1 \in 0 .. N /\ k + 1 # 0 /\ (k + 1) - 1 = k /\ k <= N
    BY <2>1, <2>2
  <2>4. f[k] \in Seq(S)
    BY <2>3
  <2>5. f[k + 1] = IF k + 1 \in DOMAIN files THEN f[k] \o files[k + 1] ELSE f[k]
    BY <1>1, <2>3 DEF Reads
  <2>6. QED
    BY <2>4, <2>5
<1>4. N \in G
  <2>1. G \in SUBSET Nat /\ \A n \in G : n + 1 \in G
    BY <1>3
  <2> HIDE DEF G
  <2>2. QED
    BY <1>2, <2>1, AllNumbers
<1>5. InOrder(files) = f[N]
  BY <1>1, InOrderReads
<1>6. QED
  BY <1>4, <1>5

(* The newest segment comes last. *)
LEMMA InOrderNewest ==
    ASSUME NEW files, NEW N \in Nat \ {0}, DOMAIN files \subseteq 1 .. N, N \in DOMAIN files
    PROVE  InOrder(files)
             = InOrder([n \in { m \in DOMAIN files : m < N } |-> files[n]]) \o files[N]
<1> DEFINE lower == [n \in { m \in DOMAIN files : m < N } |-> files[n]]
<1>1. PICK f : Reads(files, N, f)
  BY ReadsExists
<1>2. N - 1 \in Nat /\ N - 1 <= N /\ N \in 0 .. N /\ N # 0
  OBVIOUS
<1>3. PICK g : Reads(lower, N - 1, g)
  BY <1>2, ReadsExists
<1>4. DOMAIN lower \subseteq 1 .. N - 1
  OBVIOUS
<1>5. InOrder(lower) = g[N - 1]
  BY <1>2, <1>3, <1>4, InOrderReads
<1>6. InOrder(files) = f[N]
  BY <1>1, InOrderReads
<1>7. f[N] = f[N - 1] \o files[N]
  BY <1>1, <1>2 DEF Reads
<1>8. f[N - 1] = g[N - 1]
  <2>1. \A n \in 1 .. N - 1 : n \in DOMAIN files <=> n \in DOMAIN lower
    OBVIOUS
  <2>2. \A n \in 1 .. N - 1 : n \in DOMAIN files => files[n] = lower[n]
    OBVIOUS
  <2> HIDE DEF lower
  <2>3. QED
    BY <1>1, <1>2, <1>3, <2>1, <2>2, ReadsAgree
<1>9. QED
  BY <1>5, <1>6, <1>7, <1>8

-----------------------------------------------------------------------------
(* What Recover and Durable make of the files.                             *)

(* Segment files with records in S. *)
File(S) ==
    [ok : BOOLEAN, recs : Seq(S), torn : {"no", "mine", "left"}, synced : Nat \cup {-1},
     named : BOOLEAN]

(* The segments older than one. *)
Below(sg, n) == [m \in { x \in DOMAIN sg : x < n } |-> sg[m]]

(* What a crash must leave of a file. *)
Kept(f) == IF f.named THEN SubSeq(f.recs, 1, f.synced) ELSE <<>>

LEMMA RecoverType ==
    ASSUME NEW S, NEW N \in Nat, NEW sg, DOMAIN sg \subseteq 1 .. N,
           \A n \in DOMAIN sg : sg[n] \in File(S)
    PROVE  Recover(sg) \in Seq(S)
<1> DEFINE files == [n \in DOMAIN sg |-> sg[n].recs]
<1>1. DOMAIN files \subseteq 1 .. N
  OBVIOUS
<1>2. \A n \in DOMAIN files : files[n] \in Seq(S)
  BY DEF File
<1> HIDE DEF files
<1>3. InOrder(files) \in Seq(S)
  BY <1>1, <1>2, InOrderType
<1>4. QED
  BY <1>3 DEF Recover, files

LEMMA RecoverOfNone ==
    ASSUME NEW sg, DOMAIN sg = {}
    PROVE  Recover(sg) = <<>>
<1>1. DOMAIN [n \in DOMAIN sg |-> sg[n].recs] = {}
  OBVIOUS
<1>2. QED
  BY <1>1, InOrderOfNone DEF Recover

(* Recover reads nothing but the records. *)
LEMMA RecoverSame ==
    ASSUME NEW one, NEW two, DOMAIN one = DOMAIN two,
           \A n \in DOMAIN one : one[n].recs = two[n].recs
    PROVE  Recover(one) = Recover(two)
<1>1. [n \in DOMAIN one |-> one[n].recs] = [n \in DOMAIN two |-> two[n].recs]
  OBVIOUS
<1>2. QED
  BY <1>1 DEF Recover

LEMMA BelowSame ==
    ASSUME NEW one, NEW two, NEW b,
           \A n : n < b => (n \in DOMAIN one <=> n \in DOMAIN two),
           \A n \in DOMAIN one : n < b => one[n].recs = two[n].recs
    PROVE  Recover(Below(one, b)) = Recover(Below(two, b))
<1>1. DOMAIN Below(one, b) = DOMAIN Below(two, b)
  BY DEF Below
<1>2. \A n \in DOMAIN Below(one, b) : Below(one, b)[n].recs = Below(two, b)[n].recs
  BY DEF Below
<1>3. QED
  BY <1>1, <1>2, RecoverSame

LEMMA BelowType ==
    ASSUME NEW S, NEW N \in Nat, NEW sg, DOMAIN sg \subseteq 1 .. N,
           \A n \in DOMAIN sg : sg[n] \in File(S), NEW b
    PROVE  Recover(Below(sg, b)) \in Seq(S)
<1>1. DOMAIN Below(sg, b) \subseteq 1 .. N
  BY DEF Below
<1>2. \A n \in DOMAIN Below(sg, b) : Below(sg, b)[n] \in File(S)
  BY DEF Below
<1>3. QED
  BY <1>1, <1>2, RecoverType

LEMMA RecoverNewest ==
    ASSUME NEW sg, NEW N \in Nat \ {0}, DOMAIN sg \subseteq 1 .. N, N \in DOMAIN sg
    PROVE  Recover(sg) = Recover(Below(sg, N)) \o sg[N].recs
<1> DEFINE files == [n \in DOMAIN sg |-> sg[n].recs]
           lower == [n \in { m \in DOMAIN files : m < N } |-> files[n]]
<1>1. DOMAIN files \subseteq 1 .. N /\ N \in DOMAIN files /\ files[N] = sg[N].recs
  OBVIOUS
<1>2. lower = [n \in DOMAIN Below(sg, N) |-> Below(sg, N)[n].recs]
  BY DEF Below
<1> HIDE DEF files
<1>3. InOrder(files) = InOrder(lower) \o files[N]
  BY <1>1, InOrderNewest
<1>4. Recover(sg) = InOrder(files)
  BY DEF Recover, files
<1>5. Recover(Below(sg, N)) = InOrder(lower)
  BY <1>2 DEF Recover
<1>6. QED
  BY <1>1, <1>3, <1>4, <1>5

(* Nothing can be lost of files that are on the disk. *)
LEMMA DurableSettled ==
    ASSUME NEW S, NEW sg, \A n \in DOMAIN sg : sg[n] \in File(S),
           \A n \in DOMAIN sg : sg[n].named /\ sg[n].synced = Len(sg[n].recs)
    PROVE  Durable(sg) = Recover(sg)
<1>1. { m \in DOMAIN sg : sg[m].named } = DOMAIN sg
  OBVIOUS
<1>2. \A n \in DOMAIN sg : SubSeq(sg[n].recs, 1, sg[n].synced) = sg[n].recs
  <2>1. TAKE n \in DOMAIN sg
  <2>2. sg[n].recs \in Seq(S)
    BY DEF File
  <2>3. QED
    BY <2>2, SubSeqFull
<1>3. [n \in { m \in DOMAIN sg : sg[m].named } |-> SubSeq(sg[n].recs, 1, sg[n].synced)]
        = [n \in DOMAIN sg |-> sg[n].recs]
  BY <1>1, <1>2
<1>4. QED
  BY <1>3 DEF Durable, Recover

(* If all but the newest are, the newest alone can lose records. *)
LEMMA DurableNewest ==
    ASSUME NEW S, NEW sg, NEW N \in Nat \ {0}, DOMAIN sg \subseteq 1 .. N, N \in DOMAIN sg,
           \A n \in DOMAIN sg : sg[n] \in File(S),
           \A n \in DOMAIN sg : n # N => sg[n].named /\ sg[n].synced = Len(sg[n].recs)
    PROVE  Durable(sg) = Recover(Below(sg, N)) \o Kept(sg[N])
<1> DEFINE files == [n \in { m \in DOMAIN sg : sg[m].named } |->
                       SubSeq(sg[n].recs, 1, sg[n].synced)]
           lower == [n \in DOMAIN Below(sg, N) |-> Below(sg, N)[n].recs]
<1>1. \A n \in DOMAIN sg : n # N => SubSeq(sg[n].recs, 1, sg[n].synced) = sg[n].recs
  <2>1. SUFFICES ASSUME NEW n \in DOMAIN sg, n # N
                 PROVE  SubSeq(sg[n].recs, 1, sg[n].synced) = sg[n].recs
    OBVIOUS
  <2>2. sg[n].recs \in Seq(S)
    BY DEF File
  <2>3. QED
    BY <2>1, <2>2, SubSeqFull
<1>2. Durable(sg) = InOrder(files)
  BY DEF Durable
<1>3. Recover(Below(sg, N)) = InOrder(lower)
  BY DEF Recover
<1>4. DOMAIN lower = { m \in DOMAIN sg : m < N }
      /\ \A n \in DOMAIN lower : lower[n] = sg[n].recs
  BY DEF Below
<1>5. \A n \in DOMAIN sg : n < N <=> n # N
  OBVIOUS
<1>6. InOrder(lower) \in Seq(S)
  BY <1>3, BelowType
<1>7. CASE sg[N].named
  <2>1. DOMAIN files = DOMAIN sg
    BY <1>7
  <2>2. \A n \in DOMAIN files : files[n] = SubSeq(sg[n].recs, 1, sg[n].synced)
    OBVIOUS
  <2>3. lower = [n \in { m \in DOMAIN files : m < N } |-> files[n]]
    BY <1>1, <1>4, <1>5, <2>1, <2>2
  <2>4. files[N] = Kept(sg[N])
    BY <1>7, <2>1, <2>2 DEF Kept
  <2> HIDE DEF files, lower
  <2>5. InOrder(files) = InOrder([n \in { m \in DOMAIN files : m < N } |-> files[n]]) \o files[N]
    BY <2>1, InOrderNewest
  <2>6. QED
    BY <1>2, <1>3, <2>3, <2>4, <2>5
<1>8. CASE ~sg[N].named
  <2>1. DOMAIN files = DOMAIN lower
    BY <1>4, <1>5, <1>8
  <2>2. \A n \in DOMAIN lower : n \in DOMAIN sg /\ n # N
    BY <1>4, <1>5
  <2>3. \A n \in DOMAIN lower : files[n] = lower[n]
    BY <1>1, <1>4, <2>1, <2>2
  <2>4. files = lower
    BY <2>1, <2>3
  <2>5. Kept(sg[N]) = <<>>
    BY <1>8 DEF Kept
  <2> HIDE DEF files, lower
  <2>6. InOrder(lower) \o <<>> = InOrder(lower)
    BY <1>6, ConcatEmptySeq
  <2>7. QED
    BY <1>2, <1>3, <2>4, <2>5, <2>6
<1>9. QED
  BY <1>7, <1>8

-----------------------------------------------------------------------------
(* Where a record is.                                                      *)

(* The record x is one of s. *)
Among(x, s) == \E j \in 1 .. Len(s) : s[j] = x

LEMMA AmongConcat ==
    ASSUME NEW S, NEW s \in Seq(S), NEW t \in Seq(S), NEW x
    PROVE  Among(x, s \o t) <=> Among(x, s) \/ Among(x, t)
<1>1. /\ s \o t \in Seq(S) /\ Len(s \o t) = Len(s) + Len(t)
      /\ Len(s) \in Nat /\ Len(t) \in Nat
      /\ \A i \in 1 .. Len(s) + Len(t) :
           (s \o t)[i] = IF i <= Len(s) THEN s[i] ELSE t[i - Len(s)]
  BY ConcatProperties
<1>2. ASSUME Among(x, s \o t) PROVE Among(x, s) \/ Among(x, t)
  <2>1. PICK i \in 1 .. Len(s) + Len(t) : (s \o t)[i] = x
    BY <1>1, <1>2 DEF Among
  <2>2. CASE i <= Len(s)
    <3>1. i \in 1 .. Len(s) /\ s[i] = x
      BY <1>1, <2>1, <2>2
    <3>2. QED
      BY <3>1 DEF Among
  <2>3. CASE ~(i <= Len(s))
    <3>1. i - Len(s) \in 1 .. Len(t) /\ t[i - Len(s)] = x
      BY <1>1, <2>1, <2>3
    <3>2. QED
      BY <3>1 DEF Among
  <2>4. QED
    BY <2>2, <2>3
<1>3. ASSUME Among(x, s) PROVE Among(x, s \o t)
  <2>1. PICK i \in 1 .. Len(s) : s[i] = x
    BY <1>3 DEF Among
  <2>2. i \in 1 .. Len(s) + Len(t) /\ i <= Len(s)
    BY <1>1
  <2>3. QED
    BY <1>1, <2>1, <2>2 DEF Among
<1>4. ASSUME Among(x, t) PROVE Among(x, s \o t)
  <2>1. PICK i \in 1 .. Len(t) : t[i] = x
    BY <1>4 DEF Among
  <2>2. i + Len(s) \in 1 .. Len(s) + Len(t) /\ ~(i + Len(s) <= Len(s))
        /\ (i + Len(s)) - Len(s) = i
    BY <1>1
  <2>3. (s \o t)[i + Len(s)] = x
    BY <1>1, <2>1, <2>2
  <2>4. QED
    BY <1>1, <2>2, <2>3 DEF Among
<1>5. QED
  BY <1>2, <1>3, <1>4

(* Every record of a segment is read. *)
LEMMA InOrderHas ==
    ASSUME NEW S, NEW files, NEW N \in Nat, DOMAIN files \subseteq 1 .. N,
           \A n \in DOMAIN files : files[n] \in Seq(S),
           NEW n \in DOMAIN files, NEW x, Among(x, files[n])
    PROVE  Among(x, InOrder(files))
<1>1. PICK f : Reads(files, N, f)
  BY ReadsExists
<1>2. n \in 1 .. N /\ n - 1 \in Nat /\ n \in 0 .. N
  OBVIOUS
<1> DEFINE G == { k \in Nat : k <= N => f[k] \in Seq(S) /\ (n <= k => Among(x, f[k])) }
<1>3. 0 \in G
  <2>1. f[0] = <<>>
    BY <1>1 DEF Reads
  <2>2. <<>> \in Seq(S) /\ ~(n <= 0)
    BY <1>2
  <2>3. QED
    BY <2>1, <2>2
<1>4. ASSUME NEW k \in G PROVE k + 1 \in G
  <2>1. k \in Nat
    OBVIOUS
  <2>2. SUFFICES ASSUME k + 1 <= N
                 PROVE  f[k + 1] \in Seq(S) /\ (n <= k + 1 => Among(x, f[k + 1]))
    BY <2>1
  <2>3. k + 1 \in 0 .. N /\ k + 1 # 0 /\ (k + 1) - 1 = k /\ k <= N
    BY <2>1, <2>2
  <2>4. f[k] \in Seq(S) /\ (n <= k => Among(x, f[k]))
    BY <2>3
  <2>5. f[k + 1] = IF k + 1 \in DOMAIN files THEN f[k] \o files[k + 1] ELSE f[k]
    BY <1>1, <2>3 DEF Reads
  <2>6. CASE k + 1 \in DOMAIN files
    <3>1. files[k + 1] \in Seq(S) /\ f[k + 1] = f[k] \o files[k + 1]
      BY <2>5, <2>6
    <3>2. f[k] \o files[k + 1] \in Seq(S)
      BY <2>4, <3>1, ConcatProperties
    <3>3. n <= k + 1 => n <= k \/ n = k + 1
      BY <1>2, <2>1
    <3>4. n <= k + 1 => Among(x, f[k]) \/ Among(x, files[k + 1])
      BY <2>4, <3>3
    <3>5. n <= k + 1 => Among(x, f[k] \o files[k + 1])
      BY <2>4, <3>1, <3>4, AmongConcat
    <3>6. QED
      BY <3>1, <3>2, <3>5
  <2>7. CASE k + 1 \notin DOMAIN files
    <3>1. n <= k + 1 => n <= k
      BY <1>2, <2>1, <2>7
    <3>2. QED
      BY <2>4, <2>5, <2>7, <3>1
  <2>8. QED
    BY <2>6, <2>7
<1>5. N \in G
  <2>1. G \in SUBSET Nat /\ \A m \in G : m + 1 \in G
    BY <1>4
  <2> HIDE DEF G
  <2>2. QED
    BY <1>3, <2>1, AllNumbers
<1>6. InOrder(files) = f[N]
  BY <1>1, InOrderReads
<1>7. QED
  BY <1>2, <1>5, <1>6

LEMMA RecoverHas ==
    ASSUME NEW S, NEW N \in Nat, NEW sg, DOMAIN sg \subseteq 1 .. N,
           \A n \in DOMAIN sg : sg[n] \in File(S),
           NEW n \in DOMAIN sg, NEW x, Among(x, sg[n].recs)
    PROVE  Among(x, Recover(sg))
<1> DEFINE files == [m \in DOMAIN sg |-> sg[m].recs]
<1>1. DOMAIN files = DOMAIN sg /\ files[n] = sg[n].recs
  OBVIOUS
<1>2. \A m \in DOMAIN files : files[m] \in Seq(S)
  BY DEF File
<1>3. Recover(sg) = InOrder(files)
  BY DEF Recover
<1> HIDE DEF files
<1>4. QED
  BY <1>1, <1>2, <1>3, InOrderHas

(* ... and so is every record that is on the disk, whatever happens next. *)
LEMMA DurableHas ==
    ASSUME NEW S, NEW N \in Nat, NEW sg, DOMAIN sg \subseteq 1 .. N,
           \A n \in DOMAIN sg : sg[n] \in File(S) /\ sg[n].synced <= Len(sg[n].recs),
           NEW n \in DOMAIN sg, sg[n].named, NEW k \in 1 .. sg[n].synced
    PROVE  Among(sg[n].recs[k], Durable(sg)) /\ Durable(sg) \in Seq(S)
<1> DEFINE files == [m \in { x \in DOMAIN sg : sg[x].named } |-> SubSeq(sg[m].recs, 1, sg[m].synced)]
           c == sg[n].recs[k]
<1>1. ASSUME NEW m \in DOMAIN files
      PROVE  /\ files[m] = SubSeq(sg[m].recs, 1, sg[m].synced) /\ files[m] \in Seq(S)
             /\ sg[m].synced \in Nat => Len(files[m]) = sg[m].synced
             /\ \A j \in 1 .. sg[m].synced : files[m][j] = sg[m].recs[j]
  <2> DEFINE r == sg[m].recs
             y == sg[m].synced
  <2>1. m \in DOMAIN sg /\ r \in Seq(S) /\ Len(r) \in Nat /\ y \in Nat \cup {-1} /\ y <= Len(r)
    BY DEF File
  <2>2. files[m] = SubSeq(r, 1, y)
    OBVIOUS
  <2> HIDE DEF r, y, files
  <2>3. \A i \in 1 .. y : r[i] \in S
    BY <2>1
  <2>4. SubSeq(r, 1, y) \in Seq(S) /\ (y \in Nat => Len(SubSeq(r, 1, y)) = y)
        /\ \A j \in 1 .. y : SubSeq(r, 1, y)[j] = r[j]
    BY <2>1, <2>3, SubSeqProperties
  <2>5. QED
    BY <2>2, <2>4 DEF r, y
<1>2. n \in DOMAIN files /\ sg[n].synced \in Nat
  BY DEF File
<1>3. files[n][k] = c /\ k \in 1 .. Len(files[n])
  BY <1>1, <1>2
<1>4. Among(c, files[n])
  BY <1>3 DEF Among
<1>5. DOMAIN files \subseteq 1 .. N /\ \A m \in DOMAIN files : files[m] \in Seq(S)
  BY <1>1
<1>6. Durable(sg) = InOrder(files)
  BY DEF Durable
<1> HIDE DEF files, c
<1>7. Among(c, InOrder(files)) /\ InOrder(files) \in Seq(S)
  BY <1>2, <1>4, <1>5, InOrderHas, InOrderType
<1>8. QED
  BY <1>6, <1>7 DEF c

-----------------------------------------------------------------------------
(* The types of a log whose records are in S and numbered up to N, whoever *)
(* writes it: no order of the records is assumed.                          *)

FilesOf(S, N, sg) ==
    /\ sg \in [DOMAIN sg -> File(S)] /\ DOMAIN sg \subseteq 1 .. N
    /\ \A n \in DOMAIN sg : sg[n].synced <= Len(sg[n].recs)

WriterOf(S) ==
    [state : WriterStates, cur : Nat, buf : Seq(S), size : Nat, last : Nat,
     step : WriterSteps, first : Nat]

WalTyped(S, N, sg, x) ==
    /\ FilesOf(S, N, sg) /\ x \in WriterOf(S)
    /\ x.state \in {"open", "latched"} => x.cur \in DOMAIN sg
    /\ x.step # "idle" => x.first \in 1 .. N
    /\ x.step \in {"header", "sync"} => x.first \in DOMAIN sg /\ sg[x.first].recs = <<>>

WalOK(S, N) == WalTyped(S, N, segs, w)

(* A file is written behind its end or synced, and nothing else. *)
Extends(S, f, g) ==
    /\ f.named => g.named
    /\ f.synced <= g.synced
    /\ \E x \in Seq(S) : g.recs = f.recs \o x

Extended(S, sg, sh) == \A n \in DOMAIN sg : n \in DOMAIN sh /\ Extends(S, sg[n], sh[n])

LEMMA FileTypes ==
    ASSUME NEW S, NEW f \in File(S)
    PROVE  /\ f.ok \in BOOLEAN /\ f.named \in BOOLEAN /\ f.torn \in {"no", "mine", "left"}
           /\ f.recs \in Seq(S) /\ Len(f.recs) \in Nat /\ f.synced \in Nat \cup {-1}
           /\ f.synced <= f.synced
BY DEF File

LEMMA WriterTypes ==
    ASSUME NEW S, NEW x \in WriterOf(S)
    PROVE  /\ x.state \in WriterStates /\ x.step \in WriterSteps
           /\ x.cur \in Nat /\ x.size \in Nat /\ x.last \in Nat /\ x.first \in Nat
           /\ x.buf \in Seq(S) /\ Len(x.buf) \in Nat
BY DEF WriterOf

LEMMA ExtendsSelf ==
    ASSUME NEW S, NEW f \in File(S)
    PROVE  Extends(S, f, f)
<1>1. f.recs \in Seq(S) /\ f.synced <= f.synced
  BY FileTypes
<1>2. <<>> \in Seq(S) /\ f.recs = f.recs \o <<>>
  BY <1>1, ConcatEmptySeq
<1>3. QED
  BY <1>1, <1>2 DEF Extends

LEMMA ExtendedSelf ==
    ASSUME NEW S, NEW N, NEW sg, FilesOf(S, N, sg)
    PROVE  Extended(S, sg, sg)
BY ExtendsSelf DEF Extended, FilesOf

(* One segment is changed, and nothing else. *)
Replaced(sg, n, f, sh) == sh = [sg EXCEPT ![n] = f]

LEMMA ReplaceFile ==
    ASSUME NEW S, NEW N, NEW sg, FilesOf(S, N, sg), NEW n \in DOMAIN sg,
           NEW g \in File(S), g.synced <= Len(g.recs), NEW sh, Replaced(sg, n, g, sh)
    PROVE  /\ FilesOf(S, N, sh) /\ DOMAIN sh = DOMAIN sg /\ sh[n] = g
           /\ \A m \in DOMAIN sg : m # n => sh[m] = sg[m]
           /\ Extends(S, sg[n], g) => Extended(S, sg, sh)
<1>1. /\ DOMAIN sh = DOMAIN sg /\ sh[n] = g
      /\ \A m \in DOMAIN sg : m # n => sh[m] = sg[m]
  BY DEF FilesOf, Replaced
<1>2. FilesOf(S, N, sh)
  BY <1>1 DEF FilesOf, Replaced
<1>3. ASSUME Extends(S, sg[n], g) PROVE Extended(S, sg, sh)
  <2>1. \A m \in DOMAIN sg : Extends(S, sg[m], sg[m])
    BY ExtendsSelf DEF FilesOf
  <2>2. QED
    BY <1>1, <1>3, <2>1 DEF Extended
<1>4. QED
  BY <1>1, <1>2, <1>3

LEMMA WrittenType ==
    ASSUME NEW S, NEW f \in File(S), f.synced <= Len(f.recs), NEW x \in Seq(S),
           NEW part \in {"no", "mine"}
    PROVE  LET g == Written(f, x, part)
           IN  /\ g \in File(S) /\ g.recs = f.recs \o x
               /\ g.synced = f.synced /\ g.named = f.named
               /\ g.synced <= Len(g.recs) /\ Extends(S, f, g)
<1> DEFINE g == Written(f, x, part)
<1>1. /\ f.recs \in Seq(S) /\ Len(f.recs) \in Nat /\ f.synced \in Nat \cup {-1}
      /\ f.synced <= f.synced /\ Len(x) \in Nat
  BY FileTypes
<1>2. f.recs \o x \in Seq(S) /\ Len(f.recs \o x) = Len(f.recs) + Len(x)
  BY <1>1, ConcatProperties
<1>3. g.recs = f.recs \o x /\ g.synced = f.synced /\ g.named = f.named /\ g.torn = part
  BY DEF Written, File
<1>4. g \in File(S)
  <2>1. (f.ok /\ ~(f.torn = "left" /\ (x # <<>> \/ part # "no"))) \in BOOLEAN
    OBVIOUS
  <2>2. part \in {"no", "mine", "left"}
    OBVIOUS
  <2>3. QED
    BY <1>2, <2>1, <2>2 DEF Written, File
<1> HIDE DEF g
<1>5. g.synced <= Len(g.recs)
  BY <1>1, <1>2, <1>3
<1>6. Extends(S, f, g)
  BY <1>1, <1>3 DEF Extends
<1>7. QED
  BY <1>3, <1>4, <1>5, <1>6 DEF g

LEMMA FsyncedType ==
    ASSUME NEW S, NEW f \in File(S), f.synced <= Len(f.recs)
    PROVE  LET g == FsyncedFile(f)
           IN  /\ g \in File(S) /\ g.recs = f.recs /\ g.synced = Len(f.recs)
               /\ g.named = (f.named \/ FsyncNames)
               /\ g.synced <= Len(g.recs) /\ Extends(S, f, g)
<1> DEFINE g == FsyncedFile(f)
<1>1. f.recs \in Seq(S) /\ Len(f.recs) \in Nat /\ Len(f.recs) <= Len(f.recs)
  BY FileTypes
<1>2. g.recs = f.recs /\ g.synced = Len(f.recs)
  BY DEF FsyncedFile, File
<1>3. g.named = (f.named \/ FsyncNames)
  BY Zenon DEF FsyncedFile, File
<1>4. g \in File(S)
  <2>1. (f.named \/ FsyncNames) \in BOOLEAN
    OBVIOUS
  <2>2. QED
    BY <1>1, <2>1 DEF FsyncedFile, File
<1> HIDE DEF g
<1>5. <<>> \in Seq(S) /\ f.recs = f.recs \o <<>>
  BY <1>1, ConcatEmptySeq
<1>6. Extends(S, f, g)
  BY <1>2, <1>3, <1>5 DEF Extends
<1>7. QED
  BY <1>1, <1>2, <1>3, <1>4, <1>6 DEF g

(* The Writer's segment, with what it held, and perhaps an fsync. *)
LEMMA FlushedOf ==
    ASSUME NEW S, NEW N, WalOK(S, N), w.state = "open"
    PROVE  \E f \in File(S) :
             /\ f.recs = segs[w.cur].recs \o w.buf /\ f.synced <= Len(f.recs)
             /\ f.synced = segs[w.cur].synced /\ f.named = segs[w.cur].named
             /\ Extends(S, segs[w.cur], f) /\ Flushed = [segs EXCEPT ![w.cur] = f]
<1>1. /\ w.cur \in DOMAIN segs /\ segs[w.cur] \in File(S) /\ w.buf \in Seq(S)
      /\ segs[w.cur].synced <= Len(segs[w.cur].recs)
  BY WriterTypes DEF WalOK, WalTyped, FilesOf
<1>2. CASE w.buf = <<>>
  <2>1. segs[w.cur].recs \o <<>> = segs[w.cur].recs
    BY <1>1, ConcatEmptySeq, FileTypes
  <2>2. segs = [segs EXCEPT ![w.cur] = segs[w.cur]]
    BY <1>1 DEF WalOK, WalTyped, FilesOf
  <2>3. QED
    BY <1>1, <1>2, <2>1, <2>2, ExtendsSelf DEF Flushed
<1>3. CASE w.buf # <<>>
  <2> DEFINE f == Written(segs[w.cur], w.buf, "no")
  <2>1. Flushed = [segs EXCEPT ![w.cur] = f]
    BY <1>3 DEF Flushed
  <2>2. /\ f \in File(S) /\ f.recs = segs[w.cur].recs \o w.buf
        /\ f.synced = segs[w.cur].synced /\ f.named = segs[w.cur].named
        /\ f.synced <= Len(f.recs) /\ Extends(S, segs[w.cur], f)
    BY <1>1, WrittenType
  <2> HIDE DEF f
  <2>3. QED
    BY <2>1, <2>2
<1>4. QED
  BY <1>2, <1>3

LEMMA FsyncedOf ==
    ASSUME NEW S, NEW N, WalOK(S, N), w.state = "open"
    PROVE  \E f \in File(S) :
             /\ f.recs = segs[w.cur].recs \o w.buf /\ f.synced = Len(f.recs)
             /\ f.synced <= Len(f.recs)
             /\ f.named = (segs[w.cur].named \/ FsyncNames)
             /\ Extends(S, segs[w.cur], f) /\ Fsynced(Flushed) = [segs EXCEPT ![w.cur] = f]
<1>1. w.cur \in DOMAIN segs /\ segs[w.cur] \in File(S) /\ segs \in [DOMAIN segs -> File(S)]
  BY DEF WalOK, WalTyped, FilesOf
<1>2. PICK f \in File(S) :
        /\ f.recs = segs[w.cur].recs \o w.buf /\ f.synced <= Len(f.recs)
        /\ f.synced = segs[w.cur].synced /\ f.named = segs[w.cur].named
        /\ Extends(S, segs[w.cur], f) /\ Flushed = [segs EXCEPT ![w.cur] = f]
  BY FlushedOf
<1> DEFINE g == FsyncedFile(f)
<1>3. /\ g \in File(S) /\ g.recs = f.recs /\ g.synced = Len(f.recs)
      /\ g.named = (f.named \/ FsyncNames) /\ g.synced <= Len(g.recs) /\ Extends(S, f, g)
  BY <1>2, FsyncedType
<1>4. Flushed[w.cur] = f /\ Fsynced(Flushed) = [Flushed EXCEPT ![w.cur] = g]
  BY <1>1, <1>2 DEF Fsynced
<1> HIDE DEF g
<1>5. Fsynced(Flushed) = [segs EXCEPT ![w.cur] = g]
  BY <1>1, <1>2, <1>4
<1>6. Extends(S, segs[w.cur], g)
  <2>1. segs[w.cur].synced <= f.synced /\ f.synced <= g.synced
    BY <1>2, <1>3 DEF Extends
  <2>2. segs[w.cur].synced <= g.synced
    BY <1>1, <1>2, <1>3, <2>1, FileTypes
  <2>3. QED
    BY <1>2, <1>3, <2>2 DEF Extends
<1>7. QED
  BY <1>2, <1>3, <1>5, <1>6

LEMMA FlushPartOf ==
    ASSUME NEW S, NEW N, WalOK(S, N), w.state = "open", NEW x \in Seq(S), FlushPart(x)
    PROVE  \E f \in File(S) :
             /\ f.synced <= Len(f.recs) /\ Extends(S, segs[w.cur], f)
             /\ segs' = [segs EXCEPT ![w.cur] = f]
<1>1. /\ w.cur \in DOMAIN segs /\ segs[w.cur] \in File(S)
      /\ segs[w.cur].synced <= Len(segs[w.cur].recs)
  BY DEF WalOK, WalTyped, FilesOf
<1>2. CASE UNCHANGED segs
  <2>1. segs' = [segs EXCEPT ![w.cur] = segs[w.cur]]
    BY <1>1, <1>2 DEF WalOK, WalTyped, FilesOf
  <2>2. QED
    BY <1>1, <2>1, ExtendsSelf
<1>3. ASSUME NEW n \in 0 .. Len(x), NEW part \in {"no", "mine"},
             segs' = [segs EXCEPT ![w.cur] = Written(@, SubSeq(x, 1, n), part)]
      PROVE  \E f \in File(S) :
               /\ f.synced <= Len(f.recs) /\ Extends(S, segs[w.cur], f)
               /\ segs' = [segs EXCEPT ![w.cur] = f]
  <2> DEFINE y == SubSeq(x, 1, n)
             f == Written(segs[w.cur], y, part)
  <2>1. y \in Seq(S)
    <3>1. n \in Int /\ \A i \in 1 .. n : x[i] \in S
      OBVIOUS
    <3>2. QED
      BY <3>1, SubSeqProperties
  <2>2. segs' = [segs EXCEPT ![w.cur] = f]
    BY <1>3
  <2> HIDE DEF y
  <2>3. f \in File(S) /\ f.synced <= Len(f.recs) /\ Extends(S, segs[w.cur], f)
    BY <1>1, <2>1, WrittenType
  <2> HIDE DEF f
  <2>4. QED
    BY <2>2, <2>3
<1>4. Len(x) \in Nat /\ 0 .. Len(x) - 1 \subseteq 0 .. Len(x) /\ 1 .. Len(x) - 1 \subseteq 0 .. Len(x)
  OBVIOUS
<1>5. QED
  BY <1>2, <1>3, <1>4 DEF FlushPart

(* Either of two numbers is the larger. *)
LEMMA MaxOfTwo ==
    ASSUME NEW a \in Nat, NEW b \in Nat
    PROVE  Max({a, b}) \in Nat /\ a <= Max({a, b}) /\ b <= Max({a, b})
<1> DEFINE T == {a, b}
<1>1. T \in SUBSET Nat /\ T # {} /\ a + b \in Nat /\ \A n \in T : n <= a + b
  OBVIOUS
<1>2. a \in T /\ b \in T
  OBVIOUS
<1> HIDE DEF T
<1>3. Max(T) \in T /\ \A n \in T : n <= Max(T)
  BY <1>1, MaxProperties
<1>4. QED
  BY <1>1, <1>2, <1>3 DEF T

(* The Writer with x in its buffer, and one record more in its segment. *)
Filled(wr, top, x, v) == v = [wr EXCEPT !.size = @ + 1, !.last = top, !.buf = x]

LEMMA FilledOf ==
    ASSUME NEW S, NEW wr \in WriterOf(S), NEW top \in Nat, NEW x \in Seq(S), NEW v,
           Filled(wr, top, x, v)
    PROVE  /\ v \in WriterOf(S) /\ v.buf = x /\ v.state = wr.state /\ v.cur = wr.cur
           /\ v.step = wr.step /\ v.first = wr.first
<1>1. wr.size \in Nat
  BY WriterTypes
<1>2. wr.size + 1 \in Nat
  BY <1>1
<1>3. v \in WriterOf(S)
  BY <1>2 DEF WriterOf, Filled
<1>4. /\ v.buf = x /\ v.state = wr.state /\ v.cur = wr.cur
      /\ v.step = wr.step /\ v.first = wr.first
  BY DEF WriterOf, Filled
<1>5. QED
  BY <1>3, <1>4

LEMMA ConcatAppend ==
    ASSUME NEW S, NEW s \in Seq(S), NEW t \in Seq(S), NEW x \in S
    PROVE  /\ Append(t, x) \in Seq(S) /\ <<x>> \in Seq(S)
           /\ s \o Append(t, x) = Append(s \o t, x) /\ (s \o t) \o <<x>> = Append(s \o t, x)
<1>1. s \o t \in Seq(S) /\ <<x>> \in Seq(S) /\ Append(t, x) \in Seq(S)
  BY ConcatProperties, AppendProperties
<1>2. Append(t, x) = t \o <<x>> /\ Append(s \o t, x) = (s \o t) \o <<x>>
  BY <1>1, AppendIsConcat
<1>3. (s \o t) \o <<x>> = s \o (t \o <<x>>)
  BY <1>1, ConcatAssociative
<1>4. QED
  BY <1>1, <1>2, <1>3

(* The records in S are numbered up to N. *)
NumberedTo(S, N) == \A r \in S : r.seq \in 1 .. N

(* A record is put behind what the Writer's segment and the Writer hold. *)
PutDone(S, N, sg, wr, rec) ==
    /\ FilesOf(S, N, segs') /\ Extended(S, sg, segs') /\ DOMAIN segs' = DOMAIN sg
    /\ w' \in WriterOf(S) /\ w'.state = wr.state /\ w'.cur = wr.cur
    /\ w'.step = wr.step /\ w'.first = wr.first
    /\ \A m \in DOMAIN sg : m # wr.cur => segs'[m] = sg[m]
    /\ segs'[wr.cur].recs \o w'.buf = Append(sg[wr.cur].recs \o wr.buf, rec)

LEMMA PutOf ==
    ASSUME NEW S, NEW N \in Nat, NumberedTo(S, N), NEW sg, FilesOf(S, N, sg),
           NEW wr \in WriterOf(S), wr.cur \in DOMAIN sg, NEW rec \in S, Put(sg, wr, rec)
    PROVE  PutDone(S, N, sg, wr, rec)
<1>1. PICK f : f = sg[wr.cur]
  OBVIOUS
<1>2. /\ f \in File(S) /\ f.synced <= Len(f.recs) /\ f.recs \in Seq(S)
      /\ wr.buf \in Seq(S) /\ wr.last \in Nat
  BY <1>1, FileTypes, WriterTypes DEF FilesOf
<1>3. PICK a \in Seq(S) : a = f.recs
  BY <1>2
<1>4. PICK b \in Seq(S) : b = wr.buf
  BY <1>2
<1>5. PICK top \in Nat : top = Max({wr.last, rec.seq})
  <2>1. rec.seq \in Nat
    BY DEF NumberedTo
  <2>2. QED
    BY <1>2, <2>1, MaxOfTwo
<1>6. \/ Filled(wr, top, Append(b, rec), w') /\ segs' = sg
      \/ /\ Filled(wr, top, <<rec>>, w')
         /\ \E part \in {"no", "mine"} : segs' = [sg EXCEPT ![wr.cur] = Written(f, b, part)]
  <2> DEFINE added == [wr EXCEPT !.size = @ + 1, !.last = Max({@, rec.seq})]
  <2>1. added = [wr EXCEPT !.size = @ + 1, !.last = top]
    BY <1>5
  <2>2. \/ w' = [added EXCEPT !.buf = Append(@, rec)] /\ segs' = sg
        \/ /\ w' = [added EXCEPT !.buf = <<rec>>]
           /\ \E part \in {"no", "mine"} :
                segs' = [sg EXCEPT ![wr.cur] = Written(@, wr.buf, part)]
    BY DEF Put
  <2> HIDE DEF added
  <2>3. added.buf = b
    BY <1>4, <2>1 DEF WriterOf
  <2>4. QED
    BY <1>1, <1>4, <2>1, <2>2, <2>3 DEF Filled
<1>7. /\ Append(b, rec) \in Seq(S) /\ <<rec>> \in Seq(S)
      /\ a \o Append(b, rec) = Append(a \o b, rec) /\ (a \o b) \o <<rec>> = Append(a \o b, rec)
  BY ConcatAppend
<1>8. CASE Filled(wr, top, Append(b, rec), w') /\ segs' = sg
  <2>1. /\ w' \in WriterOf(S) /\ w'.buf = Append(b, rec) /\ w'.state = wr.state
        /\ w'.cur = wr.cur /\ w'.step = wr.step /\ w'.first = wr.first
    <3>1. PICK x \in Seq(S) : x = Append(b, rec)
      BY <1>7
    <3>2. PICK v : v = w'
      OBVIOUS
    <3>3. Filled(wr, top, x, v)
      BY <1>8, <3>1, <3>2
    <3>4. /\ v \in WriterOf(S) /\ v.buf = x /\ v.state = wr.state /\ v.cur = wr.cur
          /\ v.step = wr.step /\ v.first = wr.first
      BY <3>3, FilledOf
    <3>5. QED
      BY <3>1, <3>2, <3>4
  <2>2. Extended(S, sg, segs')
    BY <1>8, ExtendedSelf
  <2>3. QED
    BY <1>1, <1>3, <1>4, <1>7, <1>8, <2>1, <2>2 DEF PutDone
<1>9. ASSUME NEW part \in {"no", "mine"}, Filled(wr, top, <<rec>>, w'),
             segs' = [sg EXCEPT ![wr.cur] = Written(f, b, part)]
      PROVE  PutDone(S, N, sg, wr, rec)
  <2>1. /\ w' \in WriterOf(S) /\ w'.buf = <<rec>> /\ w'.state = wr.state
        /\ w'.cur = wr.cur /\ w'.step = wr.step /\ w'.first = wr.first
    <3>1. PICK x \in Seq(S) : x = <<rec>>
      BY <1>7
    <3>2. PICK v : v = w'
      OBVIOUS
    <3>3. Filled(wr, top, x, v)
      BY <1>9, <3>1, <3>2
    <3>4. /\ v \in WriterOf(S) /\ v.buf = x /\ v.state = wr.state /\ v.cur = wr.cur
          /\ v.step = wr.step /\ v.first = wr.first
      BY <3>3, FilledOf
    <3>5. QED
      BY <3>1, <3>2, <3>4
  <2>2. PICK g : g = Written(f, b, part)
    OBVIOUS
  <2>3. /\ g \in File(S) /\ g.recs = f.recs \o b /\ g.synced <= Len(g.recs)
        /\ Extends(S, f, g)
    BY <1>2, <2>2, WrittenType
  <2>4. segs' = [sg EXCEPT ![wr.cur] = g]
    BY <1>9, <2>2
  <2>5. /\ FilesOf(S, N, segs') /\ DOMAIN segs' = DOMAIN sg
        /\ segs'[wr.cur] = g /\ \A m \in DOMAIN sg : m # wr.cur => segs'[m] = sg[m]
        /\ Extends(S, sg[wr.cur], g) => Extended(S, sg, segs')
    <3>1. PICK n \in DOMAIN sg : n = wr.cur
      OBVIOUS
    <3>2. g.synced <= Len(g.recs) /\ Replaced(sg, n, g, segs') /\ g \in File(S)
      BY <2>3, <2>4, <3>1 DEF Replaced
    <3>3. /\ FilesOf(S, N, segs') /\ DOMAIN segs' = DOMAIN sg
          /\ segs'[n] = g /\ \A m \in DOMAIN sg : m # n => segs'[m] = sg[m]
          /\ Extends(S, sg[n], g) => Extended(S, sg, segs')
      BY <3>2, ReplaceFile
    <3>4. QED
      BY <3>1, <3>3
  <2>6. QED
    BY <1>1, <1>3, <1>4, <1>7, <2>1, <2>3, <2>5 DEF PutDone
<1>10. QED
  BY <1>6, <1>8, <1>9

LEMMA ExtendsTransitive ==
    ASSUME NEW S, NEW f \in File(S), NEW g \in File(S), NEW h \in File(S),
           Extends(S, f, g), Extends(S, g, h)
    PROVE  Extends(S, f, h)
<1>1. PICK x \in Seq(S) : g.recs = f.recs \o x
  BY DEF Extends
<1>2. PICK y \in Seq(S) : h.recs = g.recs \o y
  BY DEF Extends
<1>3. PICK r \in Seq(S) : r = f.recs
  BY FileTypes
<1>4. x \o y \in Seq(S) /\ (r \o x) \o y = r \o (x \o y)
  BY ConcatProperties, ConcatAssociative
<1>5. h.recs = f.recs \o (x \o y)
  BY <1>1, <1>2, <1>3, <1>4
<1>6. f.synced <= h.synced
  <2>1. /\ f.synced \in Nat \cup {-1} /\ g.synced \in Nat \cup {-1} /\ h.synced \in Nat \cup {-1}
        /\ f.synced <= g.synced /\ g.synced <= h.synced
    BY FileTypes DEF Extends
  <2>2. QED
    BY <2>1
<1>7. f.named => h.named
  BY DEF Extends
<1>8. QED
  BY <1>4, <1>5, <1>6, <1>7 DEF Extends

LEMMA ExtendedTransitive ==
    ASSUME NEW S, NEW N, NEW sg, NEW sh, NEW si, FilesOf(S, N, sg), FilesOf(S, N, sh),
           FilesOf(S, N, si), Extended(S, sg, sh), Extended(S, sh, si)
    PROVE  Extended(S, sg, si)
<1>1. SUFFICES ASSUME NEW n \in DOMAIN sg PROVE n \in DOMAIN si /\ Extends(S, sg[n], si[n])
  BY DEF Extended
<1>2. n \in DOMAIN sh /\ n \in DOMAIN si /\ Extends(S, sg[n], sh[n]) /\ Extends(S, sh[n], si[n])
  BY DEF Extended
<1>3. sg[n] \in File(S) /\ sh[n] \in File(S) /\ si[n] \in File(S)
  BY <1>2 DEF FilesOf
<1>4. QED
  BY <1>2, <1>3, ExtendsTransitive

(* The Writer after a failure, an emptied buffer, a Close, or on the way to
   another segment. *)
Left(x, a, v) == v = [x EXCEPT !.state = a, !.buf = <<>>]
Stepped(x, a, n, v) == v = [x EXCEPT !.step = a, !.first = n]

LEMMA LeftOf ==
    ASSUME NEW S, NEW x \in WriterOf(S), NEW a \in WriterStates, NEW v, Left(x, a, v)
    PROVE  /\ v \in WriterOf(S) /\ v.state = a /\ v.buf = <<>> /\ v.cur = x.cur
           /\ v.step = x.step /\ v.first = x.first /\ v.size = x.size
<1>1. <<>> \in Seq(S)
  OBVIOUS
<1>2. v \in WriterOf(S)
  BY <1>1 DEF WriterOf, Left
<1>3. /\ v.state = a /\ v.buf = <<>> /\ v.cur = x.cur
      /\ v.step = x.step /\ v.first = x.first /\ v.size = x.size
  BY DEF WriterOf, Left
<1>4. QED
  BY <1>2, <1>3

LEMMA SteppedOf ==
    ASSUME NEW S, NEW x \in WriterOf(S), NEW a \in WriterSteps, NEW n \in Nat, NEW v,
           Stepped(x, a, n, v)
    PROVE  /\ v \in WriterOf(S) /\ v.state = x.state /\ v.buf = x.buf /\ v.cur = x.cur
           /\ v.step = a /\ v.first = n /\ v.size = x.size
<1>1. v \in WriterOf(S)
  BY DEF WriterOf, Stepped
<1>2. /\ v.state = x.state /\ v.buf = x.buf /\ v.cur = x.cur
      /\ v.step = a /\ v.first = n /\ v.size = x.size
  BY DEF WriterOf, Stepped
<1>3. QED
  BY <1>1, <1>2

(* Only the Writer's segment has changed. *)
LEMMA CurrentOf ==
    ASSUME NEW S, NEW N, WalOK(S, N), w.cur \in DOMAIN segs, NEW f \in File(S),
           f.synced <= Len(f.recs), Extends(S, segs[w.cur], f), NEW sh,
           Replaced(segs, w.cur, f, sh)
    PROVE  /\ FilesOf(S, N, sh) /\ Extended(S, segs, sh) /\ DOMAIN sh = DOMAIN segs
           /\ sh[w.cur] = f /\ \A m \in DOMAIN segs : m # w.cur => sh[m] = segs[m]
<1>1. PICK sg : sg = segs
  OBVIOUS
<1>2. PICK n \in DOMAIN sg : n = w.cur
  BY <1>1
<1>3. FilesOf(S, N, sg) /\ Replaced(sg, n, f, sh) /\ Extends(S, sg[n], f)
  BY <1>1, <1>2 DEF WalOK, WalTyped
<1>4. /\ FilesOf(S, N, sh) /\ DOMAIN sh = DOMAIN sg /\ sh[n] = f
      /\ \A m \in DOMAIN sg : m # n => sh[m] = sg[m]
      /\ Extended(S, sg, sh)
  BY <1>3, ReplaceFile
<1>5. QED
  BY <1>1, <1>2, <1>4

(* ... and the Writer is left with nothing. *)
LEMMA LeavesOf ==
    ASSUME NEW S, NEW N \in Nat, WalOK(S, N), w.step = "idle",
           FilesOf(S, N, segs'), DOMAIN segs' = DOMAIN segs, NEW a \in WriterStates,
           a \in {"open", "latched"} => w.cur \in DOMAIN segs,
           Left(w, a, w')
    PROVE  WalOK(S, N)' /\ w'.state = a /\ w'.buf = <<>> /\ w'.step = "idle" /\ w'.cur = w.cur
<1>1. PICK x : x = w
  OBVIOUS
<1>2. PICK v : v = w'
  OBVIOUS
<1>3. x \in WriterOf(S) /\ Left(x, a, v)
  BY <1>1, <1>2 DEF WalOK, WalTyped
<1>4. /\ v \in WriterOf(S) /\ v.state = a /\ v.buf = <<>> /\ v.cur = x.cur /\ v.step = x.step
  BY <1>3, LeftOf
<1>5. WalTyped(S, N, segs', v)
  BY <1>1, <1>4 DEF WalTyped
<1>6. QED
  BY <1>1, <1>2, <1>4, <1>5 DEF WalOK

-----------------------------------------------------------------------------
(* What each call of the Writer does to the types of a log, and to what    *)
(* its files hold.                                                         *)

LEMMA AppendFitsOf ==
    ASSUME NEW S, NEW N \in Nat, NumberedTo(S, N), WalOK(S, N), NEW rec \in S, AppendFits(rec)
    PROVE  /\ WalOK(S, N)' /\ Extended(S, segs, segs') /\ DOMAIN segs' = DOMAIN segs
           /\ w.state = "open" /\ w'.state = "open" /\ w'.step = "idle" /\ w'.cur = w.cur
           /\ segs'[w.cur].recs \o w'.buf = Append(segs[w.cur].recs \o w.buf, rec)
<1>1. PICK sg : sg = segs
  OBVIOUS
<1>2. PICK wr : wr = w
  OBVIOUS
<1>3. /\ FilesOf(S, N, sg) /\ wr \in WriterOf(S) /\ wr.cur \in DOMAIN sg /\ Put(sg, wr, rec)
      /\ w.state = "open" /\ w.step = "idle"
  BY <1>1, <1>2 DEF WalOK, WalTyped, AppendFits
<1>4. /\ FilesOf(S, N, segs') /\ Extended(S, sg, segs') /\ DOMAIN segs' = DOMAIN sg
      /\ w' \in WriterOf(S) /\ w'.state = wr.state /\ w'.cur = wr.cur
      /\ w'.step = wr.step
      /\ segs'[wr.cur].recs \o w'.buf = Append(sg[wr.cur].recs \o wr.buf, rec)
  <2>1. PutDone(S, N, sg, wr, rec)
    BY <1>3, PutOf
  <2>2. QED
    BY <2>1 DEF PutDone
<1>5. WalOK(S, N)'
  BY <1>1, <1>2, <1>3, <1>4 DEF WalOK, WalTyped
<1>6. QED
  BY <1>1, <1>2, <1>3, <1>4, <1>5

(* The new segment, once it is on the disk. *)
LEMMA NamedOf ==
    ASSUME NEW S, NEW N \in Nat, WalOK(S, N), w.step = "sync"
    PROVE  /\ FilesOf(S, N, Named) /\ Extended(S, segs, Named) /\ DOMAIN Named = DOMAIN segs
           /\ w.first \in DOMAIN segs /\ Named[w.first].recs = <<>>
           /\ \A m \in DOMAIN segs : m # w.first => Named[m] = segs[m]
           /\ OnNewSegment \in WriterOf(S) /\ OnNewSegment.state = "open"
           /\ OnNewSegment.cur = w.first /\ OnNewSegment.step = "idle"
           /\ OnNewSegment.buf = w.buf
<1>1. PICK sg : sg = segs
  OBVIOUS
<1>2. PICK n \in DOMAIN sg : n = w.first
  BY <1>1 DEF WalOK, WalTyped
<1>3. PICK f \in File(S) : f = sg[n]
  BY <1>1 DEF WalOK, WalTyped, FilesOf
<1>4. FilesOf(S, N, sg) /\ f.recs = <<>> /\ f.synced <= Len(f.recs)
  BY <1>1, <1>2, <1>3 DEF WalOK, WalTyped, FilesOf
<1>5. PICK g : g = [f EXCEPT !.named = TRUE, !.synced = 0]
  OBVIOUS
<1>6. g \in File(S) /\ g.recs = f.recs /\ g.named /\ g.synced = 0
  BY <1>5 DEF File
<1>7. Replaced(sg, n, g, Named)
  <2>1. Named = [segs EXCEPT ![w.first] = [@ EXCEPT !.named = TRUE, !.synced = 0]]
    BY DEF Named
  <2>2. QED
    BY <1>1, <1>2, <1>3, <1>5, <2>1 DEF Replaced
<1>8. Extends(S, f, g) /\ g.synced <= Len(g.recs)
  <2>1. f.recs \in Seq(S) /\ f.synced \in Nat \cup {-1} /\ Len(<<>>) = 0
    BY FileTypes
  <2>2. <<>> \in Seq(S) /\ <<>> \o <<>> = <<>>
    BY ConcatEmptySeq
  <2>3. f.synced <= g.synced
    BY <1>4, <1>6, <2>1
  <2>4. g.recs = f.recs \o <<>> /\ g.synced <= Len(g.recs)
    BY <1>4, <1>6, <2>1, <2>2
  <2>5. QED
    BY <1>6, <2>2, <2>3, <2>4, Zenon DEF Extends
<1>9. PICK sh : sh = Named
  OBVIOUS
<1>10. Replaced(sg, n, g, sh)
  BY <1>7, <1>9
<1>11. /\ FilesOf(S, N, sh) /\ DOMAIN sh = DOMAIN sg /\ sh[n] = g
       /\ \A m \in DOMAIN sg : m # n => sh[m] = sg[m]
       /\ Extends(S, sg[n], g) => Extended(S, sg, sh)
  BY <1>4, <1>6, <1>8, <1>10, ReplaceFile
<1>12. /\ FilesOf(S, N, Named) /\ Extended(S, segs, Named) /\ DOMAIN Named = DOMAIN segs
       /\ w.first \in DOMAIN segs /\ Named[w.first].recs = <<>>
       /\ \A m \in DOMAIN segs : m # w.first => Named[m] = segs[m]
  BY <1>1, <1>2, <1>3, <1>4, <1>6, <1>8, <1>9, <1>11
<1>13. /\ OnNewSegment \in WriterOf(S) /\ OnNewSegment.state = "open"
       /\ OnNewSegment.cur = w.first /\ OnNewSegment.step = "idle" /\ OnNewSegment.buf = w.buf
  <2>1. w \in WriterOf(S) /\ w.first \in Nat
    BY WriterTypes DEF WalOK, WalTyped
  <2>2. "open" \in WriterStates /\ "idle" \in WriterSteps
    BY DEF WriterStates, WriterSteps
  <2>3. QED
    BY <2>1, <2>2 DEF OnNewSegment, WriterOf
<1>14. QED
  BY <1>12, <1>13

LEMMA AppendRotatedOf ==
    ASSUME NEW S, NEW N \in Nat, NumberedTo(S, N), WalOK(S, N), NEW rec \in S,
           AppendRotated(rec)
    PROVE  /\ WalOK(S, N)' /\ Extended(S, segs, segs') /\ DOMAIN segs' = DOMAIN segs
           /\ w'.state = "open" /\ w'.step = "idle" /\ w'.cur = w.first
           /\ segs'[w.first].recs \o w'.buf = Append(<<>> \o w.buf, rec)
<1>1. w.step = "sync" /\ Put(Named, OnNewSegment, rec)
  BY DEF AppendRotated
<1>2. PICK sg : sg = Named
  OBVIOUS
<1>3. PICK wr : wr = OnNewSegment
  OBVIOUS
<1>4. /\ FilesOf(S, N, sg) /\ Extended(S, segs, sg) /\ DOMAIN sg = DOMAIN segs
      /\ w.first \in DOMAIN segs /\ sg[w.first].recs = <<>>
      /\ wr \in WriterOf(S) /\ wr.state = "open"
      /\ wr.cur = w.first /\ wr.step = "idle" /\ wr.buf = w.buf
  BY <1>1, <1>2, <1>3, NamedOf
<1>5. wr.cur \in DOMAIN sg /\ Put(sg, wr, rec)
  BY <1>1, <1>2, <1>3, <1>4
<1>6. /\ FilesOf(S, N, segs') /\ Extended(S, sg, segs') /\ DOMAIN segs' = DOMAIN sg
      /\ w' \in WriterOf(S) /\ w'.state = wr.state /\ w'.cur = wr.cur
      /\ w'.step = wr.step
      /\ segs'[wr.cur].recs \o w'.buf = Append(sg[wr.cur].recs \o wr.buf, rec)
  <2>1. PutDone(S, N, sg, wr, rec)
    BY <1>4, <1>5, PutOf
  <2>2. QED
    BY <2>1 DEF PutDone
<1>7. Extended(S, segs, segs')
  <2>1. FilesOf(S, N, segs)
    BY DEF WalOK, WalTyped
  <2>2. QED
    BY <1>4, <1>6, <2>1, ExtendedTransitive
<1>8. WalOK(S, N)'
  BY <1>4, <1>6 DEF WalOK, WalTyped
<1>9. QED
  BY <1>4, <1>6, <1>7, <1>8

(* The Writer fails, and part of what it held is in the file. *)
LEMMA FlushPartStep ==
    ASSUME NEW S, NEW N \in Nat, WalOK(S, N), w.state = "open", NEW x \in Seq(S), FlushPart(x)
    PROVE  FilesOf(S, N, segs') /\ Extended(S, segs, segs') /\ DOMAIN segs' = DOMAIN segs
<1>1. PICK f \in File(S) :
        /\ f.synced <= Len(f.recs) /\ Extends(S, segs[w.cur], f)
        /\ segs' = [segs EXCEPT ![w.cur] = f]
  BY FlushPartOf
<1>2. w.cur \in DOMAIN segs /\ Replaced(segs, w.cur, f, segs')
  BY <1>1 DEF WalOK, WalTyped, Replaced
<1>3. QED
  BY <1>1, <1>2, CurrentOf

LEMMA FlushedStep ==
    ASSUME NEW S, NEW N \in Nat, WalOK(S, N), w.state = "open", NEW sh, sh = Flushed
    PROVE  /\ FilesOf(S, N, sh) /\ Extended(S, segs, sh) /\ DOMAIN sh = DOMAIN segs
           /\ w.cur \in DOMAIN segs /\ sh[w.cur].recs = segs[w.cur].recs \o w.buf
<1>1. PICK f \in File(S) :
        /\ f.recs = segs[w.cur].recs \o w.buf /\ f.synced <= Len(f.recs)
        /\ Extends(S, segs[w.cur], f) /\ Flushed = [segs EXCEPT ![w.cur] = f]
  BY FlushedOf
<1>2. w.cur \in DOMAIN segs /\ Replaced(segs, w.cur, f, sh)
  BY <1>1 DEF WalOK, WalTyped, Replaced
<1>3. QED
  BY <1>1, <1>2, CurrentOf

LEMMA FsyncedStep ==
    ASSUME NEW S, NEW N \in Nat, WalOK(S, N), w.state = "open", NEW sh, sh = Fsynced(Flushed)
    PROVE  /\ FilesOf(S, N, sh) /\ Extended(S, segs, sh) /\ DOMAIN sh = DOMAIN segs
           /\ w.cur \in DOMAIN segs /\ sh[w.cur].recs = segs[w.cur].recs \o w.buf
           /\ sh[w.cur].synced = Len(sh[w.cur].recs) /\ (FsyncNames => sh[w.cur].named)
<1>1. PICK f \in File(S) :
        /\ f.recs = segs[w.cur].recs \o w.buf /\ f.synced = Len(f.recs) /\ f.synced <= Len(f.recs)
        /\ f.named = (segs[w.cur].named \/ FsyncNames)
        /\ Extends(S, segs[w.cur], f) /\ Fsynced(Flushed) = [segs EXCEPT ![w.cur] = f]
  BY FsyncedOf
<1>2. w.cur \in DOMAIN segs /\ Replaced(segs, w.cur, f, sh)
  BY <1>1 DEF WalOK, WalTyped, Replaced
<1>3. /\ FilesOf(S, N, sh) /\ Extended(S, segs, sh) /\ DOMAIN sh = DOMAIN segs /\ sh[w.cur] = f
  BY <1>1, <1>2, CurrentOf
<1>4. FsyncNames => f.named
  BY <1>1
<1>5. QED
  BY <1>1, <1>2, <1>3, <1>4

(* A call that fails leaves files that hold what they held, and perhaps more. *)
LEMMA AppendFailsOf ==
    ASSUME NEW S, NEW N \in Nat, WalOK(S, N), NEW rec \in S, AppendFails(rec)
    PROVE  /\ WalOK(S, N)' /\ Extended(S, segs, segs') /\ w'.step = "idle"
           /\ w'.state # "none" /\ (w'.state = "open" => w.state = "open" /\ w'.cur = w.cur)
<1>1. w.state \in {"open", "latched"} /\ w.step = "idle" /\ w \in WriterOf(S) /\ FilesOf(S, N, segs)
  BY DEF AppendFails, WalOK, WalTyped
<1>2. CASE UNCHANGED walVars
  <2>1. segs' = segs /\ w' = w
    BY <1>2 DEF walVars
  <2>2. WalOK(S, N)'
    BY <2>1 DEF WalOK
  <2>3. QED
    BY <1>1, <2>1, <2>2, ExtendedSelf
<1>3. CASE /\ w.state = "open" /\ FlushPart(Append(w.buf, rec))
           /\ w' = [w EXCEPT !.state = "latched", !.buf = <<>>]
  <2>1. PICK x \in Seq(S) : x = Append(w.buf, rec)
    BY <1>1, WriterTypes, AppendProperties
  <2>2. FlushPart(x)
    BY <1>3, <2>1
  <2>3. FilesOf(S, N, segs') /\ Extended(S, segs, segs') /\ DOMAIN segs' = DOMAIN segs
    BY <1>3, <2>2, FlushPartStep
  <2>4. "latched" \in WriterStates /\ Left(w, "latched", w') /\ w.cur \in DOMAIN segs
    BY <1>3 DEF WriterStates, Left, WalOK, WalTyped
  <2>5. WalOK(S, N)' /\ w'.state = "latched" /\ w'.step = "idle"
    BY <1>1, <2>3, <2>4, LeavesOf
  <2>6. QED
    BY <2>3, <2>5
<1>4. QED
  BY <1>2, <1>3 DEF AppendFails

LEMMA SyncOf ==
    ASSUME NEW S, NEW N \in Nat, WalOK(S, N), Sync
    PROVE  /\ WalOK(S, N)' /\ Extended(S, segs, segs') /\ DOMAIN segs' = DOMAIN segs
           /\ w.state = "open" /\ w'.state = "open" /\ w'.step = "idle"
           /\ w'.cur = w.cur /\ w.cur \in DOMAIN segs /\ w'.buf = <<>>
           /\ segs'[w.cur].recs = segs[w.cur].recs \o w.buf
           /\ segs'[w.cur].synced = Len(segs'[w.cur].recs) /\ (FsyncNames => segs'[w.cur].named)
<1>1. /\ w.state = "open" /\ w.step = "idle" /\ segs' = Fsynced(Flushed)
      /\ w' = [w EXCEPT !.buf = <<>>]
  BY DEF Sync
<1>2. PICK sh : sh = segs'
  OBVIOUS
<1>3. /\ FilesOf(S, N, sh) /\ Extended(S, segs, sh) /\ DOMAIN sh = DOMAIN segs
      /\ w.cur \in DOMAIN segs /\ sh[w.cur].recs = segs[w.cur].recs \o w.buf
      /\ sh[w.cur].synced = Len(sh[w.cur].recs) /\ (FsyncNames => sh[w.cur].named)
  BY <1>1, <1>2, FsyncedStep
<1>4. "open" \in WriterStates /\ Left(w, "open", w')
  <2>1. w \in WriterOf(S)
    BY DEF WalOK, WalTyped
  <2>2. QED
    BY <1>1, <2>1 DEF WriterStates, Left, WriterOf
<1>5. WalOK(S, N)' /\ w'.state = "open" /\ w'.step = "idle" /\ w'.cur = w.cur /\ w'.buf = <<>>
  BY <1>1, <1>2, <1>3, <1>4, LeavesOf
<1>6. QED
  BY <1>1, <1>2, <1>3, <1>5

LEMMA SyncFailsOf ==
    ASSUME NEW S, NEW N \in Nat, WalOK(S, N), SyncFails
    PROVE  /\ WalOK(S, N)' /\ Extended(S, segs, segs') /\ w'.step = "idle"
           /\ w'.state # "none" /\ (w'.state = "open" => w.state = "open" /\ w'.cur = w.cur)
<1>1. w.step = "idle" /\ w \in WriterOf(S) /\ FilesOf(S, N, segs)
  BY DEF SyncFails, WalOK, WalTyped
<1>2. CASE w.state = "latched" /\ UNCHANGED walVars
  <2>1. segs' = segs /\ w' = w
    BY <1>2 DEF walVars
  <2>2. WalOK(S, N)'
    BY <2>1 DEF WalOK
  <2>3. QED
    BY <1>1, <1>2, <2>1, <2>2, ExtendedSelf
<1>3. CASE /\ w.state = "open" /\ FlushPart(w.buf)
           /\ w' = [w EXCEPT !.state = "latched", !.buf = <<>>]
  <2>1. PICK x \in Seq(S) : x = w.buf
    BY <1>1, WriterTypes
  <2>2. FlushPart(x)
    BY <1>3, <2>1
  <2>3. FilesOf(S, N, segs') /\ Extended(S, segs, segs') /\ DOMAIN segs' = DOMAIN segs
    BY <1>3, <2>2, FlushPartStep
  <2>4. "latched" \in WriterStates /\ Left(w, "latched", w') /\ w.cur \in DOMAIN segs
    BY <1>3 DEF WriterStates, Left, WalOK, WalTyped
  <2>5. WalOK(S, N)' /\ w'.state = "latched" /\ w'.step = "idle"
    BY <1>1, <2>3, <2>4, LeavesOf
  <2>6. QED
    BY <2>3, <2>5
<1>4. CASE w.state = "open" /\ segs' = Flushed /\ w' = [w EXCEPT !.buf = <<>>]
  <2>1. PICK sh : sh = segs'
    OBVIOUS
  <2>2. /\ FilesOf(S, N, sh) /\ Extended(S, segs, sh) /\ DOMAIN sh = DOMAIN segs
        /\ w.cur \in DOMAIN segs
    BY <1>4, <2>1, FlushedStep
  <2>3. "open" \in WriterStates /\ Left(w, "open", w')
    BY <1>1, <1>4 DEF WriterStates, Left, WriterOf
  <2>4. WalOK(S, N)' /\ w'.state = "open" /\ w'.step = "idle" /\ w'.cur = w.cur
    BY <1>1, <2>1, <2>2, <2>3, LeavesOf
  <2>5. QED
    BY <1>4, <2>1, <2>2, <2>4
<1>5. QED
  BY <1>2, <1>3, <1>4 DEF SyncFails

(* Close, whatever it returns. *)
LEMMA CloseFiles ==
    ASSUME NEW S, NEW N \in Nat, WalOK(S, N), CloseOK \/ CloseFails
    PROVE  FilesOf(S, N, segs') /\ Extended(S, segs, segs') /\ DOMAIN segs' = DOMAIN segs
<1>1. FilesOf(S, N, segs) /\ w \in WriterOf(S)
  BY DEF WalOK, WalTyped
<1>2. CASE segs' = segs
  BY <1>1, <1>2, ExtendedSelf
<1>3. CASE w.state = "open" /\ FlushPart(w.buf)
  <2>1. PICK x \in Seq(S) : x = w.buf
    BY <1>1, WriterTypes
  <2>2. FlushPart(x)
    BY <1>3, <2>1
  <2>3. QED
    BY <1>3, <2>2, FlushPartStep
<1>4. CASE w.state = "open" /\ (segs' = Flushed \/ segs' = Fsynced(Flushed))
  <2>1. PICK sh : sh = segs'
    OBVIOUS
  <2>2. FilesOf(S, N, sh) /\ Extended(S, segs, sh) /\ DOMAIN sh = DOMAIN segs
    BY <1>4, <2>1, FlushedStep, FsyncedStep
  <2>3. QED
    BY <2>1, <2>2
<1>5. QED
  BY <1>2, <1>3, <1>4 DEF CloseOK, CloseFails

LEMMA CloseOf ==
    ASSUME NEW S, NEW N \in Nat, WalOK(S, N), CloseOK \/ CloseFails, w' = Closed
    PROVE  /\ WalOK(S, N)' /\ Extended(S, segs, segs') /\ DOMAIN segs' = DOMAIN segs
           /\ w'.state = "closed" /\ w'.step = "idle"
<1>1. w.step = "idle"
  BY DEF CloseOK, CloseFails
<1>2. FilesOf(S, N, segs') /\ Extended(S, segs, segs') /\ DOMAIN segs' = DOMAIN segs
  BY CloseFiles
<1>3. "closed" \in WriterStates /\ Left(w, "closed", w') /\ "closed" \notin {"open", "latched"}
  BY DEF WriterStates, Left, Closed
<1>4. WalOK(S, N)' /\ w'.state = "closed" /\ w'.step = "idle"
  BY <1>1, <1>2, <1>3, LeavesOf
<1>5. QED
  BY <1>2, <1>4

LEMMA RotateOf ==
    ASSUME NEW S, NEW N \in Nat, NumberedTo(S, N), WalOK(S, N), NEW rec \in S, Rotate(rec)
    PROVE  /\ WalOK(S, N)' /\ Extended(S, segs, segs') /\ DOMAIN segs' = DOMAIN segs
           /\ w.step = "idle" /\ w.state \in {"open", "closed"}
           /\ w'.state = "closed" /\ w'.step = "create" /\ w'.first = rec.seq
           /\ w.state = "open" =>
                /\ w.cur \in DOMAIN segs /\ segs'[w.cur].recs = segs[w.cur].recs \o w.buf
                /\ segs'[w.cur].synced = Len(segs'[w.cur].recs)
                /\ FsyncNames => segs'[w.cur].named
<1>1. /\ w.step = "idle" /\ w.state \in {"open", "closed"}
      /\ CloseOK /\ w' = [Closed EXCEPT !.step = "create", !.first = rec.seq]
  BY DEF Rotate, CloseOK
<1>2. FilesOf(S, N, segs') /\ Extended(S, segs, segs') /\ DOMAIN segs' = DOMAIN segs
  BY <1>1, CloseFiles
<1>3. PICK x : x = Closed
  OBVIOUS
<1>4. PICK q \in 1 .. N : q = rec.seq
  BY DEF NumberedTo
<1>5. PICK v : v = w'
  OBVIOUS
<1>6. x \in WriterOf(S) /\ x.state = "closed"
  <2>1. PICK y : y = w
    OBVIOUS
  <2>2. y \in WriterOf(S) /\ Left(y, "closed", x) /\ "closed" \in WriterStates
    BY <1>3, <2>1 DEF WriterStates, Left, Closed, WalOK, WalTyped
  <2>3. QED
    BY <2>2, LeftOf
<1>7. "create" \in WriterSteps /\ Stepped(x, "create", q, v) /\ q \in Nat
  BY <1>1, <1>3, <1>4, <1>5 DEF WriterSteps, Stepped
<1>8. v \in WriterOf(S) /\ v.state = x.state /\ v.step = "create" /\ v.first = q
  BY <1>6, <1>7, SteppedOf
<1>9. WalOK(S, N)'
  BY <1>2, <1>4, <1>5, <1>6, <1>8 DEF WalOK, WalTyped
<1>10. ASSUME w.state = "open"
       PROVE  /\ w.cur \in DOMAIN segs /\ segs'[w.cur].recs = segs[w.cur].recs \o w.buf
              /\ segs'[w.cur].synced = Len(segs'[w.cur].recs)
              /\ FsyncNames => segs'[w.cur].named
  <2>1. PICK sh : sh = segs'
    OBVIOUS
  <2>2. sh = Fsynced(Flushed)
    BY <1>1, <1>10, <2>1 DEF CloseOK
  <2>3. /\ w.cur \in DOMAIN segs /\ sh[w.cur].recs = segs[w.cur].recs \o w.buf
        /\ sh[w.cur].synced = Len(sh[w.cur].recs) /\ (FsyncNames => sh[w.cur].named)
    BY <1>10, <2>2, FsyncedStep
  <2>4. QED
    BY <2>1, <2>3
<1>11. QED
  BY <1>1, <1>2, <1>4, <1>5, <1>6, <1>8, <1>9, <1>10

(* openSegment empties the file it creates, and touches no other. *)
LEMMA CreateFileOf ==
    ASSUME NEW S, NEW N \in Nat, WalOK(S, N), CreateFile
    PROVE  /\ WalOK(S, N)' /\ DOMAIN segs' = DOMAIN segs \cup {w.first}
           /\ w.first \in 1 .. N /\ segs'[w.first].recs = <<>>
           /\ \A m \in DOMAIN segs : m # w.first => segs'[m] = segs[m]
           /\ w.step = "create" /\ w'.state = w.state /\ w'.step = "header"
           /\ w'.first = w.first /\ w'.cur = w.cur /\ w'.buf = w.buf
<1>1. /\ w.step = "create" /\ w.first \in 1 .. N /\ w \in WriterOf(S) /\ FilesOf(S, N, segs)
      /\ w.state \in {"open", "latched"} => w.cur \in DOMAIN segs
  BY DEF CreateFile, WalOK, WalTyped
<1>2. PICK new \in File(S) : /\ new.recs = <<>> /\ new.synced <= Len(new.recs)
                             /\ segs' = [n \in DOMAIN segs \cup {w.first} |->
                                           IF n # w.first THEN segs[n] ELSE new]
  <2> DEFINE b == w.first \in DOMAIN segs /\ segs[w.first].named
             new == [NewFile EXCEPT !.named = b]
  <2>1. b \in BOOLEAN
    OBVIOUS
  <2>2. segs' = [n \in DOMAIN segs \cup {w.first} |-> IF n # w.first THEN segs[n] ELSE new]
    <3>1. segs' = [n \in DOMAIN segs \cup {w.first} |->
                     IF n # w.first THEN segs[n]
                     ELSE [NewFile EXCEPT !.named = n \in DOMAIN segs /\ segs[n].named]]
      BY DEF CreateFile
    <3>2. QED
      BY <3>1
  <2> HIDE DEF b
  <2>3. <<>> \in Seq(S) /\ FALSE \in BOOLEAN /\ "no" \in {"no", "mine", "left"} /\ -1 \in Nat \cup {-1}
    OBVIOUS
  <2>4. new \in File(S) /\ new.recs = <<>> /\ new.synced = -1
    BY <2>1, <2>3 DEF NewFile, File
  <2> HIDE DEF new
  <2>5. Len(<<>>) = 0 /\ -1 <= 0
    OBVIOUS
  <2>6. QED
    BY <2>2, <2>4, <2>5
<1>3. /\ DOMAIN segs' = DOMAIN segs \cup {w.first} /\ segs'[w.first] = new
      /\ \A m \in DOMAIN segs : m # w.first => segs'[m] = segs[m]
  BY <1>2
<1>4. FilesOf(S, N, segs')
  <2>1. \A m \in DOMAIN segs' : segs'[m] \in File(S) /\ segs'[m].synced <= Len(segs'[m].recs)
    BY <1>1, <1>2, <1>3 DEF FilesOf
  <2>2. segs' \in [DOMAIN segs' -> File(S)]
    BY <1>2, <2>1
  <2>3. QED
    BY <1>1, <1>3, <2>1, <2>2 DEF FilesOf
<1>5. /\ w' \in WriterOf(S) /\ w'.state = w.state /\ w'.step = "header"
      /\ w'.first = w.first /\ w'.cur = w.cur /\ w'.buf = w.buf
  <2>1. w' = [w EXCEPT !.step = "header"] /\ "header" \in WriterSteps
    BY DEF CreateFile, WriterSteps
  <2>2. QED
    BY <1>1, <2>1 DEF WriterOf
<1>6. WalOK(S, N)'
  BY <1>1, <1>2, <1>3, <1>4, <1>5 DEF WalOK, WalTyped
<1>7. QED
  BY <1>1, <1>2, <1>3, <1>5, <1>6

LEMMA WriteHeaderOf ==
    ASSUME NEW S, NEW N \in Nat, WalOK(S, N), WriteHeader
    PROVE  /\ WalOK(S, N)' /\ Extended(S, segs, segs') /\ DOMAIN segs' = DOMAIN segs
           /\ \A m \in DOMAIN segs : segs'[m].recs = segs[m].recs
           /\ w.step = "header" /\ w'.state = w.state /\ w'.step = "sync"
           /\ w'.first = w.first /\ w'.cur = w.cur /\ w'.buf = w.buf
<1>1. PICK sg : sg = segs
  OBVIOUS
<1>2. PICK n \in DOMAIN sg : n = w.first
  BY <1>1 DEF WriteHeader, WalOK, WalTyped
<1>3. /\ w.step = "header" /\ w.first \in 1 .. N /\ w \in WriterOf(S) /\ FilesOf(S, N, sg)
      /\ w.state \in {"open", "latched"} => w.cur \in DOMAIN sg
      /\ sg[n].recs = <<>>
  BY <1>1, <1>2 DEF WriteHeader, WalOK, WalTyped
<1>4. PICK f \in File(S) : f = sg[n]
  BY <1>3 DEF FilesOf
<1>5. PICK g : g = [f EXCEPT !.ok = TRUE]
  OBVIOUS
<1>6. /\ g \in File(S) /\ g.recs = f.recs /\ g.named = f.named /\ g.synced = f.synced
      /\ f.synced <= Len(f.recs)
  BY <1>3, <1>4, <1>5 DEF File, FilesOf
<1>7. Extends(S, f, g)
  <2>1. <<>> \in Seq(S) /\ f.recs \o <<>> = f.recs /\ f.synced <= f.synced
    BY FileTypes, ConcatEmptySeq
  <2>2. QED
    BY <1>6, <2>1 DEF Extends
<1>8. PICK sh : sh = segs'
  OBVIOUS
<1>9. Replaced(sg, n, g, sh)
  <2>1. segs' = [segs EXCEPT ![w.first] = [@ EXCEPT !.ok = TRUE]]
    BY DEF WriteHeader
  <2>2. QED
    BY <1>1, <1>2, <1>4, <1>5, <1>8, <2>1 DEF Replaced
<1>10. g.synced <= Len(g.recs)
  BY <1>6
<1>11. /\ FilesOf(S, N, sh) /\ DOMAIN sh = DOMAIN sg /\ sh[n] = g
       /\ \A m \in DOMAIN sg : m # n => sh[m] = sg[m]
       /\ Extends(S, sg[n], g) => Extended(S, sg, sh)
  BY <1>3, <1>6, <1>9, <1>10, ReplaceFile
<1>12. /\ w' \in WriterOf(S) /\ w'.state = w.state /\ w'.step = "sync"
       /\ w'.first = w.first /\ w'.cur = w.cur /\ w'.buf = w.buf
  <2>1. w' = [w EXCEPT !.step = "sync"] /\ "sync" \in WriterSteps
    BY DEF WriteHeader, WriterSteps
  <2>2. QED
    BY <1>3, <2>1 DEF WriterOf
<1>13. \A m \in DOMAIN sg : sh[m].recs = sg[m].recs
  BY <1>4, <1>6, <1>11
<1>14. WalTyped(S, N, sh, w')
  BY <1>2, <1>3, <1>11, <1>12, <1>13 DEF WalTyped
<1>15. WalOK(S, N)'
  BY <1>8, <1>14 DEF WalOK
<1>16. QED
  BY <1>1, <1>3, <1>4, <1>7, <1>8, <1>11, <1>12, <1>13, <1>15

LEMMA OpenSegmentFailsOf ==
    ASSUME NEW S, NEW N \in Nat, WalOK(S, N), OpenSegmentFails
    PROVE  /\ WalOK(S, N)' /\ Extended(S, segs, segs') /\ segs' = segs
           /\ w'.state = w.state /\ w'.step = "idle" /\ w'.cur = w.cur /\ w.step # "idle"
<1>1. w \in WriterOf(S) /\ FilesOf(S, N, segs) /\ segs' = segs /\ w.step # "idle"
  BY DEF OpenSegmentFails, WalOK, WalTyped
<1>2. w' \in WriterOf(S) /\ w'.state = w.state /\ w'.step = "idle" /\ w'.cur = w.cur
  <2>1. w' = [w EXCEPT !.step = "idle", !.first = 0] /\ "idle" \in WriterSteps /\ 0 \in Nat
    BY DEF OpenSegmentFails, WriterSteps
  <2>2. QED
    BY <1>1, <2>1 DEF WriterOf
<1>3. WalOK(S, N)'
  BY <1>1, <1>2 DEF WalOK, WalTyped
<1>4. QED
  BY <1>1, <1>2, <1>3, ExtendedSelf

LEMMA OnNothingOf ==
    ASSUME NEW S, NEW N \in Nat \ {0}, WalOK(S, N), OpenWriterOnNothing
    PROVE  /\ WalOK(S, N)' /\ segs' = segs /\ segs = <<>>
           /\ w'.state = "none" /\ w'.step = "create" /\ w'.first = 1
<1>1. w \in WriterOf(S) /\ FilesOf(S, N, segs) /\ segs' = segs /\ segs = <<>> /\ w = NoWriter
  BY DEF OpenWriterOnNothing, WalOK, WalTyped
<1>2. w' \in WriterOf(S) /\ w'.state = w.state /\ w'.step = "create" /\ w'.first = 1
  <2>1. w' = [w EXCEPT !.step = "create", !.first = 1] /\ "create" \in WriterSteps /\ 1 \in Nat
    BY DEF OpenWriterOnNothing, WriterSteps
  <2>2. QED
    BY <1>1, <2>1 DEF WriterOf
<1>3. w.state = "none" /\ 1 \in 1 .. N
  BY <1>1 DEF NoWriter
<1>4. WalOK(S, N)'
  BY <1>1, <1>2, <1>3 DEF WalOK, WalTyped
<1>5. QED
  BY <1>1, <1>2, <1>3, <1>4

LEMMA FirstOpenedOf ==
    ASSUME NEW S, NEW N \in Nat, WalOK(S, N), FirstSegmentOpened
    PROVE  /\ WalOK(S, N)' /\ Extended(S, segs, segs')
           /\ w.state = "none" /\ w.step = "sync"
           /\ w'.state = "open" /\ w'.step = "idle" /\ w'.cur = w.first
<1>1. w.state = "none" /\ w.step = "sync" /\ segs' = Named /\ w' = OnNewSegment
  BY DEF FirstSegmentOpened
<1>2. /\ FilesOf(S, N, Named) /\ Extended(S, segs, Named) /\ DOMAIN Named = DOMAIN segs
      /\ w.first \in DOMAIN segs
      /\ OnNewSegment \in WriterOf(S) /\ OnNewSegment.state = "open"
      /\ OnNewSegment.cur = w.first /\ OnNewSegment.step = "idle"
  BY <1>1, NamedOf
<1>3. WalTyped(S, N, Named, OnNewSegment)
  BY <1>2 DEF WalTyped
<1>4. QED
  BY <1>1, <1>2, <1>3 DEF WalOK

(* scanSegment finds a position that a record has, or none. *)
LEMMA HighestOf ==
    ASSUME NEW S, NEW N \in Nat, NumberedTo(S, N), NEW recs \in Seq(S)
    PROVE  /\ HighestSeq(recs) \in 0 .. N
           /\ \A k \in 1 .. Len(recs) : recs[k].seq <= HighestSeq(recs)
           /\ recs = <<>> => HighestSeq(recs) = 0
<1> DEFINE T == {0} \cup { recs[k].seq : k \in DOMAIN recs }
<1>1. DOMAIN recs = 1 .. Len(recs) /\ \A k \in 1 .. Len(recs) : recs[k] \in S
  OBVIOUS
<1>2. \A k \in 1 .. Len(recs) : recs[k].seq \in 1 .. N
  BY <1>1 DEF NumberedTo
<1>3. T \in SUBSET Nat /\ T # {} /\ \A n \in T : n <= N
  BY <1>1, <1>2
<1>4. \A k \in 1 .. Len(recs) : recs[k].seq \in T
  BY <1>1
<1>5. recs = <<>> => T = {0}
  <2>1. ASSUME recs = <<>> PROVE DOMAIN recs = {}
    BY <2>1
  <2>2. QED
    BY <2>1
<1>6. HighestSeq(recs) = Max(T)
  BY DEF HighestSeq
<1> HIDE DEF T
<1>7. Max(T) \in T /\ \A n \in T : n <= Max(T)
  BY <1>3, MaxProperties
<1>8. PICK top : top = Max(T)
  OBVIOUS
<1>9. top \in Nat /\ top <= N
  BY <1>3, <1>7, <1>8
<1>10. top \in 0 .. N
  BY <1>9
<1>11. QED
  BY <1>4, <1>5, <1>6, <1>7, <1>8, <1>10

(* The newest of the segments, if there are any. *)
LEMMA NewestOf ==
    ASSUME NEW S, NEW N \in Nat, NEW sg, FilesOf(S, N, sg), sg # <<>>
    PROVE  /\ Max(DOMAIN sg) \in DOMAIN sg /\ Max(DOMAIN sg) \in 1 .. N
           /\ \A n \in DOMAIN sg : n <= Max(DOMAIN sg)
<1> DEFINE T == DOMAIN sg
<1>1. T # {}
  <2>1. SUFFICES ASSUME DOMAIN sg = {} PROVE sg = <<>>
    OBVIOUS
  <2>2. sg = [n \in {} |-> sg[n]]
    BY <2>1 DEF FilesOf
  <2>3. DOMAIN <<>> = {} /\ <<>> = [n \in {} |-> sg[n]]
    OBVIOUS
  <2>4. QED
    BY <2>2, <2>3
<1>2. T \in SUBSET Nat /\ T \subseteq 1 .. N /\ \A n \in T : n <= N
  BY DEF FilesOf
<1> HIDE DEF T
<1>3. Max(T) \in T /\ \A n \in T : n <= Max(T)
  BY <1>1, <1>2, MaxProperties
<1>4. QED
  BY <1>2, <1>3 DEF T

LEMMA TruncatedOf ==
    ASSUME NEW S, NEW f \in File(S)
    PROVE  /\ Truncated(f) \in File(S) /\ Truncated(f).recs = f.recs
           /\ Truncated(f).synced = f.synced /\ Truncated(f).named = f.named
           /\ Extends(S, f, Truncated(f))
<1>1. PICK g : g = Truncated(f)
  OBVIOUS
<1>2. g \in File(S) /\ g.recs = f.recs /\ g.synced = f.synced /\ g.named = f.named
  BY <1>1 DEF Truncated, File
<1>3. <<>> \in Seq(S) /\ f.recs \o <<>> = f.recs /\ f.synced <= f.synced
  BY FileTypes, ConcatEmptySeq
<1>4. Extends(S, f, g)
  BY <1>2, <1>3 DEF Extends
<1>5. QED
  BY <1>1, <1>2, <1>4

LEMMA OnNewestOf ==
    ASSUME NEW S, NEW N \in Nat, NumberedTo(S, N), WalOK(S, N), OpenWriterOnNewest
    PROVE  /\ WalOK(S, N)' /\ Extended(S, segs, segs') /\ DOMAIN segs' = DOMAIN segs
           /\ \A m \in DOMAIN segs : segs'[m].recs = segs[m].recs
           /\ w = NoWriter /\ segs # <<>>
           /\ w'.state = "open" /\ w'.step = "idle" /\ w'.buf = <<>>
<1>1. PICK sg : sg = segs
  OBVIOUS
<1>2. /\ FilesOf(S, N, sg) /\ sg # <<>> /\ w = NoWriter /\ w \in WriterOf(S)
  BY <1>1 DEF OpenWriterOnNewest, WalOK, WalTyped
<1>3. PICK n \in DOMAIN sg : n = Max(DOMAIN sg) /\ n \in 1 .. N
  BY <1>2, NewestOf
<1>4. PICK f \in File(S) : f = sg[n]
  BY <1>2 DEF FilesOf
<1>5. f.synced <= Len(f.recs) /\ f.recs \in Seq(S) /\ Len(f.recs) \in Nat
  BY <1>2, <1>4, FileTypes DEF FilesOf
<1>6. PICK t \in File(S) : /\ t = Truncated(f) /\ t.recs = f.recs /\ t.synced = f.synced
                           /\ Extends(S, f, t)
  BY TruncatedOf
<1>7. PICK g : g = FsyncedFile(t)
  OBVIOUS
<1>8. g \in File(S) /\ g.recs = t.recs /\ g.synced <= Len(g.recs) /\ Extends(S, t, g)
  BY <1>5, <1>6, <1>7, FsyncedType
<1>9. Extends(S, f, g)
  BY <1>6, <1>8, ExtendsTransitive
<1>10. PICK sh : sh = segs'
  OBVIOUS
<1>11. Replaced(sg, n, g, sh)
  BY <1>1, <1>3, <1>4, <1>6, <1>7, <1>10 DEF OpenWriterOnNewest, Replaced
<1>12. /\ FilesOf(S, N, sh) /\ DOMAIN sh = DOMAIN sg /\ sh[n] = g
       /\ \A m \in DOMAIN sg : m # n => sh[m] = sg[m]
       /\ Extends(S, sg[n], g) => Extended(S, sg, sh)
  BY <1>2, <1>8, <1>11, ReplaceFile
<1>13. PICK last \in Nat : last = LastPosition(segs)
  <2>1. HighestSeq(f.recs) \in Nat /\ n - 1 \in Nat
    <3>1. HighestSeq(f.recs) \in 0 .. N
      BY <1>5, HighestOf
    <3>2. QED
      BY <1>3, <3>1
  <2>2. Max({HighestSeq(f.recs), n - 1}) \in Nat
    BY <2>1, MaxOfTwo
  <2>3. LastPosition(segs) = Max({HighestSeq(f.recs), n - 1})
    BY <1>1, <1>2, <1>3, <1>4 DEF LastPosition
  <2>4. QED
    BY <2>2, <2>3
<1>14. /\ w' \in WriterOf(S) /\ w'.state = "open" /\ w'.cur = n /\ w'.step = w.step
       /\ w'.buf = w.buf
  <2>1. w' = [w EXCEPT !.state = "open", !.cur = n, !.size = Len(f.recs), !.last = last]
    BY <1>1, <1>3, <1>4, <1>13 DEF OpenWriterOnNewest
  <2>2. "open" \in WriterStates /\ n \in Nat
    BY <1>3 DEF WriterStates
  <2>3. QED
    BY <1>2, <1>5, <2>1, <2>2 DEF WriterOf
<1>15. w.step = "idle" /\ w.buf = <<>>
  BY <1>2 DEF NoWriter
<1>16. WalTyped(S, N, sh, w')
  BY <1>3, <1>12, <1>14, <1>15 DEF WalTyped
<1>17. \A m \in DOMAIN sg : sh[m].recs = sg[m].recs
  BY <1>4, <1>6, <1>8, <1>12
<1>18. WalOK(S, N)'
  BY <1>10, <1>16 DEF WalOK
<1>19. QED
  BY <1>1, <1>2, <1>4, <1>9, <1>10, <1>12, <1>14, <1>15, <1>17, <1>18

LEMMA OpenFailsOf ==
    ASSUME NEW S, NEW N \in Nat, WalOK(S, N), OpenWriterFails
    PROVE  WalOK(S, N)' /\ Extended(S, segs, segs') /\ w' = w /\ w = NoWriter /\ segs # <<>>
<1>1. PICK sg : sg = segs
  OBVIOUS
<1>2. /\ FilesOf(S, N, sg) /\ sg # <<>> /\ w = NoWriter /\ w \in WriterOf(S) /\ w' = w
      /\ w.step = "idle" /\ w.state = "none"
  BY <1>1 DEF OpenWriterFails, WalOK, WalTyped, NoWriter
<1>3. PICK n \in DOMAIN sg : n = Max(DOMAIN sg)
  BY <1>2, NewestOf
<1>4. CASE segs' = segs
  BY <1>1, <1>2, <1>4, ExtendedSelf DEF WalOK
<1>5. CASE segs' = [segs EXCEPT ![Max(DOMAIN segs)] = Truncated(@)]
  <2>1. PICK f \in File(S) : f = sg[n]
    BY <1>2 DEF FilesOf
  <2>2. PICK g \in File(S) : /\ g = Truncated(f) /\ g.recs = f.recs /\ g.synced = f.synced
                             /\ Extends(S, f, g)
    BY TruncatedOf
  <2>3. g.synced <= Len(g.recs)
    BY <1>2, <2>1, <2>2 DEF FilesOf
  <2>4. PICK sh : sh = segs'
    OBVIOUS
  <2>5. Replaced(sg, n, g, sh)
    BY <1>1, <1>3, <1>5, <2>1, <2>2, <2>4 DEF Replaced
  <2>6. /\ FilesOf(S, N, sh) /\ DOMAIN sh = DOMAIN sg
        /\ Extends(S, sg[n], g) => Extended(S, sg, sh)
    BY <1>2, <2>3, <2>5, ReplaceFile
  <2>7. WalTyped(S, N, sh, w')
    BY <1>2, <2>6 DEF WalTyped
  <2>8. WalOK(S, N)'
    BY <2>4, <2>7 DEF WalOK
  <2>9. QED
    BY <1>1, <1>2, <2>1, <2>2, <2>4, <2>6, <2>8
<1>6. QED
  BY <1>4, <1>5 DEF OpenWriterFails

(* A crash leaves the beginning of every file it leaves. *)
LEMMA ImageOf ==
    ASSUME NEW S, NEW f \in File(S), f.synced <= Len(f.recs), NEW g \in Images(f)
    PROVE  g \in File(S) /\ g.synced <= Len(g.recs)
<1>1. /\ f.recs \in Seq(S) /\ Len(f.recs) \in Nat /\ f.synced \in Nat \cup {-1}
      /\ f.named \in BOOLEAN
  BY FileTypes
<1>2. PICK m \in Nat : m = Max({0, f.synced}) /\ (f.synced \in Nat => f.synced <= m)
  <2>1. CASE f.synced \in Nat
    BY <2>1, MaxOfTwo
  <2>2. CASE f.synced = -1
    <3>1. 0 \in {0, -1} /\ \A n \in {0, -1} : 0 >= n
      OBVIOUS
    <3>2. Max({0, -1}) \in {0, -1} /\ \A n \in {0, -1} : Max({0, -1}) >= n
      BY <3>1 DEF Max
    <3>3. Max({0, -1}) = 0
      BY <3>2
    <3>4. QED
      BY <2>2, <3>3
  <2>3. QED
    BY <1>1, <2>1, <2>2
<1>3. CASE g = [NewFile EXCEPT !.named = f.named]
  <2>1. <<>> \in Seq(S) /\ FALSE \in BOOLEAN /\ "no" \in {"no", "mine", "left"}
        /\ -1 \in Nat \cup {-1}
    OBVIOUS
  <2>2. g \in File(S) /\ g.recs = <<>> /\ g.synced = -1
    BY <1>1, <1>3, <2>1 DEF NewFile, File
  <2>3. Len(<<>>) = 0 /\ -1 <= 0
    OBVIOUS
  <2>4. QED
    BY <2>2, <2>3
<1>4. ASSUME NEW n \in m .. Len(f.recs), NEW t \in {"no", "left"}, g = CutAt(f, n, t)
      PROVE  g \in File(S) /\ g.synced <= Len(g.recs)
  <2>1. PICK r \in Seq(S) : r = f.recs
    BY <1>1
  <2>2. n \in 0 .. Len(r) /\ n \in Int /\ \A i \in 1 .. n : r[i] \in S
    BY <1>1, <1>2, <2>1
  <2>3. SubSeq(r, 1, n) \in Seq(S) /\ Len(SubSeq(r, 1, n)) = n
    BY <2>2, SubSeqProperties
  <2>4. PICK s \in Seq(S) : s = SubSeq(r, 1, n) /\ Len(s) = n
    BY <2>3
  <2>5. g = [f EXCEPT !.recs = s, !.torn = t]
    BY <1>4, <2>1, <2>4 DEF CutAt
  <2>6. t \in {"no", "mine", "left"}
    OBVIOUS
  <2>7. g \in File(S) /\ g.recs = s /\ g.synced = f.synced
    BY <2>5, <2>6 DEF File
  <2>8. f.synced <= n
    BY <1>1, <1>2, <2>2
  <2>9. QED
    BY <2>4, <2>7, <2>8
<1>5. QED
  <2>1. \/ g = [NewFile EXCEPT !.named = f.named]
        \/ \E n \in m .. Len(f.recs) : \E t \in {"no", "left"} : g = CutAt(f, n, t)
    <3> DEFINE more == IF f.torn # "no" \/ f.synced < Len(f.recs) THEN {"left"} ELSE {}
               ends == Max({0, f.synced}) .. Len(f.recs)
               tails == {"no"} \cup more
               cuts == { CutAt(f, k, t) : k \in ends, t \in tails }
               none == IF f.synced >= 0 THEN {} ELSE {[NewFile EXCEPT !.named = f.named]}
    <3>1. CASE g \in cuts
      <4>1. tails \subseteq {"no", "left"} /\ ends = m .. Len(f.recs)
        BY <1>2
      <4> HIDE DEF more, ends, tails
      <4>2. PICK k \in ends, t \in tails : g = CutAt(f, k, t)
        BY <3>1
      <4>3. QED
        BY <4>1, <4>2
    <3>2. CASE g \in none
      <4>1. ~(f.synced >= 0) /\ g = [NewFile EXCEPT !.named = f.named]
        BY <3>2
      <4>2. QED
        BY <4>1
    <3>3. Images(f) = cuts \cup none
      BY DEF Images
    <3> HIDE DEF cuts, none
    <3>4. QED
      BY <3>1, <3>2, <3>3
  <2>2. QED
    BY <1>3, <1>4, <2>1

LEMMA CrashOf ==
    ASSUME NEW S, NEW N \in Nat, WalOK(S, N), Crash
    PROVE  WalOK(S, N)' /\ w' = NoWriter
<1>1. /\ DOMAIN segs' \subseteq DOMAIN segs /\ w' = NoWriter
      /\ \A n \in DOMAIN segs' : segs'[n] \in Images(segs[n])
      /\ \E R : segs' \in [DOMAIN segs' -> R]
  BY DEF Crash
<1>2. FilesOf(S, N, segs)
  BY DEF WalOK, WalTyped
<1>3. \A n \in DOMAIN segs' : segs'[n] \in File(S) /\ segs'[n].synced <= Len(segs'[n].recs)
  <2>1. SUFFICES ASSUME NEW n \in DOMAIN segs'
                 PROVE  segs'[n] \in File(S) /\ segs'[n].synced <= Len(segs'[n].recs)
    OBVIOUS
  <2>2. PICK f : f = segs[n]
    OBVIOUS
  <2>3. PICK g : g = segs'[n]
    OBVIOUS
  <2>4. f \in File(S) /\ f.synced <= Len(f.recs) /\ g \in Images(f)
    BY <1>1, <1>2, <2>2, <2>3 DEF FilesOf
  <2>5. g \in File(S) /\ g.synced <= Len(g.recs)
    BY <2>4, ImageOf
  <2>6. QED
    BY <2>3, <2>5
<1>4. segs' \in [DOMAIN segs' -> File(S)]
  BY <1>1, <1>3
<1>5. FilesOf(S, N, segs')
  BY <1>1, <1>2, <1>3, <1>4 DEF FilesOf
<1>6. NoWriter \in WriterOf(S) /\ NoWriter.state = "none" /\ NoWriter.step = "idle"
  <2>1. "none" \in WriterStates /\ "idle" \in WriterSteps /\ 0 \in Nat /\ <<>> \in Seq(S)
    BY DEF WriterStates, WriterSteps
  <2>2. QED
    BY <2>1 DEF NoWriter, WriterOf
<1>7. WalTyped(S, N, segs', NoWriter)
  BY <1>5, <1>6 DEF WalTyped
<1>8. QED
  BY <1>1, <1>7 DEF WalOK

-----------------------------------------------------------------------------
(* The largest name. *)
Newest(sg, n) == n \in DOMAIN sg /\ \A m \in DOMAIN sg : m <= n

-----------------------------------------------------------------------------
(* The invariant on every file system.                                     *)

(* The records of a segment are numbered from its name on. *)
NumberedFrom(recs, n) == \A k \in 1 .. Len(recs) : recs[k].seq = n + k - 1

(* A segment that is not on the disk, or cannot be read, has no records. *)
FileOK(n, f, last) ==
    /\ f \in File(Records)
    /\ f.synced <= Len(f.recs)
    /\ NumberedFrom(f.recs, n)
    /\ n + Len(f.recs) <= last + 1
    /\ (~f.ok \/ f.synced \notin Nat) => f.recs = <<>>

SegsOK(sg, last) ==
    /\ sg \in [DOMAIN sg -> File(Records)]
    /\ DOMAIN sg \subseteq 1 .. MaxRecords
    /\ \A n \in DOMAIN sg : FileOK(n, sg[n], last)
    /\ \A n \in DOMAIN sg : (~sg[n].ok \/ sg[n].synced \notin Nat) => Newest(sg, n)

Writer ==
    [state : WriterStates, cur : Nat, buf : Seq(Records), size : Nat, last : Nat,
     step : WriterSteps, first : Nat]

Typed ==
    /\ w \in Writer
    /\ node \in {"up", "failed", "stopped", "down"}
    /\ pos \in Nat /\ book \in Seq(Records)
    /\ ids \in 0 .. MaxRecords /\ faults \in 0 .. MaxFaults /\ crashes \in 0 .. MaxCrashes

(* A file that can be appended to. *)
Writable(f) == f.ok /\ f.synced \in Nat /\ f.torn # "left"

(* The Writer appends to the newest segment, and what it holds comes next. *)
Held ==
    /\ w.state # "open" => w.buf = <<>>
    /\ w.state = "latched" => w.cur \in DOMAIN segs
    /\ w.state = "open" =>
         /\ w.step = "idle"
         /\ Newest(segs, w.cur)
         /\ Writable(segs[w.cur])
         /\ NumberedFrom(w.buf, w.cur + Len(segs[w.cur].recs))
         /\ w.cur + Len(segs[w.cur].recs) + Len(w.buf) <= ids + 1

(* openSegment makes a segment that is newer than all others. *)
Opening ==
    w.step # "idle" =>
        /\ w.state \in {"none", "closed"}
        /\ w.first \in 1 .. MaxRecords /\ w.first <= ids + 1
        /\ w.state = "none" => w.first = 1
        /\ w.step = "create" =>
             \A m \in DOMAIN segs : m < w.first /\ segs[m].ok /\ segs[m].synced \in Nat
        /\ w.step # "create" =>
             /\ Newest(segs, w.first)
             /\ segs[w.first].recs = <<>> /\ segs[w.first].synced \notin Nat
             /\ segs[w.first].torn = "no"
             /\ w.step = "sync" => segs[w.first].ok

(* The sequencer's position is that of the last record it gave to the Writer. *)
Placed ==
    /\ node = "up" /\ w.step = "idle" =>
         /\ w.state = "open"
         /\ pos + 1 = w.cur + Len(segs[w.cur].recs) + Len(w.buf)
         /\ w.size = Len(segs[w.cur].recs) + Len(w.buf)
    /\ node = "up" /\ w.step # "idle" => w.state = "closed" /\ w.first = pos + 1
    /\ node = "down" <=> w.state = "none"
    /\ node \in {"failed", "stopped"} => w.step = "idle"

GInv == Typed /\ SegsOK(segs, ids) /\ Held /\ Opening /\ Placed

-----------------------------------------------------------------------------
(* The invariant when a file's name is as durable as its data.             *)

OnDisk(f) == f.named /\ f.synced = Len(f.recs)

(* Each segment is named for the position after all that is in the older ones,
   and the records of all of them are numbered 1, 2, 3, ... *)
Exact(sg) == \A n \in DOMAIN sg : Len(Recover(Below(sg, n))) = n - 1
Dense(sg) == NumberedFrom(Recover(sg), 1)

(* Only the newest segment may have something to lose. *)
Settled(sg) == \A n \in DOMAIN sg : ~Newest(sg, n) => OnDisk(sg[n])

LaidOut(sg) == Exact(sg) /\ Dense(sg) /\ Settled(sg)

(* A new segment is begun when the others are on the disk, and continues them. *)
Begun ==
    /\ w.state = "open" => segs[w.cur].named
    /\ w.step = "create" =>
         /\ \A n \in DOMAIN segs : OnDisk(segs[n])
         /\ Len(Recover(segs)) = w.first - 1

SInv == LaidOut(segs) /\ Begun /\ BookSurvives

-----------------------------------------------------------------------------
(* Records, files and segments.                                            *)

LEMMA Associative ==
    \A x, y, z \in Seq(Records) : (x \o y) \o z = x \o (y \o z)
BY ConcatAssociative

LEMMA RecordFields ==
    ASSUME NEW r \in Records PROVE r.seq \in 1 .. MaxRecords /\ r.id \in 1 .. MaxRecords
BY DEF Records

LEMMA FileFields ==
    ASSUME NEW f \in File(Records)
    PROVE  /\ f.ok \in BOOLEAN /\ f.named \in BOOLEAN /\ f.torn \in {"no", "mine", "left"}
           /\ f.recs \in Seq(Records) /\ Len(f.recs) \in Nat /\ f.synced \in Nat \cup {-1}
BY DEF File

LEMMA WriterFields ==
    ASSUME NEW x \in Writer
    PROVE  /\ x.state \in WriterStates /\ x.step \in WriterSteps
           /\ x.cur \in Nat /\ x.size \in Nat /\ x.last \in Nat /\ x.first \in Nat
           /\ x.buf \in Seq(Records) /\ Len(x.buf) \in Nat
BY DEF Writer

LEMMA NewestUnique ==
    ASSUME NEW sg, DOMAIN sg \subseteq 1 .. MaxRecords, NEW a, NEW b, Newest(sg, a), Newest(sg, b)
    PROVE  a = b
<1>1. a \in Nat /\ b \in Nat /\ a <= b /\ b <= a
  BY LogBoundsAssumption DEF Newest
<1>2. QED
  BY <1>1

(* There is a newest segment if there is any, and it is the one Max finds. *)
LEMMA NewestExists ==
    ASSUME NEW sg, DOMAIN sg \subseteq 1 .. MaxRecords, DOMAIN sg # {}
    PROVE  Newest(sg, Max(DOMAIN sg))
<1>1. MaxRecords \in Nat
  BY LogBoundsAssumption
<1> DEFINE D == DOMAIN sg
<1>2. D \in SUBSET Nat /\ D # {} /\ \A n \in D : n <= MaxRecords
  BY <1>1
<1> HIDE DEF D
<1>3. Max(D) \in D /\ \A n \in D : n <= Max(D)
  BY <1>1, <1>2, MaxProperties
<1>4. QED
  BY <1>3 DEF Newest, D

(* The newest segment is changed, and nothing else. *)
LEMMA ReplaceNewest ==
    ASSUME NEW sg, NEW last \in Nat, SegsOK(sg, last), NEW N, Newest(sg, N),
           NEW f, NEW more \in Nat, last <= more, FileOK(N, f, more),
           NEW sh, Replaced(sg, N, f, sh)
    PROVE  SegsOK(sh, more) /\ DOMAIN sh = DOMAIN sg /\ sh[N] = f /\ Newest(sh, N)
<1>1. DOMAIN sh = DOMAIN sg /\ N \in DOMAIN sg
  BY DEF Newest, Replaced
<1>2. sh[N] = f /\ \A n \in DOMAIN sg : n # N => sh[n] = sg[n]
  BY <1>1 DEF SegsOK, Replaced
<1>3. Newest(sh, N)
  BY <1>1 DEF Newest
<1>4. \A n \in DOMAIN sg : FileOK(n, sg[n], more)
  <2>1. SUFFICES ASSUME NEW n \in DOMAIN sg PROVE FileOK(n, sg[n], more)
    OBVIOUS
  <2>2. FileOK(n, sg[n], last)
    BY DEF SegsOK
  <2>3. n \in Nat
    BY LogBoundsAssumption DEF SegsOK
  <2>4. Len(sg[n].recs) \in Nat
    BY <2>2, FileFields DEF FileOK
  <2>5. n + Len(sg[n].recs) <= more + 1
    BY <2>2, <2>3, <2>4 DEF FileOK
  <2>6. QED
    BY <2>2, <2>5 DEF FileOK
<1>5. \A n \in DOMAIN sg : FileOK(n, sh[n], more)
  BY <1>2, <1>4
<1>6. f \in File(Records)
  BY DEF FileOK
<1>7. sh \in [DOMAIN sh -> File(Records)] /\ DOMAIN sh \subseteq 1 .. MaxRecords
  BY <1>1, <1>6 DEF SegsOK, Replaced
<1>8. \A n \in DOMAIN sg : (~sh[n].ok \/ sh[n].synced \notin Nat) => Newest(sh, n)
  <2>1. SUFFICES ASSUME NEW n \in DOMAIN sg, ~sh[n].ok \/ sh[n].synced \notin Nat
                 PROVE  Newest(sh, n)
    OBVIOUS
  <2>2. CASE n = N
    BY <2>2, <1>3
  <2>3. CASE n # N
    BY <2>1, <2>3, <1>1, <1>2 DEF SegsOK, Newest
  <2>4. QED
    BY <2>2, <2>3
<1>9. QED
  BY <1>1, <1>2, <1>3, <1>5, <1>7, <1>8 DEF SegsOK

LEMMA NumberedConcat ==
    ASSUME NEW s \in Seq(Records), NEW t \in Seq(Records), NEW n \in Nat,
           NumberedFrom(s, n), NumberedFrom(t, n + Len(s))
    PROVE  NumberedFrom(s \o t, n)
<1>1. Len(s \o t) = Len(s) + Len(t)
      /\ \A i \in 1 .. Len(s) + Len(t) :
           (s \o t)[i] = IF i <= Len(s) THEN s[i] ELSE t[i - Len(s)]
  BY ConcatProperties
<1>2. SUFFICES ASSUME NEW k \in 1 .. Len(s) + Len(t) PROVE (s \o t)[k].seq = n + k - 1
  BY <1>1 DEF NumberedFrom
<1>3. Len(s) \in Nat /\ Len(t) \in Nat
  OBVIOUS
<1>4. CASE k <= Len(s)
  <2>1. k \in 1 .. Len(s)
    BY <1>3, <1>4
  <2>2. QED
    BY <1>1, <1>4, <2>1 DEF NumberedFrom
<1>5. CASE ~(k <= Len(s))
  <2>1. k - Len(s) \in 1 .. Len(t)
    BY <1>3, <1>5
  <2>2. t[k - Len(s)].seq = (n + Len(s)) + (k - Len(s)) - 1
    BY <2>1 DEF NumberedFrom
  <2>3. (n + Len(s)) + (k - Len(s)) - 1 = n + k - 1
    BY <1>3
  <2>4. QED
    BY <1>1, <1>5, <2>2, <2>3
<1>6. QED
  BY <1>4, <1>5

(* The first records of a sequence. *)
LEMMA Cut ==
    ASSUME NEW s \in Seq(Records), NEW n \in 0 .. Len(s)
    PROVE  /\ SubSeq(s, 1, n) \in Seq(Records)
           /\ Len(SubSeq(s, 1, n)) = n
           /\ \A k \in 1 .. n : SubSeq(s, 1, n)[k] = s[k]
<1>1. n \in Int /\ \A i \in 1 .. n : s[i] \in Records
  OBVIOUS
<1>2. QED
  BY <1>1, SubSeqProperties

LEMMA NumberedCut ==
    ASSUME NEW s \in Seq(Records), NEW n \in 0 .. Len(s), NEW b, NumberedFrom(s, b)
    PROVE  NumberedFrom(SubSeq(s, 1, n), b)
<1>1. \A k \in 1 .. n : k \in 1 .. Len(s)
  OBVIOUS
<1>2. QED
  BY <1>1, Cut DEF NumberedFrom

(* The Writer writes what it holds behind the records of its segment. *)
LEMMA WrittenFields ==
    ASSUME NEW f \in File(Records), Writable(f), NEW x \in Seq(Records), NEW part \in {"no", "mine"}
    PROVE  /\ Writable(Written(f, x, part))
           /\ Written(f, x, part) \in File(Records)
           /\ Written(f, x, part).recs = f.recs \o x
           /\ Written(f, x, part).synced = f.synced
           /\ Written(f, x, part).named = f.named
<1>1. f.recs \o x \in Seq(Records)
  BY ConcatProperties, FileFields
<1>2. QED
  BY <1>1 DEF Written, File, Writable

LEMMA WrittenFile ==
    ASSUME NEW n \in Nat, NEW f, NEW last, FileOK(n, f, last), Writable(f),
           NEW end \in Nat, end = n + Len(f.recs),
           NEW x \in Seq(Records), NumberedFrom(x, end),
           NEW more \in Nat, end + Len(x) <= more + 1, NEW part \in {"no", "mine"}
    PROVE  FileOK(n, Written(f, x, part), more)
<1> DEFINE g == Written(f, x, part)
<1>1. f \in File(Records) /\ f.synced <= Len(f.recs) /\ NumberedFrom(f.recs, n)
  BY DEF FileOK
<1>2. f.recs \in Seq(Records) /\ Len(f.recs) \in Nat /\ f.synced \in Nat
  BY <1>1, FileFields DEF Writable
<1>3. g \in File(Records) /\ Writable(g) /\ g.recs = f.recs \o x /\ g.synced = f.synced
  BY <1>1, WrittenFields
<1>4. Len(f.recs \o x) = Len(f.recs) + Len(x) /\ Len(x) \in Nat
  BY <1>2, ConcatProperties
<1>5. NumberedFrom(f.recs \o x, n)
  BY <1>1, <1>2, NumberedConcat
<1>6. n + Len(f.recs \o x) <= more + 1 /\ f.synced <= Len(f.recs \o x)
  BY <1>1, <1>2, <1>4
<1> HIDE DEF g
<1>7. FileOK(n, g, more)
  BY <1>3, <1>5, <1>6 DEF FileOK, Writable
<1>8. QED
  BY <1>7 DEF g

LEMMA FsyncedOK ==
    ASSUME NEW n \in Nat, NEW f, NEW last, FileOK(n, f, last), f.ok
    PROVE  LET g == FsyncedFile(f)
           IN  /\ FileOK(n, g, last)
               /\ g.ok /\ g.recs = f.recs /\ g.torn = f.torn
               /\ g.synced = Len(f.recs) /\ g.named = (f.named \/ FsyncNames)
<1> DEFINE g == FsyncedFile(f)
<1>1. f \in File(Records)
  BY DEF FileOK
<1>2. /\ f.recs \in Seq(Records) /\ Len(f.recs) \in Nat
      /\ f.synced \in Nat \cup {-1} /\ f.named \in BOOLEAN
  BY <1>1, FileFields
<1>3. g.ok /\ g.recs = f.recs /\ g.torn = f.torn /\ g.synced = Len(f.recs)
  BY <1>1 DEF FsyncedFile, File
<1>4. g.named = (f.named \/ FsyncNames)
  BY <1>1, Zenon DEF FsyncedFile, File
<1>5. g \in File(Records)
  <2>1. (f.named \/ FsyncNames) \in BOOLEAN
    OBVIOUS
  <2>2. QED
    BY <1>1, <1>2, <2>1 DEF FsyncedFile, File
<1>6. FileOK(n, g, last)
  BY <1>2, <1>3, <1>5 DEF FileOK
<1>7. QED
  BY <1>3, <1>4, <1>6

-----------------------------------------------------------------------------
(* What an open Writer does to its segment.                                *)

(* The segment the Writer is on. *)
LEMMA OpenSegment ==
    ASSUME GInv, w.state = "open"
    PROVE  /\ w.cur \in DOMAIN segs /\ w.cur \in Nat /\ w.cur \in 1 .. MaxRecords
           /\ Newest(segs, w.cur)
           /\ FileOK(w.cur, segs[w.cur], ids)
           /\ Writable(segs[w.cur])
           /\ segs[w.cur].recs \in Seq(Records) /\ Len(segs[w.cur].recs) \in Nat
           /\ segs[w.cur].synced \in Nat /\ segs[w.cur].synced <= Len(segs[w.cur].recs)
           /\ w.buf \in Seq(Records) /\ Len(w.buf) \in Nat
           /\ NumberedFrom(w.buf, w.cur + Len(segs[w.cur].recs))
           /\ w.cur + Len(segs[w.cur].recs) + Len(w.buf) <= ids + 1
           /\ ids \in Nat
<1>1. Newest(segs, w.cur) /\ w.cur \in DOMAIN segs
  BY DEF GInv, Held, Newest
<1>2. FileOK(w.cur, segs[w.cur], ids) /\ w.cur \in 1 .. MaxRecords
  BY <1>1 DEF GInv, SegsOK
<1>3. w.cur \in Nat
  BY <1>2, LogBoundsAssumption
<1>4. segs[w.cur].recs \in Seq(Records) /\ Len(segs[w.cur].recs) \in Nat
      /\ segs[w.cur].synced \in Nat \cup {-1} /\ segs[w.cur].synced <= Len(segs[w.cur].recs)
  BY <1>2, FileFields DEF FileOK
<1>5. w.buf \in Seq(Records) /\ Len(w.buf) \in Nat
  BY WriterFields DEF GInv, Typed
<1>6. ids \in Nat
  BY LogBoundsAssumption DEF GInv, Typed
<1>7. segs[w.cur].synced \in Nat
  BY DEF GInv, Held, Writable
<1>8. segs[w.cur].synced \in Nat
  BY <1>4, <1>7
<1>9. QED
  BY <1>1, <1>2, <1>3, <1>4, <1>5, <1>6, <1>8 DEF GInv, Held

(* The file f1 is the Writer's segment with the first n records that it held,
   and perhaps an fsync. *)
Flushes(f1, n) ==
    /\ FileOK(w.cur, f1, ids)
    /\ Writable(f1)
    /\ f1.recs = segs[w.cur].recs \o SubSeq(w.buf, 1, n)
    /\ \/ f1.synced = segs[w.cur].synced /\ f1.named = segs[w.cur].named
       \/ f1.synced = Len(f1.recs) /\ f1.named = (segs[w.cur].named \/ FsyncNames)

Emptied == \E n \in 0 .. Len(w.buf) : \E f1 \in File(Records) :
               Flushes(f1, n) /\ segs' = [segs EXCEPT ![w.cur] = f1]

LEMMA FlushedFile ==
    ASSUME GInv, w.state = "open"
    PROVE  \E f1 \in File(Records) :
             /\ Flushes(f1, Len(w.buf)) /\ Flushed = [segs EXCEPT ![w.cur] = f1]
             /\ f1.synced = segs[w.cur].synced /\ f1.named = segs[w.cur].named
<1> DEFINE f == segs[w.cur]
<1>1. /\ w.cur \in DOMAIN segs /\ w.cur \in Nat /\ FileOK(w.cur, f, ids)
      /\ Writable(f) /\ f.recs \in Seq(Records)
      /\ w.buf \in Seq(Records) /\ NumberedFrom(w.buf, w.cur + Len(f.recs))
      /\ w.cur + Len(f.recs) + Len(w.buf) <= ids + 1 /\ ids \in Nat
  BY OpenSegment
<1>2. SubSeq(w.buf, 1, Len(w.buf)) = w.buf
  BY <1>1, SubSeqFull
<1>3. CASE w.buf = <<>>
  <2>1. f.recs \o w.buf = f.recs
    BY <1>1, <1>3, ConcatEmptySeq
  <2>2. Flushed = [segs EXCEPT ![w.cur] = f]
    BY <1>1, <1>3 DEF Flushed, GInv, SegsOK
  <2>3. f \in File(Records)
    BY <1>1 DEF FileOK
  <2> HIDE DEF f
  <2>4. QED
    BY <1>1, <1>2, <2>1, <2>2, <2>3 DEF Flushes, f
<1>4. CASE w.buf # <<>>
  <2> DEFINE g == Written(f, w.buf, "no")
  <2>1. /\ FileOK(w.cur, g, ids) /\ Writable(g) /\ g.recs = f.recs \o w.buf
        /\ g.synced = f.synced /\ g.named = f.named
    <3> DEFINE end == w.cur + Len(f.recs)
    <3>1. "no" \in {"no", "mine"} /\ end = w.cur + Len(f.recs) /\ end \in Nat
      BY <1>1
    <3>2. NumberedFrom(w.buf, end) /\ end + Len(w.buf) <= ids + 1
      BY <1>1
    <3>3. f \in File(Records)
      BY <1>1 DEF FileOK
    <3> HIDE DEF f, end
    <3>4. FileOK(w.cur, g, ids)
      BY <1>1, <3>1, <3>2, WrittenFile
    <3>5. Writable(g) /\ g.recs = f.recs \o w.buf /\ g.synced = f.synced /\ g.named = f.named
      BY <1>1, <3>1, <3>3, WrittenFields
    <3>6. QED
      BY <3>4, <3>5
  <2>2. Flushed = [segs EXCEPT ![w.cur] = g]
    BY <1>4 DEF Flushed
  <2>3. g \in File(Records)
    BY <2>1 DEF FileOK
  <2> HIDE DEF g
  <2>4. QED
    BY <1>1, <1>2, <2>1, <2>2, <2>3 DEF Flushes
<1>5. QED
  BY <1>3, <1>4

LEMMA FsyncedSegment ==
    ASSUME GInv, w.state = "open"
    PROVE  \E f1 \in File(Records) :
             /\ Flushes(f1, Len(w.buf)) /\ Fsynced(Flushed) = [segs EXCEPT ![w.cur] = f1]
             /\ f1.synced = Len(f1.recs) /\ f1.named = (segs[w.cur].named \/ FsyncNames)
             /\ f1.recs = segs[w.cur].recs \o w.buf
<1>1. PICK f \in File(Records) :
        /\ Flushes(f, Len(w.buf)) /\ Flushed = [segs EXCEPT ![w.cur] = f]
        /\ f.synced = segs[w.cur].synced /\ f.named = segs[w.cur].named
  BY FlushedFile
<1> DEFINE g == FsyncedFile(f)
<1>2. w.cur \in DOMAIN segs /\ w.cur \in Nat /\ w.buf \in Seq(Records) /\ Len(f.recs) \in Nat
  BY OpenSegment, FileFields
<1>3. FileOK(w.cur, f, ids) /\ f.ok /\ Writable(f)
  BY <1>1 DEF Flushes, Writable
<1>4. /\ FileOK(w.cur, g, ids) /\ g.ok /\ g.recs = f.recs /\ g.torn = f.torn
      /\ g.synced = Len(f.recs) /\ g.named = (f.named \/ FsyncNames)
  BY <1>3, <1>2, FsyncedOK
<1>5. Fsynced(Flushed) = [segs EXCEPT ![w.cur] = g]
  <2>1. Flushed[w.cur] = f
    BY <1>1, <1>2
  <2>2. Fsynced(Flushed) = [Flushed EXCEPT ![w.cur] = g]
    BY <2>1 DEF Fsynced
  <2> HIDE DEF g
  <2>3. QED
    BY <1>1, <1>2, <2>2
<1>6. g \in File(Records)
  BY <1>4 DEF FileOK
<1> HIDE DEF g
<1>7. Flushes(g, Len(w.buf))
  <2>1. f.recs = segs[w.cur].recs \o SubSeq(w.buf, 1, Len(w.buf))
    BY <1>1 DEF Flushes
  <2>2. Writable(g) /\ g.recs = f.recs /\ g.synced = Len(g.recs)
    BY <1>2, <1>4, <1>3 DEF Writable
  <2>3. g.named = (segs[w.cur].named \/ FsyncNames)
    BY <1>1, <1>4
  <2>4. QED
    BY <1>4, <2>1, <2>2, <2>3 DEF Flushes
<1>8. g.recs = segs[w.cur].recs \o w.buf
  <2>1. SubSeq(w.buf, 1, Len(w.buf)) = w.buf
    BY <1>2, SubSeqFull
  <2>2. QED
    BY <1>7, <2>1 DEF Flushes
<1>9. g.synced = Len(g.recs) /\ g.named = (segs[w.cur].named \/ FsyncNames)
  BY <1>1, <1>4
<1>10. QED
  BY <1>5, <1>6, <1>7, <1>8, <1>9

(* A part of what is held, or of that and the record being appended. *)
LEMMA FlushPartFile ==
    ASSUME GInv, w.state = "open", NEW x, Len(x) \in {Len(w.buf), Len(w.buf) + 1},
           \A k \in 1 .. Len(w.buf) : x[k] = w.buf[k], FlushPart(x)
    PROVE  Emptied
<1> DEFINE f == segs[w.cur]
<1>1. /\ w.cur \in DOMAIN segs /\ w.cur \in Nat /\ FileOK(w.cur, f, ids)
      /\ Writable(f) /\ f.recs \in Seq(Records)
      /\ Len(f.recs) \in Nat /\ Len(w.buf) \in Nat
      /\ w.buf \in Seq(Records) /\ NumberedFrom(w.buf, w.cur + Len(f.recs))
      /\ w.cur + Len(f.recs) + Len(w.buf) <= ids + 1 /\ ids \in Nat
  BY OpenSegment
<1>2. CASE UNCHANGED segs
  <2>1. SubSeq(w.buf, 1, 0) = <<>>
    BY SubSeqEmpty
  <2>2. f.recs \o <<>> = f.recs
    BY <1>1, ConcatEmptySeq
  <2>3. segs' = [segs EXCEPT ![w.cur] = f]
    BY <1>1, <1>2 DEF GInv, SegsOK
  <2>4. f \in File(Records)
    BY <1>1 DEF FileOK
  <2>5. Flushes(f, 0)
    BY <1>1, <2>1, <2>2 DEF Flushes
  <2>6. 0 \in 0 .. Len(w.buf)
    BY <1>1
  <2> HIDE DEF f
  <2>7. QED
    BY <2>3, <2>4, <2>5, <2>6 DEF Emptied
<1>3. ASSUME NEW n \in 0 .. Len(x) - 1, NEW part \in {"no", "mine"},
             segs' = [segs EXCEPT ![w.cur] = Written(@, SubSeq(x, 1, n), part)]
      PROVE  Emptied
  <2>1. n \in Nat /\ n \in 0 .. Len(w.buf)
    BY <1>1
  <2>2. SubSeq(x, 1, n) \in Seq(Records) /\ Len(SubSeq(x, 1, n)) = n
        /\ \A k \in 1 .. n : SubSeq(x, 1, n)[k] = x[k]
    <3>1. \A i \in 1 .. n : i \in 1 .. Len(w.buf)
      BY <1>1, <2>1
    <3>2. \A i \in 1 .. n : x[i] \in Records
      BY <1>1, <3>1
    <3>3. QED
      BY <2>1, <3>2, SubSeqProperties
  <2>3. SubSeq(w.buf, 1, n) \in Seq(Records) /\ Len(SubSeq(w.buf, 1, n)) = n
        /\ \A k \in 1 .. n : SubSeq(w.buf, 1, n)[k] = w.buf[k]
    BY <1>1, <2>1, Cut
  <2>4. \A k \in 1 .. n : k \in 1 .. Len(w.buf)
    BY <1>1, <2>1
  <2>5. \A k \in 1 .. n : SubSeq(x, 1, n)[k] = SubSeq(w.buf, 1, n)[k]
    BY <2>2, <2>3, <2>4
  <2>6. SubSeq(x, 1, n) = SubSeq(w.buf, 1, n)
    BY <2>2, <2>3, <2>5, SeqEqual
  <2> DEFINE y == SubSeq(w.buf, 1, n)
             g == Written(f, y, part)
  <2>7. NumberedFrom(y, w.cur + Len(f.recs))
    BY <1>1, <2>1, NumberedCut
  <2>8. w.cur + Len(f.recs) + Len(y) <= ids + 1
    <3>1. Len(y) = n
      BY <2>3
    <3> HIDE DEF f, y
    <3>2. QED
      BY <1>1, <2>1, <3>1
  <2>9. y \in Seq(Records)
    BY <2>3
  <2>10. segs' = [segs EXCEPT ![w.cur] = g]
    BY <1>3, <2>6
  <2> HIDE DEF y
  <2>11. /\ FileOK(w.cur, g, ids) /\ Writable(g) /\ g.recs = f.recs \o y
         /\ g.synced = f.synced /\ g.named = f.named
    <3> DEFINE end == w.cur + Len(f.recs)
    <3>1. end = w.cur + Len(f.recs) /\ NumberedFrom(y, end) /\ end + Len(y) <= ids + 1
      BY <2>7, <2>8
    <3>2. end \in Nat
      BY <1>1
    <3>3. f \in File(Records)
      BY <1>1 DEF FileOK
    <3> HIDE DEF f, end
    <3>4. FileOK(w.cur, g, ids)
      BY <1>1, <2>9, <3>1, <3>2, WrittenFile
    <3>5. Writable(g) /\ g.recs = f.recs \o y /\ g.synced = f.synced /\ g.named = f.named
      BY <1>1, <2>9, <3>3, WrittenFields
    <3>6. QED
      BY <3>4, <3>5
  <2>12. g \in File(Records)
    BY <2>11 DEF FileOK
  <2> HIDE DEF g
  <2>13. Flushes(g, n)
    BY <1>1, <2>11 DEF Flushes, y
  <2>14. QED
    BY <2>1, <2>10, <2>12, <2>13 DEF Emptied
<1>4. \A n \in 1 .. Len(x) - 1 : n \in 0 .. Len(x) - 1
  OBVIOUS
<1>5. QED
  BY <1>2, <1>3, <1>4 DEF FlushPart

(* Every way in which an open Writer is flushed, synced or closed. *)
LEMMA Closes ==
    ASSUME GInv, w.state = "open", CloseOK \/ CloseFails
    PROVE  Emptied
<1>1. w.buf \in Seq(Records) /\ Len(w.buf) \in Nat /\ Len(w.buf) \in 0 .. Len(w.buf)
  BY OpenSegment
<1>2. CASE segs' = Flushed
  BY <1>1, <1>2, FlushedFile DEF Emptied
<1>3. CASE segs' = Fsynced(Flushed)
  BY <1>1, <1>3, FsyncedSegment DEF Emptied
<1>4. CASE FlushPart(w.buf)
  BY <1>1, <1>4, FlushPartFile
<1>5. QED
  BY <1>2, <1>3, <1>4 DEF CloseOK, CloseFails

LEMMA NextRecordType ==
    ASSUME pos \in Nat, ids \in Nat, pos <= ids, ids < MaxRecords
    PROVE  NextRecord \in Records /\ NextRecord.seq = pos + 1
<1>1. pos + 1 \in 1 .. MaxRecords /\ ids + 1 \in 1 .. MaxRecords
  BY LogBoundsAssumption
<1>2. QED
  BY <1>1 DEF NextRecord, Records

(* One that fails to take up a record. *)
LEMMA AppendFailsFile ==
    ASSUME GInv, w.state = "open", NEW rec, FlushPart(Append(w.buf, rec))
    PROVE  Emptied
<1>1. w.buf \in Seq(Records) /\ Len(w.buf) \in Nat
  BY OpenSegment
<1> DEFINE x == Append(w.buf, rec)
<1>2. Len(x) = Len(w.buf) + 1 /\ \A k \in 1 .. Len(w.buf) : x[k] = w.buf[k]
  <2>1. w.buf \in Seq(Records \cup {rec})
    BY <1>1, SeqMonotonic
  <2>2. QED
    BY <2>1
<1>3. FlushPart(x)
  OBVIOUS
<1> HIDE DEF x
<1>4. QED
  BY <1>2, <1>3, FlushPartFile

(* What is left in the files after that, once the log is given up. *)
LEMMA GivenUp ==
    ASSUME GInv, w.state = "open", Emptied, w' \in Writer, w'.cur = w.cur, w'.buf = <<>>,
           w'.step = "idle", w'.state \in {"open", "latched", "closed"},
           node' \in {"failed", "stopped"}, UNCHANGED <<pos, book, ids, crashes>>,
           faults' \in 0 .. MaxFaults
    PROVE  GInv'
<1>1. /\ w.cur \in Nat /\ Newest(segs, w.cur) /\ ids \in Nat /\ w.buf \in Seq(Records)
      /\ segs[w.cur].recs \in Seq(Records) /\ Len(segs[w.cur].recs) \in Nat
      /\ Len(w.buf) \in Nat
  BY OpenSegment
<1>2. PICK n \in 0 .. Len(w.buf) : \E f \in File(Records) :
        Flushes(f, n) /\ segs' = [segs EXCEPT ![w.cur] = f]
  BY DEF Emptied
<1>3. PICK f \in File(Records) : Flushes(f, n) /\ segs' = [segs EXCEPT ![w.cur] = f]
  BY <1>2
<1>4. FileOK(w.cur, f, ids) /\ Writable(f)
  BY <1>3 DEF Flushes
<1>5. ids <= ids /\ SegsOK(segs, ids)
  BY <1>1 DEF GInv
<1>6. SegsOK(segs', ids) /\ DOMAIN segs' = DOMAIN segs /\ segs'[w.cur] = f
      /\ Newest(segs', w.cur)
  <2>1. Replaced(segs, w.cur, f, segs')
    BY <1>3 DEF Replaced
  <2>2. QED
    BY <1>1, <1>4, <1>5, <2>1, ReplaceNewest
<1>7. Typed'
  BY DEF GInv, Typed
<1>8. Held'
  <2>1. w.cur + Len(f.recs) <= ids + 1
    BY <1>4 DEF FileOK
  <2>2. Len(<<>>) = 0 /\ Len(f.recs) \in Nat
    BY FileFields
  <2>3. NumberedFrom(w'.buf, w.cur + Len(f.recs))
    BY <2>2 DEF NumberedFrom
  <2>4. w.cur + Len(f.recs) + Len(w'.buf) <= ids + 1
    BY <1>1, <2>1, <2>2
  <2>5. w.cur \in DOMAIN segs'
    BY <1>6 DEF Newest
  <2>6. QED
    BY <1>4, <1>6, <2>3, <2>4, <2>5 DEF Held
<1>9. Opening'
  BY DEF Opening
<1>10. Placed'
  BY DEF Placed
<1>11. SegsOK(segs, ids)'
  <2>1. ids' = ids
    OBVIOUS
  <2>2. SegsOK(segs', ids')
    BY <1>6, <2>1
  <2>3. QED
    BY <2>2
<1>12. QED
  BY <1>7, <1>8, <1>9, <1>10, <1>11 DEF GInv

-----------------------------------------------------------------------------
(* Append.                                                                 *)

(* The Writer wr, on the newest of the segments sg, holds what comes before
   position p + 1. *)
Ready(sg, wr, p) ==
    /\ wr \in Writer /\ wr.state = "open" /\ wr.step = "idle"
    /\ Newest(sg, wr.cur) /\ Writable(sg[wr.cur])
    /\ NumberedFrom(wr.buf, wr.cur + Len(sg[wr.cur].recs))
    /\ p + 1 = wr.cur + Len(sg[wr.cur].recs) + Len(wr.buf)
    /\ wr.size = Len(sg[wr.cur].recs) + Len(wr.buf)

(* A Writer that is ready keeps the invariant. *)
LEMMA ReadyIsInvariant ==
    ASSUME Ready(segs', w', pos'), SegsOK(segs', ids'), Typed', node' = "up", pos' <= ids'
    PROVE  GInv'
<1>1. Newest(segs', w'.cur) /\ w'.cur \in DOMAIN segs'
  BY DEF Ready, Newest
<1>2. ids' \in Nat /\ pos' \in Nat /\ w'.cur \in Nat
  BY LogBoundsAssumption, WriterFields DEF Typed
<1>3. w'.cur + Len(segs'[w'.cur].recs) + Len(w'.buf) <= ids' + 1
  BY <1>2 DEF Ready
<1>4. Held'
  BY <1>1, <1>3 DEF Ready, Held
<1>5. Opening'
  BY DEF Ready, Opening
<1>6. Placed'
  BY DEF Ready, Placed
<1>7. SegsOK(segs, ids)'
  OBVIOUS
<1>8. QED
  BY <1>4, <1>5, <1>6, <1>7 DEF GInv

(* The record goes behind all others: into the bufio.Writer, or alone into an
   emptied one. *)
Adds(f, buf, rec, f1) ==
    \/ w'.buf = Append(buf, rec) /\ f1 = f
    \/ /\ w'.buf = <<rec>> /\ f1.recs = f.recs \o buf
       /\ f1.synced = f.synced /\ f1.named = f.named

LEMMA AppendNumbered ==
    ASSUME NEW x \in Seq(Records), NEW r \in Records, NEW e \in Nat,
           NumberedFrom(x, e), r.seq = e + Len(x)
    PROVE  NumberedFrom(Append(x, r), e)
<1>1. Len(Append(x, r)) = Len(x) + 1 /\ Len(x) \in Nat
      /\ \A k \in 1 .. Len(x) : Append(x, r)[k] = x[k]
      /\ Append(x, r)[Len(x) + 1] = r
  OBVIOUS
<1>2. SUFFICES ASSUME NEW k \in 1 .. Len(x) + 1 PROVE Append(x, r)[k].seq = e + k - 1
  BY <1>1 DEF NumberedFrom
<1>3. CASE k = Len(x) + 1
  BY <1>1, <1>3
<1>4. CASE k # Len(x) + 1
  <2>1. k \in 1 .. Len(x)
    BY <1>1, <1>4
  <2>2. QED
    BY <1>1, <2>1 DEF NumberedFrom
<1>5. QED
  BY <1>3, <1>4

(* The record that comes next is taken up. *)
LEMMA PutStep ==
    ASSUME NEW sg, NEW wr, SegsOK(sg, ids), Ready(sg, wr, pos), pos \in Nat, ids \in Nat,
           NEW rec \in Records, rec.seq = pos + 1, NEW more \in Nat, ids <= more, pos + 1 <= more,
           Put(sg, wr, rec)
    PROVE  /\ SegsOK(segs', more) /\ Ready(segs', w', pos + 1)
           /\ w'.cur = wr.cur
           /\ \E f1 \in File(Records) :
                Replaced(sg, wr.cur, f1, segs') /\ Adds(sg[wr.cur], wr.buf, rec, f1)
<1> DEFINE f == sg[wr.cur]
           N == wr.cur
<1>1. rec \in Records /\ rec.seq = pos + 1 /\ rec.seq \in Nat
  OBVIOUS
<1>2. /\ wr \in Writer /\ wr.state = "open" /\ wr.step = "idle" /\ wr.cur \in Nat
      /\ wr.buf \in Seq(Records) /\ wr.size \in Nat /\ wr.last \in Nat /\ Len(wr.buf) \in Nat
  BY WriterFields DEF Ready
<1>3. N \in DOMAIN sg /\ Newest(sg, N) /\ FileOK(N, f, ids) /\ f \in File(Records) /\ Writable(f)
  BY DEF Ready, Newest, SegsOK, FileOK
<1>4. f.recs \in Seq(Records) /\ Len(f.recs) \in Nat
  BY <1>3, FileFields
<1>5. Max({wr.last, rec.seq}) \in Nat
  <2>1. {wr.last, rec.seq} \in SUBSET Nat /\ {wr.last, rec.seq} # {} /\ wr.last + rec.seq \in Nat
        /\ \A n \in {wr.last, rec.seq} : n <= wr.last + rec.seq
    BY <1>1, <1>2
  <2>2. Max({wr.last, rec.seq}) \in {wr.last, rec.seq}
    BY <2>1, MaxProperties
  <2>3. QED
    BY <2>1, <2>2
<1> DEFINE last2 == Max({wr.last, rec.seq})
<1>6. N \in Nat /\ wr.size + 1 \in Nat /\ rec.seq = pos + 1
  BY <1>1, <1>2
<1>7. NumberedFrom(wr.buf, N + Len(f.recs)) /\ pos + 1 = N + Len(f.recs) + Len(wr.buf)
      /\ wr.size = Len(f.recs) + Len(wr.buf)
  BY DEF Ready
<1>8. ids <= more /\ more \in Nat /\ pos + 1 \in Nat
  OBVIOUS
<1>9. CASE w' = [[wr EXCEPT !.size = @ + 1, !.last = last2] EXCEPT !.buf = Append(@, rec)]
           /\ segs' = sg
  <2> HIDE DEF last2
  <2>1. /\ w'.state = "open" /\ w'.step = "idle" /\ w'.cur = N
        /\ w'.buf = Append(wr.buf, rec) /\ w'.size = wr.size + 1
    BY <1>2, <1>9 DEF Writer
  <2>2. w' \in Writer
    <3>1. Append(wr.buf, rec) \in Seq(Records)
      BY <1>1, <1>2
    <3>2. last2 \in Nat
      BY <1>5 DEF last2
    <3>3. QED
      BY <1>2, <1>6, <1>9, <3>1, <3>2 DEF Writer
  <2>3. Replaced(sg, N, f, segs')
    BY <1>3, <1>9 DEF Replaced, SegsOK
  <2> HIDE DEF f, N
  <2>4. SegsOK(segs', more)
    <3>1. FileOK(N, f, more)
      <4>1. N + Len(f.recs) <= more + 1
        BY <1>2, <1>3, <1>4 DEF FileOK, N
      <4>2. QED
        BY <1>3, <4>1 DEF FileOK
    <3>2. QED
      BY <1>3, <1>8, <2>3, <3>1, ReplaceNewest
  <2>5. NumberedFrom(Append(wr.buf, rec), N + Len(f.recs))
    <3> DEFINE e == N + Len(f.recs)
    <3>1. e \in Nat /\ rec.seq = e + Len(wr.buf) /\ NumberedFrom(wr.buf, e)
      BY <1>1, <1>2, <1>4, <1>7 DEF N
    <3> HIDE DEF e
    <3>2. NumberedFrom(Append(wr.buf, rec), e)
      BY <1>1, <1>2, <3>1, AppendNumbered
    <3>3. QED
      BY <3>2 DEF e
  <2>6. Len(Append(wr.buf, rec)) = Len(wr.buf) + 1
    BY <1>2
  <2>7. (pos + 1) + 1 = N + Len(f.recs) + Len(Append(wr.buf, rec))
        /\ w'.size = Len(f.recs) + Len(Append(wr.buf, rec))
    <3> DEFINE a == Len(f.recs)
               b == Len(wr.buf)
    <3>1. a \in Nat /\ b \in Nat /\ pos + 1 = N + a + b /\ w'.size = (a + b) + 1
      BY <1>2, <1>4, <1>7, <2>1
    <3>2. Len(Append(wr.buf, rec)) = b + 1
      BY <2>6
    <3> HIDE DEF a, b
    <3>3. (pos + 1) + 1 = N + a + (b + 1) /\ w'.size = a + (b + 1)
      BY <1>6, <3>1
    <3>4. QED
      BY <3>2, <3>3 DEF a
  <2>8. segs'[N] = f
    BY <1>9 DEF f, N
  <2>9. Newest(segs', N)
    BY <1>3, <1>9
  <2>10. Ready(segs', w', pos + 1)
    BY <1>3, <2>1, <2>2, <2>5, <2>7, <2>8, <2>9 DEF Ready
  <2>11. Adds(f, wr.buf, rec, f)
    BY <2>1 DEF Adds, f, N
  <2>12. Adds(sg[wr.cur], wr.buf, rec, f) /\ Replaced(sg, wr.cur, f, segs')
    BY <2>3, <2>11 DEF f, N
  <2>13. QED
    BY <1>3, <2>1, <2>4, <2>10, <2>12 DEF N
<1>10. ASSUME NEW part \in {"no", "mine"},
             w' = [[wr EXCEPT !.size = @ + 1, !.last = last2] EXCEPT !.buf = <<rec>>],
             segs' = [sg EXCEPT ![wr.cur] = Written(@, wr.buf, part)]
      PROVE  /\ SegsOK(segs', more) /\ Ready(segs', w', pos + 1)
             /\ w'.cur = wr.cur
             /\ \E f1 \in File(Records) :
                  Replaced(sg, wr.cur, f1, segs') /\ Adds(sg[wr.cur], wr.buf, rec, f1)
  <2> HIDE DEF last2
  <2> DEFINE g == Written(f, wr.buf, part)
  <2>1. /\ w'.state = "open" /\ w'.step = "idle" /\ w'.cur = N
        /\ w'.buf = <<rec>> /\ w'.size = wr.size + 1
    BY <1>2, <1>10 DEF Writer
  <2>2. w' \in Writer
    <3>1. <<rec>> \in Seq(Records)
      BY <1>1
    <3>2. last2 \in Nat
      BY <1>5 DEF last2
    <3>3. QED
      BY <1>2, <1>6, <1>10, <3>1, <3>2 DEF Writer
  <2>3. Replaced(sg, N, g, segs')
    BY <1>10 DEF Replaced
  <2> HIDE DEF f, N
  <2>4. Writable(g) /\ g \in File(Records) /\ g.recs = f.recs \o wr.buf
        /\ g.synced = f.synced /\ g.named = f.named
    BY <1>2, <1>3, WrittenFields
  <2>5. FileOK(N, g, more)
    <3> DEFINE e == N + Len(f.recs)
    <3>1. e = N + Len(f.recs) /\ e \in Nat /\ NumberedFrom(wr.buf, e) /\ N \in Nat
      BY <1>2, <1>4, <1>7 DEF N
    <3>2. e + Len(wr.buf) <= more + 1
      BY <1>2, <1>4, <1>7
    <3> HIDE DEF e, g
    <3>3. FileOK(N, Written(f, wr.buf, part), more)
      BY <1>2, <1>3, <1>8, <3>1, <3>2, WrittenFile
    <3>4. QED
      BY <3>3 DEF g
  <2> HIDE DEF g
  <2>6. SegsOK(segs', more) /\ segs'[N] = g /\ Newest(segs', N)
    BY <1>3, <1>8, <2>3, <2>5, ReplaceNewest
  <2>7. Len(g.recs) = Len(f.recs) + Len(wr.buf)
    BY <1>2, <1>4, <2>4, ConcatProperties
  <2>8. Len(<<rec>>) = 1 /\ <<rec>>[1] = rec
    OBVIOUS
  <2>9. (pos + 1) + 1 = N + Len(g.recs) + Len(<<rec>>) /\ w'.size = Len(g.recs) + Len(<<rec>>)
        /\ rec.seq = N + Len(g.recs)
    <3> DEFINE a == Len(f.recs)
               b == Len(wr.buf)
    <3>1. a \in Nat /\ b \in Nat /\ pos + 1 = N + a + b /\ w'.size = (a + b) + 1
      BY <1>2, <1>4, <1>7, <2>1
    <3>2. Len(g.recs) = a + b
      BY <2>7
    <3> HIDE DEF a, b
    <3>3. (pos + 1) + 1 = N + (a + b) + 1 /\ w'.size = (a + b) + 1 /\ rec.seq = N + (a + b)
      BY <1>6, <3>1
    <3>4. QED
      BY <2>8, <3>2, <3>3
  <2>10. NumberedFrom(<<rec>>, N + Len(g.recs))
    <3>1. SUFFICES ASSUME NEW k \in 1 .. 1 PROVE <<rec>>[k].seq = (N + Len(g.recs)) + k - 1
      BY <2>8 DEF NumberedFrom
    <3>2. k = 1 /\ N + Len(g.recs) \in Nat
      <4>1. Len(g.recs) \in Nat
        BY <2>4, FileFields
      <4>2. QED
        BY <1>6, <4>1
    <3>3. QED
      BY <2>8, <2>9, <3>2
  <2>11. Ready(segs', w', pos + 1)
    BY <2>1, <2>2, <2>4, <2>6, <2>9, <2>10 DEF Ready
  <2>12. Adds(f, wr.buf, rec, g)
    BY <2>1, <2>4 DEF Adds, f, N
  <2>13. Adds(sg[wr.cur], wr.buf, rec, g) /\ Replaced(sg, wr.cur, g, segs')
    BY <2>3, <2>12 DEF f, N
  <2>14. QED
    BY <2>1, <2>4, <2>6, <2>11, <2>13 DEF N
<1>11. QED
  BY <1>9, <1>10 DEF Put

-----------------------------------------------------------------------------
(* rotate, openSegment and OpenWriter.                                     *)

(* Segments that are not the newest can be read. *)
LEMMA OthersReady ==
    ASSUME NEW sg, NEW last, SegsOK(sg, last), NEW N, Newest(sg, N), NEW m \in DOMAIN sg, m # N
    PROVE  sg[m].ok /\ sg[m].synced \in Nat
<1>1. ~Newest(sg, m)
  BY NewestUnique DEF SegsOK
<1>2. QED
  BY <1>1 DEF SegsOK

(* The segment openSegment has made, once it is on the disk. *)
LEMMA NamedSegment ==
    ASSUME GInv, w.step = "sync"
    PROVE  /\ SegsOK(Named, ids)
           /\ \E f1 \in File(Records) :
                /\ Replaced(segs, w.first, f1, Named)
                /\ f1.named /\ f1.synced = 0 /\ f1.recs = <<>> /\ segs[w.first].recs = <<>>
           /\ OnNewSegment.cur = w.first /\ OnNewSegment.buf = <<>>
           /\ Newest(segs, w.first)
           /\ \A p \in Nat : w.first = p + 1 => Ready(Named, OnNewSegment, p)
<1> DEFINE N == w.first
           f == segs[N]
           g == [f EXCEPT !.named = TRUE, !.synced = 0]
<1>1. /\ w \in Writer /\ ids \in Nat
      /\ N \in DOMAIN segs /\ Newest(segs, N) /\ f.recs = <<>> /\ f.ok /\ f.torn = "no"
  BY LogBoundsAssumption DEF GInv, Typed, Opening, Newest
<1>2. FileOK(N, f, ids) /\ f \in File(Records) /\ N \in 1 .. MaxRecords
  BY <1>1 DEF GInv, SegsOK, FileOK
<1>3. Named = [segs EXCEPT ![N] = g]
  BY <1>1 DEF Named, GInv, SegsOK
<1>4. g.named /\ g.synced = 0 /\ g.recs = <<>> /\ g.ok /\ g.torn = "no" /\ g \in File(Records)
  BY <1>1, <1>2 DEF File
<1>5. N \in Nat
  BY <1>2, LogBoundsAssumption
<1> HIDE DEF g
<1>6. Len(<<>>) = 0
  OBVIOUS
<1>7. FileOK(N, g, ids) /\ Writable(g)
  <2>1. NumberedFrom(<<>>, N)
    BY <1>6 DEF NumberedFrom
  <2>2. N + Len(<<>>) <= ids + 1
    BY <1>1, <1>2 DEF FileOK
  <2>3. QED
    BY <1>4, <1>6, <2>1, <2>2 DEF FileOK, Writable
<1>8. Replaced(segs, N, g, Named) /\ ids <= ids /\ SegsOK(segs, ids)
  BY <1>1, <1>3 DEF Replaced, GInv
<1>9. SegsOK(Named, ids) /\ Named[N] = g /\ Newest(Named, N)
  BY <1>1, <1>7, <1>8, ReplaceNewest
<1>10. /\ OnNewSegment.state = "open" /\ OnNewSegment.step = "idle" /\ OnNewSegment.cur = N
       /\ OnNewSegment.size = 0
  BY <1>1 DEF OnNewSegment, Writer
<1>11. OnNewSegment.buf = <<>>
  <2>1. w.buf = <<>>
    BY DEF GInv, Opening, Held
  <2>2. QED
    BY <1>1, <2>1 DEF OnNewSegment, Writer
<1>12. OnNewSegment \in Writer
  BY <1>1, <1>5 DEF OnNewSegment, Writer, WriterStates, WriterSteps
<1> HIDE DEF f
<1>13. ASSUME NEW p \in Nat, N = p + 1 PROVE Ready(Named, OnNewSegment, p)
  <2>1. NumberedFrom(<<>>, N + Len(g.recs))
    BY <1>6 DEF NumberedFrom
  <2>2. Len(g.recs) = 0
    BY <1>4, <1>6
  <2>3. p + 1 = N + 0 + 0 /\ 0 = 0 + 0
    BY <1>13
  <2> HIDE DEF N
  <2>4. QED
    BY <1>6, <1>7, <1>9, <1>10, <1>11, <1>12, <2>1, <2>2, <2>3 DEF Ready
<1>14. \E f1 \in File(Records) :
          /\ Replaced(segs, N, f1, Named)
          /\ f1.named /\ f1.synced = 0 /\ f1.recs = <<>>
  BY <1>4, <1>8
<1>15. segs[w.first].recs = <<>>
  BY <1>1 DEF f
<1>16. QED
  BY <1>1, <1>9, <1>10, <1>11, <1>13, <1>14, <1>15

(* The position that follows the newest segment's records, or its name. *)
LEMMA LastPositionExact ==
    ASSUME NEW recs \in Seq(Records), NEW n \in Nat \ {0}, NumberedFrom(recs, n)
    PROVE  Max({HighestSeq(recs), n - 1}) = n + Len(recs) - 1
<1> DEFINE s == { recs[k].seq : k \in DOMAIN recs }
           h == {0} \cup s
           b == n + Len(recs) - 1
<1>1. Len(recs) \in Nat /\ DOMAIN recs = 1 .. Len(recs) /\ b \in Nat
  OBVIOUS
<1>2. \A k \in DOMAIN recs : recs[k].seq = n + k - 1
  BY <1>1 DEF NumberedFrom
<1>3. h \in SUBSET Nat /\ h # {} /\ \A x \in h : x <= b
  <2>1. \A k \in DOMAIN recs : n + k - 1 \in Nat /\ n + k - 1 <= b
    BY <1>1
  <2>2. QED
    BY <1>1, <1>2, <2>1
<1>4. Len(recs) # 0 => b \in h
  BY <1>1, <1>2
<1>5. Len(recs) = 0 => b = n - 1
  OBVIOUS
<1>6. n - 1 \in Nat /\ n - 1 <= b
  BY <1>1
<1> HIDE DEF h, b
<1>7. Max(h) \in h /\ \A x \in h : x <= Max(h)
  BY <1>1, <1>3, MaxProperties
<1>8. HighestSeq(recs) = Max(h)
  BY DEF HighestSeq, h
<1>9. Max(h) \in Nat /\ Max(h) <= b /\ n - 1 \in Nat /\ n - 1 <= b
  BY <1>3, <1>7, <1>6
<1>10. b \in {Max(h), n - 1}
  <2>1. CASE Len(recs) = 0
    BY <1>5, <2>1
  <2>2. CASE Len(recs) # 0
    BY <1>1, <1>4, <1>7, <1>9, <2>2
  <2>3. QED
    BY <2>1, <2>2
<1> DEFINE T == {Max(h), n - 1}
<1>11. T \in SUBSET Nat /\ T # {} /\ \A x \in T : x <= b
  BY <1>9
<1> HIDE DEF T
<1>12. Max(T) \in T /\ \A x \in T : x <= Max(T)
  BY <1>1, <1>11, MaxProperties
<1>13. Max(T) <= b /\ b <= Max(T) /\ Max(T) \in Nat
  BY <1>10, <1>11, <1>12 DEF T
<1>14. Max(T) = b
  BY <1>1, <1>13
<1>15. QED
  BY <1>8, <1>14 DEF T, b

-----------------------------------------------------------------------------
(* A crash.                                                                *)

LEMMA NewFileType ==
    ASSUME NEW b \in BOOLEAN
    PROVE  LET g == [NewFile EXCEPT !.named = b]
           IN  /\ g \in File(Records) /\ g.named = b /\ g.recs = <<>> /\ ~g.ok
               /\ g.synced \notin Nat /\ g.torn = "no" /\ g.synced <= 0
<1> DEFINE g == [NewFile EXCEPT !.named = b]
<1>1. <<>> \in Seq(Records)
  OBVIOUS
<1>2. /\ NewFile \in File(Records) /\ NewFile.recs = <<>> /\ ~NewFile.ok
      /\ NewFile.torn = "no" /\ NewFile.synced = -1
  BY <1>1 DEF NewFile, File
<1>3. g \in File(Records)
  BY <1>2 DEF File
<1>4. g.named = b /\ g.recs = <<>> /\ ~g.ok /\ g.torn = "no"
  BY <1>2 DEF File
<1>5. g.synced = -1
  BY <1>2 DEF File
<1> HIDE DEF g
<1>6. g.synced \notin Nat /\ g.synced <= 0
  BY <1>5
<1>7. QED
  BY <1>3, <1>4, <1>6 DEF g

(* Of a file a crash leaves its first records, all that were synced among them;
   it does not make a segment that was on the disk unreadable. *)
LEMMA ImageOK ==
    ASSUME NEW n \in Nat, NEW f, NEW last \in Nat, FileOK(n, f, last), NEW g \in Images(f)
    PROVE  /\ FileOK(n, g, last)
           /\ g.named = f.named
           /\ f.ok /\ f.synced \in Nat => g.ok
           /\ f.synced \in Nat => g.synced = f.synced
           /\ f.synced \notin Nat => g.synced \notin Nat
           /\ \E k \in 0 .. Len(f.recs) :
                g.recs = SubSeq(f.recs, 1, k) /\ (f.synced \in Nat => f.synced <= k)
<1>1. /\ f \in File(Records) /\ f.recs \in Seq(Records) /\ Len(f.recs) \in Nat
      /\ f.synced \in Nat \cup {-1} /\ f.named \in BOOLEAN /\ f.synced <= Len(f.recs)
      /\ NumberedFrom(f.recs, n) /\ n + Len(f.recs) <= last + 1
  BY FileFields DEF FileOK
<1>2. Len(<<>>) = 0
  OBVIOUS
<1>3. CASE f.synced \notin Nat /\ g = [NewFile EXCEPT !.named = f.named]
  <2>1. f.recs = <<>>
    BY <1>3 DEF FileOK
  <2>2. /\ g \in File(Records) /\ g.named = f.named /\ g.recs = <<>> /\ ~g.ok
        /\ g.synced \notin Nat /\ g.synced <= 0
    BY <1>1, <1>3, NewFileType
  <2>3. FileOK(n, g, last)
    BY <1>1, <1>2, <2>1, <2>2 DEF FileOK
  <2>4. SubSeq(f.recs, 1, 0) = <<>> /\ 0 \in 0 .. Len(f.recs)
    BY <1>1, SubSeqEmpty
  <2>5. QED
    BY <1>3, <2>2, <2>3, <2>4
<1>4. ASSUME NEW k \in Nat, k <= Len(f.recs), f.synced \in Nat => f.synced <= k,
             NEW t \in {"no", "left"}, g = CutAt(f, k, t)
      PROVE  /\ FileOK(n, g, last)
             /\ g.named = f.named
             /\ f.ok /\ f.synced \in Nat => g.ok
             /\ f.synced \in Nat => g.synced = f.synced
             /\ f.synced \notin Nat => g.synced \notin Nat
             /\ \E i \in 0 .. Len(f.recs) :
                  g.recs = SubSeq(f.recs, 1, i) /\ (f.synced \in Nat => f.synced <= i)
  <2>1. k \in 0 .. Len(f.recs)
    BY <1>1, <1>4
  <2>2. SubSeq(f.recs, 1, k) \in Seq(Records) /\ Len(SubSeq(f.recs, 1, k)) = k
        /\ NumberedFrom(SubSeq(f.recs, 1, k), n)
    BY <1>1, <2>1, Cut, NumberedCut
  <2>3. g.recs = SubSeq(f.recs, 1, k) /\ g.named = f.named /\ g.ok = f.ok /\ g.synced = f.synced
    BY <1>1, <1>4 DEF File, CutAt
  <2>4. g \in File(Records)
    BY <1>1, <1>4, <2>2 DEF File, CutAt
  <2>5. g.synced <= k
    BY <1>1, <1>4, <2>3
  <2>6. n + k <= last + 1
    BY <1>1, <1>4
  <2>7. (~f.ok \/ f.synced \notin Nat) => SubSeq(f.recs, 1, k) = <<>>
    <3>1. SUFFICES ASSUME ~f.ok \/ f.synced \notin Nat PROVE SubSeq(f.recs, 1, k) = <<>>
      OBVIOUS
    <3>2. f.recs = <<>>
      BY <3>1 DEF FileOK
    <3>3. k < 1
      BY <1>2, <1>4, <3>2
    <3>4. QED
      BY <3>3, SubSeqEmpty
  <2>8. FileOK(n, g, last)
    BY <2>2, <2>3, <2>4, <2>5, <2>6, <2>7 DEF FileOK
  <2>9. QED
    BY <1>4, <2>1, <2>3, <2>8
<1> DEFINE more == IF f.torn # "no" \/ f.synced < Len(f.recs) THEN {"left"} ELSE {}
           ends == Max({0, f.synced}) .. Len(f.recs)
           tails == {"no"} \cup more
           cuts == { CutAt(f, k, t) : k \in ends, t \in tails }
           none == IF f.synced >= 0 THEN {} ELSE {[NewFile EXCEPT !.named = f.named]}
<1>5. CASE g \in cuts
  <2>1. Max({0, f.synced}) \in Nat /\ (f.synced \in Nat => f.synced <= Max({0, f.synced}))
    <3>1. CASE f.synced \in Nat
      <4> DEFINE T == {0, f.synced}
      <4>1. T \in SUBSET Nat /\ T # {} /\ \A x \in T : x <= f.synced
        BY <3>1
      <4> HIDE DEF T
      <4>2. Max(T) \in T /\ \A x \in T : x <= Max(T)
        BY <3>1, <4>1, MaxProperties
      <4>3. QED
        BY <4>1, <4>2 DEF T
    <3>2. CASE f.synced \notin Nat
      <4>1. f.synced = -1
        BY <1>1, <3>2
      <4>2. \E m \in {0, -1} : \A x \in {0, -1} : m >= x
        OBVIOUS
      <4>3. Max({0, -1}) \in {0, -1} /\ \A x \in {0, -1} : Max({0, -1}) >= x
        BY <4>2 DEF Max
      <4>4. Max({0, -1}) = 0
        BY <4>3
      <4>5. QED
        BY <3>2, <4>1, <4>4
    <3>3. QED
      BY <3>1, <3>2
  <2>2. tails \subseteq {"no", "left"}
    OBVIOUS
  <2> HIDE DEF more, ends, tails
  <2>3. PICK k \in ends, t \in tails : g = CutAt(f, k, t)
    BY <1>5
  <2>4. t \in {"no", "left"} /\ k \in Nat /\ k <= Len(f.recs) /\ (f.synced \in Nat => f.synced <= k)
    BY <1>1, <2>1, <2>2 DEF ends
  <2>5. QED
    BY <1>4, <2>3, <2>4
<1>6. CASE g \in none
  <2>1. ~(f.synced >= 0) /\ g = [NewFile EXCEPT !.named = f.named]
    BY <1>6
  <2>2. f.synced \notin Nat
    BY <2>1
  <2>3. QED
    BY <1>3, <2>1, <2>2
<1>7. Images(f) = cuts \cup none
  BY DEF Images
<1> HIDE DEF cuts, none
<1>8. QED
  BY <1>5, <1>6, <1>7

(* A crash leaves some of the segments, and an image of each. *)
LEMMA CrashSegs ==
    ASSUME GInv, Crash
    PROVE  /\ w' = NoWriter
           /\ DOMAIN segs' \subseteq DOMAIN segs
           /\ \A n \in DOMAIN segs \ DOMAIN segs' : ~segs[n].named
           /\ \A n \in DOMAIN segs' : segs'[n] \in Images(segs[n])
           /\ SegsOK(segs', ids)
<1>1. w' = NoWriter
  BY DEF Crash
<1>2. PICK kept \in SUBSET DOMAIN segs :
        /\ \A n \in DOMAIN segs \ kept : ~segs[n].named
        /\ \E image \in [kept -> UNION { Images(segs[n]) : n \in kept }] :
             /\ \A n \in kept : image[n] \in Images(segs[n])
             /\ segs' = image
  BY DEF Crash
<1>3. DOMAIN segs' = kept /\ (\A n \in kept : segs'[n] \in Images(segs[n]))
      /\ segs' = [n \in kept |-> segs'[n]]
  BY <1>2
<1>4. ids \in Nat
  BY LogBoundsAssumption DEF GInv, Typed
<1>5. \A n \in kept : n \in Nat /\ FileOK(n, segs[n], ids)
  BY LogBoundsAssumption DEF GInv, SegsOK
<1>6. \A n \in kept : FileOK(n, segs'[n], ids)
  BY <1>3, <1>5, <1>4, ImageOK
<1>7. segs' \in [kept -> File(Records)]
  BY <1>3, <1>6 DEF FileOK
<1>8. \A n \in kept : (~segs'[n].ok \/ segs'[n].synced \notin Nat) => Newest(segs', n)
  <2>1. SUFFICES ASSUME NEW n \in kept, ~segs'[n].ok \/ segs'[n].synced \notin Nat
                 PROVE  Newest(segs', n)
    OBVIOUS
  <2>2. n \in Nat /\ FileOK(n, segs[n], ids) /\ segs'[n] \in Images(segs[n])
    BY <1>3, <1>5
  <2>3. (segs[n].ok /\ segs[n].synced \in Nat => segs'[n].ok)
        /\ (segs[n].synced \in Nat => segs'[n].synced = segs[n].synced)
    BY <1>4, <2>2, ImageOK
  <2>4. ~segs[n].ok \/ segs[n].synced \notin Nat
    BY <2>1, <2>3
  <2>5. Newest(segs, n)
    BY <2>4 DEF GInv, SegsOK
  <2>6. QED
    BY <1>3, <2>5 DEF Newest
<1>9. SegsOK(segs', ids)
  BY <1>3, <1>6, <1>7, <1>8 DEF GInv, SegsOK
<1>10. QED
  BY <1>1, <1>2, <1>3, <1>9

-----------------------------------------------------------------------------
(* Every step keeps the invariant.                                         *)

LEMMA UpIsReady ==
    ASSUME GInv, node = "up", w.step = "idle"
    PROVE  w.state = "open" /\ Ready(segs, w, pos) /\ pos <= ids
<1>1. w.state = "open" /\ Ready(segs, w, pos)
  BY DEF GInv, Typed, Held, Placed, Ready
<1>2. pos + 1 <= ids + 1 /\ pos \in Nat /\ ids \in Nat
  BY <1>1, LogBoundsAssumption DEF GInv, Typed, Held, Placed
<1>3. QED
  BY <1>1, <1>2

(* The segments and the Writer an Append goes to, if it is not refused. *)
LEMMA AppendTarget ==
    ASSUME GInv, node = "up", NEW rec, AppendFits(rec) \/ AppendRotated(rec)
    PROVE  /\ pos <= ids
           /\ \/ w.state = "open" /\ Ready(segs, w, pos) /\ Put(segs, w, rec)
              \/ /\ w.step = "sync" /\ Ready(Named, OnNewSegment, pos)
                 /\ Put(Named, OnNewSegment, rec)
<1>1. CASE AppendFits(rec)
  BY <1>1, UpIsReady DEF AppendFits
<1>2. CASE AppendRotated(rec)
  <2>1. w.step = "sync" /\ Put(Named, OnNewSegment, rec)
    BY <1>2 DEF AppendRotated
  <2>2. w.first = pos + 1 /\ pos \in Nat /\ ids \in Nat /\ w.first <= ids + 1
    BY <2>1, LogBoundsAssumption DEF GInv, Typed, Placed, Opening
  <2>3. Ready(Named, OnNewSegment, pos)
    BY <2>1, <2>2, NamedSegment
  <2>4. pos <= ids
    BY <2>2
  <2>5. QED
    BY <2>1, <2>3, <2>4
<1>3. QED
  BY <1>1, <1>2

LEMMA AppendKeeps ==
    ASSUME GInv, node = "up", NEW rec \in Records, rec.seq = pos + 1,
           AppendFits(rec) \/ AppendRotated(rec), pos' = pos + 1,
           ids' \in 0 .. MaxRecords, ids <= ids', pos + 1 <= ids',
           UNCHANGED <<node, book, faults, crashes>>
    PROVE  GInv'
<1>1. pos \in Nat /\ ids \in Nat /\ SegsOK(segs, ids) /\ ids' \in Nat
  BY LogBoundsAssumption DEF GInv, Typed
<1>2. PICK more \in Nat : more = ids'
  BY <1>1
<1>3. SegsOK(segs', more) /\ Ready(segs', w', pos + 1)
  <2>1. CASE Ready(segs, w, pos) /\ Put(segs, w, rec)
    BY <1>1, <1>2, <2>1, PutStep
  <2>2. CASE w.step = "sync" /\ Ready(Named, OnNewSegment, pos)
             /\ Put(Named, OnNewSegment, rec)
    <3>1. SegsOK(Named, ids)
      BY <2>2, NamedSegment
    <3>2. QED
      BY <1>1, <1>2, <2>2, <3>1, PutStep
  <2>3. QED
    BY <2>1, <2>2, AppendTarget
<1>4. SegsOK(segs', ids') /\ Ready(segs', w', pos')
  BY <1>2, <1>3
<1>5. Typed'
  <2>1. w' \in Writer
    BY <1>4 DEF Ready
  <2>2. pos' \in Nat
    BY <1>1
  <2>3. QED
    BY <2>1, <2>2 DEF GInv, Typed
<1>6. node' = "up" /\ pos' <= ids'
  OBVIOUS
<1>7. QED
  BY <1>4, <1>5, <1>6, ReadyIsInvariant

LEMMA AppendRecordStep ==
    ASSUME GInv, AppendRecord
    PROVE  GInv'
<1>1. node = "up" /\ ids < MaxRecords /\ pos' = pos + 1 /\ ids' = ids + 1
      /\ (AppendFits(NextRecord) \/ AppendRotated(NextRecord))
      /\ UNCHANGED <<node, book, faults, crashes>>
  BY DEF AppendRecord
<1>2. pos \in Nat /\ ids \in Nat /\ pos <= ids
  BY <1>1, AppendTarget, LogBoundsAssumption DEF GInv, Typed
<1>3. NextRecord \in Records /\ NextRecord.seq = pos + 1
  BY <1>1, <1>2, NextRecordType
<1>4. ids' \in 0 .. MaxRecords /\ ids <= ids' /\ pos + 1 <= ids'
  BY <1>1, <1>2, LogBoundsAssumption
<1>5. QED
  BY <1>1, <1>3, <1>4, AppendKeeps

LEMMA RotateKeeps ==
    ASSUME GInv, node = "up", NEW rec \in Records, rec.seq = pos + 1, Rotate(rec),
           UNCHANGED ownerVars
    PROVE  GInv'
<1>1. w.step = "idle" /\ w.size >= SegmentCap
      /\ w' = [Closed EXCEPT !.step = "create", !.first = rec.seq]
  BY DEF Rotate, Rotates, CloseOK
<1>2. w.state = "open" /\ Ready(segs, w, pos) /\ pos <= ids
  BY <1>1, UpIsReady
<1>3. segs' = Fsynced(Flushed)
  BY <1>2 DEF Rotate, CloseOK
<1>4. PICK f \in File(Records) :
        /\ Flushes(f, Len(w.buf)) /\ segs' = [segs EXCEPT ![w.cur] = f]
        /\ f.recs = segs[w.cur].recs \o w.buf
  BY <1>2, <1>3, FsyncedSegment
<1>5. /\ w.cur \in Nat /\ Newest(segs, w.cur) /\ ids \in Nat /\ w.buf \in Seq(Records)
      /\ segs[w.cur].recs \in Seq(Records) /\ Len(segs[w.cur].recs) \in Nat
      /\ Len(w.buf) \in Nat /\ w \in Writer
  BY <1>2, OpenSegment DEF GInv, Typed
<1>6. FileOK(w.cur, f, ids) /\ Writable(f)
  BY <1>4 DEF Flushes
<1>7. ids <= ids /\ SegsOK(segs, ids) /\ Replaced(segs, w.cur, f, segs')
  BY <1>4, <1>5 DEF GInv, Replaced
<1>8. SegsOK(segs', ids) /\ DOMAIN segs' = DOMAIN segs /\ segs'[w.cur] = f
      /\ Newest(segs', w.cur)
  BY <1>5, <1>6, <1>7, ReplaceNewest
<1>9. rec.seq = pos + 1 /\ pos + 1 \in Nat /\ pos \in Nat
  BY DEF GInv, Typed
<1>10. /\ w'.state = "closed" /\ w'.buf = <<>> /\ w'.step = "create" /\ w'.first = pos + 1
       /\ w' \in Writer
  <2>1. <<>> \in Seq(Records)
    OBVIOUS
  <2>2. Closed \in Writer /\ Closed.state = "closed" /\ Closed.buf = <<>>
    BY <1>5, <2>1 DEF Closed, Writer, WriterStates
  <2>3. QED
    BY <1>1, <1>9, <2>2 DEF Writer, WriterSteps
<1>11. w.cur < pos + 1
  <2>1. pos + 1 = w.cur + Len(segs[w.cur].recs) + Len(w.buf)
        /\ w.size = Len(segs[w.cur].recs) + Len(w.buf)
    BY <1>2 DEF Ready
  <2> DEFINE a == Len(segs[w.cur].recs)
             b == Len(w.buf)
             c == w.cur
  <2>2. a \in Nat /\ b \in Nat /\ c \in Nat /\ pos + 1 = c + a + b /\ a + b >= SegmentCap
    BY <1>1, <1>5, <2>1
  <2> HIDE DEF a, b, c
  <2>3. c < c + a + b
    BY <2>2, SegmentCapAssumption
  <2>4. c < pos + 1
    BY <2>2, <2>3
  <2>5. QED
    BY <2>4 DEF c
<1>12. pos + 1 \in 1 .. MaxRecords /\ pos + 1 <= ids + 1
  BY <1>2, <1>5, <1>9, RecordFields
<1>13. \A m \in DOMAIN segs' : m < pos + 1 /\ segs'[m].ok /\ segs'[m].synced \in Nat
  <2>1. SUFFICES ASSUME NEW m \in DOMAIN segs'
                 PROVE  m < pos + 1 /\ segs'[m].ok /\ segs'[m].synced \in Nat
    OBVIOUS
  <2>2. m <= w.cur /\ m \in Nat
    BY <1>8, LogBoundsAssumption DEF Newest, SegsOK
  <2>3. m < pos + 1
    BY <1>5, <1>9, <1>11, <2>2
  <2>4. CASE m = w.cur
    BY <1>6, <1>8, <2>3, <2>4 DEF Writable
  <2>5. CASE m # w.cur
    BY <1>8, <2>3, <2>5, OthersReady
  <2>6. QED
    BY <2>4, <2>5
<1>14. UNCHANGED <<node, pos, book, ids, faults, crashes>>
  BY DEF ownerVars
<1>15. Typed' /\ Held'
  BY <1>10, <1>14 DEF GInv, Typed, Held
<1>16. Opening'
  BY <1>10, <1>12, <1>13, <1>14 DEF Opening
<1>17. Placed'
  BY <1>10, <1>14 DEF Placed
<1>18. SegsOK(segs, ids)'
  BY <1>8, <1>14
<1>19. QED
  BY <1>15, <1>16, <1>17, <1>18 DEF GInv

LEMMA CreateFileKeeps ==
    ASSUME GInv, CreateFile, UNCHANGED ownerVars
    PROVE  GInv'
<1> DEFINE N == w.first
           g == [NewFile EXCEPT !.named = FALSE]
<1>1. w.step = "create" /\ w' = [w EXCEPT !.step = "header"] /\ w \in Writer
  BY DEF CreateFile, GInv, Typed
<1>2. /\ w.state \in {"none", "closed"} /\ N \in 1 .. MaxRecords /\ N <= ids + 1
      /\ (w.state = "none" => N = 1)
      /\ \A m \in DOMAIN segs : m < N /\ segs[m].ok /\ segs[m].synced \in Nat
  BY <1>1 DEF GInv, Opening
<1>3. N \in Nat /\ ids \in Nat
  BY <1>2, LogBoundsAssumption DEF GInv, Typed
<1>4. N \notin DOMAIN segs
  BY <1>2, <1>3
<1>5. DOMAIN segs' = DOMAIN segs \cup {N} /\ segs'[N] = g
      /\ \A m \in DOMAIN segs : segs'[m] = segs[m]
  BY <1>4 DEF CreateFile
<1>6. /\ g \in File(Records) /\ g.recs = <<>> /\ ~g.ok
      /\ g.synced \notin Nat /\ g.torn = "no" /\ g.synced <= 0
  BY NewFileType
<1> HIDE DEF g
<1>7. Len(<<>>) = 0
  OBVIOUS
<1>8. FileOK(N, g, ids)
  <2>1. N + 0 <= ids + 1
    BY <1>2, <1>3
  <2>2. QED
    BY <1>6, <1>7, <2>1 DEF FileOK, NumberedFrom
<1>9. SegsOK(segs', ids)
  <2>1. segs' \in [DOMAIN segs' -> File(Records)]
    <3>1. segs' = [n \in DOMAIN segs' |-> segs'[n]]
      BY DEF CreateFile
    <3>2. \A n \in DOMAIN segs' : segs'[n] \in File(Records)
      BY <1>5, <1>6 DEF GInv, SegsOK
    <3>3. QED
      BY <3>1, <3>2
  <2>2. DOMAIN segs' \subseteq 1 .. MaxRecords
    BY <1>2, <1>5 DEF GInv, SegsOK
  <2>3. \A n \in DOMAIN segs' : FileOK(n, segs'[n], ids)
    BY <1>5, <1>8 DEF GInv, SegsOK
  <2>4. Newest(segs', N)
    BY <1>2, <1>3, <1>5 DEF Newest, GInv, SegsOK
  <2>5. \A n \in DOMAIN segs' : (~segs'[n].ok \/ segs'[n].synced \notin Nat) => Newest(segs', n)
    BY <1>2, <1>5, <2>4
  <2>6. QED
    BY <2>1, <2>2, <2>3, <2>5 DEF SegsOK
<1>10. Newest(segs', N)
  BY <1>2, <1>3, <1>5 DEF Newest, GInv, SegsOK
<1>11. /\ w'.step = "header" /\ w'.first = N /\ w'.state = w.state /\ w'.buf = w.buf
       /\ w' \in Writer
  BY <1>1 DEF Writer, WriterSteps
<1>12. UNCHANGED <<node, pos, book, ids, faults, crashes>>
  BY DEF ownerVars
<1>13. Typed' /\ Held'
  BY <1>2, <1>11, <1>12 DEF GInv, Typed, Held
<1>14. Opening'
  BY <1>2, <1>5, <1>6, <1>10, <1>11, <1>12 DEF Opening
<1>15. Placed'
  BY <1>1, <1>2, <1>11, <1>12 DEF GInv, Placed
<1>16. SegsOK(segs, ids)'
  BY <1>9, <1>12
<1>17. QED
  BY <1>13, <1>14, <1>15, <1>16 DEF GInv

LEMMA WriteHeaderKeeps ==
    ASSUME GInv, WriteHeader, UNCHANGED ownerVars
    PROVE  GInv'
<1> DEFINE N == w.first
           f == segs[N]
           g == [f EXCEPT !.ok = TRUE]
<1>1. w.step = "header" /\ w' = [w EXCEPT !.step = "sync"] /\ w \in Writer
  BY DEF WriteHeader, GInv, Typed
<1>2. /\ w.state \in {"none", "closed"} /\ N \in 1 .. MaxRecords /\ N <= ids + 1
      /\ (w.state = "none" => N = 1)
      /\ Newest(segs, N) /\ f.recs = <<>> /\ f.synced \notin Nat /\ f.torn = "no"
  BY <1>1 DEF GInv, Opening
<1>3. N \in Nat /\ ids \in Nat /\ N \in DOMAIN segs
  BY <1>2, LogBoundsAssumption DEF GInv, Typed, Newest
<1>4. FileOK(N, f, ids) /\ f \in File(Records) /\ SegsOK(segs, ids) /\ ids <= ids
  BY <1>3 DEF GInv, SegsOK, FileOK
<1>5. Replaced(segs, N, g, segs')
  BY <1>3 DEF WriteHeader, Replaced, GInv, SegsOK
<1>6. g \in File(Records) /\ g.ok /\ g.recs = f.recs /\ g.synced = f.synced /\ g.torn = f.torn
  BY <1>4 DEF File
<1> HIDE DEF g
<1>7. FileOK(N, g, ids)
  BY <1>2, <1>4, <1>6 DEF FileOK
<1>8. SegsOK(segs', ids) /\ segs'[N] = g /\ Newest(segs', N)
  BY <1>2, <1>3, <1>4, <1>5, <1>7, ReplaceNewest
<1>9. /\ w'.step = "sync" /\ w'.first = N /\ w'.state = w.state /\ w'.buf = w.buf
       /\ w' \in Writer
  BY <1>1 DEF Writer, WriterSteps
<1>10. UNCHANGED <<node, pos, book, ids, faults, crashes>>
  BY DEF ownerVars
<1>11. Typed' /\ Held'
  BY <1>2, <1>9, <1>10 DEF GInv, Typed, Held
<1>12. Opening'
  BY <1>2, <1>6, <1>8, <1>9, <1>10 DEF Opening
<1>13. Placed'
  BY <1>1, <1>2, <1>9, <1>10 DEF GInv, Placed
<1>14. SegsOK(segs, ids)'
  BY <1>8, <1>10
<1>15. QED
  BY <1>11, <1>12, <1>13, <1>14 DEF GInv

(* Recover returns records. *)
LEMMA RecoverRecords ==
    ASSUME NEW sg, NEW last, SegsOK(sg, last)
    PROVE  Recover(sg) \in Seq(Records)
<1>1. MaxRecords \in Nat /\ DOMAIN sg \subseteq 1 .. MaxRecords
      /\ \A n \in DOMAIN sg : sg[n] \in File(Records)
  BY LogBoundsAssumption DEF SegsOK
<1>2. QED
  BY <1>1, RecoverType

(* A Sync that succeeds, at the end of a batch. *)
LEMMA CommitStep ==
    ASSUME GInv, Commit
    PROVE  GInv'
<1>1. node = "up" /\ w.step = "idle" /\ segs' = Fsynced(Flushed) /\ w' = [w EXCEPT !.buf = <<>>]
      /\ book' = Recover(segs') /\ UNCHANGED <<node, pos, ids, faults, crashes>>
  BY DEF Commit, Sync
<1>2. w.state = "open" /\ Ready(segs, w, pos) /\ pos <= ids
  BY <1>1, UpIsReady
<1>3. PICK f \in File(Records) :
        /\ Flushes(f, Len(w.buf)) /\ segs' = [segs EXCEPT ![w.cur] = f]
        /\ f.recs = segs[w.cur].recs \o w.buf
  BY <1>1, <1>2, FsyncedSegment
<1>4. /\ w.cur \in Nat /\ Newest(segs, w.cur) /\ ids \in Nat /\ w.buf \in Seq(Records)
      /\ segs[w.cur].recs \in Seq(Records) /\ Len(segs[w.cur].recs) \in Nat
      /\ Len(w.buf) \in Nat /\ w \in Writer
  BY <1>2, OpenSegment DEF GInv, Typed
<1>5. FileOK(w.cur, f, ids) /\ Writable(f)
  BY <1>3 DEF Flushes
<1>6. ids <= ids /\ SegsOK(segs, ids) /\ Replaced(segs, w.cur, f, segs')
  BY <1>3, <1>4 DEF GInv, Replaced
<1>7. SegsOK(segs', ids) /\ segs'[w.cur] = f /\ Newest(segs', w.cur)
  BY <1>4, <1>5, <1>6, ReplaceNewest
<1>8. /\ w'.state = "open" /\ w'.step = "idle" /\ w'.cur = w.cur /\ w'.buf = <<>>
      /\ w'.size = w.size /\ w' \in Writer
  <2>1. <<>> \in Seq(Records)
    OBVIOUS
  <2>2. QED
    BY <1>1, <1>2, <1>4, <2>1 DEF Writer
<1>9. Len(f.recs) = Len(segs[w.cur].recs) + Len(w.buf) /\ Len(<<>>) = 0
  BY <1>3, <1>4, ConcatProperties
<1>10. pos + 1 = w.cur + Len(f.recs) + 0 /\ w.size = Len(f.recs) + 0
  <2> DEFINE a == Len(segs[w.cur].recs)
             b == Len(w.buf)
             c == w.cur
  <2>1. /\ a \in Nat /\ b \in Nat /\ c \in Nat /\ pos + 1 = c + a + b
        /\ w.size = a + b /\ Len(f.recs) = a + b
    BY <1>2, <1>4, <1>9 DEF Ready
  <2> HIDE DEF a, b, c
  <2>2. pos + 1 = c + (a + b) + 0 /\ w.size = (a + b) + 0
    BY <2>1
  <2>3. QED
    BY <2>1, <2>2 DEF c
<1>11. NumberedFrom(<<>>, w.cur + Len(f.recs))
  BY <1>9 DEF NumberedFrom
<1>12. Ready(segs', w', pos)
  BY <1>5, <1>7, <1>8, <1>9, <1>10, <1>11 DEF Ready
<1>13. book' \in Seq(Records)
  BY <1>1, <1>7, RecoverRecords
<1>14. Typed'
  BY <1>1, <1>8, <1>13 DEF GInv, Typed
<1>15. SegsOK(segs', ids') /\ Ready(segs', w', pos') /\ node' = "up" /\ pos' <= ids'
  BY <1>1, <1>2, <1>7, <1>12
<1>16. QED
  BY <1>14, <1>15, ReadyIsInvariant

(* The segments are left as they are, and no Writer is on them any more. *)
LEMMA NoLongerOpen ==
    ASSUME GInv, UNCHANGED <<segs, pos, book, ids, crashes>>, w' \in Writer,
           w'.state \in {"none", "latched", "closed"}, w'.step = "idle", w'.buf = <<>>,
           w'.state = "latched" => w'.cur \in DOMAIN segs,
           node' \in {"failed", "stopped", "down"}, node' = "down" <=> w'.state = "none",
           faults' \in 0 .. MaxFaults
    PROVE  GInv'
<1>1. Typed' /\ Held'
  BY DEF GInv, Typed, Held
<1>2. Opening'
  BY DEF Opening
<1>3. Placed'
  BY DEF Placed
<1>4. SegsOK(segs, ids)'
  BY DEF GInv
<1>5. QED
  BY <1>1, <1>2, <1>3, <1>4 DEF GInv

LEMMA ClosedType ==
    ASSUME w \in Writer
    PROVE  /\ Closed \in Writer /\ Closed.state = "closed" /\ Closed.buf = <<>>
           /\ Closed.step = w.step /\ Closed.cur = w.cur
<1>1. <<>> \in Seq(Records)
  OBVIOUS
<1>2. QED
  BY <1>1 DEF Closed, Writer, WriterStates

LEMMA LatchedType ==
    ASSUME w \in Writer
    PROVE  LET x == [w EXCEPT !.state = "latched", !.buf = <<>>]
           IN  /\ x \in Writer /\ x.state = "latched" /\ x.buf = <<>>
               /\ x.step = w.step /\ x.cur = w.cur
<1>1. <<>> \in Seq(Records)
  OBVIOUS
<1>2. QED
  BY <1>1 DEF Writer, WriterStates

(* What a failure or a Close does to an open Writer. *)
LEMMA OpenEnds ==
    ASSUME GInv, w.state = "open", w.step = "idle",
           \/ w' = [w EXCEPT !.state = "latched", !.buf = <<>>]
           \/ w' = [w EXCEPT !.buf = <<>>]
           \/ w' = Closed
    PROVE  /\ w' \in Writer /\ w'.cur = w.cur /\ w'.buf = <<>> /\ w'.step = "idle"
           /\ w'.state \in {"open", "latched", "closed"}
<1>1. w \in Writer
  BY DEF GInv, Typed
<1>2. CASE w' = [w EXCEPT !.state = "latched", !.buf = <<>>]
  BY <1>1, <1>2, LatchedType
<1>3. CASE w' = Closed
  BY <1>1, <1>3, ClosedType
<1>4. CASE w' = [w EXCEPT !.buf = <<>>]
  <2>1. <<>> \in Seq(Records)
    OBVIOUS
  <2>2. QED
    BY <1>1, <1>4, <2>1 DEF Writer
<1>5. QED
  BY <1>2, <1>3, <1>4

(* A commit that fails, other than by leaving everything as it is. *)
LEMMA FailureShape ==
    ASSUME GInv, w.state = "open", AppendFails(NextRecord) \/ RotateFails \/ SyncFails
    PROVE  \/ UNCHANGED walVars
           \/ /\ Emptied /\ w.step = "idle"
              /\ w' \in Writer /\ w'.cur = w.cur /\ w'.buf = <<>> /\ w'.step = "idle"
              /\ w'.state \in {"open", "latched", "closed"}
<1>1. CASE AppendFails(NextRecord)
  <2>1. SUFFICES ASSUME ~UNCHANGED walVars
                 PROVE  /\ Emptied /\ w.step = "idle"
                        /\ w' = [w EXCEPT !.state = "latched", !.buf = <<>>]
    BY OpenEnds
  <2>2. FlushPart(Append(w.buf, NextRecord)) /\ w.step = "idle"
        /\ w' = [w EXCEPT !.state = "latched", !.buf = <<>>]
    BY <1>1, <2>1 DEF AppendFails
  <2>3. QED
    BY <2>2, AppendFailsFile
<1>2. CASE RotateFails
  <2>1. CloseFails /\ w.step = "idle" /\ w' = Closed
    BY <1>2 DEF RotateFails, CloseFails
  <2>2. QED
    BY <2>1, Closes, OpenEnds
<1>3. CASE SyncFails
  <2>1. w.step = "idle"
    BY <1>3 DEF SyncFails
  <2>2. w.buf \in Seq(Records) /\ Len(w.buf) \in Nat /\ Len(w.buf) \in 0 .. Len(w.buf)
    BY OpenSegment
  <2>3. CASE FlushPart(w.buf) /\ w' = [w EXCEPT !.state = "latched", !.buf = <<>>]
    BY <2>1, <2>2, <2>3, FlushPartFile, OpenEnds
  <2>4. CASE segs' = Flushed /\ w' = [w EXCEPT !.buf = <<>>]
    <3>1. Emptied
      BY <2>2, <2>4, FlushedFile DEF Emptied
    <3>2. QED
      BY <2>1, <2>4, <3>1, OpenEnds
  <2>5. QED
    BY <1>3, <2>3, <2>4 DEF SyncFails
<1>4. QED
  BY <1>1, <1>2, <1>3

LEMMA CommitFailsStep ==
    ASSUME GInv, CommitFails
    PROVE  GInv'
<1>1. /\ node = "up" /\ faults < MaxFaults /\ node' = "failed" /\ faults' = faults + 1
      /\ AppendFails(NextRecord) \/ RotateFails \/ SyncFails \/ OpenSegmentFails
      /\ UNCHANGED <<pos, book, ids, crashes>>
  BY DEF CommitFails
<1>2. faults' \in 0 .. MaxFaults
  BY <1>1, LogBoundsAssumption DEF GInv, Typed
<1>3. CASE w.step = "idle"
  <2>1. w.state = "open"
    BY <1>1, <1>3, UpIsReady
  <2>2. AppendFails(NextRecord) \/ RotateFails \/ SyncFails
    BY <1>1, <1>3 DEF OpenSegmentFails
  <2>3. CASE UNCHANGED walVars
    <3>1. segs' = segs /\ w' = w
      BY <2>3 DEF walVars
    <3>2. Typed' /\ Held'
      BY <1>1, <1>2, <3>1 DEF GInv, Typed, Held
    <3>3. Opening'
      BY <1>3, <3>1 DEF Opening
    <3>4. Placed'
      BY <1>1, <1>3, <2>1, <3>1 DEF Placed
    <3>5. SegsOK(segs, ids)'
      BY <1>1, <3>1 DEF GInv
    <3>6. QED
      BY <3>2, <3>3, <3>4, <3>5 DEF GInv
  <2>4. CASE ~UNCHANGED walVars
    <3>1. /\ Emptied /\ w' \in Writer /\ w'.cur = w.cur /\ w'.buf = <<>> /\ w'.step = "idle"
          /\ w'.state \in {"open", "latched", "closed"}
      BY <2>1, <2>2, <2>4, FailureShape
    <3>2. node' \in {"failed", "stopped"}
      BY <1>1
    <3>3. QED
      BY <1>1, <1>2, <2>1, <3>1, <3>2, GivenUp
  <2>5. QED
    BY <2>3, <2>4
<1>4. CASE w.step # "idle"
  <2>1. OpenSegmentFails
    BY <1>1, <1>4 DEF AppendFails, RotateFails, CloseFails, SyncFails
  <2>2. w' = [w EXCEPT !.step = "idle", !.first = 0] /\ segs' = segs /\ w \in Writer
    BY <2>1 DEF OpenSegmentFails, GInv, Typed
  <2>3. w.state = "closed" /\ w.buf = <<>>
    BY <1>1, <1>4 DEF GInv, Placed, Held
  <2>4. w' \in Writer /\ w'.state = "closed" /\ w'.step = "idle" /\ w'.buf = <<>>
    BY <2>2, <2>3 DEF Writer, WriterSteps
  <2>5. QED
    BY <1>1, <1>2, <2>2, <2>4, NoLongerOpen
<1>5. QED
  BY <1>3, <1>4

LEMMA ShutdownStep ==
    ASSUME GInv, Shutdown
    PROVE  GInv'
<1>1. /\ w.state # "none" /\ w.step = "idle" /\ (CloseOK \/ CloseFails) /\ w' = Closed
      /\ node' = "stopped" /\ UNCHANGED <<pos, book, ids, faults, crashes>>
  BY DEF Shutdown, Close, CloseOK, CloseFails
<1>2. faults' \in 0 .. MaxFaults /\ w \in Writer
  BY <1>1 DEF GInv, Typed
<1>3. CASE w.state = "open"
  BY <1>1, <1>2, <1>3, Closes, OpenEnds, GivenUp
<1>4. CASE w.state # "open"
  <2>1. segs' = segs
    BY <1>1, <1>4 DEF CloseOK, CloseFails
  <2>2. w' \in Writer /\ w'.state = "closed" /\ w'.buf = <<>> /\ w'.step = "idle"
    BY <1>1, <1>2, ClosedType
  <2>3. QED
    BY <1>1, <1>2, <2>1, <2>2, NoLongerOpen
<1>5. QED
  BY <1>3, <1>4

LEMMA NoWriterType ==
    /\ NoWriter \in Writer /\ NoWriter.state = "none" /\ NoWriter.buf = <<>>
    /\ NoWriter.step = "idle"
<1>1. <<>> \in Seq(Records)
  OBVIOUS
<1>2. QED
  BY <1>1 DEF NoWriter, Writer, WriterStates, WriterSteps

(* No segments are the empty sequence. *)
LEMMA SomeSegments ==
    ASSUME NEW sg, NEW last, SegsOK(sg, last), sg # <<>>
    PROVE  DOMAIN sg # {}
<1>1. SUFFICES ASSUME DOMAIN sg = {} PROVE FALSE
  OBVIOUS
<1>2. sg = [n \in {} |-> sg[n]]
  BY <1>1 DEF SegsOK
<1>3. <<>> = [n \in {} |-> sg[n]]
  OBVIOUS
<1>4. QED
  BY <1>2, <1>3

(* OpenWriter on the segments that are there. *)
LEMMA NewestOpened ==
    ASSUME GInv, OpenWriterOnNewest
    PROVE  \E N \in DOMAIN segs : \E f \in File(Records) :
             /\ Newest(segs, N) /\ Replaced(segs, N, f, segs')
             /\ f.recs = segs[N].recs /\ f.synced = Len(f.recs)
             /\ f.named = (segs[N].named \/ FsyncNames)
             /\ SegsOK(segs', ids) /\ Ready(segs', w', LastPosition(segs))
             /\ LastPosition(segs) \in Nat /\ LastPosition(segs) <= ids
             /\ w'.cur = N /\ w'.buf = <<>>
<1> DEFINE N == Max(DOMAIN segs)
           f == segs[N]
           t == Truncated(f)
           g == FsyncedFile(t)
<1>1. /\ w = NoWriter /\ segs # <<>> /\ Readable(segs)
      /\ segs' = [segs EXCEPT ![N] = g]
      /\ w' = [w EXCEPT !.state = "open", !.cur = N, !.size = Len(f.recs),
                        !.last = LastPosition(segs)]
  BY DEF OpenWriterOnNewest
<1>2. SegsOK(segs, ids) /\ ids \in Nat /\ ids <= ids
  BY LogBoundsAssumption DEF GInv, Typed
<1>3. Newest(segs, N) /\ N \in DOMAIN segs
  BY <1>1, <1>2, SomeSegments, NewestExists DEF SegsOK, Newest
<1>4. FileOK(N, f, ids) /\ f.ok /\ N \in 1 .. MaxRecords
  BY <1>1, <1>2, <1>3 DEF SegsOK, Readable
<1>5. LastPosition(segs) = Max({HighestSeq(f.recs), N - 1})
  BY <1>1 DEF LastPosition
<1> HIDE DEF N
<1>6. N \in Nat \ {0}
  BY <1>4, LogBoundsAssumption
<1>7. f \in File(Records) /\ f.recs \in Seq(Records) /\ Len(f.recs) \in Nat
      /\ NumberedFrom(f.recs, N) /\ N + Len(f.recs) <= ids + 1
  BY <1>4, FileFields DEF FileOK
<1>8. t.ok /\ t.recs = f.recs /\ t.torn = "no" /\ t.synced = f.synced /\ t.named = f.named
      /\ t \in File(Records)
  BY <1>4, <1>7 DEF Truncated, File
<1> HIDE DEF t
<1>9. FileOK(N, t, ids)
  BY <1>4, <1>8 DEF FileOK
<1>10. /\ FileOK(N, g, ids) /\ g.ok /\ g.recs = t.recs /\ g.torn = t.torn
      /\ g.synced = Len(t.recs) /\ g.named = (t.named \/ FsyncNames)
  BY <1>6, <1>8, <1>9, FsyncedOK
<1> HIDE DEF g
<1>11. Replaced(segs, N, g, segs')
  BY <1>1 DEF Replaced
<1>12. SegsOK(segs', ids) /\ segs'[N] = g /\ Newest(segs', N)
  BY <1>2, <1>3, <1>10, <1>11, ReplaceNewest
<1>13. Writable(g) /\ g \in File(Records)
  BY <1>7, <1>8, <1>10 DEF Writable, FileOK
<1>14. LastPosition(segs) = N + Len(f.recs) - 1
  <2> HIDE DEF f
  <2>1. QED
    BY <1>6, <1>7, <1>5, LastPositionExact
<1>15. LastPosition(segs) \in Nat /\ LastPosition(segs) <= ids
       /\ LastPosition(segs) + 1 = N + Len(f.recs) + 0
  <2> HIDE DEF f
  <2>1. QED
    BY <1>2, <1>6, <1>7, <1>14
<1>16. /\ w'.state = "open" /\ w'.step = "idle" /\ w'.cur = N /\ w'.buf = <<>>
       /\ w'.size = Len(f.recs) /\ w' \in Writer
  <2>1. w \in Writer /\ w.buf = <<>> /\ w.step = "idle"
    BY <1>1, NoWriterType
  <2> HIDE DEF f
  <2>2. QED
    BY <1>1, <1>6, <1>7, <1>15, <2>1 DEF Writer, WriterStates
<1>17. Ready(segs', w', LastPosition(segs))
  <2>1. Len(<<>>) = 0 /\ g.recs = f.recs
    BY <1>8, <1>10
  <2>2. NumberedFrom(<<>>, N + Len(g.recs))
    BY <2>1 DEF NumberedFrom
  <2>3. w'.size = Len(g.recs) + 0
    BY <1>7, <1>16, <2>1
  <2> HIDE DEF f
  <2>4. QED
    BY <1>12, <1>13, <1>15, <1>16, <2>1, <2>2, <2>3 DEF Ready
<1>18. g.recs = segs[N].recs /\ g.synced = Len(g.recs) /\ g.named = (segs[N].named \/ FsyncNames)
  BY <1>8, <1>10
<1>19. QED
  BY <1>3, <1>11, <1>12, <1>13, <1>15, <1>16, <1>17, <1>18

(* The first segment of a log. *)
LEMMA FirstOpened ==
    ASSUME GInv, FirstSegmentOpened
    PROVE  /\ segs' = Named /\ w' = OnNewSegment /\ w.step = "sync" /\ w.first = 1
           /\ LastPosition(segs) = 0
           /\ SegsOK(segs', ids) /\ Ready(segs', w', 0)
<1>1. segs' = Named /\ w' = OnNewSegment /\ w.step = "sync" /\ w.state = "none"
  BY DEF FirstSegmentOpened
<1>2. w.first = 1 /\ Newest(segs, 1) /\ segs[1].recs = <<>>
  BY <1>1 DEF GInv, Opening
<1>3. SegsOK(segs', ids) /\ Ready(segs', w', 0)
  <2>1. w.first = 0 + 1
    BY <1>2
  <2>2. QED
    BY <1>1, <2>1, NamedSegment
<1>4. LastPosition(segs) = 0
  <2>1. DOMAIN segs \subseteq 1 .. MaxRecords /\ 1 \in DOMAIN segs
    BY <1>2 DEF GInv, SegsOK, Newest
  <2>2. Max(DOMAIN segs) = 1
    BY <1>2, <2>1, NewestExists, NewestUnique
  <2>3. segs # <<>>
    BY <2>1
  <2>4. <<>> \in Seq(Records)
    BY EmptySeq
  <2>5. PICK r \in Seq(Records), n \in Nat \ {0} : r = <<>> /\ n = 1
    <3>1. 1 \in Nat \ {0}
      OBVIOUS
    <3>2. QED
      BY <2>4, <3>1, Zenon
  <2>6. Len(r) = 0 /\ NumberedFrom(r, n)
    BY <2>5 DEF NumberedFrom
  <2>7. Max({HighestSeq(r), n - 1}) = n + Len(r) - 1
    BY <2>6, LastPositionExact
  <2>8. LastPosition(segs) = Max({HighestSeq(r), n - 1})
    BY <1>2, <2>2, <2>3, <2>5 DEF LastPosition
  <2>9. QED
    BY <2>5, <2>6, <2>7, <2>8
<1>5. QED
  BY <1>1, <1>2, <1>3, <1>4

LEMMA RestartStep ==
    ASSUME GInv, Restart
    PROVE  GInv'
<1>1. CASE (OpenWriterOnNewest \/ FirstSegmentOpened) /\ Opened
  <2>1. /\ node' = "up" /\ pos' = LastPosition(segs) /\ book' = Recover(segs)
        /\ UNCHANGED <<ids, faults, crashes>>
    BY <1>1 DEF Opened, ResumeFrom
  <2>2. ids \in Nat /\ SegsOK(segs, ids)
    BY LogBoundsAssumption DEF GInv, Typed
  <2>3. /\ SegsOK(segs', ids) /\ Ready(segs', w', LastPosition(segs))
        /\ LastPosition(segs) \in Nat /\ LastPosition(segs) <= ids
    <3>1. CASE OpenWriterOnNewest
      BY <3>1, NewestOpened
    <3>2. CASE FirstSegmentOpened
      <4>1. 0 \in Nat /\ 0 <= ids
        BY <2>2
      <4>2. QED
        BY <3>2, <4>1, FirstOpened
    <3>3. QED
      BY <1>1, <3>1, <3>2
  <2>4. book' \in Seq(Records)
    BY <2>1, <2>2, RecoverRecords
  <2>5. Typed'
    BY <2>1, <2>3, <2>4 DEF GInv, Typed, Ready
  <2>6. SegsOK(segs', ids') /\ Ready(segs', w', pos') /\ pos' <= ids'
    BY <2>1, <2>3
  <2>7. QED
    BY <2>1, <2>5, <2>6, ReadyIsInvariant
<1>2. CASE OpenWriterOnNothing /\ UNCHANGED ownerVars
  <2>1. /\ w = NoWriter /\ segs = <<>> /\ segs' = segs
        /\ w' = [w EXCEPT !.step = "create", !.first = 1]
        /\ UNCHANGED <<node, pos, book, ids, faults, crashes>>
    BY <1>2 DEF OpenWriterOnNothing, ownerVars
  <2>2. w \in Writer /\ w.state = "none" /\ w.buf = <<>>
    BY <2>1, NoWriterType
  <2>3. w' \in Writer /\ w'.state = "none" /\ w'.buf = <<>> /\ w'.step = "create" /\ w'.first = 1
    BY <2>1, <2>2 DEF Writer, WriterSteps
  <2>4. Typed' /\ Held'
    BY <2>1, <2>3 DEF GInv, Typed, Held
  <2>5. 1 \in 1 .. MaxRecords /\ 1 <= ids + 1
    BY LogBoundsAssumption DEF GInv, Typed
  <2>6. DOMAIN segs' = {}
    BY <2>1
  <2>7. Opening'
    BY <2>1, <2>3, <2>5, <2>6 DEF Opening
  <2>8. Placed'
    BY <2>1, <2>2, <2>3 DEF GInv, Placed
  <2>9. SegsOK(segs, ids)'
    BY <2>1 DEF GInv
  <2>10. QED
    BY <2>4, <2>7, <2>8, <2>9 DEF GInv
<1>3. QED
  BY <1>1, <1>2 DEF Restart

(* The truncation of a torn tail. *)
LEMMA TruncatedNewest ==
    ASSUME GInv, segs # <<>>, Readable(segs),
           segs' = [segs EXCEPT ![Max(DOMAIN segs)] = Truncated(@)]
    PROVE  /\ SegsOK(segs', ids)
           /\ \E N \in DOMAIN segs : \E f \in File(Records) :
                /\ Newest(segs, N) /\ Replaced(segs, N, f, segs')
                /\ f.recs = segs[N].recs /\ f.synced = segs[N].synced /\ f.named = segs[N].named
<1> DEFINE N == Max(DOMAIN segs)
           f == segs[N]
           t == Truncated(f)
<1>1. SegsOK(segs, ids) /\ ids \in Nat /\ ids <= ids
  BY LogBoundsAssumption DEF GInv, Typed
<1>2. Newest(segs, N) /\ N \in DOMAIN segs
  BY <1>1, SomeSegments, NewestExists DEF SegsOK, Newest
<1>3. FileOK(N, f, ids) /\ f.ok /\ f \in File(Records)
  BY <1>1, <1>2 DEF SegsOK, Readable
<1>4. Replaced(segs, N, t, segs')
  BY DEF Replaced
<1> HIDE DEF N
<1>5. t.ok /\ t.recs = f.recs /\ t.torn = "no" /\ t.synced = f.synced /\ t.named = f.named
      /\ t \in File(Records)
  BY <1>3 DEF Truncated, File
<1> HIDE DEF t
<1>6. FileOK(N, t, ids)
  BY <1>3, <1>5 DEF FileOK
<1>7. SegsOK(segs', ids)
  BY <1>1, <1>2, <1>4, <1>6, ReplaceNewest
<1>8. QED
  BY <1>2, <1>4, <1>5, <1>7

LEMMA RestartFailsStep ==
    ASSUME GInv, RestartFails
    PROVE  GInv'
<1>1. /\ node = "down" /\ faults < MaxFaults /\ faults' = faults + 1
      /\ UNCHANGED <<node, pos, book, ids, crashes>>
  BY DEF RestartFails
<1>2. faults' \in 0 .. MaxFaults /\ w.state = "none" /\ w.buf = <<>> /\ w \in Writer
  BY <1>1, LogBoundsAssumption DEF GInv, Typed, Placed, Held
<1>3. CASE OpenWriterFails
  <2>1. w = NoWriter /\ w' = w /\ w.step = "idle"
    BY <1>3, NoWriterType DEF OpenWriterFails
  <2>2. SegsOK(segs', ids)
    <3>1. CASE UNCHANGED segs
      BY <3>1 DEF GInv
    <3>2. CASE segs' = [segs EXCEPT ![Max(DOMAIN segs)] = Truncated(@)]
      BY <1>3, <3>2, TruncatedNewest DEF OpenWriterFails
    <3>3. QED
      BY <1>3, <3>1, <3>2 DEF OpenWriterFails
  <2>3. Typed' /\ Held' /\ Opening' /\ Placed'
    BY <1>1, <1>2, <2>1 DEF GInv, Typed, Held, Opening, Placed
  <2>4. SegsOK(segs, ids)'
    BY <1>1, <2>2
  <2>5. QED
    BY <2>3, <2>4 DEF GInv
<1>4. CASE OpenSegmentFails
  <2>1. w' = [w EXCEPT !.step = "idle", !.first = 0] /\ segs' = segs
    BY <1>4 DEF OpenSegmentFails
  <2>2. w' \in Writer /\ w'.state = "none" /\ w'.step = "idle" /\ w'.buf = <<>>
    BY <1>2, <2>1 DEF Writer, WriterSteps
  <2>3. QED
    BY <1>1, <1>2, <2>1, <2>2, NoLongerOpen
<1>5. QED
  BY <1>3, <1>4 DEF RestartFails

LEMMA HaltKeeps ==
    ASSUME GInv, Crash, node' = "down", ids' = ids, pos' \in Nat, book' \in Seq(Records),
           faults' \in 0 .. MaxFaults, crashes' \in 0 .. MaxCrashes
    PROVE  GInv'
<1>1. w' = NoWriter /\ SegsOK(segs', ids)
  BY CrashSegs
<1>2. w' \in Writer /\ w'.state = "none" /\ w'.buf = <<>> /\ w'.step = "idle"
  BY <1>1, NoWriterType
<1>3. Typed' /\ Held' /\ Opening' /\ Placed'
  BY <1>2 DEF GInv, Typed, Held, Opening, Placed
<1>4. SegsOK(segs, ids)'
  BY <1>1
<1>5. QED
  BY <1>3, <1>4 DEF GInv

LEMMA HaltStep ==
    ASSUME GInv, Halt
    PROVE  GInv'
<1>1. /\ crashes < MaxCrashes /\ crashes' = crashes + 1 /\ node' = "down" /\ Crash
      /\ UNCHANGED <<pos, book, ids, faults>>
  BY DEF Halt
<1>2. pos' \in Nat /\ book' \in Seq(Records) /\ faults' \in 0 .. MaxFaults
  BY <1>1 DEF GInv, Typed
<1>3. crashes' \in 0 .. MaxCrashes
  BY <1>1, LogBoundsAssumption DEF GInv, Typed
<1>4. QED
  BY <1>1, <1>2, <1>3, HaltKeeps

LEMMA NothingChanges ==
    ASSUME GInv, UNCHANGED vars
    PROVE  GInv'
<1>1. UNCHANGED <<segs, w, node, pos, book, ids, faults, crashes>>
  BY DEF vars, walVars, ownerVars
<1>2. Typed' /\ Held' /\ Opening' /\ Placed'
  BY <1>1 DEF GInv, Typed, Held, Opening, Placed
<1>3. SegsOK(segs, ids)'
  BY <1>1 DEF GInv
<1>4. QED
  BY <1>2, <1>3 DEF GInv

LEMMA InitGInv == Init => GInv
<1> SUFFICES ASSUME Init PROVE GInv
  OBVIOUS
<1>1. /\ segs = <<>> /\ w = NoWriter /\ node = "down" /\ pos = 0 /\ book = <<>>
      /\ ids = 0 /\ faults = 0 /\ crashes = 0
  BY DEF Init
<1>2. w \in Writer /\ w.state = "none" /\ w.buf = <<>> /\ w.step = "idle"
  BY <1>1, NoWriterType
<1>3. Typed
  BY <1>1, <1>2, LogBoundsAssumption DEF Typed
<1>4. Held /\ Opening /\ Placed
  BY <1>1, <1>2 DEF Held, Opening, Placed
<1>5. SegsOK(segs, ids)
  BY <1>1 DEF SegsOK
<1>6. QED
  BY <1>3, <1>4, <1>5 DEF GInv

LEMMA NextGInv == GInv /\ [Next]_vars => GInv'
<1> SUFFICES ASSUME GInv, [Next]_vars PROVE GInv'
  OBVIOUS
<1>1. CASE AppendRecord
  BY <1>1, AppendRecordStep
<1>2. CASE RotateStep
  <2>1. CASE node = "up" /\ ids < MaxRecords /\ Rotate(NextRecord) /\ UNCHANGED ownerVars
    <3>1. pos \in Nat /\ ids \in Nat /\ pos <= ids
      BY <2>1, UpIsReady, LogBoundsAssumption DEF Rotate, CloseOK, GInv, Typed
    <3>2. NextRecord \in Records /\ NextRecord.seq = pos + 1
      BY <2>1, <3>1, NextRecordType
    <3>3. QED
      BY <2>1, <3>2, RotateKeeps
  <2>2. CASE OpenSegmentStep /\ UNCHANGED ownerVars
    BY <2>2, CreateFileKeeps, WriteHeaderKeeps DEF OpenSegmentStep
  <2>3. QED
    BY <1>2, <2>1, <2>2 DEF RotateStep
<1>3. CASE Commit
  BY <1>3, CommitStep
<1>4. CASE CommitFails
  BY <1>4, CommitFailsStep
<1>5. CASE Shutdown
  BY <1>5, ShutdownStep
<1>6. CASE Restart
  BY <1>6, RestartStep
<1>7. CASE RestartFails
  BY <1>7, RestartFailsStep
<1>8. CASE RestartRefused
  BY <1>8, NothingChanges DEF RestartRefused
<1>9. CASE Halt
  BY <1>9, HaltStep
<1>10. CASE Finished
  BY <1>10, NothingChanges DEF Finished
<1>11. CASE UNCHANGED vars
  BY <1>11, NothingChanges
<1>12. QED
  BY <1>1, <1>2, <1>3, <1>4, <1>5, <1>6, <1>7, <1>8, <1>9, <1>10, <1>11 DEF Next

LEMMA GInvTypeOK == GInv => TypeOK
<1> SUFFICES ASSUME GInv PROVE TypeOK
  OBVIOUS
<1>1. DOMAIN segs \subseteq 1 .. MaxRecords
  BY DEF GInv, SegsOK
<1>2. \A n \in DOMAIN segs :
        /\ segs[n].ok \in BOOLEAN /\ segs[n].named \in BOOLEAN
        /\ segs[n].torn \in {"no", "mine", "left"}
        /\ segs[n].recs \in Seq(Records) /\ segs[n].synced \in -1 .. Len(segs[n].recs)
  <2>1. SUFFICES ASSUME NEW n \in DOMAIN segs
                 PROVE  /\ segs[n].ok \in BOOLEAN /\ segs[n].named \in BOOLEAN
                        /\ segs[n].torn \in {"no", "mine", "left"}
                        /\ segs[n].recs \in Seq(Records)
                        /\ segs[n].synced \in -1 .. Len(segs[n].recs)
    OBVIOUS
  <2>2. segs[n] \in File(Records) /\ segs[n].synced <= Len(segs[n].recs)
    BY DEF GInv, SegsOK, FileOK
  <2>3. segs[n].synced \in Nat \cup {-1} /\ Len(segs[n].recs) \in Nat
    BY <2>2, FileFields
  <2>4. segs[n].synced \in -1 .. Len(segs[n].recs)
    BY <2>2, <2>3
  <2>5. QED
    BY <2>2, <2>4, FileFields
<1>3. /\ w.state \in WriterStates /\ w.step \in WriterSteps
      /\ w.buf \in Seq(Records) /\ w.size \in Nat /\ w.last \in Nat /\ w.first \in Nat
  BY WriterFields DEF GInv, Typed
<1>4. w.state \in {"open", "latched"} => w.cur \in DOMAIN segs
  BY DEF GInv, Held, Newest
<1>5. QED
  BY <1>1, <1>2, <1>3, <1>4 DEF GInv, Typed, TypeOK

(* Every variable of the log keeps its type, on any file system: TypeOK is an
   invariant of Spec, whatever the records, the segment size, the faults and
   the crashes. *)
THEOREM TypeCorrect == Spec => []TypeOK
<1>1. Spec => []GInv
  BY InitGInv, NextGInv, PTL DEF Spec
<1>2. QED
  BY <1>1, GInvTypeOK, PTL

(* A segment that cannot be read is the newest and has no records, so a log that
   refuses to open (ErrCorruptWAL) for a segment without a header has lost
   nothing the book was given: openSegment creates a segment only when all
   others have their header on the disk, and nothing is written behind a torn
   record, because OpenWriter truncates it first. *)
THEOREM RefusedLosesNothing == Spec => []UnreadableIsEmpty
<1>1. Spec => []GInv
  BY InitGInv, NextGInv, PTL DEF Spec
<1>2. GInv => UnreadableIsEmpty
  <2>1. SUFFICES ASSUME GInv, NEW n \in DOMAIN segs, ~segs[n].ok
                 PROVE  n = Max(DOMAIN segs) /\ segs[n].recs = <<>>
    BY DEF UnreadableIsEmpty
  <2>2. Newest(segs, n) /\ segs[n].recs = <<>> /\ DOMAIN segs \subseteq 1 .. MaxRecords
    BY <2>1 DEF GInv, SegsOK, FileOK
  <2>3. Newest(segs, Max(DOMAIN segs))
    BY <2>2, NewestExists
  <2>4. QED
    BY <2>2, <2>3, NewestUnique
<1>3. QED
  BY <1>1, <1>2, PTL

-----------------------------------------------------------------------------
(* Prefixes.                                                               *)

LEMMA PrefixElements ==
    ASSUME NEW s \in Seq(Records), NEW t \in Seq(Records)
    PROVE  IsPrefix(s, t) <=> Len(s) <= Len(t) /\ \A k \in 1 .. Len(s) : s[k] = t[k]
<1>1. Len(s) \in Nat /\ Len(t) \in Nat /\ SubSeq(s, 1, Len(s)) = s
  BY SubSeqFull
<1>2. SUFFICES ASSUME Len(s) <= Len(t)
               PROVE  s = SubSeq(t, 1, Len(s)) <=> \A k \in 1 .. Len(s) : s[k] = t[k]
  BY <1>1 DEF IsPrefix
<1>3. Len(s) \in 0 .. Len(t)
  BY <1>1, <1>2
<1>4. SubSeq(t, 1, Len(s)) \in Seq(Records) /\ Len(SubSeq(t, 1, Len(s))) = Len(s)
      /\ \A k \in 1 .. Len(s) : SubSeq(t, 1, Len(s))[k] = t[k]
  BY <1>3, Cut
<1>5. ASSUME s = SubSeq(t, 1, Len(s)) PROVE \A k \in 1 .. Len(s) : s[k] = t[k]
  BY <1>4, <1>5
<1>6. ASSUME \A k \in 1 .. Len(s) : s[k] = t[k] PROVE s = SubSeq(t, 1, Len(s))
  BY <1>4, <1>6, SeqEqual
<1>7. QED
  BY <1>5, <1>6

LEMMA NothingIsPrefix ==
    ASSUME NEW t \in Seq(Records)
    PROVE  <<>> \in Seq(Records) /\ Len(<<>>) = 0 /\ IsPrefix(<<>>, t)
<1> DEFINE s == <<>>
<1>1. s \in Seq(Records) /\ Len(s) = 0 /\ Len(t) \in Nat
  OBVIOUS
<1> HIDE DEF s
<1>2. Len(s) <= Len(t) /\ \A k \in 1 .. Len(s) : s[k] = t[k]
  BY <1>1
<1>3. IsPrefix(s, t)
  BY <1>1, <1>2, PrefixElements
<1>4. QED
  BY <1>1, <1>3 DEF s

LEMMA PrefixTransitive ==
    ASSUME NEW s \in Seq(Records), NEW t \in Seq(Records), NEW u \in Seq(Records),
           IsPrefix(s, t), IsPrefix(t, u)
    PROVE  IsPrefix(s, u)
<1>1. Len(s) \in Nat /\ Len(t) \in Nat /\ Len(u) \in Nat
  OBVIOUS
<1>2. /\ Len(s) <= Len(t) /\ Len(t) <= Len(u)
      /\ \A k \in 1 .. Len(s) : s[k] = t[k]
      /\ \A k \in 1 .. Len(t) : t[k] = u[k]
  BY PrefixElements
<1>3. Len(s) <= Len(u) /\ \A k \in 1 .. Len(s) : k \in 1 .. Len(t)
  BY <1>1, <1>2
<1>4. QED
  BY <1>2, <1>3, PrefixElements

LEMMA PrefixOfConcat ==
    ASSUME NEW s \in Seq(Records), NEW t \in Seq(Records)
    PROVE  IsPrefix(s, s \o t)
<1>1. s \o t \in Seq(Records) /\ Len(s \o t) = Len(s) + Len(t)
      /\ \A i \in 1 .. Len(s) + Len(t) :
           (s \o t)[i] = IF i <= Len(s) THEN s[i] ELSE t[i - Len(s)]
  BY ConcatProperties
<1>2. Len(s) <= Len(s) + Len(t)
      /\ \A k \in 1 .. Len(s) : k \in 1 .. Len(s) + Len(t) /\ k <= Len(s)
  OBVIOUS
<1>3. \A k \in 1 .. Len(s) : s[k] = (s \o t)[k]
  BY <1>1, <1>2
<1>4. QED
  BY <1>1, <1>2, <1>3, PrefixElements

LEMMA PrefixCut ==
    ASSUME NEW s \in Seq(Records), NEW n \in 0 .. Len(s)
    PROVE  IsPrefix(SubSeq(s, 1, n), s)
<1>1. SubSeq(s, 1, n) \in Seq(Records) /\ Len(SubSeq(s, 1, n)) = n
      /\ \A k \in 1 .. n : SubSeq(s, 1, n)[k] = s[k]
  BY Cut
<1>2. n <= Len(s)
  OBVIOUS
<1>3. QED
  BY <1>1, <1>2, PrefixElements

(* A sequence is its prefix of that length. *)
LEMMA PrefixIsCut ==
    ASSUME NEW s \in Seq(Records), NEW t \in Seq(Records), IsPrefix(s, t)
    PROVE  Len(s) <= Len(t) /\ s = SubSeq(t, 1, Len(s))
<1>1. SubSeq(s, 1, Len(s)) = s
  BY SubSeqFull
<1>2. QED
  BY <1>1 DEF IsPrefix

LEMMA ConcatPrefix ==
    ASSUME NEW b \in Seq(Records), NEW s \in Seq(Records), NEW t \in Seq(Records),
           IsPrefix(s, t)
    PROVE  IsPrefix(b \o s, b \o t)
<1>1. Len(s) <= Len(t) /\ \A k \in 1 .. Len(s) : s[k] = t[k]
  BY PrefixElements
<1>2. b \o s \in Seq(Records) /\ Len(b \o s) = Len(b) + Len(s)
      /\ \A i \in 1 .. Len(b) + Len(s) :
           (b \o s)[i] = IF i <= Len(b) THEN b[i] ELSE s[i - Len(b)]
  BY ConcatProperties
<1>3. b \o t \in Seq(Records) /\ Len(b \o t) = Len(b) + Len(t)
      /\ \A i \in 1 .. Len(b) + Len(t) :
           (b \o t)[i] = IF i <= Len(b) THEN b[i] ELSE t[i - Len(b)]
  BY ConcatProperties
<1>4. Len(b) \in Nat /\ Len(s) \in Nat /\ Len(t) \in Nat
  OBVIOUS
<1>5. ASSUME NEW k \in 1 .. Len(b) + Len(s) PROVE (b \o s)[k] = (b \o t)[k]
  <2>1. k \in 1 .. Len(b) + Len(t)
    BY <1>1, <1>4
  <2>2. CASE k <= Len(b)
    BY <1>2, <1>3, <2>1, <2>2
  <2>3. CASE ~(k <= Len(b))
    <3>1. k - Len(b) \in 1 .. Len(s)
      BY <1>4, <2>3
    <3>2. QED
      BY <1>1, <1>2, <1>3, <2>1, <2>3, <3>1
  <2>4. QED
    BY <2>2, <2>3
<1>6. Len(b) + Len(s) <= Len(b) + Len(t)
  BY <1>1, <1>4
<1>7. QED
  BY <1>2, <1>3, <1>5, <1>6, PrefixElements

(* The first records of s are those of s \o t. *)
LEMMA CutOfConcat ==
    ASSUME NEW s \in Seq(Records), NEW t \in Seq(Records), NEW n \in 0 .. Len(s)
    PROVE  SubSeq(s \o t, 1, n) = SubSeq(s, 1, n)
<1>1. s \o t \in Seq(Records) /\ Len(s \o t) = Len(s) + Len(t)
      /\ \A i \in 1 .. Len(s) + Len(t) :
           (s \o t)[i] = IF i <= Len(s) THEN s[i] ELSE t[i - Len(s)]
  BY ConcatProperties
<1>2. Len(s) \in Nat /\ Len(t) \in Nat
  OBVIOUS
<1>3. n \in 0 .. Len(s \o t)
  BY <1>1, <1>2
<1>4. SubSeq(s, 1, n) \in Seq(Records) /\ Len(SubSeq(s, 1, n)) = n
      /\ \A k \in 1 .. n : SubSeq(s, 1, n)[k] = s[k]
  BY Cut
<1>5. SubSeq(s \o t, 1, n) \in Seq(Records) /\ Len(SubSeq(s \o t, 1, n)) = n
      /\ \A k \in 1 .. n : SubSeq(s \o t, 1, n)[k] = (s \o t)[k]
  BY <1>1, <1>3, Cut
<1>6. \A k \in 1 .. n : k <= Len(s) /\ k \in 1 .. Len(s) + Len(t)
  BY <1>2
<1>7. \A k \in 1 .. n : SubSeq(s \o t, 1, n)[k] = SubSeq(s, 1, n)[k]
  BY <1>1, <1>4, <1>5, <1>6
<1>8. QED
  BY <1>4, <1>5, <1>7, SeqEqual

LEMMA NumberedPrefix ==
    ASSUME NEW s \in Seq(Records), NEW t \in Seq(Records), NEW n, NumberedFrom(s \o t, n)
    PROVE  NumberedFrom(s, n)
<1>1. Len(s \o t) = Len(s) + Len(t)
      /\ \A i \in 1 .. Len(s) + Len(t) :
           (s \o t)[i] = IF i <= Len(s) THEN s[i] ELSE t[i - Len(s)]
  BY ConcatProperties
<1>2. \A k \in 1 .. Len(s) : k \in 1 .. Len(s) + Len(t) /\ k <= Len(s)
  OBVIOUS
<1>3. QED
  BY <1>1, <1>2 DEF NumberedFrom

-----------------------------------------------------------------------------
(* The log as a whole.                                                     *)

(* What is in the older segments, and that it and the newest are the log. *)
LEMMA View ==
    ASSUME NEW sg, NEW last, SegsOK(sg, last), LaidOut(sg), NEW N, Newest(sg, N)
    PROVE  /\ N \in Nat \ {0} /\ N \in DOMAIN sg /\ sg[N] \in File(Records)
           /\ Recover(Below(sg, N)) \in Seq(Records)
           /\ Len(Recover(Below(sg, N))) = N - 1
           /\ Recover(sg) = Recover(Below(sg, N)) \o sg[N].recs
           /\ Durable(sg) = Recover(Below(sg, N)) \o Kept(sg[N])
           /\ NumberedFrom(Recover(Below(sg, N)), 1)
<1>1. N \in DOMAIN sg /\ DOMAIN sg \subseteq 1 .. MaxRecords /\ MaxRecords \in Nat
      /\ \A n \in DOMAIN sg : sg[n] \in File(Records)
  BY LogBoundsAssumption DEF SegsOK, Newest
<1>2. N \in Nat \ {0} /\ DOMAIN sg \subseteq 1 .. N
  <2>1. \A m \in DOMAIN sg : m \in Nat \ {0} /\ m <= N
    BY <1>1 DEF Newest
  <2>2. QED
    BY <1>1, <2>1
<1>3. Recover(Below(sg, N)) \in Seq(Records)
  BY <1>1, BelowType
<1>4. Len(Recover(Below(sg, N))) = N - 1
  BY <1>1 DEF LaidOut, Exact
<1>5. Recover(sg) = Recover(Below(sg, N)) \o sg[N].recs
  BY <1>1, <1>2, RecoverNewest
<1>6. \A n \in DOMAIN sg : n # N => sg[n].named /\ sg[n].synced = Len(sg[n].recs)
  <2>1. SUFFICES ASSUME NEW n \in DOMAIN sg, n # N
                 PROVE  sg[n].named /\ sg[n].synced = Len(sg[n].recs)
    OBVIOUS
  <2>2. ~Newest(sg, n)
    BY <1>1, <2>1, NewestUnique
  <2>3. QED
    BY <2>2 DEF LaidOut, Settled, OnDisk
<1>7. Durable(sg) = Recover(Below(sg, N)) \o Kept(sg[N])
  BY <1>1, <1>2, <1>6, DurableNewest
<1>8. NumberedFrom(Recover(Below(sg, N)), 1)
  <2>1. sg[N].recs \in Seq(Records)
    BY <1>1, FileFields
  <2>2. NumberedFrom(Recover(Below(sg, N)) \o sg[N].recs, 1)
    BY <1>5 DEF LaidOut, Dense
  <2>3. QED
    BY <1>3, <2>1, <2>2, NumberedPrefix
<1>9. QED
  BY <1>1, <1>2, <1>3, <1>4, <1>5, <1>7, <1>8

(* A segment's records and those before it are numbered through. *)
LEMMA NumberedThrough ==
    ASSUME NEW b \in Seq(Records), NEW s \in Seq(Records), NEW N \in Nat, Len(b) = N - 1,
           NumberedFrom(b, 1), NumberedFrom(s, N)
    PROVE  NumberedFrom(b \o s, 1)
<1>1. 1 + Len(b) = N
  OBVIOUS
<1>2. NumberedFrom(s, 1 + Len(b))
  BY <1>1
<1>3. QED
  BY <1>2, NumberedConcat

(* What a crash must leave of a file is a part of it. *)
LEMMA KeptPart ==
    ASSUME NEW n, NEW f, NEW last, FileOK(n, f, last)
    PROVE  Kept(f) \in Seq(Records) /\ IsPrefix(Kept(f), f.recs)
<1>1. f.recs \in Seq(Records) /\ f.synced \in Nat \cup {-1} /\ f.synced <= Len(f.recs)
      /\ Len(f.recs) \in Nat
  BY FileFields DEF FileOK
<1>2. <<>> \in Seq(Records) /\ IsPrefix(<<>>, f.recs)
  BY <1>1, NothingIsPrefix
<1>3. CASE f.named /\ f.synced \in Nat
  <2>1. f.synced \in 0 .. Len(f.recs)
    BY <1>1, <1>3
  <2>2. QED
    BY <1>1, <1>3, <2>1, Cut, PrefixCut DEF Kept
<1>4. CASE f.named /\ f.synced \notin Nat
  <2>1. f.synced < 1 /\ f.synced \in Int
    BY <1>1, <1>4
  <2>2. SubSeq(f.recs, 1, f.synced) = <<>>
    BY <2>1, SubSeqEmpty
  <2>3. QED
    BY <1>2, <1>4, <2>2 DEF Kept
<1>5. CASE ~f.named
  BY <1>2, <1>5 DEF Kept
<1>6. QED
  BY <1>3, <1>4, <1>5

(* What survives is the beginning of what is in the files. *)
LEMMA DurableIsPrefix ==
    ASSUME NEW sg, NEW last, SegsOK(sg, last), LaidOut(sg)
    PROVE  /\ Recover(sg) \in Seq(Records) /\ Durable(sg) \in Seq(Records)
           /\ IsPrefix(Durable(sg), Recover(sg))
<1>1. CASE DOMAIN sg = {}
  <2>1. Recover(sg) = <<>>
    BY <1>1, RecoverOfNone
  <2>2. Durable(sg) = Recover(sg)
    <3>1. \A n \in DOMAIN sg : sg[n] \in File(Records)
      BY <1>1
    <3>2. \A n \in DOMAIN sg : sg[n].named /\ sg[n].synced = Len(sg[n].recs)
      BY <1>1
    <3>3. QED
      BY <3>1, <3>2, DurableSettled
  <2>3. <<>> \in Seq(Records)
    OBVIOUS
  <2>4. IsPrefix(<<>>, <<>>)
    BY <2>3, NothingIsPrefix
  <2>5. QED
    BY <2>1, <2>2, <2>3, <2>4
<1>2. CASE DOMAIN sg # {}
  <2> DEFINE N == Max(DOMAIN sg)
             B == Recover(Below(sg, N))
  <2>1. Newest(sg, N)
    BY <1>2, NewestExists DEF SegsOK
  <2>2. FileOK(N, sg[N], last)
    BY <2>1 DEF SegsOK, Newest
  <2> HIDE DEF N
  <2>3. /\ B \in Seq(Records) /\ Recover(sg) = B \o sg[N].recs /\ Durable(sg) = B \o Kept(sg[N])
        /\ sg[N] \in File(Records)
    BY <2>1, View
  <2>4. sg[N].recs \in Seq(Records) /\ Kept(sg[N]) \in Seq(Records)
        /\ IsPrefix(Kept(sg[N]), sg[N].recs)
    BY <2>2, <2>3, FileFields, KeptPart
  <2> HIDE DEF B
  <2>5. B \o sg[N].recs \in Seq(Records) /\ B \o Kept(sg[N]) \in Seq(Records)
    BY <2>3, <2>4, ConcatProperties
  <2>6. IsPrefix(B \o Kept(sg[N]), B \o sg[N].recs)
    BY <2>3, <2>4, ConcatPrefix
  <2>7. QED
    BY <2>3, <2>5, <2>6
<1>3. QED
  BY <1>1, <1>2

(* A change of the newest segment changes the end of the log, and nothing else. *)
LEMMA ChangeLaidOut ==
    ASSUME NEW sg, NEW last, SegsOK(sg, last), LaidOut(sg), NEW N, Newest(sg, N),
           NEW sh, NEW more, SegsOK(sh, more), DOMAIN sh = DOMAIN sg,
           \A n \in DOMAIN sg : n # N => OnDisk(sh[n]) /\ sh[n].recs = sg[n].recs
    PROVE  /\ LaidOut(sh)
           /\ Recover(sh) = Recover(Below(sg, N)) \o sh[N].recs
           /\ Durable(sh) = Recover(Below(sg, N)) \o Kept(sh[N])
<1> DEFINE B == Recover(Below(sg, N))
           f == sh[N]
<1>1. /\ N \in Nat \ {0} /\ N \in DOMAIN sg /\ B \in Seq(Records) /\ Len(B) = N - 1
      /\ NumberedFrom(B, 1)
  BY View
<1>2. Newest(sh, N) /\ DOMAIN sg \subseteq 1 .. MaxRecords /\ MaxRecords \in Nat
  BY LogBoundsAssumption DEF Newest, SegsOK
<1>3. ASSUME NEW n \in DOMAIN sg PROVE Recover(Below(sh, n)) = Recover(Below(sg, n))
  <2>1. n <= N /\ n \in Nat
    BY <1>2 DEF Newest
  <2>2. \A m \in DOMAIN sg : m < n => m # N
    BY <1>1, <1>2, <2>1
  <2>3. \A m : m < n => (m \in DOMAIN sh <=> m \in DOMAIN sg)
    OBVIOUS
  <2>4. \A m \in DOMAIN sh : m < n => sh[m].recs = sg[m].recs
    BY <2>2
  <2>5. QED
    BY <2>3, <2>4, BelowSame
<1>4. Exact(sh)
  BY <1>3 DEF LaidOut, Exact
<1>5. f \in File(Records) /\ NumberedFrom(f.recs, N) /\ f.recs \in Seq(Records)
  BY <1>1, FileFields DEF SegsOK, FileOK
<1>6. Recover(sh) = B \o f.recs
  <2>1. DOMAIN sh \subseteq 1 .. N
    <3>1. \A m \in DOMAIN sh : m \in Nat \ {0} /\ m <= N
      BY <1>2 DEF Newest
    <3>2. QED
      BY <1>1, <3>1
  <2>2. Recover(sh) = Recover(Below(sh, N)) \o sh[N].recs
    BY <1>1, <2>1, RecoverNewest
  <2>3. QED
    BY <1>1, <1>3, <2>2
<1> HIDE DEF B
<1>7. Dense(sh)
  <2>1. NumberedFrom(B \o f.recs, 1)
    BY <1>1, <1>5, NumberedThrough
  <2>2. QED
    BY <1>6, <2>1 DEF Dense
<1>8. Settled(sh)
  <2>1. SUFFICES ASSUME NEW n \in DOMAIN sg, ~Newest(sh, n) PROVE OnDisk(sh[n])
    BY DEF Settled
  <2>2. n # N
    BY <1>2, <2>1
  <2>3. QED
    BY <2>2
<1>9. LaidOut(sh)
  BY <1>4, <1>7, <1>8 DEF LaidOut
<1>10. Durable(sh) = Recover(Below(sh, N)) \o Kept(sh[N])
  BY <1>2, <1>9, View
<1>11. QED
  BY <1>1, <1>3, <1>6, <1>9, <1>10 DEF B

LEMMA ReplaceLaidOut ==
    ASSUME NEW sg, NEW last, SegsOK(sg, last), LaidOut(sg), NEW N, Newest(sg, N),
           NEW f, NEW sh, Replaced(sg, N, f, sh), NEW more, SegsOK(sh, more)
    PROVE  /\ LaidOut(sh) /\ sh[N] = f
           /\ Recover(sh) = Recover(Below(sg, N)) \o sh[N].recs
           /\ Durable(sh) = Recover(Below(sg, N)) \o Kept(sh[N])
<1>1. N \in DOMAIN sg
  BY DEF Newest
<1>2. DOMAIN sh = DOMAIN sg /\ sh[N] = f /\ \A n \in DOMAIN sg : n # N => sh[n] = sg[n]
  BY <1>1 DEF Replaced, SegsOK
<1>3. \A n \in DOMAIN sg : n # N => ~Newest(sg, n)
  BY NewestUnique DEF SegsOK
<1>4. \A n \in DOMAIN sg : n # N => OnDisk(sh[n]) /\ sh[n].recs = sg[n].recs
  BY <1>2, <1>3 DEF LaidOut, Settled
<1>5. QED
  BY <1>2, <1>4, ChangeLaidOut

(* Nothing can be lost of a file without records. *)
LEMMA KeptOfNothing ==
    ASSUME NEW n, NEW f, NEW last, FileOK(n, f, last), f.recs = <<>>
    PROVE  Kept(f) = <<>>
<1>1. Kept(f) \in Seq(Records) /\ IsPrefix(Kept(f), f.recs)
  BY KeptPart
<1>2. Len(Kept(f)) \in Nat /\ Len(Kept(f)) <= Len(f.recs) /\ Len(f.recs) = 0
  BY <1>1, EmptySeq DEF IsPrefix
<1>3. Len(Kept(f)) = 0
  BY <1>2
<1>4. QED
  BY <1>1, <1>3, EmptySeq

(* Nothing can be lost of segments that are all on the disk. *)
LEMMA DurableAll ==
    ASSUME NEW sg, NEW last, SegsOK(sg, last), \A n \in DOMAIN sg : OnDisk(sg[n])
    PROVE  Durable(sg) = Recover(sg)
<1>1. \A n \in DOMAIN sg : sg[n] \in File(Records)
  BY DEF SegsOK
<1>2. \A n \in DOMAIN sg : sg[n].named /\ sg[n].synced = Len(sg[n].recs)
  BY DEF OnDisk
<1>3. QED
  BY <1>1, <1>2, DurableSettled

(* A new, empty segment behind segments that are on the disk. *)
LEMMA CreateLaidOut ==
    ASSUME NEW sg, NEW last, SegsOK(sg, last), LaidOut(sg),
           \A n \in DOMAIN sg : OnDisk(sg[n]),
           NEW N \in Nat \ {0}, Len(Recover(sg)) = N - 1,
           NEW sh, NEW more, SegsOK(sh, more), DOMAIN sh = DOMAIN sg \cup {N},
           \A m \in DOMAIN sg : m < N /\ sh[m] = sg[m], sh[N].recs = <<>>
    PROVE  LaidOut(sh) /\ Recover(sh) = Recover(sg) /\ Durable(sh) = Durable(sg)
<1> DEFINE R == Recover(sg)
<1>1. DOMAIN sh \subseteq 1 .. N /\ Newest(sh, N) /\ \A m \in DOMAIN sg : m \in Nat
  <2>1. \A m \in DOMAIN sg : m \in Nat \ {0}
    BY LogBoundsAssumption DEF SegsOK
  <2>2. \A m \in DOMAIN sh : m \in Nat \ {0} /\ m <= N
    BY <2>1
  <2>3. QED
    BY <2>1, <2>2 DEF Newest
<1>2. R \in Seq(Records) /\ Durable(sg) = R
  BY RecoverRecords, DurableAll
<1>3. Recover(Below(sh, N)) = R
  <2>1. DOMAIN Below(sh, N) = DOMAIN sg
    <3>1. \A m \in DOMAIN sh : m < N <=> m \in DOMAIN sg
      OBVIOUS
    <3>2. QED
      BY <3>1 DEF Below
  <2>2. \A n \in DOMAIN Below(sh, N) : Below(sh, N)[n].recs = sg[n].recs
    BY <2>1 DEF Below
  <2>3. QED
    BY <2>1, <2>2, RecoverSame
<1>4. Recover(sh) = R
  <2>1. Recover(sh) = Recover(Below(sh, N)) \o sh[N].recs
    BY <1>1, RecoverNewest
  <2>2. QED
    BY <1>2, <1>3, <2>1, ConcatEmptySeq
<1>5. ASSUME NEW n \in DOMAIN sg PROVE Recover(Below(sh, n)) = Recover(Below(sg, n))
  <2>1. n < N /\ n \in Nat /\ ~(N < n)
    BY <1>1
  <2>2. \A m : m < n => (m \in DOMAIN sh <=> m \in DOMAIN sg)
    BY <2>1
  <2>3. \A m \in DOMAIN sh : m < n => sh[m].recs = sg[m].recs
    BY <2>1
  <2>4. QED
    BY <2>2, <2>3, BelowSame
<1>6. Exact(sh)
  BY <1>3, <1>5 DEF LaidOut, Exact
<1>7. Dense(sh)
  BY <1>4 DEF LaidOut, Dense
<1>8. Settled(sh)
  BY <1>1 DEF Settled
<1>9. LaidOut(sh)
  BY <1>6, <1>7, <1>8 DEF LaidOut
<1>10. Durable(sh) = Recover(Below(sh, N)) \o Kept(sh[N])
  BY <1>1, <1>9, View
<1>11. Kept(sh[N]) = <<>>
  <2>1. FileOK(N, sh[N], more)
    BY DEF SegsOK
  <2>2. QED
    BY <2>1, KeptOfNothing
<1>12. QED
  BY <1>2, <1>3, <1>4, <1>9, <1>10, <1>11, ConcatEmptySeq

(* A part of a part. *)
LEMMA CutOfCut ==
    ASSUME NEW s \in Seq(Records), NEW n \in 0 .. Len(s), NEW m \in 0 .. n
    PROVE  SubSeq(SubSeq(s, 1, n), 1, m) = SubSeq(s, 1, m)
<1> DEFINE t == SubSeq(s, 1, n)
<1>1. t \in Seq(Records) /\ Len(t) = n /\ \A k \in 1 .. n : t[k] = s[k]
  BY Cut
<1>2. m \in 0 .. Len(s) /\ m \in 0 .. Len(t) /\ \A k \in 1 .. m : k \in 1 .. n
  BY <1>1
<1> HIDE DEF t
<1>3. SubSeq(t, 1, m) \in Seq(Records) /\ Len(SubSeq(t, 1, m)) = m
      /\ \A k \in 1 .. m : SubSeq(t, 1, m)[k] = t[k]
  BY <1>1, <1>2, Cut
<1>4. SubSeq(s, 1, m) \in Seq(Records) /\ Len(SubSeq(s, 1, m)) = m
      /\ \A k \in 1 .. m : SubSeq(s, 1, m)[k] = s[k]
  BY <1>2, Cut
<1>5. \A k \in 1 .. m : SubSeq(t, 1, m)[k] = SubSeq(s, 1, m)[k]
  BY <1>1, <1>2, <1>3, <1>4
<1>6. SubSeq(t, 1, m) = SubSeq(s, 1, m)
  BY <1>3, <1>4, <1>5, SeqEqual
<1>7. QED
  BY <1>6 DEF t

(* Something and a part of what follows it. *)
LEMMA ConcatCut ==
    ASSUME NEW b \in Seq(Records), NEW s \in Seq(Records), NEW n \in 0 .. Len(s)
    PROVE  b \o SubSeq(s, 1, n) = SubSeq(b \o s, 1, Len(b) + n)
<1> DEFINE c == SubSeq(s, 1, n)
           e == Len(b) + n
<1>1. c \in Seq(Records) /\ Len(c) = n /\ IsPrefix(c, s)
  BY Cut, PrefixCut
<1> HIDE DEF c
<1>2. b \o c \in Seq(Records) /\ b \o s \in Seq(Records) /\ Len(b \o c) = e
  BY <1>1, ConcatProperties
<1>3. IsPrefix(b \o c, b \o s)
  BY <1>1, ConcatPrefix
<1> HIDE DEF e
<1>4. b \o c = SubSeq(b \o s, 1, e)
  BY <1>2, <1>3, PrefixIsCut
<1>5. QED
  BY <1>4 DEF c, e

-----------------------------------------------------------------------------
(* What each step does to the log as a whole.                              *)

(* Of a file that a crash leaves, what must survive is what had to before. *)
LEMMA ImageKept ==
    ASSUME NEW n \in Nat, NEW f, NEW last \in Nat, FileOK(n, f, last), NEW g \in Images(f)
    PROVE  /\ Kept(g) = Kept(f) /\ FileOK(n, g, last)
           /\ \E k \in 0 .. Len(f.recs) :
                g.recs = SubSeq(f.recs, 1, k) /\ Len(Kept(f)) <= k /\ Len(Kept(f)) \in Nat
<1>1. /\ FileOK(n, g, last) /\ g.named = f.named
      /\ f.synced \in Nat => g.synced = f.synced
  BY ImageOK
<1>2. PICK k \in 0 .. Len(f.recs) :
        g.recs = SubSeq(f.recs, 1, k) /\ (f.synced \in Nat => f.synced <= k)
  BY ImageOK
<1>3. f.recs \in Seq(Records) /\ Len(f.recs) \in Nat
  BY FileFields DEF FileOK
<1>4. g.recs \in Seq(Records) /\ Len(g.recs) = k
  BY <1>2, <1>3, Cut
<1>5. Kept(g) = Kept(f)
  <2>1. CASE ~f.named
    BY <1>1, <2>1 DEF Kept
  <2>2. CASE f.named /\ f.synced \in Nat
    <3>1. f.synced \in 0 .. k
      BY <1>2, <2>2
    <3>2. SubSeq(g.recs, 1, f.synced) = SubSeq(f.recs, 1, f.synced)
      BY <1>2, <1>3, <3>1, CutOfCut
    <3>3. QED
      BY <1>1, <2>2, <3>2 DEF Kept
  <2>3. CASE f.synced \notin Nat
    <3>1. f.recs = <<>>
      BY <2>3 DEF FileOK
    <3>2. k = 0
      BY <1>2, <3>1, EmptySeq
    <3>3. g.recs = <<>>
      BY <1>4, <3>2, EmptySeq
    <3>4. QED
      BY <1>1, <3>1, <3>3, KeptOfNothing
  <2>4. QED
    BY <2>1, <2>2, <2>3
<1>6. Kept(g) \in Seq(Records) /\ IsPrefix(Kept(g), g.recs)
  BY <1>1, KeptPart
<1>7. Len(Kept(g)) \in Nat /\ Len(Kept(g)) <= Len(g.recs)
  BY <1>6 DEF IsPrefix
<1>8. QED
  BY <1>1, <1>2, <1>4, <1>5, <1>7

(* An older segment is left as it was. *)
LEMMA ImageOfSettled ==
    ASSUME NEW n \in Nat, NEW f, NEW last \in Nat, FileOK(n, f, last), NEW g \in Images(f),
           OnDisk(f)
    PROVE  OnDisk(g) /\ g.recs = f.recs
<1>1. f.recs \in Seq(Records) /\ Len(f.recs) \in Nat /\ f.synced = Len(f.recs) /\ f.named
  BY FileFields DEF FileOK, OnDisk
<1>2. g.named /\ g.synced = f.synced
  BY <1>1, ImageOK
<1>3. PICK k \in 0 .. Len(f.recs) :
        g.recs = SubSeq(f.recs, 1, k) /\ (f.synced \in Nat => f.synced <= k)
  BY ImageOK
<1>4. k = Len(f.recs)
  BY <1>1, <1>3
<1>5. g.recs = f.recs
  BY <1>1, <1>3, <1>4, SubSeqFull
<1>6. QED
  BY <1>1, <1>2, <1>5 DEF OnDisk

(* A crash that leaves the newest segment, or a part of it. *)
LEMMA CrashCuts ==
    ASSUME GInv, LaidOut(segs), Crash, NEW N, Newest(segs, N), N \in DOMAIN segs'
    PROVE  /\ LaidOut(segs') /\ Durable(segs') = Durable(segs)
           /\ \E k \in Len(Durable(segs)) .. Len(Recover(segs)) :
                Recover(segs') = SubSeq(Recover(segs), 1, k)
<1> DEFINE B == Recover(Below(segs, N))
           f == segs[N]
           g == segs'[N]
<1>1. /\ DOMAIN segs' \subseteq DOMAIN segs /\ SegsOK(segs', ids)
      /\ \A n \in DOMAIN segs \ DOMAIN segs' : ~segs[n].named
      /\ \A n \in DOMAIN segs' : segs'[n] \in Images(segs[n])
  BY CrashSegs
<1>2. SegsOK(segs, ids) /\ ids \in Nat
  BY LogBoundsAssumption DEF GInv, Typed
<1>3. \A n \in DOMAIN segs : n \in Nat /\ FileOK(n, segs[n], ids)
  BY <1>2, LogBoundsAssumption DEF SegsOK
<1>4. \A n \in DOMAIN segs : n # N => OnDisk(segs[n])
  <2>1. \A n \in DOMAIN segs : n # N => ~Newest(segs, n)
    BY <1>2, NewestUnique DEF SegsOK
  <2>2. QED
    BY <2>1 DEF LaidOut, Settled
<1>5. DOMAIN segs' = DOMAIN segs
  BY <1>1, <1>4 DEF OnDisk
<1>6. \A n \in DOMAIN segs : n # N => OnDisk(segs'[n]) /\ segs'[n].recs = segs[n].recs
  BY <1>1, <1>2, <1>3, <1>4, <1>5, ImageOfSettled
<1>7. /\ LaidOut(segs') /\ Recover(segs') = B \o g.recs /\ Durable(segs') = B \o Kept(g)
  BY <1>1, <1>2, <1>5, <1>6, ChangeLaidOut
<1>8. /\ B \in Seq(Records) /\ Recover(segs) = B \o f.recs /\ Durable(segs) = B \o Kept(f)
      /\ N \in DOMAIN segs
  BY <1>2, View
<1>9. FileOK(N, f, ids) /\ N \in Nat /\ g \in Images(f)
  BY <1>1, <1>3, <1>8
<1> HIDE DEF B, f, g
<1>10. Kept(g) = Kept(f)
  BY <1>2, <1>9, ImageKept
<1>11. PICK k \in 0 .. Len(f.recs) :
         g.recs = SubSeq(f.recs, 1, k) /\ Len(Kept(f)) <= k /\ Len(Kept(f)) \in Nat
  BY <1>2, <1>9, ImageKept
<1>12. f.recs \in Seq(Records) /\ Len(f.recs) \in Nat /\ Kept(f) \in Seq(Records)
  BY <1>9, FileFields, KeptPart DEF FileOK
<1>13. B \o g.recs = SubSeq(B \o f.recs, 1, Len(B) + k)
  BY <1>8, <1>11, <1>12, ConcatCut
<1>14. /\ Len(B \o f.recs) = Len(B) + Len(f.recs) /\ Len(B \o Kept(f)) = Len(B) + Len(Kept(f))
       /\ Len(B) \in Nat
  BY <1>8, <1>12, ConcatProperties
<1>15. Len(B) + k \in Len(B \o Kept(f)) .. Len(B \o f.recs)
  BY <1>11, <1>12, <1>14
<1>16. QED
  BY <1>7, <1>8, <1>10, <1>13, <1>15

(* One that takes with it a segment whose name was not on the disk. *)
LEMMA CrashDrops ==
    ASSUME GInv, LaidOut(segs), Crash, NEW N, Newest(segs, N), N \notin DOMAIN segs'
    PROVE  /\ LaidOut(segs') /\ Durable(segs') = Durable(segs)
           /\ \E k \in Len(Durable(segs)) .. Len(Recover(segs)) :
                Recover(segs') = SubSeq(Recover(segs), 1, k)
<1> DEFINE B == Recover(Below(segs, N))
           f == segs[N]
<1>1. /\ DOMAIN segs' \subseteq DOMAIN segs /\ SegsOK(segs', ids)
      /\ \A n \in DOMAIN segs \ DOMAIN segs' : ~segs[n].named
      /\ \A n \in DOMAIN segs' : segs'[n] \in Images(segs[n])
  BY CrashSegs
<1>2. SegsOK(segs, ids) /\ ids \in Nat
  BY LogBoundsAssumption DEF GInv, Typed
<1>3. \A n \in DOMAIN segs : n \in Nat /\ FileOK(n, segs[n], ids)
  BY <1>2, LogBoundsAssumption DEF SegsOK
<1>4. \A n \in DOMAIN segs : n # N => OnDisk(segs[n])
  <2>1. \A n \in DOMAIN segs : n # N => ~Newest(segs, n)
    BY <1>2, NewestUnique DEF SegsOK
  <2>2. QED
    BY <2>1 DEF LaidOut, Settled
<1>5. /\ B \in Seq(Records) /\ Recover(segs) = B \o f.recs /\ Durable(segs) = B \o Kept(f)
      /\ N \in DOMAIN segs /\ NumberedFrom(B, 1)
  BY <1>2, View
<1>6. DOMAIN segs' = DOMAIN segs \ {N} /\ ~f.named
  BY <1>1, <1>4, <1>5 DEF OnDisk
<1>7. \A n \in DOMAIN segs' : OnDisk(segs'[n]) /\ segs'[n].recs = segs[n].recs
  BY <1>1, <1>2, <1>3, <1>4, <1>6, ImageOfSettled
<1>8. \A n \in DOMAIN segs : n <= N /\ n \in Nat /\ (n < N <=> n # N)
  BY <1>3, <1>5 DEF Newest
<1>9. Recover(segs') = B
  <2>1. DOMAIN Below(segs, N) = DOMAIN segs'
    BY <1>6, <1>8 DEF Below
  <2>2. \A n \in DOMAIN segs' : segs'[n].recs = Below(segs, N)[n].recs
    BY <1>7, <2>1 DEF Below
  <2>3. QED
    BY <2>1, <2>2, RecoverSame
<1>10. Exact(segs')
  <2>1. SUFFICES ASSUME NEW n \in DOMAIN segs'
                 PROVE  Recover(Below(segs', n)) = Recover(Below(segs, n))
    BY <1>1 DEF LaidOut, Exact
  <2>2. n < N /\ n \in Nat /\ N \in Nat /\ ~(N < n)
    BY <1>1, <1>3, <1>5, <1>6, <1>8
  <2>3. \A m : m < n => (m \in DOMAIN segs' <=> m \in DOMAIN segs)
    BY <1>6, <2>2
  <2>4. \A m \in DOMAIN segs' : m < n => segs'[m].recs = segs[m].recs
    BY <1>7
  <2>5. QED
    BY <2>3, <2>4, BelowSame
<1>11. LaidOut(segs')
  BY <1>5, <1>7, <1>9, <1>10 DEF LaidOut, Dense, Settled
<1>12. Durable(segs') = B
  BY <1>1, <1>7, <1>9, DurableAll
<1>13. Durable(segs) = B
  <2>1. Kept(f) = <<>>
    BY <1>6 DEF Kept
  <2>2. QED
    BY <1>5, <2>1, ConcatEmptySeq
<1>14. f.recs \in Seq(Records) /\ Len(f.recs) \in Nat
  BY <1>3, <1>5, FileFields DEF FileOK
<1> HIDE DEF B, f
<1>15. Len(B) \in 0 .. Len(B) /\ Len(B) \in Nat /\ SubSeq(B, 1, Len(B)) = B
  BY <1>5, SubSeqFull
<1>16. SubSeq(B \o f.recs, 1, Len(B)) = B
  BY <1>5, <1>14, <1>15, CutOfConcat
<1>17. Len(B) \in Len(B) .. Len(B \o f.recs)
  <2>1. Len(B \o f.recs) = Len(B) + Len(f.recs)
    BY <1>5, <1>14, ConcatProperties
  <2>2. QED
    BY <1>14, <1>15, <2>1
<1>18. QED
  BY <1>5, <1>9, <1>11, <1>12, <1>13, <1>16, <1>17

(* A crash cuts the log behind what survives. *)
LEMMA CrashView ==
    ASSUME GInv, LaidOut(segs), Crash
    PROVE  /\ LaidOut(segs') /\ Durable(segs') = Durable(segs)
           /\ \E k \in Len(Durable(segs)) .. Len(Recover(segs)) :
                Recover(segs') = SubSeq(Recover(segs), 1, k)
<1>1. SegsOK(segs, ids) /\ SegsOK(segs', ids) /\ DOMAIN segs' \subseteq DOMAIN segs
  BY CrashSegs DEF GInv
<1>2. CASE DOMAIN segs = {}
  <2>1. DOMAIN segs' = {}
    BY <1>1, <1>2
  <2>2. /\ Recover(segs) = <<>> /\ Recover(segs') = <<>>
        /\ Durable(segs) = Recover(segs) /\ Durable(segs') = Recover(segs')
    BY <1>1, <1>2, <2>1, RecoverOfNone, DurableAll
  <2>3. LaidOut(segs')
    BY <2>1, <2>2, EmptySeq DEF LaidOut, Exact, Dense, Settled, NumberedFrom
  <2>4. 0 \in Len(<<>>) .. Len(<<>>) /\ SubSeq(<<>>, 1, 0) = <<>>
    BY EmptySeq, SubSeqEmpty
  <2>5. QED
    BY <2>2, <2>3, <2>4
<1>3. CASE DOMAIN segs # {}
  <2>1. Newest(segs, Max(DOMAIN segs))
    BY <1>1, <1>3, NewestExists DEF SegsOK
  <2>2. QED
    BY <2>1, CrashCuts, CrashDrops
<1>4. QED
  BY <1>2, <1>3

(* The whole log, with what the Writer holds, while it is open. *)
LEMMA OpenLog ==
    ASSUME GInv, LaidOut(segs)
    PROVE  /\ Recover(segs) \in Seq(Records) /\ Durable(segs) \in Seq(Records)
           /\ Len(Recover(segs)) \in Nat /\ Len(Durable(segs)) \in Nat
           /\ IsPrefix(Durable(segs), Recover(segs))
           /\ Len(Durable(segs)) <= Len(Recover(segs))
           /\ w.buf \in Seq(Records) /\ Len(w.buf) \in Nat
           /\ Recover(segs) \o w.buf \in Seq(Records)
           /\ Len(Recover(segs) \o w.buf) = Len(Recover(segs)) + Len(w.buf)
<1>1. w.buf \in Seq(Records) /\ Len(w.buf) \in Nat /\ SegsOK(segs, ids)
  BY WriterFields DEF GInv, Typed
<1>2. Recover(segs) \in Seq(Records) /\ Durable(segs) \in Seq(Records)
      /\ IsPrefix(Durable(segs), Recover(segs))
  BY <1>1, DurableIsPrefix
<1>3. Len(Durable(segs)) <= Len(Recover(segs))
  BY <1>2 DEF IsPrefix
<1>4. Len(Recover(segs)) \in Nat /\ Len(Durable(segs)) \in Nat
  BY <1>2
<1>5. QED
  BY <1>1, <1>2, <1>3, <1>4, ConcatProperties

(* What a Writer has flushed is behind the records of all segments, and what it
   has synced is on the disk with them. *)
LEMMA FlushView ==
    ASSUME GInv, LaidOut(segs), w.state = "open", segs[w.cur].named,
           NEW n \in 0 .. Len(w.buf), NEW f \in File(Records), Flushes(f, n),
           Replaced(segs, w.cur, f, segs'), NEW more, SegsOK(segs', more)
    PROVE  /\ LaidOut(segs')
           /\ Recover(segs') = Recover(segs) \o SubSeq(w.buf, 1, n)
           /\ Durable(segs') = Durable(segs) \/ Durable(segs') = Recover(segs')
           /\ f.synced = Len(f.recs) => Durable(segs') = Recover(segs')
           /\ f.synced = segs[w.cur].synced => Durable(segs') = Durable(segs)
           /\ f.named
<1> DEFINE B == Recover(Below(segs, w.cur))
           e == segs[w.cur]
           x == SubSeq(w.buf, 1, n)
<1>1. SegsOK(segs, ids) /\ Newest(segs, w.cur) /\ FileOK(w.cur, e, ids)
      /\ e.recs \in Seq(Records) /\ e.synced \in Nat /\ e.synced <= Len(e.recs)
      /\ Len(e.recs) \in Nat /\ w.buf \in Seq(Records)
  BY OpenSegment DEF GInv
<1>2. /\ B \in Seq(Records) /\ Recover(segs) = B \o e.recs /\ Durable(segs) = B \o Kept(e)
  BY <1>1, View
<1>3. /\ LaidOut(segs') /\ Recover(segs') = B \o f.recs /\ Durable(segs') = B \o Kept(f)
  <2>1. PICK N : N = w.cur
    OBVIOUS
  <2>2. SegsOK(segs, ids) /\ Newest(segs, N) /\ Replaced(segs, N, f, segs')
    BY <1>1, <2>1
  <2>3. /\ LaidOut(segs') /\ segs'[N] = f
        /\ Recover(segs') = Recover(Below(segs, N)) \o segs'[N].recs
        /\ Durable(segs') = Recover(Below(segs, N)) \o Kept(segs'[N])
    BY <2>2, ReplaceLaidOut
  <2>4. QED
    BY <2>1, <2>3
<1>4. x \in Seq(Records)
  BY <1>1, Cut
<1>5. /\ f.recs = e.recs \o x /\ f.recs \in Seq(Records)
      /\ \/ f.synced = e.synced
         \/ f.synced = Len(f.recs)
      /\ f.named /\ e.named
  BY FileFields DEF Flushes
<1> HIDE DEF B, e, x
<1>6. Recover(segs') = Recover(segs) \o x
  <2> DEFINE y == e.recs
  <2>1. B \in Seq(Records) /\ y \in Seq(Records) /\ x \in Seq(Records)
    BY <1>1, <1>2, <1>4
  <2> HIDE DEF y
  <2>2. (B \o y) \o x = B \o (y \o x)
    BY <2>1, Associative, Zenon
  <2> USE DEF y
  <2>3. Recover(segs') = B \o (e.recs \o x)
    BY <1>3, <1>5, Zenon
  <2>4. QED
    BY <1>2, <2>2, <2>3, Zenon
<1>7. ASSUME f.synced = e.synced PROVE Durable(segs') = Durable(segs)
  <2>1. e.synced \in 0 .. Len(e.recs)
    BY <1>1
  <2>2. SubSeq(e.recs \o x, 1, e.synced) = SubSeq(e.recs, 1, e.synced)
    BY <1>1, <1>4, <2>1, CutOfConcat
  <2>3. Kept(f) = Kept(e)
    BY <1>5, <1>7, <2>2 DEF Kept
  <2>4. QED
    BY <1>2, <1>3, <2>3
<1>8. ASSUME f.synced = Len(f.recs) PROVE Durable(segs') = Recover(segs')
  <2>1. Kept(f) = f.recs
    BY <1>5, <1>8, SubSeqFull DEF Kept
  <2>2. QED
    BY <1>3, <2>1
<1>9. QED
  BY <1>3, <1>5, <1>6, <1>7, <1>8 DEF e, x

(* An open Writer is flushed, in part or as a whole, and perhaps synced. *)
LEMMA EmptiedView ==
    ASSUME GInv, LaidOut(segs), w.state = "open", segs[w.cur].named, Emptied
    PROVE  /\ LaidOut(segs') /\ segs'[w.cur].named
           /\ \E n \in 0 .. Len(w.buf) :
                Recover(segs') = Recover(segs) \o SubSeq(w.buf, 1, n)
           /\ Durable(segs') = Durable(segs) \/ Durable(segs') = Recover(segs')
<1>1. PICK n \in 0 .. Len(w.buf) : \E f \in File(Records) :
        Flushes(f, n) /\ segs' = [segs EXCEPT ![w.cur] = f]
  BY DEF Emptied
<1>2. PICK f \in File(Records) : Flushes(f, n) /\ segs' = [segs EXCEPT ![w.cur] = f]
  BY <1>1
<1>3. Replaced(segs, w.cur, f, segs')
  BY <1>2 DEF Replaced
<1>4. SegsOK(segs', ids) /\ segs'[w.cur] = f
  <2>1. FileOK(w.cur, f, ids) /\ SegsOK(segs, ids)
    BY <1>2 DEF Flushes, GInv
  <2>2. ids \in Nat /\ ids <= ids /\ Newest(segs, w.cur)
    BY OpenSegment
  <2>3. QED
    BY <1>3, <2>1, <2>2, ReplaceNewest
<1>5. /\ LaidOut(segs') /\ Recover(segs') = Recover(segs) \o SubSeq(w.buf, 1, n)
      /\ Durable(segs') = Durable(segs) \/ Durable(segs') = Recover(segs')
      /\ f.named
  BY <1>2, <1>3, <1>4, FlushView
<1>6. QED
  BY <1>4, <1>5

(* An open Writer is synced: all of the log is on the disk. *)
LEMMA SyncedView ==
    ASSUME GInv, LaidOut(segs), w.state = "open", segs[w.cur].named, segs' = Fsynced(Flushed)
    PROVE  /\ LaidOut(segs') /\ segs'[w.cur].named
           /\ Recover(segs') = Recover(segs) \o w.buf
           /\ Durable(segs') = Recover(segs')
           /\ \A n \in DOMAIN segs' : OnDisk(segs'[n])
<1>1. PICK f \in File(Records) :
        /\ Flushes(f, Len(w.buf)) /\ segs' = [segs EXCEPT ![w.cur] = f]
        /\ f.synced = Len(f.recs) /\ f.named = (segs[w.cur].named \/ FsyncNames)
  BY FsyncedSegment
<1>2. /\ ids \in Nat /\ ids <= ids /\ Newest(segs, w.cur) /\ w.buf \in Seq(Records)
      /\ Len(w.buf) \in 0 .. Len(w.buf)
  BY OpenSegment
<1>3. Replaced(segs, w.cur, f, segs')
  BY <1>1 DEF Replaced
<1>4. SegsOK(segs', ids) /\ segs'[w.cur] = f /\ Newest(segs', w.cur)
  <2>1. FileOK(w.cur, f, ids) /\ SegsOK(segs, ids)
    BY <1>1 DEF Flushes, GInv
  <2>2. QED
    BY <1>2, <1>3, <2>1, ReplaceNewest
<1>5. /\ LaidOut(segs') /\ Recover(segs') = Recover(segs) \o SubSeq(w.buf, 1, Len(w.buf))
      /\ Durable(segs') = Recover(segs') /\ f.named
  BY <1>1, <1>2, <1>3, <1>4, FlushView
<1>6. SubSeq(w.buf, 1, Len(w.buf)) = w.buf
  BY <1>2, SubSeqFull
<1>7. \A n \in DOMAIN segs' : OnDisk(segs'[n])
  <2>1. SUFFICES ASSUME NEW n \in DOMAIN segs' PROVE OnDisk(segs'[n])
    OBVIOUS
  <2>2. CASE n = w.cur
    BY <1>1, <1>4, <1>5, <2>2 DEF OnDisk
  <2>3. CASE n # w.cur
    <3>1. ~Newest(segs', n)
      BY <1>4, <2>3, NewestUnique DEF SegsOK
    <3>2. QED
      BY <1>5, <3>1 DEF LaidOut, Settled
  <2>4. QED
    BY <2>2, <2>3
<1>8. QED
  BY <1>4, <1>5, <1>6, <1>7

(* The new segment of a rotation, or the first one, is on the disk and empty. *)
LEMMA NamedView ==
    ASSUME GInv, LaidOut(segs), w.step = "sync"
    PROVE  /\ LaidOut(Named) /\ Recover(Named) = Recover(segs) /\ Durable(Named) = Durable(segs)
           /\ Named[w.first].named
<1>1. PICK N : N = w.first
  OBVIOUS
<1>2. /\ SegsOK(segs, ids) /\ SegsOK(Named, ids) /\ Newest(segs, N) /\ segs[N].recs = <<>>
      /\ \E f \in File(Records) :
           Replaced(segs, N, f, Named) /\ f.named /\ f.synced = 0 /\ f.recs = <<>>
  BY <1>1, NamedSegment DEF GInv
<1>3. PICK f \in File(Records) :
        Replaced(segs, N, f, Named) /\ f.named /\ f.synced = 0 /\ f.recs = <<>>
  BY <1>2
<1> DEFINE B == Recover(Below(segs, N))
           sh == Named
<1>4. SegsOK(sh, ids) /\ Replaced(segs, N, f, sh)
  BY <1>2, <1>3
<1> HIDE DEF sh
<1>5. /\ LaidOut(sh) /\ sh[N] = f
      /\ Recover(sh) = B \o sh[N].recs /\ Durable(sh) = B \o Kept(sh[N])
  BY <1>2, <1>4, ReplaceLaidOut
<1>6. /\ N \in DOMAIN segs /\ B \in Seq(Records)
      /\ Recover(segs) = B \o segs[N].recs /\ Durable(segs) = B \o Kept(segs[N])
  BY <1>2, View
<1>7. FileOK(N, segs[N], ids) /\ FileOK(N, sh[N], ids)
  <2>1. N \in DOMAIN sh
    BY <1>2, <1>4, <1>6 DEF Replaced
  <2>2. QED
    BY <1>2, <1>4, <1>6, <2>1 DEF SegsOK
<1>8. Kept(segs[N]) = <<>> /\ Kept(sh[N]) = <<>> /\ sh[N].recs = <<>>
  BY <1>2, <1>3, <1>5, <1>7, KeptOfNothing
<1>9. Recover(sh) = Recover(segs) /\ Durable(sh) = Durable(segs)
  BY <1>2, <1>5, <1>6, <1>8
<1>10. QED
  BY <1>1, <1>3, <1>5, <1>9 DEF sh

(* The record is the last of the log, wherever the Writer has put it. *)
LEMMA PutView ==
    ASSUME NEW sg, NEW last, SegsOK(sg, last), LaidOut(sg), NEW b \in Seq(Records),
           NEW N, Newest(sg, N), sg[N].named, sg[N].synced \in Nat,
           NEW rec \in Records, NEW f \in File(Records), Adds(sg[N], b, rec, f),
           Replaced(sg, N, f, segs'), NEW more, SegsOK(segs', more)
    PROVE  /\ LaidOut(segs') /\ segs'[N].named
           /\ Recover(segs') = Recover(sg) \/ Recover(segs') = Recover(sg) \o b
           /\ Durable(segs') = Durable(sg)
           /\ Recover(segs') \o w'.buf = Append(Recover(sg) \o b, rec)
<1> DEFINE B == Recover(Below(sg, N))
           e == sg[N]
           R == Recover(sg)
<1>1. /\ B \in Seq(Records) /\ R = B \o e.recs /\ Durable(sg) = B \o Kept(e)
      /\ N \in DOMAIN sg
  BY View
<1>2. /\ LaidOut(segs') /\ segs'[N] = f
      /\ Recover(segs') = B \o segs'[N].recs /\ Durable(segs') = B \o Kept(segs'[N])
  BY ReplaceLaidOut
<1>3. FileOK(N, e, last) /\ e.recs \in Seq(Records) /\ Len(e.recs) \in Nat
      /\ e.synced <= Len(e.recs)
  BY <1>1, FileFields DEF SegsOK, FileOK
<1>4. R \in Seq(Records)
  BY RecoverRecords
<1> HIDE DEF B, e, R
<1>5. R \o b \in Seq(Records) /\ <<rec>> \in Seq(Records)
  BY <1>4, ConcatProperties
<1>6. Append(R \o b, rec) = (R \o b) \o <<rec>> /\ Append(b, rec) = b \o <<rec>>
  BY <1>4, <1>5, AppendIsConcat
<1>7. CASE w'.buf = Append(b, rec) /\ f = e
  <2>1. Recover(segs') = R /\ Durable(segs') = Durable(sg)
    BY <1>1, <1>2, <1>7
  <2>2. (R \o b) \o <<rec>> = R \o (b \o <<rec>>)
    BY <1>4, <1>5, Associative, Zenon
  <2>3. Recover(segs') \o w'.buf = Append(R \o b, rec)
    BY <1>6, <1>7, <2>1, <2>2
  <2>4. QED
    BY <1>2, <1>7, <2>1, <2>3 DEF R, e
<1>8. CASE /\ w'.buf = <<rec>> /\ f.recs = e.recs \o b
           /\ f.synced = e.synced /\ f.named = e.named
  <2> DEFINE y == e.recs
  <2>1. B \in Seq(Records) /\ y \in Seq(Records) /\ b \in Seq(Records)
    BY <1>1, <1>3
  <2> HIDE DEF y
  <2>2. (B \o y) \o b = B \o (y \o b)
    BY <2>1, Associative, Zenon
  <2> USE DEF y
  <2>3. Recover(segs') = R \o b
    <3>1. Recover(segs') = B \o (e.recs \o b)
      BY <1>2, <1>8
    <3>2. QED
      BY <1>1, <2>2, <3>1, Zenon
  <2>4. Kept(f) = Kept(e)
    <3>1. e.synced \in 0 .. Len(e.recs) /\ e.named
      BY <1>3 DEF e
    <3>2. SubSeq(e.recs \o b, 1, e.synced) = SubSeq(e.recs, 1, e.synced)
      BY <1>3, <1>4, <3>1, CutOfConcat
    <3>3. QED
      BY <1>8, <3>1, <3>2 DEF Kept
  <2>5. Durable(segs') = Durable(sg)
    BY <1>1, <1>2, <2>4
  <2>6. Recover(segs') \o w'.buf = Append(R \o b, rec)
    BY <1>6, <1>8, <2>3
  <2>7. QED
    BY <1>2, <1>8, <2>3, <2>5, <2>6 DEF R, e
<1>9. QED
  <2>1. \/ w'.buf = Append(b, rec) /\ f = e
        \/ /\ w'.buf = <<rec>> /\ f.recs = e.recs \o b
           /\ f.synced = e.synced /\ f.named = e.named
    BY DEF Adds, e
  <2>2. QED
    BY <1>7, <1>8, <2>1

LEMMA AppendView ==
    ASSUME GInv, LaidOut(segs), Begun, node = "up", NEW rec \in Records, rec.seq = pos + 1,
           NEW more \in Nat, ids <= more, pos + 1 <= more, AppendFits(rec) \/ AppendRotated(rec)
    PROVE  /\ LaidOut(segs') /\ segs'[w'.cur].named /\ w'.step = "idle"
           /\ Len(Recover(segs)) <= Len(Recover(segs'))
           /\ Durable(segs') = Durable(segs)
           /\ Recover(segs') \o w'.buf = Append(Recover(segs) \o w.buf, rec)
<1> DEFINE R == Recover(segs)
           b == w.buf
<1>1. pos \in Nat /\ ids \in Nat /\ SegsOK(segs, ids)
  BY LogBoundsAssumption DEF GInv, Typed
<1>2. rec \in Records
  OBVIOUS
<1>3. R \in Seq(Records) /\ b \in Seq(Records) /\ Len(R) \in Nat /\ Len(b) \in Nat
      /\ Len(R \o b) = Len(R) + Len(b)
  BY OpenLog
<1>4. SUFFICES /\ LaidOut(segs') /\ segs'[w'.cur].named /\ w'.step = "idle"
               /\ Recover(segs') = R \/ Recover(segs') = R \o b
               /\ Durable(segs') = Durable(segs)
               /\ Recover(segs') \o w'.buf = Append(R \o b, rec)
  <2> HIDE DEF R, b
  <2>1. Len(R) <= Len(R) /\ Len(R) <= Len(R \o b)
    BY <1>3
  <2> USE DEF R, b
  <2>2. QED
    BY <1>2, <2>1
<1>5. CASE w.state = "open" /\ Ready(segs, w, pos) /\ Put(segs, w, rec)
  <2>1. PICK N : N = w.cur
    OBVIOUS
  <2>2. /\ SegsOK(segs', more) /\ w'.cur = w.cur /\ Ready(segs', w', pos + 1)
        /\ \E f \in File(Records) :
             Replaced(segs, w.cur, f, segs') /\ Adds(segs[w.cur], w.buf, rec, f)
    BY <1>1, <1>5, PutStep
  <2>3. PICK f \in File(Records) :
          Replaced(segs, N, f, segs') /\ Adds(segs[N], b, rec, f)
    BY <2>1, <2>2
  <2>4. Newest(segs, N) /\ segs[N].named /\ segs[N].synced \in Nat
    BY <1>5, <2>1, OpenSegment DEF Begun
  <2> HIDE DEF b, R
  <2>5. /\ LaidOut(segs') /\ segs'[N].named
        /\ Recover(segs') = Recover(segs) \/ Recover(segs') = Recover(segs) \o b
        /\ Durable(segs') = Durable(segs)
        /\ Recover(segs') \o w'.buf = Append(Recover(segs) \o b, rec)
    BY <1>1, <1>2, <1>3, <2>2, <2>3, <2>4, PutView
  <2>6. QED
    BY <2>1, <2>2, <2>5 DEF R, Ready
<1>6. CASE /\ w.step = "sync" /\ Ready(Named, OnNewSegment, pos)
           /\ Put(Named, OnNewSegment, rec)
  <2> DEFINE sg == Named
             wr == OnNewSegment
  <2>1. PICK N : N = w.first
    OBVIOUS
  <2>2. SegsOK(sg, ids) /\ wr.cur = w.first /\ wr.buf = <<>>
    BY <1>6, NamedSegment
  <2>3. LaidOut(sg) /\ Recover(sg) = R /\ Durable(sg) = Durable(segs) /\ sg[N].named
    BY <1>6, <2>1, NamedView
  <2>4. b = <<>>
    BY <1>6 DEF GInv, Opening, Held
  <2>5. Ready(sg, wr, pos) /\ Put(sg, wr, rec)
    BY <1>6
  <2> HIDE DEF sg, wr, b, R
  <2>6. /\ SegsOK(segs', more) /\ w'.cur = wr.cur /\ Ready(segs', w', pos + 1)
        /\ \E f \in File(Records) :
             Replaced(sg, wr.cur, f, segs') /\ Adds(sg[wr.cur], wr.buf, rec, f)
    BY <1>1, <2>2, <2>5, PutStep
  <2>7. PICK f \in File(Records) :
          Replaced(sg, N, f, segs') /\ Adds(sg[N], b, rec, f)
    BY <2>1, <2>2, <2>4, <2>6
  <2>8. Newest(sg, N) /\ sg[N].synced \in Nat
    BY <2>1, <2>2, <2>5 DEF Ready, Writable
  <2>9. /\ LaidOut(segs') /\ segs'[N].named
        /\ Recover(segs') = Recover(sg) \/ Recover(segs') = Recover(sg) \o b
        /\ Durable(segs') = Durable(sg)
        /\ Recover(segs') \o w'.buf = Append(Recover(sg) \o b, rec)
    BY <1>2, <1>3, <2>2, <2>3, <2>6, <2>7, <2>8, PutView
  <2>10. QED
    BY <2>1, <2>2, <2>3, <2>6, <2>9 DEF Ready
<1>7. QED
  BY <1>5, <1>6, AppendTarget

(* OpenWriter makes all that is left durable, if a file's name is with its data. *)
LEMMA OpenedView ==
    ASSUME GInv, LaidOut(segs), FsyncNames, OpenWriterOnNewest
    PROVE  /\ LaidOut(segs') /\ segs'[w'.cur].named
           /\ Recover(segs') = Recover(segs) /\ Durable(segs') = Recover(segs)
           /\ w'.buf = <<>>
<1>1. PICK N \in DOMAIN segs : \E f \in File(Records) :
        /\ Newest(segs, N) /\ Replaced(segs, N, f, segs')
        /\ f.recs = segs[N].recs /\ f.synced = Len(f.recs)
        /\ f.named = (segs[N].named \/ FsyncNames)
        /\ SegsOK(segs', ids) /\ w'.cur = N /\ w'.buf = <<>>
  BY NewestOpened
<1>2. PICK f \in File(Records) :
        /\ Newest(segs, N) /\ Replaced(segs, N, f, segs')
        /\ f.recs = segs[N].recs /\ f.synced = Len(f.recs)
        /\ f.named = (segs[N].named \/ FsyncNames)
  BY <1>1
<1>3. SegsOK(segs', ids) /\ w'.cur = N /\ w'.buf = <<>> /\ SegsOK(segs, ids)
  BY <1>1 DEF GInv
<1> DEFINE B == Recover(Below(segs, N))
<1>4. f.named
  BY <1>2
<1>5. /\ LaidOut(segs') /\ segs'[N] = f
      /\ Recover(segs') = B \o segs'[N].recs /\ Durable(segs') = B \o Kept(segs'[N])
  BY <1>2, <1>3, ReplaceLaidOut
<1>6. Recover(segs) = B \o segs[N].recs
  BY <1>2, <1>3, View
<1>7. f.recs \in Seq(Records)
  BY FileFields
<1>8. Kept(f) = f.recs
  BY <1>2, <1>4, <1>7, SubSeqFull DEF Kept
<1>9. QED
  BY <1>2, <1>3, <1>4, <1>5, <1>6, <1>8

(* The first segment of a log is empty. *)
LEMMA FirstView ==
    ASSUME GInv, LaidOut(segs), FirstSegmentOpened
    PROVE  /\ LaidOut(segs') /\ segs'[w'.cur].named
           /\ Recover(segs') = Recover(segs) /\ Durable(segs') = Recover(segs)
           /\ w'.buf = <<>>
<1>1. segs' = Named /\ w' = OnNewSegment /\ w.step = "sync" /\ w.first = 1
  BY FirstOpened
<1>2. OnNewSegment.cur = w.first /\ OnNewSegment.buf = <<>> /\ Newest(segs, 1)
      /\ segs[1].recs = <<>> /\ SegsOK(segs, ids)
  BY <1>1, NamedSegment DEF GInv
<1>3. /\ LaidOut(Named) /\ Recover(Named) = Recover(segs) /\ Durable(Named) = Durable(segs)
      /\ Named[w.first].named
  BY <1>1, NamedView
<1> DEFINE B == Recover(Below(segs, 1))
<1>4. /\ B \in Seq(Records) /\ Len(B) = 1 - 1 /\ 1 \in DOMAIN segs
      /\ Recover(segs) = B \o segs[1].recs /\ Durable(segs) = B \o Kept(segs[1])
  BY <1>2, View
<1>5. Kept(segs[1]) = <<>>
  BY <1>2, <1>4, KeptOfNothing DEF SegsOK
<1>6. Durable(segs) = Recover(segs)
  BY <1>2, <1>4, <1>5
<1>7. QED
  BY <1>1, <1>2, <1>3, <1>6

(* The truncation of a torn tail changes nothing. *)
LEMMA TruncatedView ==
    ASSUME GInv, LaidOut(segs), OpenWriterFails
    PROVE  LaidOut(segs') /\ Recover(segs') = Recover(segs) /\ Durable(segs') = Durable(segs)
<1>1. \/ segs' = segs
      \/ /\ SegsOK(segs', ids)
         /\ \E N \in DOMAIN segs : \E f \in File(Records) :
              /\ Newest(segs, N) /\ Replaced(segs, N, f, segs')
              /\ f.recs = segs[N].recs /\ f.synced = segs[N].synced /\ f.named = segs[N].named
  BY TruncatedNewest DEF OpenWriterFails
<1>2. CASE segs' = segs
  BY <1>2
<1>3. CASE /\ SegsOK(segs', ids)
           /\ \E N \in DOMAIN segs : \E f \in File(Records) :
                /\ Newest(segs, N) /\ Replaced(segs, N, f, segs')
                /\ f.recs = segs[N].recs /\ f.synced = segs[N].synced /\ f.named = segs[N].named
  <2>1. PICK N \in DOMAIN segs : \E f \in File(Records) :
          /\ Newest(segs, N) /\ Replaced(segs, N, f, segs')
          /\ f.recs = segs[N].recs /\ f.synced = segs[N].synced /\ f.named = segs[N].named
    BY <1>3
  <2>2. PICK f \in File(Records) :
          /\ Newest(segs, N) /\ Replaced(segs, N, f, segs')
          /\ f.recs = segs[N].recs /\ f.synced = segs[N].synced /\ f.named = segs[N].named
    BY <2>1
  <2> DEFINE B == Recover(Below(segs, N))
  <2>3. SegsOK(segs', ids) /\ SegsOK(segs, ids)
    BY <1>3 DEF GInv
  <2>4. /\ LaidOut(segs') /\ segs'[N] = f
        /\ Recover(segs') = B \o segs'[N].recs /\ Durable(segs') = B \o Kept(segs'[N])
    BY <2>2, <2>3, ReplaceLaidOut
  <2>5. Recover(segs) = B \o segs[N].recs /\ Durable(segs) = B \o Kept(segs[N])
    BY <2>2, <2>3, View
  <2>6. Kept(f) = Kept(segs[N])
    BY <2>2 DEF Kept
  <2>7. QED
    BY <2>2, <2>4, <2>5, <2>6
<1>4. QED
  BY <1>1, <1>2, <1>3

(* The steps of openSegment before the new segment is on the disk. *)
LEMMA CreateView ==
    ASSUME GInv, GInv', LaidOut(segs), Begun, CreateFile
    PROVE  LaidOut(segs') /\ Recover(segs') = Recover(segs) /\ Durable(segs') = Durable(segs)
<1>1. PICK N : N = w.first
  OBVIOUS
<1>2. w.step = "create" /\ SegsOK(segs, ids) /\ SegsOK(segs', ids')
  BY DEF CreateFile, GInv
<1>3. /\ N \in 1 .. MaxRecords /\ \A m \in DOMAIN segs : m < N
      /\ \A n \in DOMAIN segs : OnDisk(segs[n])
      /\ Len(Recover(segs)) = N - 1
  BY <1>1, <1>2 DEF GInv, Opening, Begun
<1>4. N \in Nat \ {0}
  BY <1>3, LogBoundsAssumption
<1>5. N \notin DOMAIN segs
  BY <1>3, <1>4
<1>6. segs' = [n \in DOMAIN segs \cup {N} |->
                 IF n # N THEN segs[n]
                 ELSE [NewFile EXCEPT !.named = n \in DOMAIN segs /\ segs[n].named]]
  BY <1>1 DEF CreateFile
<1>7. DOMAIN segs' = DOMAIN segs \cup {N} /\ \A m \in DOMAIN segs : segs'[m] = segs[m]
  BY <1>5, <1>6
<1>8. segs'[N] = [NewFile EXCEPT !.named = FALSE]
  BY <1>5, <1>6
<1>9. segs'[N].recs = <<>>
  BY <1>8, NewFileType
<1>10. \A m \in DOMAIN segs : m < N /\ segs'[m] = segs[m]
  BY <1>3, <1>7
<1>11. QED
  BY <1>2, <1>3, <1>4, <1>7, <1>9, <1>10, CreateLaidOut

LEMMA HeaderView ==
    ASSUME GInv, GInv', LaidOut(segs), WriteHeader
    PROVE  LaidOut(segs') /\ Recover(segs') = Recover(segs) /\ Durable(segs') = Durable(segs)
<1>1. PICK N : N = w.first
  OBVIOUS
<1>2. /\ w.step = "header" /\ SegsOK(segs, ids) /\ SegsOK(segs', ids')
      /\ Newest(segs, N) /\ N \in DOMAIN segs
  BY <1>1 DEF WriteHeader, GInv, Opening, Newest
<1> DEFINE f == [segs[N] EXCEPT !.ok = TRUE]
           B == Recover(Below(segs, N))
<1>3. segs[N] \in File(Records)
  BY <1>2 DEF SegsOK
<1>4. f.recs = segs[N].recs /\ f.synced = segs[N].synced /\ f.named = segs[N].named
  BY <1>3 DEF File
<1>5. Replaced(segs, N, f, segs')
  BY <1>1, <1>2 DEF WriteHeader, Replaced
<1> HIDE DEF f
<1>6. /\ LaidOut(segs') /\ segs'[N] = f
      /\ Recover(segs') = B \o segs'[N].recs /\ Durable(segs') = B \o Kept(segs'[N])
  BY <1>2, <1>5, ReplaceLaidOut
<1>7. Recover(segs) = B \o segs[N].recs /\ Durable(segs) = B \o Kept(segs[N])
  BY <1>2, View
<1>8. Kept(f) = Kept(segs[N])
  BY <1>4 DEF Kept
<1>9. QED
  BY <1>4, <1>6, <1>7, <1>8

-----------------------------------------------------------------------------
(* Every step keeps the rest of the invariant, and the promise of a log.   *)

(* What was durable stays so when the log is extended. *)
LEMMA StillDurable ==
    ASSUME GInv, SInv, GInv', LaidOut(segs'), book' = book,
           \/ Durable(segs') = Durable(segs)
           \/ /\ Durable(segs') = Recover(segs')
              /\ \E x \in Seq(Records) : Recover(segs') = Recover(segs) \o x
    PROVE  BookSurvives'
<1>1. /\ book \in Seq(Records) /\ IsPrefix(book, Durable(segs)) /\ SegsOK(segs', ids')
  BY DEF GInv, Typed, SInv, BookSurvives
<1>2. /\ Durable(segs) \in Seq(Records) /\ Recover(segs) \in Seq(Records)
      /\ IsPrefix(Durable(segs), Recover(segs))
  BY OpenLog DEF SInv
<1>3. Recover(segs') \in Seq(Records)
  BY <1>1, RecoverRecords
<1>4. CASE Durable(segs') = Durable(segs)
  BY <1>1, <1>4 DEF BookSurvives
<1>5. CASE /\ Durable(segs') = Recover(segs')
           /\ \E x \in Seq(Records) : Recover(segs') = Recover(segs) \o x
  <2>1. IsPrefix(book, Recover(segs))
    BY <1>1, <1>2, PrefixTransitive
  <2>2. IsPrefix(Recover(segs), Recover(segs'))
    BY <1>2, <1>5, PrefixOfConcat
  <2>3. IsPrefix(book, Recover(segs'))
    BY <1>1, <1>2, <1>3, <2>1, <2>2, PrefixTransitive
  <2>4. QED
    BY <1>5, <2>3 DEF BookSurvives
<1>6. QED
  BY <1>4, <1>5

(* The book is what the log has made durable. *)
LEMMA BookIsDurable ==
    ASSUME GInv', LaidOut(segs'), book' = Durable(segs')
    PROVE  BookSurvives'
<1>1. book' \in Seq(Records)
  BY DEF GInv, Typed
<1>2. IsPrefix(book', book')
  <2>1. Len(book') \in Nat /\ Len(book') <= Len(book')
    BY <1>1
  <2>2. QED
    BY <1>1, <2>1, PrefixElements
<1>3. QED
  BY <1>2 DEF BookSurvives

LEMMA AppendPromise ==
    ASSUME GInv, GInv', SInv, node = "up", node' = "up", book' = book,
           NEW rec \in Records, rec.seq = pos + 1, NEW more \in Nat, ids <= more, pos + 1 <= more,
           AppendFits(rec) \/ AppendRotated(rec)
    PROVE  /\ SInv' /\ Promise!Append1
           /\ Recover(segs') \o w'.buf = Append(Recover(segs) \o w.buf, rec)
           /\ Durable(segs') = Durable(segs)
<1> DEFINE lg == Recover(segs) \o w.buf
           lh == Recover(segs') \o w'.buf
<1>1. /\ LaidOut(segs') /\ segs'[w'.cur].named /\ w'.step = "idle"
      /\ Len(Recover(segs)) <= Len(Recover(segs'))
      /\ Durable(segs') = Durable(segs)
      /\ lh = Append(lg, rec)
  BY AppendView DEF SInv
<1>2. Begun'
  BY <1>1 DEF Begun
<1>3. SInv'
  BY <1>1, <1>2, StillDurable DEF SInv
<1>4. lg \in Seq(Records) /\ Len(Recover(segs)) \in Nat
  BY OpenLog DEF SInv
<1>5. /\ Len(Recover(segs')) \in Nat /\ Len(lh) \in Nat /\ Len(Recover(segs')) <= Len(lh)
  <2>1. Recover(segs') \in Seq(Records) /\ w'.buf \in Seq(Records)
    BY RecoverRecords, WriterFields DEF GInv, Typed
  <2>2. Len(lh) = Len(Recover(segs')) + Len(w'.buf)
    BY <2>1, ConcatProperties
  <2>3. Len(Recover(segs')) \in Nat /\ Len(w'.buf) \in Nat
    BY <2>1
  <2>4. QED
    BY <2>2, <2>3
<1> HIDE DEF lg, lh
<1>6. Len(lh) = Len(lg) + 1 /\ IsPrefix(lg, lh)
  <2>1. lh = lg \o <<rec>> /\ Len(lh) = Len(lg) + 1
    BY <1>1, <1>4, AppendIsConcat, AppendProperties
  <2>2. <<rec>> \in Seq(Records)
    BY <1>1
  <2> DEFINE x == <<rec>>
  <2> HIDE DEF x
  <2>3. x \in Seq(Records) /\ lh = lg \o x
    BY <2>1, <2>2 DEF x
  <2>4. IsPrefix(lg, lg \o x)
    BY <1>4, <2>3, PrefixOfConcat
  <2>5. QED
    BY <2>1, <2>3, <2>4
<1>7. Len(Recover(segs')) \in Len(Recover(segs)) .. Len(lh)
  BY <1>1, <1>4, <1>5
<1>8. Promise!Append1
  BY <1>1, <1>6, <1>7 DEF Promise!Append1, Promise!IsPrefix, IsPrefix, lg, lh
<1>9. QED
  BY <1>1, <1>3, <1>8 DEF lg, lh

LEMMA AppendRecordPromise ==
    ASSUME GInv, GInv', SInv, AppendRecord
    PROVE  SInv' /\ Promise!Append1
<1>1. node = "up" /\ node' = "up" /\ book' = book /\ ids < MaxRecords
      /\ (AppendFits(NextRecord) \/ AppendRotated(NextRecord))
  BY DEF AppendRecord
<1>2. pos \in Nat /\ ids \in Nat /\ pos <= ids
  BY <1>1, AppendTarget, LogBoundsAssumption DEF GInv, Typed
<1>3. NextRecord \in Records /\ NextRecord.seq = pos + 1
  BY <1>1, <1>2, NextRecordType
<1>4. ids + 1 \in Nat /\ ids <= ids + 1 /\ pos + 1 <= ids + 1
  BY <1>2
<1>5. QED
  BY <1>1, <1>3, <1>4, AppendPromise

(* What is in the files ends where the Writer's segment does. *)
LEMMA LogLength ==
    ASSUME GInv, LaidOut(segs), w.state = "open"
    PROVE  Len(Recover(segs)) + 1 = w.cur + Len(segs[w.cur].recs)
<1>1. PICK N : N = w.cur
  OBVIOUS
<1>2. SegsOK(segs, ids) /\ Newest(segs, N) /\ segs[N].recs \in Seq(Records)
  BY <1>1, OpenSegment DEF GInv
<1> DEFINE B == Recover(Below(segs, N))
           s == segs[N].recs
<1>3. B \in Seq(Records) /\ Len(B) = N - 1 /\ Recover(segs) = B \o s /\ N \in Nat
  BY <1>2, View
<1>4. s \in Seq(Records)
  BY <1>2
<1> HIDE DEF B, s
<1>5. Len(B \o s) = Len(B) + Len(s) /\ Len(s) \in Nat
  BY <1>3, <1>4, ConcatProperties
<1>6. Len(Recover(segs)) + 1 = N + Len(s)
  BY <1>3, <1>5
<1>7. QED
  BY <1>1, <1>6 DEF s

(* A Sync, with the log as it is or in a rotation. *)
LEMMA SyncPromise ==
    ASSUME GInv, SInv, w.state = "open", node = "up", node' = "up",
           segs' = Fsynced(Flushed), w'.buf = <<>>
    PROVE  /\ LaidOut(segs') /\ segs'[w.cur].named /\ Durable(segs') = Recover(segs')
           /\ Recover(segs') = Recover(segs) \o w.buf
           /\ \A n \in DOMAIN segs' : OnDisk(segs'[n])
           /\ Promise!Sync
<1> DEFINE R == Recover(segs)
           S == Recover(segs')
           b == w.buf
           c == w'.buf
<1>1. LaidOut(segs) /\ segs[w.cur].named
  BY DEF SInv, Begun
<1>2. /\ LaidOut(segs') /\ segs'[w.cur].named /\ S = R \o b /\ Durable(segs') = S
      /\ \A n \in DOMAIN segs' : OnDisk(segs'[n])
  BY <1>1, SyncedView
<1>3. R \o b \in Seq(Records) /\ c = <<>>
  BY <1>1, OpenLog
<1> HIDE DEF R, S, b, c
<1>4. S \o c = R \o b /\ Len(S) = Len(R \o b) /\ Len(Durable(segs')) = Len(R \o b)
  BY <1>2, <1>3, ConcatEmptySeq
<1>5. Promise!Sync
  BY <1>4 DEF Promise!Sync, R, S, b, c
<1>6. QED
  BY <1>2, <1>5 DEF R, S, b

LEMMA CommitPromise ==
    ASSUME GInv, GInv', SInv, Commit
    PROVE  SInv' /\ Promise!Sync
<1>1. /\ node = "up" /\ node' = "up" /\ w.step = "idle" /\ segs' = Fsynced(Flushed)
      /\ w' = [w EXCEPT !.buf = <<>>] /\ book' = Recover(segs')
  BY DEF Commit, Sync
<1>2. w.state = "open" /\ w \in Writer
  BY <1>1, UpIsReady DEF GInv, Typed
<1>3. w'.buf = <<>> /\ w'.cur = w.cur /\ w'.step = "idle"
  BY <1>1, <1>2 DEF Writer
<1>4. /\ LaidOut(segs') /\ segs'[w.cur].named /\ Durable(segs') = Recover(segs')
      /\ Promise!Sync
  BY <1>1, <1>2, <1>3, SyncPromise
<1>5. Begun'
  BY <1>3, <1>4 DEF Begun
<1>6. BookSurvives'
  BY <1>1, <1>4, BookIsDurable
<1>7. SInv'
  BY <1>4, <1>5, <1>6 DEF SInv
<1>8. QED
  BY <1>4, <1>7

LEMMA RotatePromise ==
    ASSUME GInv, GInv', SInv, node = "up", NEW rec, Rotate(rec), UNCHANGED ownerVars
    PROVE  SInv' /\ Promise!Sync /\ Recover(segs') = Recover(segs) \o w.buf /\ w'.buf = <<>>
<1>1. /\ w.step = "idle" /\ node' = "up" /\ book' = book /\ pos' = pos
      /\ w' = [Closed EXCEPT !.step = "create", !.first = rec.seq]
  BY DEF Rotate, CloseOK, ownerVars
<1>2. w.state = "open" /\ Ready(segs, w, pos) /\ w \in Writer /\ pos \in Nat
  BY <1>1, UpIsReady DEF GInv, Typed
<1>3. segs' = Fsynced(Flushed)
  BY <1>2 DEF Rotate, CloseOK
<1>4. w'.state = "closed" /\ w'.step = "create" /\ w'.buf = <<>>
  <2>1. Closed \in Writer /\ Closed.state = "closed" /\ Closed.buf = <<>>
    BY <1>2, ClosedType
  <2>2. QED
    BY <1>1, <2>1 DEF Writer
<1>5. w'.first = pos + 1
  BY <1>1, <1>4 DEF GInv, Placed
<1>6. /\ LaidOut(segs') /\ Durable(segs') = Recover(segs')
      /\ Recover(segs') = Recover(segs) \o w.buf
      /\ (\A n \in DOMAIN segs' : OnDisk(segs'[n])) /\ Promise!Sync
  BY <1>1, <1>2, <1>3, <1>4, SyncPromise
<1>7. Len(Recover(segs')) = w'.first - 1
  <2> DEFINE a == Len(segs[w.cur].recs)
             b == Len(w.buf)
             c == w.cur
             r == Len(Recover(segs))
  <2>1. r + 1 = c + a /\ pos + 1 = c + a + b
    BY <1>2, LogLength DEF SInv, Ready
  <2>2. Len(Recover(segs')) = r + b /\ r \in Nat /\ b \in Nat
    BY <1>6, OpenLog DEF SInv
  <2>3. a \in Nat /\ c \in Nat
    BY <1>2, OpenSegment
  <2> HIDE DEF a, b, c, r
  <2>4. r + b = (pos + 1) - 1
    BY <1>2, <2>1, <2>2, <2>3
  <2>5. QED
    BY <1>5, <2>2, <2>4
<1>8. Begun'
  BY <1>4, <1>6, <1>7 DEF Begun
<1>9. BookSurvives'
  <2>1. w.buf \in Seq(Records)
    BY <1>2, WriterFields
  <2>2. QED
    BY <1>1, <1>6, <2>1, StillDurable
<1>10. SInv'
  BY <1>6, <1>8, <1>9 DEF SInv
<1>11. QED
  BY <1>4, <1>6, <1>10

(* The Writer fails or is closed, with a part of what it held in the files. *)
LEMMA EmptiedPromise ==
    ASSUME GInv, GInv', SInv, w.state = "open", Emptied, w'.buf = <<>>, w'.cur = w.cur,
           w'.step = "idle", book' = book, node \in {"up", "failed"},
           node' \in {"failed", "stopped"}
    PROVE  SInv' /\ Promise!Fail
<1> DEFINE R == Recover(segs)
           S == Recover(segs')
           b == w.buf
           c == w'.buf
<1>1. LaidOut(segs) /\ segs[w.cur].named
  BY DEF SInv, Begun
<1>2. /\ LaidOut(segs') /\ segs'[w.cur].named
      /\ \E n \in 0 .. Len(b) : S = R \o SubSeq(b, 1, n)
      /\ Durable(segs') = Durable(segs) \/ Durable(segs') = S
  BY <1>1, EmptiedView
<1>3. R \in Seq(Records) /\ b \in Seq(Records) /\ c = <<>> /\ R \o b \in Seq(Records)
  BY <1>1, OpenLog
<1> HIDE DEF R, S, b, c
<1>4. PICK n \in 0 .. Len(b) : S = R \o SubSeq(b, 1, n)
  BY <1>2
<1> DEFINE x == SubSeq(b, 1, n)
<1>5. x \in Seq(Records) /\ IsPrefix(x, b)
  BY <1>3, Cut, PrefixCut
<1>6. S = R \o x
  BY <1>4
<1> HIDE DEF x
<1>7. S \in Seq(Records) /\ IsPrefix(S, R \o b) /\ Len(S) = Len(R) + Len(x)
  BY <1>3, <1>5, <1>6, ConcatPrefix, ConcatProperties
<1>8. S \o c = S
  BY <1>3, <1>7, ConcatEmptySeq
<1>9. Len(S) \in Len(R) .. Len(S)
  <2>1. Len(R) \in Nat /\ Len(x) \in Nat /\ Len(S) \in Nat
    BY <1>3, <1>5, <1>7
  <2>2. QED
    BY <1>7, <2>1
<1>10. Len(Durable(segs')) = Len(Durable(segs)) \/ Len(Durable(segs')) = Len(S)
  BY <1>2
<1>11. Promise!Fail
  <2>1. Promise!IsPrefix(S \o c, R \o b)
    BY <1>7, <1>8 DEF Promise!IsPrefix, IsPrefix
  <2>2. Len(S) \in Len(R) .. Len(S \o c)
    BY <1>8, <1>9
  <2>3. QED
    BY <1>10, <2>1, <2>2 DEF Promise!Fail, R, S, b, c
<1>12. Begun'
  BY <1>2 DEF Begun
<1>13. BookSurvives'
  BY <1>2, <1>5, <1>6, StillDurable DEF R, S
<1>14. SInv'
  BY <1>2, <1>12, <1>13 DEF SInv
<1>15. QED
  BY <1>11, <1>14

(* ... or with everything as it was. *)
LEMMA UnmovedPromise ==
    ASSUME GInv, GInv', SInv, segs' = segs, w'.buf = w.buf, w'.step = "idle",
           w'.state = "open" => w.state = "open" /\ w'.cur = w.cur,
           book' = book, node \in {"up", "failed"}, node' \in {"failed", "stopped"}
    PROVE  SInv' /\ Promise!Fail
<1> DEFINE R == Recover(segs)
           b == w.buf
<1>1. R \o b \in Seq(Records) /\ Len(R) \in Nat /\ Len(b) \in Nat
      /\ Len(R \o b) = Len(R) + Len(b)
  BY OpenLog DEF SInv
<1>2. SInv'
  BY DEF SInv, Begun, BookSurvives
<1>3. Recover(segs') \o w'.buf = R \o b /\ Len(Recover(segs')) = Len(R)
      /\ Len(Durable(segs')) = Len(Durable(segs))
  OBVIOUS
<1> HIDE DEF R, b
<1>4. Len(R) \in Len(R) .. Len(R \o b)
  BY <1>1
<1>5. Promise!IsPrefix(R \o b, R \o b)
  <2>1. Len(R \o b) \in Nat /\ Len(R \o b) <= Len(R \o b)
    BY <1>1
  <2>2. QED
    BY <2>1 DEF Promise!IsPrefix
<1>6. Promise!Fail
  BY <1>3, <1>4, <1>5 DEF Promise!Fail, R, b
<1>7. QED
  BY <1>2, <1>6

LEMMA CommitFailsPromise ==
    ASSUME GInv, GInv', SInv, CommitFails
    PROVE  SInv' /\ Promise!Fail
<1>1. /\ node = "up" /\ node' = "failed" /\ book' = book
      /\ AppendFails(NextRecord) \/ RotateFails \/ SyncFails \/ OpenSegmentFails
  BY DEF CommitFails
<1>2. node \in {"up", "failed"} /\ node' \in {"failed", "stopped"}
  BY <1>1
<1>3. CASE w.step = "idle"
  <2>1. w.state = "open"
    BY <1>1, <1>3, UpIsReady
  <2>2. AppendFails(NextRecord) \/ RotateFails \/ SyncFails
    BY <1>1, <1>3 DEF OpenSegmentFails
  <2>3. CASE UNCHANGED walVars
    <3>1. segs' = segs /\ w' = w
      BY <2>3 DEF walVars
    <3>2. /\ w'.buf = w.buf /\ w'.step = "idle"
          /\ w'.state = "open" => w.state = "open" /\ w'.cur = w.cur
      BY <1>3, <3>1
    <3>3. QED
      BY <1>1, <1>2, <3>1, <3>2, UnmovedPromise
  <2>4. CASE ~UNCHANGED walVars
    <3>1. Emptied /\ w'.cur = w.cur /\ w'.buf = <<>> /\ w'.step = "idle"
      BY <2>1, <2>2, <2>4, FailureShape
    <3>2. QED
      BY <1>1, <1>2, <2>1, <3>1, EmptiedPromise
  <2>5. QED
    BY <2>3, <2>4
<1>4. CASE w.step # "idle"
  <2>1. OpenSegmentFails
    BY <1>1, <1>4 DEF AppendFails, RotateFails, CloseFails, SyncFails
  <2>2. w' = [w EXCEPT !.step = "idle", !.first = 0] /\ segs' = segs /\ w \in Writer
    BY <2>1 DEF OpenSegmentFails, GInv, Typed
  <2>3. w'.state = w.state /\ w'.buf = w.buf /\ w'.step = "idle" /\ w'.cur = w.cur
    BY <2>2 DEF Writer
  <2>4. QED
    BY <1>1, <1>2, <2>2, <2>3, UnmovedPromise
<1>5. QED
  BY <1>3, <1>4

LEMMA ShutdownPromise ==
    ASSUME GInv, GInv', SInv, Shutdown
    PROVE  SInv' /\ Promise!Fail
<1>1. /\ w.step = "idle" /\ (CloseOK \/ CloseFails) /\ w' = Closed /\ book' = book
      /\ node \in {"up", "failed"} /\ node' = "stopped"
  BY DEF Shutdown, Close, CloseOK, CloseFails
<1>2. w \in Writer /\ node' \in {"failed", "stopped"}
  BY <1>1 DEF GInv, Typed
<1>3. w'.state = "closed" /\ w'.buf = <<>> /\ w'.step = "idle" /\ w'.cur = w.cur
  BY <1>1, <1>2, ClosedType
<1>4. CASE w.state = "open"
  <2>1. Emptied
    BY <1>1, <1>4, Closes
  <2>2. QED
    BY <1>1, <1>2, <1>3, <1>4, <2>1, EmptiedPromise
<1>5. CASE w.state # "open"
  <2>1. segs' = segs /\ w.buf = <<>>
    BY <1>1, <1>5 DEF CloseOK, CloseFails, GInv, Held
  <2>2. w'.buf = w.buf /\ ~(w'.state = "open")
    BY <1>3, <2>1
  <2>3. QED
    BY <1>1, <1>2, <1>3, <2>1, <2>2, UnmovedPromise
<1>6. QED
  BY <1>4, <1>5

(* A step that the owner of the log does not see. *)
LEMMA HiddenPromise ==
    ASSUME GInv, GInv', SInv, LaidOut(segs'), Begun', Recover(segs') = Recover(segs),
           Durable(segs') = Durable(segs), w'.buf = w.buf, node' = node, book' = book
    PROVE  SInv' /\ UNCHANGED Promise!logVars
<1>1. SInv'
  BY StillDurable DEF SInv
<1>2. UNCHANGED Promise!logVars
  BY DEF Promise!logVars
<1>3. QED
  BY <1>1, <1>2

LEMMA OpenSegmentPromise ==
    ASSUME GInv, GInv', SInv, OpenSegmentStep, UNCHANGED ownerVars
    PROVE  SInv' /\ UNCHANGED Promise!logVars
<1>1. node' = node /\ book' = book /\ w \in Writer
  BY DEF ownerVars, GInv, Typed
<1>2. LaidOut(segs') /\ Recover(segs') = Recover(segs) /\ Durable(segs') = Durable(segs)
  BY CreateView, HeaderView DEF OpenSegmentStep, SInv
<1>3. w'.buf = w.buf /\ w'.state = w.state /\ w'.step # "create" /\ w.step # "idle"
  BY <1>1 DEF OpenSegmentStep, CreateFile, WriteHeader, Writer
<1>4. Begun'
  BY <1>3 DEF Begun, GInv, Opening
<1>5. QED
  BY <1>1, <1>2, <1>3, <1>4, HiddenPromise

LEMMA RestartPromise ==
    ASSUME GInv, GInv', SInv, FsyncNames, Restart
    PROVE  SInv' /\ (Promise!Open \/ UNCHANGED Promise!logVars)
<1>1. node = "down" /\ w.buf = <<>> /\ w.state = "none" /\ LaidOut(segs)
  BY DEF Restart, GInv, Placed, Held, SInv
<1>2. CASE (OpenWriterOnNewest \/ FirstSegmentOpened) /\ Opened
  <2> DEFINE R == Recover(segs)
             S == Recover(segs')
             b == w.buf
             c == w'.buf
  <2>1. node' = "up" /\ book' = R
    BY <1>2 DEF Opened
  <2>2. /\ LaidOut(segs') /\ segs'[w'.cur].named
        /\ S = R /\ Durable(segs') = R /\ c = <<>>
    BY <1>1, <1>2, OpenedView, FirstView
  <2>3. w'.step = "idle"
    BY <1>2, NewestOpened, FirstOpened DEF Ready
  <2>4. BookSurvives'
    BY <2>1, <2>2, BookIsDurable
  <2>5. SInv'
    BY <2>2, <2>3, <2>4 DEF SInv, Begun
  <2>6. R \in Seq(Records) /\ b = <<>>
    BY <1>1, OpenLog
  <2> HIDE DEF R, S, b, c
  <2>7. S \o c = R \o b /\ Len(S) = Len(R \o b) /\ Len(Durable(segs')) = Len(R \o b)
    BY <2>2, <2>6, ConcatEmptySeq
  <2>8. Promise!Open
    BY <1>1, <2>1, <2>7 DEF Promise!Open, R, S, b, c
  <2>9. QED
    BY <2>5, <2>8
<1>3. CASE OpenWriterOnNothing /\ UNCHANGED ownerVars
  <2>1. /\ w = NoWriter /\ segs = <<>> /\ segs' = segs
        /\ w' = [w EXCEPT !.step = "create", !.first = 1]
        /\ node' = node /\ book' = book
    BY <1>3 DEF OpenWriterOnNothing, ownerVars
  <2>2. w'.buf = w.buf /\ w'.state = "none" /\ w'.first = 1
    BY <2>1, NoWriterType DEF Writer
  <2>3. DOMAIN segs = {}
    BY <2>1
  <2>4. Recover(segs) = <<>> /\ Len(<<>>) = 1 - 1
    BY <2>3, RecoverOfNone
  <2>5. Begun'
    BY <2>1, <2>2, <2>3, <2>4 DEF Begun
  <2>6. QED
    BY <1>1, <2>1, <2>2, <2>5, HiddenPromise
<1>4. QED
  BY <1>2, <1>3 DEF Restart

LEMMA RestartFailsPromise ==
    ASSUME GInv, GInv', SInv, RestartFails
    PROVE  SInv' /\ UNCHANGED Promise!logVars
<1>1. node = "down" /\ node' = node /\ book' = book /\ w \in Writer /\ w.state = "none"
      /\ LaidOut(segs)
  BY DEF RestartFails, GInv, Typed, Placed, SInv
<1>2. CASE OpenWriterFails
  <2>1. w = NoWriter /\ w' = w
    BY <1>2 DEF OpenWriterFails
  <2>2. LaidOut(segs') /\ Recover(segs') = Recover(segs) /\ Durable(segs') = Durable(segs)
    BY <1>1, <1>2, TruncatedView
  <2>3. Begun'
    BY <2>1, NoWriterType DEF Begun
  <2>4. QED
    BY <1>1, <2>1, <2>2, <2>3, HiddenPromise
<1>3. CASE OpenSegmentFails
  <2>1. w' = [w EXCEPT !.step = "idle", !.first = 0] /\ segs' = segs
    BY <1>3 DEF OpenSegmentFails
  <2>2. w'.buf = w.buf /\ w'.state = "none" /\ w'.step = "idle"
    BY <1>1, <2>1 DEF Writer
  <2>3. Begun'
    BY <2>2 DEF Begun
  <2>4. QED
    BY <1>1, <2>1, <2>2, <2>3, HiddenPromise
<1>4. QED
  BY <1>2, <1>3 DEF RestartFails

LEMMA HaltPromise ==
    ASSUME GInv, GInv', SInv, Halt
    PROVE  SInv' /\ Promise!Crash
<1> DEFINE R == Recover(segs)
           S == Recover(segs')
           b == w.buf
           c == w'.buf
<1>1. node' = "down" /\ book' = book /\ Crash /\ LaidOut(segs)
  BY DEF Halt, SInv
<1>2. w' = NoWriter
  BY <1>1 DEF Crash
<1>3. c = <<>> /\ w'.state = "none" /\ w'.step = "idle"
  BY <1>2, NoWriterType
<1>4. /\ LaidOut(segs') /\ Durable(segs') = Durable(segs)
      /\ \E k \in Len(Durable(segs)) .. Len(R) : S = SubSeq(R, 1, k)
  BY <1>1, CrashView
<1>5. /\ R \in Seq(Records) /\ b \in Seq(Records) /\ Len(R) \in Nat
      /\ Len(Durable(segs)) \in Nat
  BY <1>1, OpenLog
<1> HIDE DEF R, S, b, c
<1>6. PICK k \in Len(Durable(segs)) .. Len(R) : S = SubSeq(R, 1, k)
  BY <1>4
<1>7. k \in 0 .. Len(R)
  BY <1>5, <1>6
<1>8. S \in Seq(Records) /\ Len(S) = k /\ SubSeq(R \o b, 1, k) = S
  BY <1>5, <1>6, <1>7, Cut, CutOfConcat
<1>9. S \o c = SubSeq(R \o b, 1, k)
  BY <1>3, <1>8, ConcatEmptySeq
<1>10. Promise!Crash
  BY <1>1, <1>4, <1>6, <1>8, <1>9 DEF Promise!Crash, R, S, b, c
<1>11. SInv'
  <2>1. Begun'
    BY <1>3 DEF Begun
  <2>2. BookSurvives'
    BY <1>1, <1>4, StillDurable
  <2>3. QED
    BY <1>4, <2>1, <2>2 DEF SInv
<1>12. QED
  BY <1>10, <1>11

LEMMA UnchangedPromise ==
    ASSUME SInv, UNCHANGED vars
    PROVE  SInv' /\ UNCHANGED Promise!logVars
<1>1. UNCHANGED <<segs, w, node, book>>
  BY DEF vars, walVars, ownerVars
<1>2. SInv'
  BY <1>1 DEF SInv, Begun, BookSurvives
<1>3. UNCHANGED Promise!logVars
  BY <1>1 DEF Promise!logVars
<1>4. QED
  BY <1>2, <1>3

LEMMA InitSInv == Init => SInv /\ Promise!Init
<1> SUFFICES ASSUME Init PROVE SInv /\ Promise!Init
  OBVIOUS
<1>1. segs = <<>> /\ w = NoWriter /\ node = "down" /\ book = <<>> /\ GInv
  BY InitGInv DEF Init
<1>2. DOMAIN segs = {} /\ w.state = "none" /\ w.step = "idle" /\ w.buf = <<>>
  BY <1>1, NoWriterType
<1>3. Recover(segs) = <<>> /\ Durable(segs) = <<>>
  <2>1. SegsOK(segs, ids)
    BY <1>1 DEF GInv
  <2>2. QED
    BY <1>2, <2>1, RecoverOfNone, DurableAll
<1>4. <<>> \in Seq(Records) /\ Len(<<>>) = 0 /\ <<>> \o <<>> = <<>>
  BY EmptySeq, ConcatEmptySeq
<1>5. LaidOut(segs)
  BY <1>2, <1>3, <1>4 DEF LaidOut, Exact, Dense, Settled, NumberedFrom
<1>6. BookSurvives
  BY <1>1, <1>3, <1>4, NothingIsPrefix DEF BookSurvives
<1>7. SInv
  BY <1>2, <1>5, <1>6 DEF SInv, Begun
<1>8. Promise!Init
  BY <1>1, <1>2, <1>3, <1>4 DEF Promise!Init
<1>9. QED
  BY <1>7, <1>8

LEMMA NextSInv ==
    ASSUME FsyncNames, GInv, SInv, [Next]_vars
    PROVE  SInv' /\ [Promise!Next]_(Promise!logVars)
<1>1. GInv'
  BY NextGInv
<1>2. CASE AppendRecord
  BY <1>1, <1>2, AppendRecordPromise DEF Promise!Next
<1>3. CASE RotateStep
  BY <1>1, <1>3, RotatePromise, OpenSegmentPromise DEF RotateStep, Promise!Next
<1>4. CASE Commit
  BY <1>1, <1>4, CommitPromise DEF Promise!Next
<1>5. CASE CommitFails
  BY <1>1, <1>5, CommitFailsPromise DEF Promise!Next
<1>6. CASE Shutdown
  BY <1>1, <1>6, ShutdownPromise DEF Promise!Next
<1>7. CASE Restart
  BY <1>1, <1>7, RestartPromise DEF Promise!Next
<1>8. CASE RestartFails
  BY <1>1, <1>8, RestartFailsPromise
<1>9. CASE Halt
  BY <1>1, <1>9, HaltPromise DEF Promise!Next
<1>10. CASE RestartRefused \/ Finished \/ UNCHANGED vars
  BY <1>10, UnchangedPromise DEF RestartRefused, Finished
<1>11. QED
  BY <1>2, <1>3, <1>4, <1>5, <1>6, <1>7, <1>8, <1>9, <1>10 DEF Next

LEMMA AlwaysSInv == FsyncNames => (Spec => [](GInv /\ SInv))
<1> SUFFICES ASSUME FsyncNames PROVE Spec => [](GInv /\ SInv)
  OBVIOUS
<1>1. GInv /\ SInv /\ [Next]_vars => (GInv /\ SInv)'
  BY NextGInv, NextSInv
<1>2. Init => GInv /\ SInv
  BY InitGInv, InitSInv
<1>3. QED
  BY <1>1, <1>2, PTL DEF Spec

(* On a file system that makes a file's name durable with its data, nothing the
   book was given can be lost: it is the beginning of what survives a crash, at
   every system call of a commit, a rotation, a failure or a restart, for any
   number of records, segments, faults and crashes. *)
THEOREM AcknowledgedSurvives == FsyncNames => (Spec => []BookSurvives)
<1>1. GInv /\ SInv => BookSurvives
  BY DEF SInv
<1>2. QED
  BY <1>1, AlwaysSInv, PTL

(* The records of the log and of the Writer are numbered 1, 2, 3, ... and every
   segment is named for the position of its first record, through rotations,
   failed batches, crashes and restarts: LastPosition never reissues a position,
   nor skips one. *)
THEOREM NumbersExact == FsyncNames => (Spec => []PositionsExact)
<1>1. ASSUME GInv, SInv PROVE PositionsExact
  <2> DEFINE R == Recover(segs)
             b == w.buf
  <2>1. R \in Seq(Records) /\ b \in Seq(Records) /\ R \o b \in Seq(Records)
        /\ Len(R) \in Nat
    BY <1>1, OpenLog DEF SInv
  <2>2. NumberedFrom(R, 1)
    BY <1>1 DEF SInv, LaidOut, Dense
  <2>3. NumberedFrom(b, 1 + Len(R))
    <3>1. CASE w.state = "open"
      <4>1. Len(R) + 1 = w.cur + Len(segs[w.cur].recs)
        BY <1>1, <3>1, LogLength DEF SInv
      <4>2. NumberedFrom(b, w.cur + Len(segs[w.cur].recs))
        BY <1>1, <3>1, OpenSegment
      <4>3. 1 + Len(R) = Len(R) + 1
        BY <2>1
      <4>4. QED
        BY <4>1, <4>2, <4>3
    <3>2. CASE w.state # "open"
      <4>1. b = <<>> /\ Len(<<>>) = 0
        BY <1>1, <3>2 DEF GInv, Held
      <4>2. QED
        BY <4>1 DEF NumberedFrom
    <3>3. QED
      BY <3>1, <3>2
  <2> HIDE DEF R, b
  <2>4. NumberedFrom(R \o b, 1)
    BY <2>1, <2>2, <2>3, NumberedConcat
  <2>5. DOMAIN (R \o b) = 1 .. Len(R \o b)
    BY <2>1
  <2>6. \A k \in DOMAIN (R \o b) : (R \o b)[k].seq = k
    <3>1. \A k \in 1 .. Len(R \o b) : 1 + k - 1 = k
      OBVIOUS
    <3>2. QED
      BY <2>4, <2>5, <3>1 DEF NumberedFrom
  <2>7. PositionsDense
    BY <2>6 DEF PositionsDense, R, b
  <2>8. NamesExact
    <3>1. SUFFICES ASSUME NEW n \in DOMAIN segs PROVE n = 1 + Len(Recover(Below(segs, n)))
      BY DEF NamesExact, Below
    <3>2. /\ Len(Recover(Below(segs, n))) = n - 1 /\ n \in Nat
      BY <1>1, LogBoundsAssumption DEF SInv, LaidOut, Exact, GInv, SegsOK
    <3>3. QED
      BY <3>2
  <2>9. QED
    BY <2>7, <2>8 DEF PositionsExact
<1>2. QED
  BY <1>1, AlwaysSInv, PTL

(* The segment files and the Writer implement the log its owner is promised
   (module LogSpec): records are added at the end, a Sync that returns nil makes
   all of them durable, a failure or a crash takes records from the end only and
   never a durable one, and what is opened again is all that was left. *)
THEOREM KeepsLogPromise == FsyncNames => (Spec => ImplementsLogSpec)
<1> SUFFICES ASSUME FsyncNames PROVE Spec => ImplementsLogSpec
  OBVIOUS
<1>1. GInv /\ SInv /\ [Next]_vars => [Promise!Next]_(Promise!logVars)
  BY NextSInv
<1>2. Init => Promise!Init
  BY InitSInv
<1>3. QED
  BY <1>1, <1>2, AlwaysSInv, PTL DEF Spec, ImplementsLogSpec, Promise!Spec

-----------------------------------------------------------------------------
(* What a reader of the files may rely on while the log is written.        *)

LEMMA AsWal ==
    ASSUME GInv
    PROVE  WalOK(Records, MaxRecords) /\ NumberedTo(Records, MaxRecords)
<1>1. FilesOf(Records, MaxRecords, segs)
  BY DEF GInv, SegsOK, FileOK, FilesOf
<1>2. w \in WriterOf(Records)
  BY DEF GInv, Typed, Writer, WriterOf
<1>3. w.state \in {"open", "latched"} => w.cur \in DOMAIN segs
  BY DEF GInv, Held, Newest
<1>4. w.step # "idle" => w.first \in 1 .. MaxRecords
  BY DEF GInv, Opening
<1>5. w.step \in {"header", "sync"} => w.first \in DOMAIN segs /\ segs[w.first].recs = <<>>
  BY DEF GInv, Opening, Newest
<1>6. NumberedTo(Records, MaxRecords)
  BY RecordFields DEF NumberedTo
<1>7. QED
  BY <1>1, <1>2, <1>3, <1>4, <1>5, <1>6 DEF WalOK, WalTyped

(* Without a crash a file only grows. *)
LEMMA Grows ==
    ASSUME GInv, Next, crashes' = crashes
    PROVE  Extended(Records, segs, segs')
<1>1. /\ WalOK(Records, MaxRecords) /\ NumberedTo(Records, MaxRecords) /\ MaxRecords \in Nat
      /\ FilesOf(Records, MaxRecords, segs)
  BY AsWal, LogBoundsAssumption DEF WalOK, WalTyped
<1>2. ASSUME segs' = segs PROVE Extended(Records, segs, segs')
  BY <1>1, <1>2, ExtendedSelf
<1>3. ASSUME node = "up", ids < MaxRecords PROVE NextRecord \in Records
  <2>1. pos <= ids /\ pos \in Nat /\ ids \in Nat
    <3>1. pos \in Nat /\ ids \in Nat
      BY DEF GInv, Typed
    <3>2. CASE w.step = "idle"
      BY <1>3, <3>1, <3>2, UpIsReady
    <3>3. CASE w.step # "idle"
      <4>1. w.first = pos + 1 /\ w.first <= ids + 1
        BY <1>3, <3>3 DEF GInv, Opening, Placed
      <4>2. QED
        BY <3>1, <4>1
    <3>4. QED
      BY <3>1, <3>2, <3>3
  <2>2. QED
    BY <1>3, <2>1, NextRecordType
<1>4. CASE AppendRecord
  <2>1. NextRecord \in Records /\ (AppendFits(NextRecord) \/ AppendRotated(NextRecord))
    BY <1>3, <1>4 DEF AppendRecord
  <2>2. QED
    BY <1>1, <2>1, AppendFitsOf, AppendRotatedOf
<1>5. ASSUME CreateFile PROVE Extended(Records, segs, segs')
  <2>1. w.first \notin DOMAIN segs
    BY <1>5 DEF CreateFile, GInv, Opening
  <2>2. /\ DOMAIN segs' = DOMAIN segs \cup {w.first}
        /\ \A m \in DOMAIN segs : m # w.first => segs'[m] = segs[m]
    BY <1>1, <1>5, CreateFileOf
  <2>3. \A m \in DOMAIN segs : Extends(Records, segs[m], segs[m])
    BY <1>1, ExtendsSelf DEF FilesOf
  <2>4. QED
    BY <2>1, <2>2, <2>3 DEF Extended
<1>6. CASE RotateStep
  <2>1. CASE node = "up" /\ ids < MaxRecords /\ Rotate(NextRecord)
    BY <1>1, <1>3, <2>1, RotateOf
  <2>2. CASE WriteHeader
    BY <1>1, <2>2, WriteHeaderOf
  <2>3. QED
    BY <1>5, <1>6, <2>1, <2>2 DEF RotateStep, OpenSegmentStep
<1>7. CASE Commit
  BY <1>1, <1>7, SyncOf DEF Commit
<1>8. CASE CommitFails
  <2>1. CASE AppendFails(NextRecord)
    <3>1. \/ UNCHANGED walVars
          \/ w.state = "open" /\ FlushPart(Append(w.buf, NextRecord))
      BY <2>1 DEF AppendFails
    <3>2. CASE UNCHANGED walVars
      BY <1>2, <3>2 DEF walVars
    <3>3. CASE w.state = "open" /\ FlushPart(Append(w.buf, NextRecord))
      <4>1. \E n \in 0 .. Len(w.buf) : \E f \in File(Records) :
              Flushes(f, n) /\ segs' = [segs EXCEPT ![w.cur] = f]
        BY <3>3, AppendFailsFile DEF Emptied
      <4>2. PICK n \in 0 .. Len(w.buf), f \in File(Records) :
              Flushes(f, n) /\ segs' = [segs EXCEPT ![w.cur] = f]
        BY <4>1
      <4>3. PICK s : s = SubSeq(w.buf, 1, n)
        OBVIOUS
      <4>4. w.buf \in Seq(Records) /\ w.cur \in DOMAIN segs /\ segs[w.cur].synced <= Len(segs[w.cur].recs)
            /\ segs[w.cur].recs \in Seq(Records) /\ segs[w.cur].synced \in Nat
        BY <3>3, OpenSegment
      <4>5. s \in Seq(Records)
        BY <4>3, <4>4, Cut
      <4>6. f.recs = segs[w.cur].recs \o s /\ f.synced <= Len(f.recs)
            /\ (f.synced = segs[w.cur].synced \/ f.synced = Len(f.recs))
        BY <4>2, <4>3 DEF Flushes, FileOK
      <4>7. segs[w.cur].synced <= f.synced
        BY <4>4, <4>5, <4>6
      <4>8. segs[w.cur].named => f.named
        <5>1. \/ f.named = segs[w.cur].named
              \/ f.named = (segs[w.cur].named \/ FsyncNames)
          BY <4>2, Zenon DEF Flushes
        <5>2. QED
          BY <5>1, Zenon
      <4>9. Extends(Records, segs[w.cur], f) /\ Replaced(segs, w.cur, f, segs')
        BY <4>2, <4>5, <4>6, <4>7, <4>8 DEF Extends, Replaced
      <4>10. QED
        BY <1>1, <4>4, <4>6, <4>9, CurrentOf
    <3>4. QED
      BY <3>1, <3>2, <3>3
  <2>2. CASE RotateFails
    BY <1>1, <2>2, CloseOf DEF RotateFails
  <2>3. CASE SyncFails
    BY <1>1, <2>3, SyncFailsOf
  <2>4. CASE OpenSegmentFails
    BY <1>1, <2>4, OpenSegmentFailsOf
  <2>5. QED
    BY <1>8, <2>1, <2>2, <2>3, <2>4 DEF CommitFails
<1>9. CASE Shutdown
  BY <1>1, <1>9, CloseOf DEF Shutdown, Close
<1>10. CASE Restart
  BY <1>1, <1>2, <1>10, OnNewestOf, FirstOpenedOf DEF Restart, OpenWriterOnNothing
<1>11. CASE RestartFails
  BY <1>1, <1>11, OpenFailsOf, OpenSegmentFailsOf DEF RestartFails
<1>12. CASE RestartRefused \/ Finished
  BY <1>2, <1>12 DEF RestartRefused, Finished, vars, walVars
<1>13. ~Halt
  BY DEF Halt, GInv, Typed
<1>14. QED
  BY <1>4, <1>6, <1>7, <1>8, <1>9, <1>10, <1>11, <1>12, <1>13 DEF Next

LEMMA PrefixOfCut ==
    ASSUME NEW s \in Seq(Records), NEW t \in Seq(Records), NEW x \in Seq(Records),
           NEW y \in Seq(Records), IsPrefix(s \o x, t \o y), Len(s) <= Len(t)
    PROVE  IsPrefix(s, t)
<1>1. s \o x \in Seq(Records) /\ t \o y \in Seq(Records)
  OBVIOUS
<1>2. /\ \A k \in 1 .. Len(s) : (s \o x)[k] = s[k]
      /\ \A k \in 1 .. Len(t) : (t \o y)[k] = t[k]
      /\ Len(s) <= Len(s \o x) /\ Len(s) \in Nat /\ Len(t) \in Nat /\ Len(s \o x) \in Nat
  OBVIOUS
<1>3. PICK a \in Seq(Records) : a = s \o x
  BY <1>1
<1>4. PICK b \in Seq(Records) : b = t \o y
  BY <1>1
<1>5. \A k \in 1 .. Len(a) : a[k] = b[k]
  BY <1>3, <1>4, PrefixElements
<1>6. \A k \in 1 .. Len(s) : s[k] = t[k]
  BY <1>2, <1>3, <1>4, <1>5
<1>7. QED
  BY <1>6, PrefixElements

LEMMA PrefixSelf ==
    ASSUME NEW s \in Seq(Records) PROVE IsPrefix(s, s)
BY PrefixElements

LEMMA PrefixBoth ==
    ASSUME NEW s \in Seq(Records), NEW t \in Seq(Records), NEW u \in Seq(Records),
           IsPrefix(s, u), IsPrefix(t, u), Len(s) <= Len(t)
    PROVE  IsPrefix(s, t)
<1>1. /\ Len(s) <= Len(u) /\ \A k \in 1 .. Len(s) : s[k] = u[k]
      /\ \A k \in 1 .. Len(t) : t[k] = u[k]
  BY PrefixElements
<1>2. \A k \in 1 .. Len(s) : s[k] = t[k]
  BY <1>1
<1>3. QED
  BY <1>2, PrefixElements

(* Without a crash no record that is in the files is lost or replaced. *)
LEMMA NothingRewound ==
    ASSUME FsyncNames, GInv, SInv, Next, crashes' = crashes
    PROVE  IsPrefix(Recover(segs), Recover(segs'))
<1>1. GInv' /\ SInv'
  BY NextGInv, NextSInv
<1>2. /\ Recover(segs) \in Seq(Records) /\ w.buf \in Seq(Records)
      /\ Len(Recover(segs)) \in Nat
      /\ Len(Recover(segs) \o w.buf) = Len(Recover(segs)) + Len(w.buf)
  BY OpenLog DEF SInv
<1>3. /\ Recover(segs') \in Seq(Records) /\ w'.buf \in Seq(Records)
      /\ Len(Recover(segs')) \in Nat
      /\ Len(Recover(segs') \o w'.buf) = Len(Recover(segs')) + Len(w'.buf)
  <2>1. LaidOut(segs')
    BY <1>1 DEF SInv
  <2>2. (GInv /\ LaidOut(segs) => /\ Recover(segs) \in Seq(Records) /\ w.buf \in Seq(Records)
      /\ Len(Recover(segs)) \in Nat
      /\ Len(Recover(segs) \o w.buf) = Len(Recover(segs)) + Len(w.buf))'
    BY OpenLog, PTL
  <2>3. QED
    BY <1>1, <2>1, <2>2
<1> DEFINE R == Recover(segs)
           b == w.buf
           T == Recover(segs')
           c == w'.buf
<1>4. ASSUME IsPrefix(R \o b, T \o c), Len(R) <= Len(T) PROVE IsPrefix(R, T)
  <2> HIDE DEF R, b, T, c
  <2>1. R \in Seq(Records) /\ b \in Seq(Records) /\ T \in Seq(Records) /\ c \in Seq(Records)
    BY <1>2, <1>3 DEF R, b, T, c
  <2>2. QED
    BY <1>4, <2>1, PrefixOfCut
<1>5. ASSUME T \o c = R \o b, Len(R) <= Len(T) PROVE IsPrefix(R, T)
  <2>1. R \o b \in Seq(Records)
    BY <1>2
  <2>2. IsPrefix(R \o b, R \o b)
    BY <2>1, PrefixSelf
  <2>3. QED
    BY <1>4, <1>5, <2>2
<1>6. ASSUME Promise!Append1 PROVE IsPrefix(R, T)
  <2>1. /\ IsPrefix(R \o b, T \o c)
        /\ Len(T) \in Len(R) .. Len(T \o c) \/ Len(T) = Len(R \o b)
    BY <1>6 DEF Promise!Append1, Promise!IsPrefix, IsPrefix
  <2>2. Len(R) <= Len(T)
    BY <1>2, <1>3, <2>1
  <2>3. QED
    BY <1>4, <2>1, <2>2
<1>7. ASSUME Promise!Sync \/ Promise!Open PROVE IsPrefix(R, T)
  <2>1. T \o c = R \o b /\ Len(T) = Len(R \o b)
    BY <1>7 DEF Promise!Sync, Promise!Open
  <2>2. Len(R) <= Len(T)
    BY <1>2, <1>3, <2>1
  <2>3. QED
    BY <1>5, <2>1, <2>2
<1>8. ASSUME UNCHANGED Promise!logVars PROVE IsPrefix(R, T)
  <2>1. T \o c = R \o b /\ Len(T) = Len(R)
    BY <1>8 DEF Promise!logVars
  <2>2. QED
    BY <1>2, <1>5, <2>1
<1>9. ASSUME Promise!Fail PROVE IsPrefix(R, T)
  <2>1. IsPrefix(T \o c, R \o b) /\ Len(T) \in Len(R) .. Len(T \o c)
    BY <1>9 DEF Promise!Fail, Promise!IsPrefix, IsPrefix
  <2>2. Len(R) <= Len(T)
    BY <1>2, <1>3, <2>1
  <2> HIDE DEF R, b, T, c
  <2>3. R \in Seq(Records) /\ b \in Seq(Records) /\ T \in Seq(Records) /\ c \in Seq(Records)
    BY <1>2, <1>3 DEF R, b, T, c
  <2>4. PICK u : u = R \o b
    OBVIOUS
  <2>5. PICK v : v = T \o c
    OBVIOUS
  <2>6. u \in Seq(Records) /\ v \in Seq(Records)
    BY <2>3, <2>4, <2>5
  <2>7. IsPrefix(R, u) /\ IsPrefix(T, v) /\ IsPrefix(v, u)
    BY <2>1, <2>3, <2>4, <2>5, PrefixOfConcat
  <2>8. IsPrefix(T, u)
    BY <2>3, <2>7, <2>6, PrefixTransitive
  <2>9. QED
    BY <2>2, <2>3, <2>7, <2>8, <2>6, PrefixBoth
<1>10. CASE AppendRecord
  BY <1>1, <1>6, <1>10, AppendRecordPromise
<1>11. CASE RotateStep
  BY <1>1, <1>7, <1>8, <1>11, RotatePromise, OpenSegmentPromise DEF RotateStep
<1>12. CASE Commit
  BY <1>1, <1>7, <1>12, CommitPromise
<1>13. CASE CommitFails
  BY <1>1, <1>9, <1>13, CommitFailsPromise
<1>14. CASE Shutdown
  BY <1>1, <1>9, <1>14, ShutdownPromise
<1>15. CASE Restart
  BY <1>1, <1>7, <1>8, <1>15, RestartPromise
<1>16. CASE RestartFails
  BY <1>1, <1>8, <1>16, RestartFailsPromise
<1>17. CASE RestartRefused \/ Finished
  BY <1>8, <1>17, UnchangedPromise DEF RestartRefused, Finished
<1>18. ~Halt
  BY DEF Halt, GInv, Typed
<1>19. QED
  BY <1>10, <1>11, <1>12, <1>13, <1>14, <1>15, <1>16, <1>17, <1>18 DEF Next

(* Where a record is: at its own position of the log. *)
Known(R, r) == r.seq \in 1 .. Len(R) /\ R[r.seq] = r

LEMMA KnownRecord ==
    ASSUME GInv, LaidOut(segs), NEW n \in DOMAIN segs, NEW k \in 1 .. Len(segs[n].recs)
    PROVE  /\ segs[n].recs[k] \in Records /\ segs[n].recs[k].seq = n + k - 1
           /\ Known(Recover(segs), segs[n].recs[k])
<1>1. FileOK(n, segs[n], ids) /\ segs[n] \in File(Records) /\ DOMAIN segs \subseteq 1 .. MaxRecords
  BY DEF GInv, SegsOK
<1>2. PICK r : r = segs[n].recs[k]
  OBVIOUS
<1>3. r \in Records /\ r.seq = n + k - 1
  BY <1>1, <1>2, FileFields DEF FileOK, NumberedFrom
<1>4. Among(r, segs[n].recs)
  BY <1>2 DEF Among
<1>5. \A m \in DOMAIN segs : segs[m] \in File(Records)
  BY DEF GInv, SegsOK
<1>6. Among(r, Recover(segs))
  BY <1>1, <1>4, <1>5, LogBoundsAssumption, RecoverHas
<1>7. PICK j \in 1 .. Len(Recover(segs)) : Recover(segs)[j] = r
  BY <1>6 DEF Among
<1>8. Recover(segs)[j].seq = 1 + j - 1 /\ 1 + j - 1 = j
  BY DEF LaidOut, Dense, NumberedFrom
<1>9. Known(Recover(segs), r)
  BY <1>7, <1>8 DEF Known
<1>10. QED
  BY <1>2, <1>3, <1>9

(* The next segment is named for the position after the last of this one. *)
LEMMA NextName ==
    ASSUME GInv, LaidOut(segs), NEW a \in DOMAIN segs, NEW b \in DOMAIN segs, a < b,
           \A n \in DOMAIN segs : a < n => b <= n
    PROVE  b = a + Len(segs[a].recs)
<1>1. DOMAIN segs \subseteq 1 .. MaxRecords /\ segs[a] \in File(Records)
      /\ \A m \in DOMAIN segs : segs[m] \in File(Records)
  BY DEF GInv, SegsOK
<1>2. a \in Nat \ {0} /\ b \in Nat \ {0}
  BY <1>1, LogBoundsAssumption
<1>3. Len(Recover(Below(segs, a))) = a - 1 /\ Len(Recover(Below(segs, b))) = b - 1
  BY DEF LaidOut, Exact
<1>4. PICK sg : sg = Below(segs, b)
  OBVIOUS
<1>5. DOMAIN sg = { x \in DOMAIN segs : x < b } /\ \A x \in DOMAIN sg : sg[x] = segs[x]
  BY <1>4 DEF Below
<1>6. DOMAIN sg \subseteq 1 .. a /\ a \in DOMAIN sg
  BY <1>1, <1>2, <1>5
<1>7. Recover(sg) = Recover(Below(sg, a)) \o sg[a].recs
  BY <1>2, <1>6, RecoverNewest
<1>8. Recover(Below(sg, a)) = Recover(Below(segs, a))
  <2>1. \A n : n < a => (n \in DOMAIN sg <=> n \in DOMAIN segs)
    BY <1>1, <1>2, <1>5
  <2>2. \A n \in DOMAIN sg : n < a => sg[n].recs = segs[n].recs
    BY <1>5
  <2>3. QED
    BY <2>1, <2>2, BelowSame
<1>9. Recover(Below(segs, a)) \in Seq(Records)
  BY <1>1, LogBoundsAssumption, BelowType
<1>10. segs[a].recs \in Seq(Records) /\ sg[a].recs = segs[a].recs
  BY <1>1, <1>5, <1>6, FileFields
<1>11. Len(Recover(sg)) = Len(Recover(Below(segs, a))) + Len(segs[a].recs)
  BY <1>7, <1>8, <1>9, <1>10
<1>12. Len(segs[a].recs) \in Nat
  BY <1>10
<1>13. QED
  BY <1>2, <1>3, <1>4, <1>11, <1>12

LEMMA MinProperties ==
    ASSUME NEW S \in SUBSET Nat, S # {}
    PROVE  Min(S) \in S /\ \A n \in S : Min(S) <= n
<1>1. \E m \in S : \A n \in S : m <= n
  <2>1. SUFFICES ASSUME \A m \in S : \E n \in S : ~(m <= n) PROVE FALSE
    OBVIOUS
  <2> DEFINE G == { n \in Nat : \A m \in S : n <= m }
  <2>2. 0 \in G
    OBVIOUS
  <2>3. \A n \in G : n + 1 \in G
    <3>1. SUFFICES ASSUME NEW n \in G, NEW m \in S PROVE n + 1 <= m
      OBVIOUS
    <3>2. n \in Nat /\ m \in Nat /\ n <= m
      OBVIOUS
    <3>3. n # m
      BY <2>1
    <3>4. QED
      BY <3>2, <3>3
  <2>4. G \in SUBSET Nat
    OBVIOUS
  <2> HIDE DEF G
  <2>5. \A n \in Nat : n \in G
    BY <2>2, <2>3, <2>4, AllNumbers
  <2>6. PICK m \in S : TRUE
    OBVIOUS
  <2>7. m + 1 \in G
    BY <2>5
  <2>8. m + 1 <= m
    BY <2>7 DEF G
  <2>9. QED
    BY <2>8
<1>2. QED
  BY <1>1 DEF Min

(* The log begins with the segment named 1. *)
LEMMA FirstName ==
    ASSUME GInv, LaidOut(segs), DOMAIN segs # {}
    PROVE  1 \in DOMAIN segs
<1>1. DOMAIN segs \in SUBSET Nat
  BY LogBoundsAssumption DEF GInv, SegsOK
<1>2. PICK D \in SUBSET Nat : D = DOMAIN segs /\ D # {}
  BY <1>1
<1>3. PICK m \in D : \A n \in D : m <= n
  BY <1>2, MinProperties
<1>4. m \in Nat /\ DOMAIN Below(segs, m) = {}
  BY <1>2, <1>3 DEF Below
<1>5. Recover(Below(segs, m)) = <<>>
  BY <1>4, RecoverOfNone
<1>6. Len(Recover(Below(segs, m))) = m - 1
  BY <1>2 DEF LaidOut, Exact
<1>7. m = 1
  BY <1>4, <1>5, <1>6
<1>8. QED
  BY <1>2, <1>7

(* The highest position in the log, and the one a Writer resumes from, is the
   number of its records. *)
LEMMA LastIsLength ==
    ASSUME GInv, LaidOut(segs)
    PROVE  LastPosition(segs) = Len(Recover(segs)) /\ HighestSeq(Recover(segs)) = Len(Recover(segs))
<1>1. PICK R : R = Recover(segs)
  OBVIOUS
<1>2. R \in Seq(Records) /\ NumberedFrom(R, 1) /\ Len(R) \in Nat
  BY <1>1, OpenLog DEF LaidOut, Dense
<1>3. HighestSeq(R) = Len(R)
  <2>1. PICK h : h = HighestSeq(R)
    OBVIOUS
  <2>2. NumberedTo(Records, MaxRecords)
    BY RecordFields DEF NumberedTo
  <2>3. h \in 0 .. MaxRecords
    BY <1>2, <2>1, <2>2, HighestOf, LogBoundsAssumption
  <2>4. 1 \in Nat \ {0} /\ 1 - 1 = 0 /\ 1 + Len(R) - 1 = Len(R)
    BY <1>2
  <2>5. Max({h, 0}) = Len(R)
    BY <1>2, <2>1, <2>4, LastPositionExact
  <2>6. Max({h, 0}) \in {h, 0} /\ h <= Max({h, 0})
    <3>1. \E m \in {h, 0} : \A n \in {h, 0} : m >= n
      BY <2>3, LogBoundsAssumption
    <3>2. QED
      BY <2>3, <3>1, LogBoundsAssumption DEF Max
  <2>7. QED
    BY <2>1, <2>3, <2>5, <2>6, LogBoundsAssumption
<1>4. LastPosition(segs) = Len(R)
  <2>1. CASE segs = <<>>
    <3>1. DOMAIN segs = {}
      BY <2>1
    <3>2. R = <<>>
      BY <1>1, <3>1, RecoverOfNone
    <3>3. QED
      BY <2>1, <3>2 DEF LastPosition
  <2>2. CASE segs # <<>>
    <3>1. SegsOK(segs, ids) /\ DOMAIN segs \subseteq 1 .. MaxRecords
      BY DEF GInv, SegsOK
    <3>2. PICK n : n = Max(DOMAIN segs)
      OBVIOUS
    <3>3. Newest(segs, n)
      BY <2>2, <3>1, <3>2, SomeSegments, NewestExists
    <3>4. /\ n \in Nat \ {0} /\ n \in DOMAIN segs /\ segs[n] \in File(Records)
          /\ Recover(Below(segs, n)) \in Seq(Records)
          /\ Len(Recover(Below(segs, n))) = n - 1
          /\ R = Recover(Below(segs, n)) \o segs[n].recs
      BY <1>1, <3>1, <3>3, View
    <3>5. PICK x : x = segs[n].recs
      OBVIOUS
    <3>6. x \in Seq(Records) /\ Len(x) \in Nat /\ NumberedFrom(x, n)
      BY <3>1, <3>4, <3>5, FileFields DEF SegsOK, FileOK
    <3>7. Max({HighestSeq(x), n - 1}) = n + Len(x) - 1
      BY <3>4, <3>6, LastPositionExact
    <3>8. Len(R) = n - 1 + Len(x)
      <4>1. PICK y \in Seq(Records) : y = Recover(Below(segs, n))
        BY <3>4
      <4>2. Len(y) = n - 1 /\ R = y \o x
        BY <3>4, <3>5, <4>1
      <4>3. Len(y \o x) = Len(y) + Len(x)
        BY <3>6
      <4>4. QED
        BY <3>4, <3>6, <4>2, <4>3
    <3>9. LastPosition(segs) = Max({HighestSeq(x), n - 1})
      BY <2>2, <3>2, <3>5 DEF LastPosition
    <3>10. QED
      BY <3>4, <3>6, <3>7, <3>8, <3>9
  <2>3. QED
    BY <2>1, <2>2
<1>5. QED
  BY <1>1, <1>3, <1>4

=============================================================================
