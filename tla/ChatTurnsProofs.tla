--------------------------- MODULE ChatTurnsProofs ---------------------------
(***************************************************************************)
(* The turns of one session, for any number of messages, handlers, resume  *)
(* requests, restarts and failed writes: the rows mirror the live queue,   *)
(* no accepted message is lost, none is sent twice, a deleted one stays    *)
(* deleted and one being edited stays held.                                *)
(*                                                                         *)
(* First what the methods of turnQueue, the rows they write and the lists  *)
(* of streamChatTurn do, for queues of any length.  A queue is described   *)
(* by the keys of its entries: the id, the message and how it waits -      *)
(* free, held or steered.  Each method's lemma says that it leaves a       *)
(* well-formed queue, and what becomes of the keys.                        *)
(*                                                                         *)
(* The proof about the turns has three layers.  Types and UptoIn are       *)
(* inductive by themselves, action by action.  Then every step is shown to *)
(* have one of fifteen effects on where messages are.  The invariants that *)
(* say where they are, and how often they were sent, are proved against    *)
(* the effects.                                                            *)
(***************************************************************************)
EXTENDS ChatTurns, FiniteSetTheorems, SequenceTheorems, TLAPS

(* A set of naturals has a least element. *)
LEMMA LeastNat ==
  ASSUME NEW N, N \subseteq Nat, N # {}
  PROVE  \E n \in N : \A m \in N : n <= m
<1>1. IsWellFoundedOn(OpToRel(<, Nat), Nat)
  BY NatLessThanWellFounded
<1>2. PICK n \in N : \A m \in N : ~(<<m, n>> \in OpToRel(<, Nat))
  BY <1>1, WFMin
<1>3. \A m \in N : ~(m < n)
  BY <1>2 DEF OpToRel
<1> QED
  BY <1>3

(* InOrder(ks) is what it is chosen to be, for positions up to any bound. *)
Enumerates(at, ks) ==
  /\ at \in [1 .. Cardinality(ks) -> ks]
  /\ \A i, j \in 1 .. Cardinality(ks) : i < j => at[i] < at[j]

(* Positions of a list are finitely many. *)
LEMMA PositionsAreFinite ==
  ASSUME NEW n \in Nat, NEW ks \in SUBSET (1 .. n)
  PROVE  IsFiniteSet(ks) /\ Cardinality(ks) \in Nat
<1>1. IsFiniteSet(1 .. n)
  BY FS_Interval
<1> QED
  BY <1>1, FS_Subset, FS_CardinalityType

(* Any set of positions can be put in order: by induction on the bound, taking the
   first position off. *)
LEMMA EnumerationExists ==
  ASSUME NEW n \in Nat, NEW ks \in SUBSET (1 .. n)
  PROVE  \E at : Enumerates(at, ks)
<1> DEFINE Bad == {k \in Nat : \E s \in SUBSET (1 .. k) : ~\E at : Enumerates(at, s)}
<1>1. Bad = {}
  <2> SUFFICES ASSUME Bad # {} PROVE FALSE
    OBVIOUS
  <2>1. PICK k \in Bad : \A m \in Bad : k <= m
    BY LeastNat
  <2>2. PICK s \in SUBSET (1 .. k) : ~\E at : Enumerates(at, s)
    BY <2>1
  <2>3. CASE k \notin s
    <3>1. k # 0
      <4> SUFFICES ASSUME k = 0 PROVE FALSE
        OBVIOUS
      <4>1. s = {}
        BY <2>1
      <4>2. Cardinality(s) = 0
        BY <4>1, FS_EmptySet
      <4>3. 1 .. Cardinality(s) = {}
        BY <4>2
      <4>4. Enumerates([i \in {} |-> 0], s)
        BY <4>1, <4>3 DEF Enumerates
      <4> QED
        BY <2>2, <4>4
    <3>2. k - 1 \in Nat /\ ~(k <= k - 1) /\ s \in SUBSET (1 .. k - 1)
      BY <2>1, <2>3, <3>1
    <3>3. k - 1 \in Bad
      BY <2>2, <3>2
    <3> QED
      BY <2>1, <3>2, <3>3
  <2>4. CASE k \in s
    <3> DEFINE r == s \ {k}
    <3>1. k - 1 \in Nat /\ ~(k <= k - 1) /\ r \in SUBSET (1 .. k - 1) /\ k \in Nat
      BY <2>1, <2>4
    <3>2. PICK at : Enumerates(at, r)
      BY <2>1, <3>1
    <3>3. /\ Cardinality(r) \in Nat
          /\ Cardinality(s) = Cardinality(r) + 1
      <4>1. IsFiniteSet(r) /\ Cardinality(r) \in Nat
        BY <3>1, PositionsAreFinite
      <4>2. s = r \cup {k} /\ k \notin r
        BY <2>4
      <4> HIDE DEF r
      <4> QED
        BY <4>1, <4>2, FS_AddElement
    <3> DEFINE c == Cardinality(r)
               more == [i \in 1 .. c + 1 |-> IF i <= c THEN at[i] ELSE k]
    <3>4. \A i \in 1 .. c : at[i] \in r
      <4> HIDE DEF r
      <4> QED
        BY <3>2 DEF Enumerates
    <3>5. \A i \in 1 .. c : at[i] < k /\ at[i] \in s
      <4> TAKE i \in 1 .. c
      <4>1. at[i] \in r /\ at[i] \in 1 .. k - 1
        BY <3>1, <3>4
      <4> QED
        BY <3>1, <4>1
    <3>9. \A i, j \in 1 .. c : i < j => at[i] < at[j]
      <4> HIDE DEF r
      <4> QED
        BY <3>2 DEF Enumerates
    <3>6. more \in [1 .. c + 1 -> s]
      BY <2>4, <3>3, <3>5
    <3>7. \A i, j \in 1 .. c + 1 : i < j => more[i] < more[j]
      <4> SUFFICES ASSUME NEW i \in 1 .. c + 1, NEW j \in 1 .. c + 1, i < j
                   PROVE  more[i] < more[j]
        OBVIOUS
      <4>1. i \in 1 .. c /\ i <= c /\ more[i] = at[i]
        BY <3>3
      <4>2. CASE j <= c
        <5>1. j \in 1 .. c /\ more[j] = at[j]
          BY <3>3, <4>2
        <5> HIDE DEF r, more
        <5> QED
          BY <3>9, <4>1, <5>1
      <4>3. CASE ~(j <= c)
        BY <3>3, <3>5, <4>1, <4>3
      <4> QED
        BY <4>2, <4>3
    <3>8. Enumerates(more, s)
      <4> HIDE DEF more, r
      <4> QED
        BY <3>3, <3>6, <3>7 DEF Enumerates
    <3> QED
      BY <2>2, <3>8
  <2> QED
    BY <2>3, <2>4
<1> QED
  BY <1>1

(* So InOrder is an enumeration in order. *)
LEMMA InOrderEnumerates ==
  ASSUME NEW n \in Nat, NEW ks \in SUBSET (1 .. n)
  PROVE  Enumerates(InOrder(ks), ks)
<1>1. PICK at : Enumerates(at, ks)
  BY EnumerationExists
<1>2. /\ at \in [1 .. Cardinality(ks) -> ks]
      /\ \A i, j \in DOMAIN at : i < j => at[i] < at[j]
  BY <1>1 DEF Enumerates
<1>3. /\ InOrder(ks) \in [1 .. Cardinality(ks) -> ks]
      /\ \A i, j \in DOMAIN InOrder(ks) : i < j => InOrder(ks)[i] < InOrder(ks)[j]
  BY <1>2 DEF InOrder
<1> QED
  BY <1>3 DEF Enumerates

(* It misses none. *)
LEMMA InOrderHasAll ==
  ASSUME NEW n \in Nat, NEW ks \in SUBSET (1 .. n)
  PROVE  \A k \in ks : \E i \in 1 .. Cardinality(ks) : InOrder(ks)[i] = k
<1> DEFINE at == InOrder(ks)
           c == Cardinality(ks)
<1>1. IsFiniteSet(ks) /\ c \in Nat
  BY PositionsAreFinite
<1>2. at \in [1 .. c -> ks] /\ \A i, j \in 1 .. c : i < j => at[i] < at[j]
  BY InOrderEnumerates DEF Enumerates
<1>3. \A i, j \in 1 .. c : at[i] = at[j] => i = j
  <2> SUFFICES ASSUME NEW i \in 1 .. c, NEW j \in 1 .. c, at[i] = at[j], i # j PROVE FALSE
    OBVIOUS
  <2>1. at[i] \in Nat
    <3> HIDE DEF at, c
    <3>1. at[i] \in ks
      BY <1>2
    <3>2. at[i] \in 1 .. n
      BY <3>1
    <3> QED
      BY <3>2
  <2>2. i < j \/ j < i
    BY <1>1
  <2> QED
    BY <1>2, <2>1, <2>2
<1>4. at \in Injection(1 .. c, ks)
  BY <1>2, <1>3 DEF Injection, IsInjective
<1>5. Cardinality(1 .. c) = c
  BY <1>1, FS_Interval
<1>6. at \in Surjection(1 .. c, ks)
  BY <1>1, <1>4, <1>5, FS_Injection
<1> QED
  BY <1>6 DEF Surjection

(* The positions of an interval, in order, are the interval. *)
LEMMA IntervalInOrder ==
  ASSUME NEW a \in Nat, NEW n \in Nat
  PROVE  /\ Cardinality(a + 1 .. a + n) = n
         /\ \A k \in 1 .. n : InOrder(a + 1 .. a + n)[k] = a + k
<1> DEFINE ks == a + 1 .. a + n
           at == InOrder(ks)
<1>1. Cardinality(ks) = n
  BY FS_Interval
<1>2. ks \in SUBSET (1 .. a + n) /\ a + n \in Nat
  OBVIOUS
<1>3. /\ \A k \in 1 .. n : at[k] \in a + 1 .. a + n
      /\ \A i, j \in 1 .. n : i < j => at[i] < at[j]
  <2>1. Enumerates(at, ks)
    BY <1>2, InOrderEnumerates
  <2> HIDE DEF at
  <2> QED
    BY <1>1, <2>1 DEF Enumerates
<1> HIDE DEF at
<1>4. \A k \in 1 .. n : at[k] >= a + k
  <2> DEFINE Low == {k \in 1 .. n : at[k] < a + k}
  <2> SUFFICES ASSUME Low # {} PROVE FALSE
    BY <1>3
  <2>1. PICK k \in Low : \A m \in Low : k <= m
    <3>1. Low \subseteq Nat
      OBVIOUS
    <3> HIDE DEF Low
    <3> QED
      BY <3>1, LeastNat
  <2>2. k # 1
    BY <1>3
  <2>3. k - 1 \in 1 .. n /\ k - 1 \notin Low
    BY <2>1, <2>2
  <2>4. at[k - 1] >= a + (k - 1) /\ at[k - 1] < at[k] /\ at[k] \in Int /\ at[k - 1] \in Int
    BY <1>3, <2>3
  <2> QED
    BY <2>4
<1>5. \A k \in 1 .. n : at[k] <= a + k
  <2> DEFINE High == {j \in 0 .. n - 1 : at[n - j] > a + (n - j)}
  <2>1. \A k \in 1 .. n : n - k \in 0 .. n - 1 /\ n - (n - k) = k
    OBVIOUS
  <2>2. High = {}
    <3> SUFFICES ASSUME High # {} PROVE FALSE
      OBVIOUS
    <3>1. PICK j \in High : \A m \in High : j <= m
      <4>1. High \subseteq Nat
        OBVIOUS
      <4> HIDE DEF High
      <4> QED
        BY <4>1, LeastNat
    <3>2. n \in 1 .. n /\ n - 0 = n /\ j \in 0 .. n - 1
      OBVIOUS
    <3>3. j # 0
      BY <1>3, <3>2
    <3>4. j - 1 \in 0 .. n - 1 /\ j - 1 \notin High /\ n - j \in 1 .. n /\ n - (j - 1) \in 1 .. n
          /\ n - j < n - (j - 1)
      BY <3>1, <3>2, <3>3
    <3>5. /\ at[n - (j - 1)] <= a + (n - (j - 1)) /\ at[n - j] < at[n - (j - 1)]
          /\ at[n - j] \in Int /\ at[n - (j - 1)] \in Int
      BY <1>3, <3>4
    <3> QED
      BY <3>2, <3>5
  <2>3. \A k \in 1 .. n : n - k \notin High
    BY <2>2
  <2> QED
    BY <1>3, <2>1, <2>3
<1>6. \A k \in 1 .. n : at[k] = a + k
  <2> TAKE k \in 1 .. n
  <2>1. at[k] \in Int /\ at[k] >= a + k /\ at[k] <= a + k
    BY <1>3, <1>4, <1>5
  <2> QED
    BY <2>1
<1> QED
  BY <1>1, <1>6 DEF at

(* Part(s, ks) has the elements of s at ks, and no other, in their order. *)
LEMMA PartIsSeq ==
  ASSUME NEW S, NEW s \in Seq(S), NEW ks \in SUBSET DOMAIN s
  PROVE  /\ Part(s, ks) \in Seq(S)
         /\ DOMAIN Part(s, ks) = 1 .. Cardinality(ks)
         /\ Len(Part(s, ks)) = Cardinality(ks)
         /\ Cardinality(ks) \in Nat
         /\ \A i \in 1 .. Cardinality(ks) :
              InOrder(ks)[i] \in ks /\ Part(s, ks)[i] = s[InOrder(ks)[i]]
<1> DEFINE c == Cardinality(ks)
           at == InOrder(ks)
<1>0. DOMAIN s = 1 .. Len(s) /\ Len(s) \in Nat
  BY LenProperties
<1>1. ks \in SUBSET (1 .. Len(s))
  BY <1>0
<1>2. c \in Nat
  BY <1>0, <1>1, PositionsAreFinite
<1>3. at \in [1 .. c -> ks]
  BY <1>0, <1>1, InOrderEnumerates DEF Enumerates
<1> HIDE DEF c, at
<1>4. Part(s, ks) = [k \in 1 .. c |-> s[at[k]]]
  BY <1>3 DEF Part, at
<1>5. \A k \in 1 .. c : at[k] \in ks /\ s[at[k]] \in S
  <2> TAKE k \in 1 .. c
  <2>1. at[k] \in ks
    BY <1>3
  <2>2. at[k] \in 1 .. Len(s)
    BY <1>1, <2>1
  <2>3. s[at[k]] \in S
    BY <2>2, ElementOfSeq
  <2> QED
    BY <2>1, <2>3
<1>6. Part(s, ks) \in [1 .. c -> S]
  BY <1>4, <1>5
<1>7. Part(s, ks) \in Seq(S) /\ Len(Part(s, ks)) = c
  BY <1>2, <1>6
<1> QED
  BY <1>2, <1>4, <1>5, <1>6, <1>7 DEF at, c

(* The part keeps the order of the list. *)
LEMMA PartIncreases ==
  ASSUME NEW S, NEW s \in Seq(S), NEW ks \in SUBSET DOMAIN s,
         NEW i \in 1 .. Cardinality(ks), NEW j \in 1 .. Cardinality(ks), i < j
  PROVE  InOrder(ks)[i] < InOrder(ks)[j]
<1>1. DOMAIN s = 1 .. Len(s) /\ Len(s) \in Nat
  BY LenProperties
<1> QED
  BY <1>1, InOrderEnumerates DEF Enumerates

(* Its elements are those at the positions. *)
LEMMA PartSet ==
  ASSUME NEW S, NEW s \in Seq(S), NEW ks \in SUBSET DOMAIN s
  PROVE  ToSet(Part(s, ks)) = {s[k] : k \in ks}
<1>1. DOMAIN s = 1 .. Len(s) /\ Len(s) \in Nat
  BY LenProperties
<1>2. \A k \in ks : \E i \in 1 .. Cardinality(ks) : InOrder(ks)[i] = k
  BY <1>1, InOrderHasAll
<1>3. /\ DOMAIN Part(s, ks) = 1 .. Cardinality(ks)
      /\ \A i \in 1 .. Cardinality(ks) :
           InOrder(ks)[i] \in ks /\ Part(s, ks)[i] = s[InOrder(ks)[i]]
  BY PartIsSeq
<1>4. \A k \in ks : s[k] \in ToSet(Part(s, ks))
  BY <1>2, <1>3 DEF ToSet
<1>5. \A x \in ToSet(Part(s, ks)) : x \in {s[k] : k \in ks}
  BY <1>3 DEF ToSet
<1> QED
  BY <1>4, <1>5
-----------------------------------------------------------------------------
(* What the sequences hold: entries of the object, rows of the table. *)
Entry == [id : Nat, msg : Messages, held : BOOLEAN]
Row == [id : Nat, msg : Messages, steer : BOOLEAN, held : BOOLEAN, pos : Nat]
Queue == [pending : Seq(Entry), steers : Seq(Entry)]

(* Ids are on one element only. *)
Unique(s) == \A i, j \in DOMAIN s : s[i].id = s[j].id => i = j

(* A queue object as the methods leave it. *)
QueueOK(q) ==
  /\ q \in Queue
  /\ Unique(q.pending) /\ Unique(q.steers) /\ Ids(q.pending) \cap Ids(q.steers) = {}

(* The rows as the server leaves them: a steered one keeps no hold. *)
RowsOK(rs) ==
  /\ rs \in Seq(Row) /\ Unique(rs)
  /\ \A i \in DOMAIN rs : rs[i].steer => ~rs[i].held

(* A waiting message, by its id and how it waits; the order is left out. *)
Key(id, msg, lane) == [id |-> id, msg |-> msg, lane |-> lane]
Lane(held) == IF held THEN "held" ELSE "free"

(* What an object holds and what the rows hold, as such. *)
QueueKeys(q) ==
  {Key(q.pending[i].id, q.pending[i].msg, Lane(q.pending[i].held)) : i \in DOMAIN q.pending}
  \cup {Key(q.steers[i].id, q.steers[i].msg, "steer") : i \in DOMAIN q.steers}

RowKey(r) == Key(r.id, r.msg, IF r.steer THEN "steer" ELSE Lane(r.held))
RowKeys(rs) == {RowKey(rs[i]) : i \in DOMAIN rs}

(* A part of a list repeats no id. *)
LEMMA PartUnique ==
  ASSUME NEW S, NEW s \in Seq(S), NEW ks \in SUBSET DOMAIN s, Unique(s)
  PROVE  Unique(Part(s, ks))
<1> SUFFICES ASSUME NEW i \in DOMAIN Part(s, ks), NEW j \in DOMAIN Part(s, ks),
                    Part(s, ks)[i].id = Part(s, ks)[j].id, i # j
             PROVE  FALSE
  BY DEF Unique
<1>1. /\ DOMAIN Part(s, ks) = 1 .. Cardinality(ks) /\ Cardinality(ks) \in Nat
      /\ \A k \in 1 .. Cardinality(ks) :
           InOrder(ks)[k] \in ks /\ Part(s, ks)[k] = s[InOrder(ks)[k]]
  BY PartIsSeq
<1>2. InOrder(ks)[i] = InOrder(ks)[j]
  BY <1>1 DEF Unique
<1>3. DOMAIN s = 1 .. Len(s) /\ Len(s) \in Nat
  BY LenProperties
<1>4. InOrder(ks)[i] \in Nat
  BY <1>1, <1>3
<1>5. i < j \/ j < i
  BY <1>1
<1>6. InOrder(ks)[i] < InOrder(ks)[j] \/ InOrder(ks)[j] < InOrder(ks)[i]
  BY <1>1, <1>5, PartIncreases
<1> QED
  BY <1>2, <1>4, <1>6

(* loadQueue: well-formed rows give a well-formed queue. *)
PendingAt(rs) == {i \in DOMAIN rs : rs[i].steer = FALSE}
SteersAt(rs) == {i \in DOMAIN rs : rs[i].steer = TRUE}
LoadedEntry(r) == [id |-> r.id, msg |-> r.msg, held |-> r.held]
Loaded(rs, ks) == [i \in DOMAIN Part(rs, ks) |-> LoadedEntry(Part(rs, ks)[i])]

(* What loadQueue reads: the pending rows and the steered ones, each in order. *)
LEMMA HydrateIs ==
  ASSUME NEW rs
  PROVE  Hydrate(rs) = [pending |-> Loaded(rs, PendingAt(rs)), steers |-> Loaded(rs, SteersAt(rs))]
BY DEF Hydrate, Loaded, PendingAt, SteersAt, Select, LoadedEntry

(* Each of the loaded entries is a row, and each row at the positions is loaded. *)
LEMMA LoadedIs ==
  ASSUME NEW rs, RowsOK(rs), NEW ks \in SUBSET DOMAIN rs
  PROVE  LET p == Loaded(rs, ks)
         IN  /\ p \in Seq(Entry) /\ Unique(p)
             /\ DOMAIN p = 1 .. Cardinality(ks) /\ Cardinality(ks) \in Nat
             /\ \A i \in DOMAIN p : \E k \in ks : p[i] = LoadedEntry(rs[k])
             /\ \A k \in ks : \E i \in DOMAIN p : p[i] = LoadedEntry(rs[k])
<1> DEFINE part == Part(rs, ks)
           p == Loaded(rs, ks)
<1>1. rs \in Seq(Row)
  BY DEF RowsOK
<1>2. /\ part \in Seq(Row) /\ DOMAIN part = 1 .. Cardinality(ks)
      /\ Cardinality(ks) \in Nat
      /\ \A i \in 1 .. Cardinality(ks) :
           InOrder(ks)[i] \in ks /\ part[i] = rs[InOrder(ks)[i]]
  BY <1>1, PartIsSeq
<1>3. Unique(part)
  BY <1>1, PartUnique DEF RowsOK
<1>4. \A k \in ks : \E i \in DOMAIN part : part[i] = rs[k]
  <2>1. ToSet(part) = {rs[k] : k \in ks}
    BY <1>1, PartSet
  <2> QED
    BY <2>1 DEF ToSet
<1>5. DOMAIN p = DOMAIN part /\ \A i \in DOMAIN part : p[i] = LoadedEntry(part[i])
  BY DEF Loaded
<1>6. \A i \in DOMAIN part : part[i] \in Row
  BY <1>2
<1>7. \A i \in DOMAIN part : p[i] \in Entry /\ p[i].id = part[i].id
  BY <1>5, <1>6 DEF LoadedEntry, Entry, Row
<1>8. p \in Seq(Entry)
  <2>1. p \in [1 .. Cardinality(ks) -> Entry]
    BY <1>2, <1>5, <1>7 DEF Loaded
  <2> QED
    BY <1>2, <2>1
<1>9. Unique(p)
  BY <1>3, <1>5, <1>7 DEF Unique
<1>10. \A i \in DOMAIN p : \E k \in ks : p[i] = LoadedEntry(rs[k])
  BY <1>2, <1>5
<1>11. \A k \in ks : \E i \in DOMAIN p : p[i] = LoadedEntry(rs[k])
  BY <1>4, <1>5
<1> QED
  BY <1>2, <1>5, <1>8, <1>9, <1>10, <1>11

(* What it reads of well-formed rows is a well-formed queue that holds the same. *)
LEMMA HydrateIsQueue ==
  ASSUME NEW rs, RowsOK(rs)
  PROVE  QueueOK(Hydrate(rs)) /\ QueueKeys(Hydrate(rs)) = RowKeys(rs)
<1> DEFINE p == Loaded(rs, PendingAt(rs))
           s == Loaded(rs, SteersAt(rs))
<1>0. PendingAt(rs) \in SUBSET DOMAIN rs /\ SteersAt(rs) \in SUBSET DOMAIN rs
  BY DEF PendingAt, SteersAt
<1>1. /\ p \in Seq(Entry) /\ Unique(p)
      /\ \A i \in DOMAIN p : \E k \in DOMAIN rs :
           rs[k].steer = FALSE /\ p[i] = LoadedEntry(rs[k])
      /\ \A k \in DOMAIN rs : rs[k].steer = FALSE =>
           \E i \in DOMAIN p : p[i] = LoadedEntry(rs[k])
  <2>1. /\ p \in Seq(Entry) /\ Unique(p)
        /\ \A i \in DOMAIN p : \E k \in PendingAt(rs) : p[i] = LoadedEntry(rs[k])
        /\ \A k \in PendingAt(rs) : \E i \in DOMAIN p : p[i] = LoadedEntry(rs[k])
    BY <1>0, LoadedIs
  <2> QED
    BY <2>1 DEF PendingAt
<1>2. /\ s \in Seq(Entry) /\ Unique(s)
      /\ \A i \in DOMAIN s : \E k \in DOMAIN rs :
           rs[k].steer = TRUE /\ s[i] = LoadedEntry(rs[k])
      /\ \A k \in DOMAIN rs : rs[k].steer = TRUE =>
           \E i \in DOMAIN s : s[i] = LoadedEntry(rs[k])
  <2>1. /\ s \in Seq(Entry) /\ Unique(s)
        /\ \A i \in DOMAIN s : \E k \in SteersAt(rs) : s[i] = LoadedEntry(rs[k])
        /\ \A k \in SteersAt(rs) : \E i \in DOMAIN s : s[i] = LoadedEntry(rs[k])
    BY <1>0, LoadedIs
  <2> QED
    BY <2>1 DEF SteersAt
<1> HIDE DEF p, s
<1>3. Hydrate(rs) = [pending |-> p, steers |-> s]
  BY HydrateIs DEF p, s
<1>4. \A k \in DOMAIN rs : rs[k] \in Row
  BY DEF RowsOK
<1>5. Ids(p) \cap Ids(s) = {}
  <2> SUFFICES ASSUME NEW i \in DOMAIN p, NEW j \in DOMAIN s, p[i].id = s[j].id PROVE FALSE
    BY DEF Ids
  <2>1. PICK k \in DOMAIN rs : rs[k].steer = FALSE /\ p[i] = LoadedEntry(rs[k])
    BY <1>1
  <2>2. PICK l \in DOMAIN rs : rs[l].steer = TRUE /\ s[j] = LoadedEntry(rs[l])
    BY <1>2
  <2>3. rs[k].id = rs[l].id
    BY <2>1, <2>2 DEF LoadedEntry
  <2>4. k = l
    BY <2>3 DEF RowsOK, Unique
  <2> QED
    BY <2>1, <2>2, <2>4
<1>6. QueueOK(Hydrate(rs))
  BY <1>1, <1>2, <1>3, <1>5 DEF QueueOK, Queue
<1>7. QueueKeys(Hydrate(rs)) = {Key(p[i].id, p[i].msg, Lane(p[i].held)) : i \in DOMAIN p}
                               \cup {Key(s[i].id, s[i].msg, "steer") : i \in DOMAIN s}
  BY <1>3 DEF QueueKeys
<1>8. \A k \in DOMAIN rs : RowKey(rs[k]) \in QueueKeys(Hydrate(rs))
  <2> TAKE k \in DOMAIN rs
  <2>1. CASE rs[k].steer = FALSE
    <3>1. PICK i \in DOMAIN p : p[i] = LoadedEntry(rs[k])
      BY <1>1, <2>1
    <3>2. RowKey(rs[k]) = Key(p[i].id, p[i].msg, Lane(p[i].held))
      BY <2>1, <3>1 DEF LoadedEntry, RowKey
    <3> QED
      BY <1>7, <3>2
  <2>2. CASE rs[k].steer = TRUE
    <3>1. PICK i \in DOMAIN s : s[i] = LoadedEntry(rs[k])
      BY <1>2, <2>2
    <3>2. RowKey(rs[k]) = Key(s[i].id, s[i].msg, "steer")
      BY <2>2, <3>1 DEF LoadedEntry, RowKey
    <3> QED
      BY <1>7, <3>2
  <2>3. rs[k].steer \in BOOLEAN
    BY <1>4 DEF Row
  <2> QED
    BY <2>1, <2>2, <2>3
<1>9. \A i \in DOMAIN p : Key(p[i].id, p[i].msg, Lane(p[i].held)) \in RowKeys(rs)
  <2> TAKE i \in DOMAIN p
  <2>1. PICK k \in DOMAIN rs : rs[k].steer = FALSE /\ p[i] = LoadedEntry(rs[k])
    BY <1>1
  <2>2. RowKey(rs[k]) = Key(p[i].id, p[i].msg, Lane(p[i].held))
    BY <2>1 DEF LoadedEntry, RowKey
  <2> QED
    BY <2>2 DEF RowKeys
<1>10. \A i \in DOMAIN s : Key(s[i].id, s[i].msg, "steer") \in RowKeys(rs)
  <2> TAKE i \in DOMAIN s
  <2>1. PICK k \in DOMAIN rs : rs[k].steer = TRUE /\ s[i] = LoadedEntry(rs[k])
    BY <1>2
  <2>2. RowKey(rs[k]) = Key(s[i].id, s[i].msg, "steer")
    BY <2>1 DEF LoadedEntry, RowKey
  <2> QED
    BY <2>2 DEF RowKeys
<1>11. QueueKeys(Hydrate(rs)) = RowKeys(rs)
  BY <1>7, <1>8, <1>9, <1>10, Zenon DEF RowKeys
<1> QED
  BY <1>6, <1>11
-----------------------------------------------------------------------------
(* persistLocked: the rows of a queue. *)
PendingRow(e, pos) ==
  [id |-> e.id, msg |-> e.msg, steer |-> FALSE, held |-> e.held, pos |-> pos]
SteerRow(e, pos) ==
  [id |-> e.id, msg |-> e.msg, steer |-> TRUE, held |-> FALSE, pos |-> pos]

(* The pending entries come first, then the steered ones. *)
LEMMA SnapshotIs ==
  ASSUME NEW q, QueueOK(q)
  PROVE  LET rs == Snapshot(q)
             n == Len(q.pending)
             m == Len(q.steers)
         IN  /\ n \in Nat /\ m \in Nat /\ rs \in Seq(Row) /\ Len(rs) = n + m
             /\ DOMAIN rs = 1 .. n + m /\ DOMAIN q.pending = 1 .. n /\ DOMAIN q.steers = 1 .. m
             /\ \A i \in 1 .. n : rs[i] = PendingRow(q.pending[i], i - 1)
             /\ \A i \in 1 .. m : rs[n + i] = SteerRow(q.steers[i], (n + i) - 1)
<1> DEFINE p == q.pending
           s == q.steers
           n == Len(p)
           m == Len(s)
           rs == Snapshot(q)
<1>1. p \in Seq(Entry) /\ s \in Seq(Entry)
  BY DEF QueueOK, Queue
<1>2. n \in Nat /\ m \in Nat /\ DOMAIN p = 1 .. n /\ DOMAIN s = 1 .. m
  BY <1>1, LenProperties
<1>3. rs = [i \in 1 .. n + m |-> IF i <= n THEN PendingRow(p[i], i - 1)
                                           ELSE SteerRow(s[i - n], i - 1)]
  BY DEF Snapshot, PendingRow, SteerRow
<1> HIDE DEF p, s, n, m, rs
<1>4. \A i \in 1 .. n + m : i <= n => i \in 1 .. n /\ i - 1 \in Nat
  BY <1>2
<1>5. \A i \in 1 .. n + m : ~(i <= n) => i - n \in 1 .. m /\ i - 1 \in Nat
  BY <1>2
<1>6. \A e \in Entry, k \in Nat : /\ PendingRow(e, k) \in Row
                                 /\ SteerRow(e, k) \in Row
  BY DEF PendingRow, SteerRow, Entry, Row
<1>7. (\A i \in 1 .. n : p[i] \in Entry) /\ (\A i \in 1 .. m : s[i] \in Entry)
  BY <1>1, <1>2
<1>8. \A i \in 1 .. n + m : rs[i] \in Row
  <2> TAKE i \in 1 .. n + m
  <2>1. CASE i <= n
    BY <1>3, <1>4, <1>6, <1>7, <2>1
  <2>2. CASE ~(i <= n)
    BY <1>3, <1>5, <1>6, <1>7, <2>2
  <2> QED
    BY <2>1, <2>2
<1>9. rs \in [1 .. n + m -> Row] /\ n + m \in Nat
  BY <1>2, <1>3, <1>8
<1>10. rs \in Seq(Row) /\ Len(rs) = n + m /\ DOMAIN rs = 1 .. n + m
  BY <1>9
<1>11. \A i \in 1 .. n : rs[i] = PendingRow(p[i], i - 1)
  BY <1>2, <1>3
<1>12. \A i \in 1 .. m : rs[n + i] = SteerRow(s[i], (n + i) - 1)
  <2> TAKE i \in 1 .. m
  <2>1. n + i \in 1 .. n + m /\ ~(n + i <= n) /\ (n + i) - n = i
    BY <1>2
  <2>2. rs[n + i] = SteerRow(s[(n + i) - n], (n + i) - 1)
    BY <1>3, <2>1
  <2>3. s[(n + i) - n] = s[i]
    BY <2>1
  <2> QED
    BY <2>2, <2>3
<1> QED
  BY <1>2, <1>10, <1>11, <1>12 DEF p, s, n, m, rs

(* They are well-formed and hold what the queue holds. *)
LEMMA SnapshotIsRows ==
  ASSUME NEW q, QueueOK(q)
  PROVE  RowsOK(Snapshot(q)) /\ RowKeys(Snapshot(q)) = QueueKeys(q)
<1> DEFINE p == q.pending
           s == q.steers
           n == Len(p)
           m == Len(s)
           rs == Snapshot(q)
<1>1. /\ n \in Nat /\ m \in Nat /\ rs \in Seq(Row) /\ Len(rs) = n + m
      /\ DOMAIN rs = 1 .. n + m /\ DOMAIN p = 1 .. n /\ DOMAIN s = 1 .. m
      /\ \A i \in 1 .. n : rs[i] = PendingRow(p[i], i - 1)
      /\ \A i \in 1 .. m : rs[n + i] = SteerRow(s[i], (n + i) - 1)
  BY SnapshotIs
<1>2. /\ p \in Seq(Entry) /\ s \in Seq(Entry) /\ Unique(p) /\ Unique(s)
      /\ Ids(p) \cap Ids(s) = {}
  BY DEF QueueOK, Queue
<1>3. QueueKeys(q) = {Key(p[i].id, p[i].msg, Lane(p[i].held)) : i \in DOMAIN p}
                     \cup {Key(s[i].id, s[i].msg, "steer") : i \in DOMAIN s}
  BY DEF QueueKeys
<1> HIDE DEF p, s, n, m, rs
<1>4. (\A i \in 1 .. n : p[i] \in Entry) /\ (\A i \in 1 .. m : s[i] \in Entry)
  BY <1>1, <1>2
<1>5. \A i \in 1 .. n : /\ rs[i].id = p[i].id /\ ~rs[i].steer
                        /\ RowKey(rs[i]) = Key(p[i].id, p[i].msg, Lane(p[i].held))
  <2> TAKE i \in 1 .. n
  <2>1. rs[i] = PendingRow(p[i], i - 1) /\ p[i].held \in BOOLEAN
    BY <1>1, <1>4 DEF Entry
  <2>2. rs[i].id = p[i].id /\ rs[i].msg = p[i].msg /\ ~rs[i].steer /\ rs[i].held = p[i].held
    BY <2>1 DEF PendingRow, SteerRow
  <2>3. RowKey(rs[i]) = Key(p[i].id, p[i].msg, Lane(p[i].held))
    BY <2>2 DEF RowKey, Lane
  <2> QED
    BY <2>2, <2>3
<1>6. \A i \in 1 .. m : /\ rs[n + i].id = s[i].id /\ ~rs[n + i].held
                        /\ RowKey(rs[n + i]) = Key(s[i].id, s[i].msg, "steer")
  <2> TAKE i \in 1 .. m
  <2>1. rs[n + i] = SteerRow(s[i], (n + i) - 1)
    BY <1>1
  <2>2. /\ rs[n + i].id = s[i].id /\ rs[n + i].msg = s[i].msg
        /\ rs[n + i].steer /\ ~rs[n + i].held
    BY <2>1 DEF PendingRow, SteerRow
  <2> QED
    BY <2>2 DEF RowKey
<1>7. \A k \in 1 .. n + m : k \in 1 .. n \/ \E i \in 1 .. m : k = n + i
  <2> TAKE k \in 1 .. n + m
  <2>1. CASE k <= n
    BY <1>1, <2>1
  <2>2. CASE ~(k <= n)
    <3>1. k - n \in 1 .. m /\ k = n + (k - n)
      BY <1>1, <2>2
    <3> QED
      BY <3>1
  <2> QED
    BY <2>1, <2>2
<1>8. Unique(rs)
  <2> SUFFICES ASSUME NEW k \in 1 .. n + m, NEW l \in 1 .. n + m, rs[k].id = rs[l].id
               PROVE  k = l
    BY <1>1 DEF Unique
  <2>1. CASE k \in 1 .. n /\ l \in 1 .. n
    BY <1>1, <1>2, <1>5, <2>1 DEF Unique
  <2>2. ASSUME NEW i \in 1 .. m, NEW j \in 1 .. m, k = n + i, l = n + j PROVE k = l
    BY <1>1, <1>2, <1>6, <2>2 DEF Unique
  <2>3. ASSUME NEW i \in 1 .. n, NEW j \in 1 .. m, rs[i].id = rs[n + j].id PROVE FALSE
    <3>1. p[i].id \in Ids(p) /\ s[j].id \in Ids(s)
      BY <1>1 DEF Ids
    <3> QED
      BY <1>2, <1>5, <1>6, <2>3, <3>1
  <2> QED
    BY <1>7, <2>1, <2>2, <2>3
<1>9. RowsOK(rs)
  <2>1. \A k \in DOMAIN rs : rs[k].steer => ~rs[k].held
    BY <1>1, <1>5, <1>6, <1>7
  <2> QED
    BY <1>1, <1>8, <2>1 DEF RowsOK
<1>10. RowKeys(rs) = QueueKeys(q)
  <2>1. \A k \in 1 .. n + m : RowKey(rs[k]) \in QueueKeys(q)
    <3> TAKE k \in 1 .. n + m
    <3>1. CASE k \in 1 .. n
      BY <1>1, <1>3, <1>5, <3>1
    <3>2. ASSUME NEW i \in 1 .. m, k = n + i PROVE RowKey(rs[k]) \in QueueKeys(q)
      BY <1>1, <1>3, <1>6, <3>2
    <3> QED
      BY <1>7, <3>1, <3>2
  <2>2. \A i \in 1 .. n : i \in DOMAIN rs
    BY <1>1
  <2>3. \A i \in 1 .. m : n + i \in DOMAIN rs
    BY <1>1
  <2>4. \A i \in DOMAIN p : Key(p[i].id, p[i].msg, Lane(p[i].held)) \in RowKeys(rs)
    BY <1>1, <1>5, <2>2 DEF RowKeys
  <2>5. \A i \in DOMAIN s : Key(s[i].id, s[i].msg, "steer") \in RowKeys(rs)
    BY <1>1, <1>6, <2>3 DEF RowKeys
  <2>6. \A x \in RowKeys(rs) : x \in QueueKeys(q)
    BY <1>1, <2>1 DEF RowKeys
  <2> QED
    BY <1>3, <2>4, <2>5, <2>6
<1> QED
  BY <1>9, <1>10 DEF rs

(* What loadQueue reads back from the rows of a queue: the queue, its steers unheld. *)
LEMMA HydrateSnapshot ==
  ASSUME NEW q, QueueOK(q)
  PROVE  LET back == Hydrate(Snapshot(q))
         IN  /\ back.pending = q.pending
             /\ DOMAIN back.steers = DOMAIN q.steers
             /\ \A i \in DOMAIN q.steers :
                  back.steers[i] = [id |-> q.steers[i].id, msg |-> q.steers[i].msg, held |-> FALSE]
<1> DEFINE p == q.pending
           s == q.steers
           n == Len(p)
           m == Len(s)
           rs == Snapshot(q)
<1>1. /\ n \in Nat /\ m \in Nat /\ rs \in Seq(Row) /\ Len(rs) = n + m
      /\ DOMAIN rs = 1 .. n + m /\ DOMAIN p = 1 .. n /\ DOMAIN s = 1 .. m
      /\ \A i \in 1 .. n : rs[i] = PendingRow(p[i], i - 1)
      /\ \A i \in 1 .. m : rs[n + i] = SteerRow(s[i], (n + i) - 1)
  BY SnapshotIs
<1>2. p \in Seq(Entry) /\ s \in Seq(Entry)
  BY DEF QueueOK, Queue
<1>0. RowsOK(rs)
  BY SnapshotIsRows
<1>3. Hydrate(rs) = [pending |-> Loaded(rs, PendingAt(rs)), steers |-> Loaded(rs, SteersAt(rs))]
  BY HydrateIs
<1> HIDE DEF p, s, n, m, rs
<1>4. (\A i \in 1 .. n : p[i] \in Entry) /\ (\A i \in 1 .. m : s[i] \in Entry)
  BY <1>1, <1>2
<1>5. \A i \in 1 .. n : i \in 1 .. n + m /\ rs[i].steer = FALSE /\ LoadedEntry(rs[i]) = p[i]
  <2> TAKE i \in 1 .. n
  <2>1. rs[i] = PendingRow(p[i], i - 1) /\ p[i] \in Entry /\ i \in 1 .. n + m
    BY <1>1, <1>4
  <2> QED
    BY <2>1 DEF PendingRow, SteerRow, LoadedEntry, Entry
<1>6. \A i \in 1 .. m : /\ n + i \in 1 .. n + m /\ rs[n + i].steer = TRUE
                        /\ LoadedEntry(rs[n + i]) =
                              [id |-> s[i].id, msg |-> s[i].msg, held |-> FALSE]
  <2> TAKE i \in 1 .. m
  <2>1. rs[n + i] = SteerRow(s[i], (n + i) - 1) /\ s[i] \in Entry /\ n + i \in 1 .. n + m
    BY <1>1, <1>4
  <2> QED
    BY <2>1 DEF PendingRow, SteerRow, LoadedEntry, Entry
<1>7. PendingAt(rs) = 0 + 1 .. 0 + n
  <2>1. \A i \in 0 + 1 .. 0 + n : i \in PendingAt(rs)
    BY <1>1, <1>5 DEF PendingAt, SteersAt
  <2>2. \A k \in PendingAt(rs) : k \in 0 + 1 .. 0 + n
    <3> TAKE k \in PendingAt(rs)
    <3>0. k \in 1 .. n + m /\ rs[k].steer = FALSE
      BY <1>1 DEF PendingAt
    <3> SUFFICES ASSUME ~(k <= n) PROVE FALSE
      BY <1>1, <3>0
    <3>1. k - n \in 1 .. m /\ n + (k - n) = k
      BY <1>1, <3>0
    <3>2. rs[k].steer = TRUE
      BY <1>6, <3>1
    <3> QED
      BY <3>0, <3>2
  <2> QED
    BY <2>1, <2>2
<1>8. SteersAt(rs) = n + 1 .. n + m
  <2>1. \A k \in n + 1 .. n + m : k \in SteersAt(rs)
    <3> TAKE k \in n + 1 .. n + m
    <3>1. k - n \in 1 .. m /\ n + (k - n) = k /\ k \in 1 .. n + m
      BY <1>1
    <3>2. rs[k].steer = TRUE
      BY <1>6, <3>1
    <3> QED
      BY <1>1, <3>1, <3>2 DEF PendingAt, SteersAt
  <2>2. \A k \in SteersAt(rs) : k \in n + 1 .. n + m
    <3> TAKE k \in SteersAt(rs)
    <3>0. k \in 1 .. n + m /\ rs[k].steer = TRUE
      BY <1>1 DEF SteersAt
    <3> SUFFICES ASSUME k <= n PROVE FALSE
      BY <1>1, <3>0
    <3>1. rs[k].steer = FALSE
      BY <1>1, <1>5, <3>0
    <3> QED
      BY <3>0, <3>1
  <2> QED
    BY <2>1, <2>2
<1>9. Loaded(rs, PendingAt(rs)) = p
  <2> DEFINE l == Loaded(rs, PendingAt(rs))
             ks == PendingAt(rs)
  <2>1. /\ Cardinality(0 + 1 .. 0 + n) = n
        /\ \A k \in 1 .. n : InOrder(0 + 1 .. 0 + n)[k] = 0 + k
    BY <1>1, IntervalInOrder
  <2>2. Cardinality(ks) = n /\ \A k \in 1 .. n : InOrder(ks)[k] = k
    BY <1>7, <2>1
  <2>3. ks \in SUBSET DOMAIN rs
    BY DEF PendingAt, SteersAt
  <2>4. /\ DOMAIN Part(rs, ks) = 1 .. n
        /\ \A i \in 1 .. n : Part(rs, ks)[i] = rs[i]
    <3> HIDE DEF ks
    <3>1. /\ DOMAIN Part(rs, ks) = 1 .. Cardinality(ks)
          /\ \A i \in 1 .. Cardinality(ks) : Part(rs, ks)[i] = rs[InOrder(ks)[i]]
      BY <1>1, <2>3, PartIsSeq
    <3> QED
      BY <2>2, <3>1
  <2>5. DOMAIN l = 1 .. n /\ \A i \in 1 .. n : l[i] = p[i]
    BY <1>5, <2>4 DEF Loaded
  <2>6. l \in Seq(Entry)
    BY <1>0, <2>3, LoadedIs
  <2>7. Len(l) = n
    <3> HIDE DEF l
    <3> QED
      BY <1>1, <2>5, <2>6
  <2> HIDE DEF l
  <2>8. l = p
    BY <1>2, <2>5, <2>6, <2>7, SeqEqual DEF n
  <2> QED
    BY <2>8 DEF l
<1>10. /\ DOMAIN Loaded(rs, SteersAt(rs)) = 1 .. m
       /\ \A i \in 1 .. m : Loaded(rs, SteersAt(rs))[i] = LoadedEntry(rs[n + i])
  <2> DEFINE ks == SteersAt(rs)
  <2>1. /\ Cardinality(n + 1 .. n + m) = m
        /\ \A k \in 1 .. m : InOrder(n + 1 .. n + m)[k] = n + k
    BY <1>1, IntervalInOrder
  <2>2. Cardinality(ks) = m /\ \A k \in 1 .. m : InOrder(ks)[k] = n + k
    BY <1>8, <2>1
  <2>3. ks \in SUBSET DOMAIN rs
    BY DEF PendingAt, SteersAt
  <2>4. /\ DOMAIN Part(rs, ks) = 1 .. m
        /\ \A i \in 1 .. m : Part(rs, ks)[i] = rs[n + i]
    <3> HIDE DEF ks
    <3>1. /\ DOMAIN Part(rs, ks) = 1 .. Cardinality(ks)
          /\ \A i \in 1 .. Cardinality(ks) : Part(rs, ks)[i] = rs[InOrder(ks)[i]]
      BY <1>1, <2>3, PartIsSeq
    <3> QED
      BY <2>2, <3>1
  <2> QED
    BY <2>4 DEF Loaded
<1>11. Hydrate(rs).pending = p /\ Hydrate(rs).steers = Loaded(rs, SteersAt(rs))
  BY <1>3, <1>9
<1>12. DOMAIN Hydrate(rs).steers = DOMAIN s
  BY <1>1, <1>10, <1>11
<1>13. \A i \in DOMAIN s :
         Hydrate(rs).steers[i] = [id |-> s[i].id, msg |-> s[i].msg, held |-> FALSE]
  BY <1>1, <1>6, <1>10, <1>11
<1> QED
  BY <1>11, <1>12, <1>13 DEF p, s, rs
-----------------------------------------------------------------------------
(* No steered message is loaded as held. *)
LEMMA LoadedSteersUnheld ==
  ASSUME NEW rs, RowsOK(rs)
  PROVE  \A i \in DOMAIN Hydrate(rs).steers : Hydrate(rs).steers[i].held = FALSE
<1> DEFINE s == Loaded(rs, SteersAt(rs))
<1>1. SteersAt(rs) \in SUBSET DOMAIN rs
  BY DEF SteersAt
<1>2. \A i \in DOMAIN s : \E k \in SteersAt(rs) : s[i] = LoadedEntry(rs[k])
  BY <1>1, LoadedIs
<1>3. \A k \in SteersAt(rs) : rs[k].held = FALSE
  <2> TAKE k \in SteersAt(rs)
  <2>1. k \in DOMAIN rs /\ rs[k].steer /\ rs \in Seq(Row)
    BY DEF SteersAt, RowsOK
  <2>2. rs[k] \in Row /\ ~rs[k].held
    BY <2>1 DEF RowsOK
  <2> QED
    BY <2>2 DEF Row
<1>4. Hydrate(rs).steers = s
  BY HydrateIs
<1> QED
  BY <1>2, <1>3, <1>4 DEF LoadedEntry

(* loadQueue after persistLocked gives back what loadQueue gave. *)
LEMMA LoadedIsSaved ==
  ASSUME NEW rs, RowsOK(rs)
  PROVE  Hydrate(Snapshot(Hydrate(rs))) = Hydrate(rs)
<1> DEFINE q == Hydrate(rs)
           back == Hydrate(Snapshot(q))
<1>1. QueueOK(q)
  BY HydrateIsQueue
<1>2. RowsOK(Snapshot(q))
  BY <1>1, SnapshotIsRows
<1>3. QueueOK(back)
  BY <1>2, HydrateIsQueue
<1>4. \A i \in DOMAIN q.steers : q.steers[i].held = FALSE
  BY LoadedSteersUnheld
<1>5. /\ back.pending = q.pending /\ DOMAIN back.steers = DOMAIN q.steers
      /\ \A i \in DOMAIN q.steers :
           back.steers[i] = [id |-> q.steers[i].id, msg |-> q.steers[i].msg, held |-> FALSE]
  BY <1>1, HydrateSnapshot
<1> HIDE DEF q, back
<1>6. q \in Queue /\ back \in Queue
  BY <1>1, <1>3 DEF QueueOK
<1>7. q.steers \in Seq(Entry) /\ back.steers \in Seq(Entry)
  BY <1>6 DEF Queue
<1>8. \A i \in DOMAIN q.steers : back.steers[i] = q.steers[i]
  <2> TAKE i \in DOMAIN q.steers
  <2>1. q.steers[i] \in Entry
    BY <1>7
  <2> QED
    BY <1>4, <1>5, <2>1 DEF Entry
<1>9. Len(back.steers) = Len(q.steers)
  BY <1>5, <1>7
<1>10. back.steers = q.steers
  BY <1>5, <1>7, <1>8, <1>9, SeqEqual
<1>11. back = q
  BY <1>5, <1>6, <1>10 DEF Queue
<1> QED
  BY <1>11 DEF q, back

(* Rows that load as the rows of a queue hold what the queue holds. *)
LEMMA MirrorKeys ==
  ASSUME NEW rs, RowsOK(rs), NEW q, QueueOK(q), Hydrate(rs) = Hydrate(Snapshot(q))
  PROVE  RowKeys(rs) = QueueKeys(q)
<1>1. RowsOK(Snapshot(q)) /\ RowKeys(Snapshot(q)) = QueueKeys(q)
  BY SnapshotIsRows
<1>2. QueueKeys(Hydrate(rs)) = RowKeys(rs)
  BY HydrateIsQueue
<1>3. QueueKeys(Hydrate(Snapshot(q))) = RowKeys(Snapshot(q))
  BY <1>1, HydrateIsQueue
<1> QED
  BY <1>1, <1>2, <1>3
-----------------------------------------------------------------------------
(* The keys and the ids of a list, by its elements. *)
PendingKey(e) == Key(e.id, e.msg, Lane(e.held))
SteerKey(e) == Key(e.id, e.msg, "steer")

LEMMA KeysByElement ==
  ASSUME NEW q
  PROVE  QueueKeys(q) = {PendingKey(e) : e \in ToSet(q.pending)}
                        \cup {SteerKey(e) : e \in ToSet(q.steers)}
BY DEF QueueKeys, ToSet, PendingKey, SteerKey

LEMMA IdsByElement ==
  ASSUME NEW s
  PROVE  Ids(s) = {e.id : e \in ToSet(s)}
BY DEF Ids, ToSet

(* The queue of two lists of entries. *)
Lists(p, s) ==
  /\ p \in Seq(Entry) /\ s \in Seq(Entry)
  /\ Unique(p) /\ Unique(s) /\ \A e \in ToSet(p), f \in ToSet(s) : e.id # f.id

(* A well-formed queue is two lists of entries that share no id. *)
LEMMA QueueIsLists ==
  ASSUME NEW q
  PROVE  QueueOK(q) <=>
           q = [pending |-> q.pending, steers |-> q.steers] /\ Lists(q.pending, q.steers)
<1>1. q \in Queue <=> /\ q = [pending |-> q.pending, steers |-> q.steers]
                      /\ q.pending \in Seq(Entry) /\ q.steers \in Seq(Entry)
  BY DEF Queue
<1>2. Ids(q.pending) \cap Ids(q.steers) = {} <=>
        \A e \in ToSet(q.pending), f \in ToSet(q.steers) : e.id # f.id
  BY IdsByElement
<1> QED
  BY <1>1, <1>2, Zenon DEF QueueOK, Lists

(* The elements of a list are entries; an id names one of them. *)
LEMMA ElementsAreEntries ==
  ASSUME NEW s \in Seq(Entry)
  PROVE  /\ \A e \in ToSet(s) : e \in Entry
         /\ Unique(s) => \A e, f \in ToSet(s) : e.id = f.id => e = f
BY DEF ToSet, Unique

(* Two lists after each other hold what both hold ... *)
LEMMA ConcatElements ==
  ASSUME NEW S, NEW s \in Seq(S), NEW t \in Seq(S)
  PROVE  s \o t \in Seq(S) /\ ToSet(s \o t) = ToSet(s) \cup ToSet(t)
<1>1. /\ s \o t \in Seq(S) /\ Len(s \o t) = Len(s) + Len(t)
      /\ \A i \in 1 .. Len(s) + Len(t) : (s \o t)[i] = IF i <= Len(s) THEN s[i] ELSE t[i - Len(s)]
  BY ConcatProperties, Zenon
<1>2. /\ DOMAIN s = 1 .. Len(s) /\ DOMAIN t = 1 .. Len(t) /\ Len(s) \in Nat /\ Len(t) \in Nat
  BY LenProperties
<1>3. DOMAIN (s \o t) = 1 .. Len(s) + Len(t)
  BY <1>1, LenProperties
<1> DEFINE u == s \o t
<1> HIDE DEF u
<1>4. \A i \in DOMAIN s : i \in DOMAIN u /\ u[i] = s[i]
  BY <1>1, <1>2, <1>3 DEF u
<1>5. \A i \in DOMAIN t : Len(s) + i \in DOMAIN u /\ u[Len(s) + i] = t[i]
  <2> TAKE i \in DOMAIN t
  <2>1. Len(s) + i \in 1 .. Len(s) + Len(t) /\ ~(Len(s) + i <= Len(s)) /\ (Len(s) + i) - Len(s) = i
    BY <1>2
  <2>2. u[Len(s) + i] = t[(Len(s) + i) - Len(s)]
    BY <1>1, <2>1 DEF u
  <2> QED
    BY <1>3, <2>1, <2>2 DEF u
<1>6. \A i \in DOMAIN u : (i \in DOMAIN s /\ u[i] = s[i]) \/ \E j \in DOMAIN t : u[i] = t[j]
  <2> TAKE i \in DOMAIN u
  <2>1. i \in 1 .. Len(s) + Len(t)
    BY <1>3 DEF u
  <2>2. CASE i <= Len(s)
    BY <1>1, <1>2, <2>1, <2>2 DEF u
  <2>3. CASE ~(i <= Len(s))
    <3>1. i - Len(s) \in DOMAIN t /\ u[i] = t[i - Len(s)]
      BY <1>1, <1>2, <2>1, <2>3 DEF u
    <3> QED
      BY <3>1
  <2> QED
    BY <2>2, <2>3
<1>7. ToSet(u) = ToSet(s) \cup ToSet(t)
  <2>1. \A x \in ToSet(s) \cup ToSet(t) : x \in ToSet(u)
    BY <1>4, <1>5 DEF ToSet
  <2>2. \A x \in ToSet(u) : x \in ToSet(s) \cup ToSet(t)
    BY <1>6 DEF ToSet
  <2> QED
    BY <2>1, <2>2
<1> QED
  BY <1>1, <1>7 DEF u

(* ... and repeat no id when they share none. *)
LEMMA ConcatUnique ==
  ASSUME NEW S, NEW s \in Seq(S), NEW t \in Seq(S), Unique(s), Unique(t),
         \A e \in ToSet(s), f \in ToSet(t) : e.id # f.id
  PROVE  Unique(s \o t)
<1> DEFINE u == s \o t
<1>1. /\ u \in Seq(S) /\ Len(u) = Len(s) + Len(t)
      /\ \A i \in 1 .. Len(s) + Len(t) : u[i] = IF i <= Len(s) THEN s[i] ELSE t[i - Len(s)]
  BY ConcatProperties, Zenon
<1>2. /\ DOMAIN s = 1 .. Len(s) /\ DOMAIN t = 1 .. Len(t) /\ Len(s) \in Nat /\ Len(t) \in Nat
  BY LenProperties
<1>3. DOMAIN u = 1 .. Len(s) + Len(t)
  BY <1>1, LenProperties
<1> HIDE DEF u
<1>4. \A i \in DOMAIN u : i <= Len(s) => i \in DOMAIN s /\ u[i] = s[i] /\ s[i] \in ToSet(s)
  BY <1>1, <1>2, <1>3 DEF ToSet
<1>5. \A i \in DOMAIN u : ~(i <= Len(s)) =>
         i - Len(s) \in DOMAIN t /\ u[i] = t[i - Len(s)] /\ t[i - Len(s)] \in ToSet(t)
  <2> TAKE i \in DOMAIN u
  <2> HAVE ~(i <= Len(s))
  <2>1. i - Len(s) \in DOMAIN t /\ u[i] = t[i - Len(s)]
    BY <1>1, <1>2, <1>3
  <2> QED
    BY <2>1 DEF ToSet
<1>6. Unique(u)
  <2> SUFFICES ASSUME NEW i \in DOMAIN u, NEW j \in DOMAIN u, u[i].id = u[j].id PROVE i = j
    BY DEF Unique
  <2>1. CASE i <= Len(s) /\ j <= Len(s)
    BY <1>4, <2>1 DEF Unique
  <2>2. CASE ~(i <= Len(s)) /\ ~(j <= Len(s))
    <3>1. i - Len(s) = j - Len(s)
      BY <1>5, <2>2 DEF Unique
    <3> QED
      BY <1>2, <1>3, <3>1
  <2>3. CASE i <= Len(s) /\ ~(j <= Len(s))
    BY <1>4, <1>5, <2>3
  <2>4. CASE ~(i <= Len(s)) /\ j <= Len(s)
    BY <1>4, <1>5, <2>4
  <2> QED
    BY <2>1, <2>2, <2>3, <2>4
<1> QED
  BY <1>6 DEF u
-----------------------------------------------------------------------------
(* A part of a list of entries is a list of entries. *)
LEMMA PartOfList ==
  ASSUME NEW s \in Seq(Entry), NEW ks \in SUBSET DOMAIN s, Unique(s)
  PROVE  /\ Part(s, ks) \in Seq(Entry) /\ Unique(Part(s, ks))
         /\ ToSet(Part(s, ks)) = {s[k] : k \in ks}
         /\ \A e \in ToSet(Part(s, ks)) : e \in ToSet(s)
<1>1. Part(s, ks) \in Seq(Entry) /\ Unique(Part(s, ks))
  BY PartIsSeq, PartUnique
<1>2. ToSet(Part(s, ks)) = {s[k] : k \in ks}
  BY PartSet
<1>3. \A k \in ks : s[k] \in ToSet(s)
  BY DEF ToSet
<1> QED
  BY <1>1, <1>2, <1>3

(* A queue without steered messages ends in the empty list. *)
LEMMA EmptyList == <<>> \in Seq(Entry) /\ Unique(<<>>) /\ ToSet(<<>>) = {}
BY DEF Unique, ToSet

(* add *)
LEMMA AddKeys ==
  ASSUME NEW q, QueueOK(q), NEW id \in Nat, NEW m \in Messages,
         id \notin Ids(q.pending), id \notin Ids(q.steers)
  PROVE  /\ QueueOK(Add(q, id, m))
         /\ QueueKeys(Add(q, id, m)) = QueueKeys(q) \cup {Key(id, m, "free")}
<1> DEFINE e == [id |-> id, msg |-> m, held |-> FALSE]
           p == q.pending
           r == Append(p, e)
<1>1. q = [pending |-> p, steers |-> q.steers] /\ Lists(p, q.steers)
  BY QueueIsLists
<1>2. Add(q, id, m) = [pending |-> r, steers |-> q.steers]
  BY <1>1 DEF Add
<1>3. e \in Entry
  BY DEF Entry
<1>4. p \in Seq(Entry)
  BY <1>1 DEF Lists
<1> HIDE DEF e, p
<1>5. /\ r \in Seq(Entry) /\ Len(r) = Len(p) + 1
      /\ \A i \in 1 .. Len(p) : r[i] = p[i]
      /\ r[Len(p) + 1] = e
  BY <1>3, <1>4, AppendProperties
<1>6. DOMAIN p = 1 .. Len(p) /\ Len(p) \in Nat /\ DOMAIN r = 1 .. Len(p) + 1
  BY <1>4, <1>5, LenProperties
<1> HIDE DEF r
<1>7. ToSet(r) = ToSet(p) \cup {e}
  <2>1. \A i \in 1 .. Len(p) + 1 : i \in 1 .. Len(p) \/ i = Len(p) + 1
    BY <1>6
  <2>2. \A i \in 1 .. Len(p) : i \in 1 .. Len(p) + 1
    BY <1>6
  <2>3. Len(p) + 1 \in 1 .. Len(p) + 1
    BY <1>6
  <2>4. \A x \in ToSet(r) : x \in ToSet(p) \cup {e}
    BY <1>5, <1>6, <2>1 DEF ToSet
  <2>5. \A x \in ToSet(p) : x \in ToSet(r)
    BY <1>5, <1>6, <2>2 DEF ToSet
  <2>6. e \in ToSet(r)
    BY <1>5, <1>6, <2>3 DEF ToSet
  <2> QED
    BY <2>4, <2>5, <2>6
<1>8. \A i \in 1 .. Len(p) : p[i].id # id
  BY <1>6 DEF Ids, p
<1>9. e.id = id
  BY DEF e
<1>10. Unique(r)
  <2> SUFFICES ASSUME NEW i \in 1 .. Len(p) + 1, NEW j \in 1 .. Len(p) + 1, r[i].id = r[j].id
               PROVE  i = j
    BY <1>6 DEF Unique
  <2>1. CASE i \in 1 .. Len(p) /\ j \in 1 .. Len(p)
    BY <1>1, <1>5, <1>6, <2>1 DEF Unique, Lists
  <2>2. CASE i = Len(p) + 1 /\ j \in 1 .. Len(p)
    BY <1>5, <1>8, <1>9, <2>2
  <2>3. CASE i \in 1 .. Len(p) /\ j = Len(p) + 1
    BY <1>5, <1>8, <1>9, <2>3
  <2>4. CASE i = Len(p) + 1 /\ j = Len(p) + 1
    BY <2>4
  <2> QED
    BY <1>6, <2>1, <2>2, <2>3, <2>4
<1>11. \A f \in ToSet(q.steers) : f.id # id
  BY IdsByElement
<1>12. Lists(r, q.steers)
  BY <1>1, <1>5, <1>7, <1>9, <1>10, <1>11 DEF Lists
<1>13. PendingKey(e) = Key(id, m, "free")
  BY DEF PendingKey, Lane, e
<1>14. QueueKeys(Add(q, id, m)) =
         {PendingKey(f) : f \in ToSet(r)} \cup {SteerKey(f) : f \in ToSet(q.steers)}
  BY <1>2, KeysByElement
<1>15. QueueKeys(q) = {PendingKey(f) : f \in ToSet(p)} \cup {SteerKey(f) : f \in ToSet(q.steers)}
  BY KeysByElement DEF p
<1>16. QueueKeys(Add(q, id, m)) = QueueKeys(q) \cup {Key(id, m, "free")}
  BY <1>7, <1>13, <1>14, <1>15
<1>17. QueueOK(Add(q, id, m))
  BY <1>2, <1>12, QueueIsLists
<1> QED
  BY <1>16, <1>17

(* What drain leaves, and what steerDrain leaves. *)
LEMMA KeptKeys ==
  ASSUME NEW q, QueueOK(q)
  PROVE  QueueOK(Kept(q)) /\ QueueKeys(Kept(q)) = {x \in QueueKeys(q) : x.lane = "held"}
<1> DEFINE p == q.pending
           ks == {i \in DOMAIN p : IsHeld(p[i])}
           r == Part(p, ks)
<1>1. Lists(p, q.steers)
  BY QueueIsLists
<1>2. Kept(q) = [pending |-> r, steers |-> <<>>]
  BY DEF Kept, Select
<1>3. p \in Seq(Entry) /\ Unique(p) /\ ks \in SUBSET DOMAIN p
  BY <1>1 DEF Lists
<1>4. /\ r \in Seq(Entry) /\ Unique(r) /\ ToSet(r) = {p[k] : k \in ks}
      /\ \A e \in ToSet(r) : e \in ToSet(p)
  <2> HIDE DEF p, ks
  <2> QED
    BY <1>3, PartOfList
<1>5. ToSet(r) = {e \in ToSet(p) : e.held}
  BY <1>4 DEF ToSet, IsHeld
<1>6. QueueKeys(Kept(q)) = {PendingKey(e) : e \in ToSet(r)}
  <2> HIDE DEF r
  <2>1. QueueKeys(Kept(q)) = {PendingKey(e) : e \in ToSet(r)} \cup {SteerKey(e) : e \in ToSet(<<>>)}
    BY <1>2, KeysByElement
  <2> QED
    BY <2>1, EmptyList
<1>7. QueueKeys(q) = {PendingKey(e) : e \in ToSet(p)} \cup {SteerKey(e) : e \in ToSet(q.steers)}
  BY KeysByElement
<1> HIDE DEF p, r
<1>8. \A e \in ToSet(p) : PendingKey(e).lane = "held" <=> e.held
  BY DEF PendingKey, Key, Lane
<1>9. \A e \in ToSet(q.steers) : SteerKey(e).lane # "held"
  BY DEF SteerKey, Key
<1>10. QueueKeys(Kept(q)) = {x \in QueueKeys(q) : x.lane = "held"}
  <2>1. \A x \in QueueKeys(Kept(q)) : x \in QueueKeys(q) /\ x.lane = "held"
    BY <1>5, <1>6, <1>7, <1>8
  <2>2. \A x \in QueueKeys(q) : x.lane = "held" => x \in QueueKeys(Kept(q))
    BY <1>5, <1>6, <1>7, <1>8, <1>9
  <2> QED
    BY <2>1, <2>2
<1>11. Lists(r, <<>>)
  BY <1>4, EmptyList DEF Lists
<1>12. QueueOK(Kept(q))
  BY <1>2, <1>11, QueueIsLists
<1> QED
  BY <1>10, <1>12

(* steerDrain takes the steered messages and no other. *)
LEMMA NoSteersKeys ==
  ASSUME NEW q, QueueOK(q)
  PROVE  QueueOK(NoSteers(q)) /\ QueueKeys(NoSteers(q)) = {x \in QueueKeys(q) : x.lane # "steer"}
<1> DEFINE p == q.pending
<1>1. q = [pending |-> p, steers |-> q.steers] /\ Lists(p, q.steers)
  BY QueueIsLists
<1>2. NoSteers(q) = [pending |-> p, steers |-> <<>>]
  BY <1>1 DEF NoSteers
<1>3. QueueKeys(NoSteers(q)) = {PendingKey(e) : e \in ToSet(p)}
  <2>1. QueueKeys(NoSteers(q)) =
          {PendingKey(e) : e \in ToSet(p)} \cup {SteerKey(e) : e \in ToSet(<<>>)}
    BY <1>2, KeysByElement
  <2> QED
    BY <2>1, EmptyList
<1>4. QueueKeys(q) = {PendingKey(e) : e \in ToSet(p)} \cup {SteerKey(e) : e \in ToSet(q.steers)}
  BY KeysByElement
<1> HIDE DEF p
<1>5. \A e \in ToSet(p) : PendingKey(e).lane # "steer"
  BY DEF PendingKey, Key, Lane
<1>6. \A e \in ToSet(q.steers) : SteerKey(e).lane = "steer"
  BY DEF SteerKey, Key
<1>7. QueueKeys(NoSteers(q)) = {x \in QueueKeys(q) : x.lane # "steer"}
  <2>1. \A x \in QueueKeys(NoSteers(q)) : x \in QueueKeys(q) /\ x.lane # "steer"
    BY <1>3, <1>4, <1>5
  <2>2. \A x \in QueueKeys(q) : x.lane # "steer" => x \in QueueKeys(NoSteers(q))
    BY <1>3, <1>4, <1>6
  <2> QED
    BY <2>1, <2>2
<1>8. Lists(p, <<>>)
  BY <1>1, EmptyList DEF Lists
<1>9. QueueOK(NoSteers(q))
  BY <1>2, <1>8, QueueIsLists
<1> QED
  BY <1>7, <1>9

(* What they hand out: entries of the queue, each once. *)
LEMMA DrainedKeys ==
  ASSUME NEW q, QueueOK(q)
  PROVE  /\ Drained(q) \in Seq(Entry) /\ Unique(Drained(q))
         /\ \A e \in ToSet(Drained(q)) : \E x \in QueueKeys(q) :
              x.id = e.id /\ x.msg = e.msg /\ x.lane # "held"
         /\ \A x \in QueueKeys(q) : x.lane # "held" =>
              \E e \in ToSet(Drained(q)) : x.id = e.id /\ x.msg = e.msg
<1> DEFINE p == q.pending
           s == q.steers
           ks == {i \in DOMAIN p : IsFree(p[i])}
           r == Part(p, ks)
<1>1. Lists(p, s)
  BY QueueIsLists
<1>2. Drained(q) = s \o r
  BY DEF Drained, Select
<1>3. p \in Seq(Entry) /\ Unique(p) /\ ks \in SUBSET DOMAIN p /\ s \in Seq(Entry)
  BY <1>1 DEF Lists
<1>4. /\ r \in Seq(Entry) /\ Unique(r) /\ ToSet(r) = {p[k] : k \in ks}
      /\ \A e \in ToSet(r) : e \in ToSet(p)
  <2> HIDE DEF p, ks
  <2> QED
    BY <1>3, PartOfList
<1>5. ToSet(r) = {e \in ToSet(p) : ~e.held}
  BY <1>4 DEF ToSet, IsFree
<1>6. QueueKeys(q) = {PendingKey(e) : e \in ToSet(p)} \cup {SteerKey(e) : e \in ToSet(s)}
  BY KeysByElement
<1> HIDE DEF p, r, s
<1>7. Lists(r, s)
  BY <1>1, <1>4 DEF Lists
<1>8. s \o r \in Seq(Entry) /\ ToSet(s \o r) = ToSet(s) \cup ToSet(r)
  BY <1>3, <1>4, ConcatElements
<1>9. Unique(s \o r)
  BY <1>3, <1>4, <1>7, ConcatUnique DEF Lists
<1>10. \A e \in ToSet(p) : /\ PendingKey(e).id = e.id /\ PendingKey(e).msg = e.msg
                           /\ PendingKey(e).lane = "held" <=> e.held
  BY DEF PendingKey, Key, Lane
<1>11. \A e \in ToSet(s) : /\ SteerKey(e).id = e.id /\ SteerKey(e).msg = e.msg
                           /\ SteerKey(e).lane # "held"
  BY DEF SteerKey, Key
<1>12. \A e \in ToSet(s \o r) : \E x \in QueueKeys(q) :
              x.id = e.id /\ x.msg = e.msg /\ x.lane # "held"
  BY <1>5, <1>6, <1>8, <1>10, <1>11
<1>13. \A x \in QueueKeys(q) : x.lane # "held" =>
              \E e \in ToSet(s \o r) : x.id = e.id /\ x.msg = e.msg
  BY <1>5, <1>6, <1>8, <1>10, <1>11
<1> QED
  BY <1>2, <1>8, <1>9, <1>12, <1>13
-----------------------------------------------------------------------------
(* remove *)
LEMMA RemoveKeys ==
  ASSUME NEW q, QueueOK(q), NEW id
  PROVE  /\ QueueOK(RemoveId(q, id))
         /\ QueueKeys(RemoveId(q, id)) = {x \in QueueKeys(q) : x.lane = "steer" \/ x.id # id}
<1> DEFINE p == q.pending
           s == q.steers
           ks == {i \in DOMAIN p : p[i].id # id}
           r == Part(p, ks)
<1>1. q = [pending |-> p, steers |-> s] /\ Lists(p, s)
  BY QueueIsLists
<1>2. RemoveId(q, id) = [pending |-> r, steers |-> s]
  BY <1>1 DEF RemoveId, Select
<1>3. p \in Seq(Entry) /\ Unique(p) /\ ks \in SUBSET DOMAIN p /\ s \in Seq(Entry)
  BY <1>1 DEF Lists
<1>4. /\ r \in Seq(Entry) /\ Unique(r) /\ ToSet(r) = {p[k] : k \in ks}
      /\ \A e \in ToSet(r) : e \in ToSet(p)
  <2> HIDE DEF p, ks
  <2> QED
    BY <1>3, PartOfList
<1>5. ToSet(r) = {e \in ToSet(p) : e.id # id}
  BY <1>4 DEF ToSet
<1>6. QueueKeys(q) = {PendingKey(e) : e \in ToSet(p)} \cup {SteerKey(e) : e \in ToSet(s)}
  BY KeysByElement
<1> HIDE DEF p, r, s
<1>7. QueueKeys(RemoveId(q, id)) =
        {PendingKey(e) : e \in ToSet(r)} \cup {SteerKey(e) : e \in ToSet(s)}
  BY <1>2, KeysByElement
<1>8. Lists(r, s)
  BY <1>1, <1>4 DEF Lists
<1>9. QueueOK(RemoveId(q, id))
  BY <1>2, <1>8, QueueIsLists
<1>10. \A e \in ToSet(p) : PendingKey(e).id = e.id /\ PendingKey(e).lane # "steer"
  BY DEF PendingKey, Key, Lane
<1>11. \A e \in ToSet(s) : SteerKey(e).lane = "steer"
  BY DEF SteerKey, Key
<1>12. QueueKeys(RemoveId(q, id)) = {x \in QueueKeys(q) : x.lane = "steer" \/ x.id # id}
  <2>1. \A x \in QueueKeys(RemoveId(q, id)) : x \in QueueKeys(q) /\ (x.lane = "steer" \/ x.id # id)
    BY <1>5, <1>6, <1>7, <1>10, <1>11
  <2>2. \A x \in QueueKeys(q) : x.lane = "steer" \/ x.id # id => x \in QueueKeys(RemoveId(q, id))
    BY <1>5, <1>6, <1>7, <1>10, <1>11
  <2> QED
    BY <2>1, <2>2
<1> QED
  BY <1>9, <1>12

(* The same message under the same id, however it waits. *)
Same(x, y) == x.id = y.id /\ x.msg = y.msg

(* hold and edit *)
LEMMA SetHeldKeys ==
  ASSUME NEW q, QueueOK(q), NEW id, NEW held \in BOOLEAN
  PROVE  LET r == SetHeld(q, id, held)
         IN  /\ QueueOK(r)
             /\ \A x \in QueueKeys(q) : x.lane = "steer" \/ x.id # id => x \in QueueKeys(r)
             /\ \A x \in QueueKeys(q) : x.lane # "steer" /\ x.id = id =>
                  Key(x.id, x.msg, Lane(held)) \in QueueKeys(r)
             /\ \A y \in QueueKeys(r) : \E x \in QueueKeys(q) : Same(x, y)
<1> DEFINE p == q.pending
           s == q.steers
           r == [i \in DOMAIN p |-> IF p[i].id = id THEN [p[i] EXCEPT !.held = held] ELSE p[i]]
           kept == QueueKeys(SetHeld(q, id, held))
<1>1. q = [pending |-> p, steers |-> s] /\ Lists(p, s)
  BY QueueIsLists
<1>2. SetHeld(q, id, held) = [pending |-> r, steers |-> s]
  BY <1>1 DEF SetHeld
<1>3. p \in Seq(Entry) /\ Unique(p) /\ s \in Seq(Entry) /\ DOMAIN p = 1 .. Len(p) /\ Len(p) \in Nat
  BY <1>1, LenProperties DEF Lists
<1>4. QueueKeys(q) = {PendingKey(e) : e \in ToSet(p)} \cup {SteerKey(e) : e \in ToSet(s)}
  BY KeysByElement
<1>5. kept = {PendingKey(e) : e \in ToSet(r)} \cup {SteerKey(e) : e \in ToSet(s)}
  BY <1>2, KeysByElement
<1> HIDE DEF p, s
<1>6. \A i \in DOMAIN p : p[i] \in Entry
  BY <1>3
<1>7. \A i \in DOMAIN p : /\ r[i] \in Entry /\ r[i].id = p[i].id /\ r[i].msg = p[i].msg
                          /\ p[i].id = id => r[i].held = held
                          /\ p[i].id # id => r[i] = p[i]
  BY <1>6 DEF Entry
<1>8. DOMAIN r = DOMAIN p /\ r \in [1 .. Len(p) -> Entry]
  BY <1>3, <1>7
<1> HIDE DEF r, kept
<1>9. r \in Seq(Entry)
  BY <1>3, <1>8
<1>10. Unique(r)
  BY <1>3, <1>7, <1>8 DEF Unique
<1>11. \A e \in ToSet(r) : \E f \in ToSet(p) : f.id = e.id /\ f.msg = e.msg
  BY <1>7, <1>8 DEF ToSet
<1>12. \A e \in ToSet(p) : e.id # id => e \in ToSet(r)
  BY <1>7, <1>8 DEF ToSet
<1>13. \A e \in ToSet(p) : e.id = id =>
         \E f \in ToSet(r) : f.id = e.id /\ f.msg = e.msg /\ f.held = held
  BY <1>7, <1>8 DEF ToSet
<1>14. Lists(r, s)
  BY <1>1, <1>9, <1>10, <1>11 DEF Lists
<1>15. QueueOK(SetHeld(q, id, held))
  BY <1>2, <1>14, QueueIsLists
<1>16. \A e : /\ PendingKey(e).id = e.id /\ PendingKey(e).msg = e.msg
              /\ PendingKey(e).lane # "steer"
  BY DEF PendingKey, Key, Lane
<1>17. \A e : /\ SteerKey(e).id = e.id /\ SteerKey(e).msg = e.msg
              /\ SteerKey(e).lane = "steer"
  BY DEF SteerKey, Key
<1>18. \A x \in QueueKeys(q) : x.lane = "steer" \/ x.id # id => x \in kept
  BY <1>4, <1>5, <1>12, <1>16
<1>19. \A y \in kept : \E x \in QueueKeys(q) : Same(x, y)
  BY <1>4, <1>5, <1>11, <1>16, <1>17 DEF Same
<1>20. \A x \in QueueKeys(q) : x.lane # "steer" /\ x.id = id =>
         Key(x.id, x.msg, Lane(held)) \in kept
  <2> SUFFICES ASSUME NEW e \in ToSet(p), e.id = id
               PROVE  Key(e.id, e.msg, Lane(held)) \in kept
    BY <1>4, <1>16, <1>17
  <2>1. PICK f \in ToSet(r) : f.id = e.id /\ f.msg = e.msg /\ f.held = held
    BY <1>13
  <2>2. PendingKey(f) = Key(e.id, e.msg, Lane(held))
    BY <2>1 DEF PendingKey
  <2> QED
    BY <1>5, <2>2
<1> QED
  BY <1>15, <1>18, <1>19, <1>20 DEF kept

(* steer *)
LEMMA SteerIdKeys ==
  ASSUME NEW q, QueueOK(q), NEW id
  PROVE  LET r == SteerId(q, id)
         IN  /\ QueueOK(r)
             /\ \A x \in QueueKeys(q) : x.id # id => x \in QueueKeys(r)
             /\ \A x \in QueueKeys(q) : \E y \in QueueKeys(r) : Same(x, y)
             /\ \A y \in QueueKeys(r) : \E x \in QueueKeys(q) : Same(x, y)
<1> DEFINE p == q.pending
           s == q.steers
           ks == {i \in DOMAIN p : p[i].id # id}
           js == {i \in DOMAIN p : p[i].id = id}
           r == Part(p, ks)
           t == Part(p, js)
           u == s \o t
           moved == QueueKeys(SteerId(q, id))
<1>1. q = [pending |-> p, steers |-> s] /\ Lists(p, s)
  BY QueueIsLists
<1>2. SteerId(q, id) = [pending |-> r, steers |-> u]
  BY DEF SteerId, Select
<1>3. /\ p \in Seq(Entry) /\ Unique(p) /\ s \in Seq(Entry) /\ Unique(s)
      /\ ks \in SUBSET DOMAIN p /\ js \in SUBSET DOMAIN p
  BY <1>1 DEF Lists
<1>4. /\ r \in Seq(Entry) /\ Unique(r) /\ ToSet(r) = {p[k] : k \in ks}
      /\ \A e \in ToSet(r) : e \in ToSet(p)
  <2> HIDE DEF p, ks
  <2> QED
    BY <1>3, PartOfList
<1>5. /\ t \in Seq(Entry) /\ Unique(t) /\ ToSet(t) = {p[k] : k \in js}
      /\ \A e \in ToSet(t) : e \in ToSet(p)
  <2> HIDE DEF p, js
  <2> QED
    BY <1>3, PartOfList
<1>6. ToSet(r) = {e \in ToSet(p) : e.id # id} /\ ToSet(t) = {e \in ToSet(p) : e.id = id}
  BY <1>4, <1>5 DEF ToSet
<1>7. QueueKeys(q) = {PendingKey(e) : e \in ToSet(p)} \cup {SteerKey(e) : e \in ToSet(s)}
  BY KeysByElement
<1> HIDE DEF p, s, r, t
<1>8. u \in Seq(Entry) /\ ToSet(u) = ToSet(s) \cup ToSet(t)
  BY <1>3, <1>5, ConcatElements
<1>9. Lists(t, s)
  BY <1>1, <1>3, <1>5 DEF Lists
<1>10. Unique(u)
  BY <1>3, <1>5, <1>9, ConcatUnique DEF Lists
<1> HIDE DEF u
<1>11. moved = {PendingKey(e) : e \in ToSet(r)} \cup {SteerKey(e) : e \in ToSet(s) \cup ToSet(t)}
  BY <1>2, <1>8, KeysByElement
<1> HIDE DEF moved
<1>12. Lists(r, u)
  BY <1>1, <1>4, <1>6, <1>8, <1>10 DEF Lists
<1>13. QueueOK(SteerId(q, id))
  BY <1>2, <1>12, QueueIsLists
<1>14. \A e : /\ PendingKey(e).id = e.id /\ PendingKey(e).msg = e.msg
              /\ PendingKey(e).lane # "steer"
  BY DEF PendingKey, Key, Lane
<1>15. \A e : /\ SteerKey(e).id = e.id /\ SteerKey(e).msg = e.msg
              /\ SteerKey(e).lane = "steer"
  BY DEF SteerKey, Key
<1>16. \A x \in QueueKeys(q) : x.id # id => x \in moved
  BY <1>6, <1>7, <1>11, <1>14, <1>15
<1>17. \A x \in QueueKeys(q) : \E y \in moved : Same(x, y)
  BY <1>6, <1>7, <1>11, <1>14, <1>15 DEF Same
<1>18. \A y \in moved : \E x \in QueueKeys(q) : Same(x, y)
  BY <1>6, <1>7, <1>11, <1>14, <1>15 DEF Same
<1> QED
  BY <1>13, <1>16, <1>17, <1>18 DEF moved

(* reorder *)
LEMMA ReorderKeys ==
  ASSUME NEW q, QueueOK(q), NEW ids \in Seq(Nat), IsReorder(q, ids)
  PROVE  QueueOK(Reorder(q, ids)) /\ QueueKeys(Reorder(q, ids)) = QueueKeys(q)
<1> DEFINE p == q.pending
           s == q.steers
           n == Len(p)
           r == [i \in DOMAIN ids |-> CHOOSE e \in ToSet(p) : e.id = ids[i]]
<1>1. q = [pending |-> p, steers |-> s] /\ Lists(p, s)
  BY QueueIsLists
<1>2. Reorder(q, ids) = [pending |-> r, steers |-> s]
  <2>1. Reorder(q, ids) = [q EXCEPT !.pending = r]
    BY Zenon DEF Reorder
  <2> HIDE DEF r
  <2> QED
    BY <1>1, <2>1
<1>3. p \in Seq(Entry) /\ Unique(p) /\ s \in Seq(Entry) /\ DOMAIN p = 1 .. n /\ n \in Nat
  BY <1>1, LenProperties DEF Lists
<1>4. DOMAIN ids = 1 .. n /\ ToSet(ids) = Ids(p)
  BY LenProperties DEF IsReorder
<1>5. QueueKeys(q) = {PendingKey(e) : e \in ToSet(p)} \cup {SteerKey(e) : e \in ToSet(s)}
  BY KeysByElement
<1>6. QueueKeys(Reorder(q, ids)) =
        {PendingKey(e) : e \in ToSet(r)} \cup {SteerKey(e) : e \in ToSet(s)}
  <2> HIDE DEF r
  <2> QED
    BY <1>2, KeysByElement
<1> HIDE DEF p, s, n
<1>7. ids \in Surjection(1 .. n, Ids(p))
  <2>1. \A i \in 1 .. n : ids[i] \in Ids(p)
    BY <1>4 DEF ToSet
  <2>2. ids \in [1 .. n -> Ids(p)]
    BY <1>4, <2>1
  <2>3. \A x \in Ids(p) : \E i \in 1 .. n : ids[i] = x
    BY <1>4 DEF ToSet
  <2> QED
    BY <2>2, <2>3 DEF Surjection
<1>8. Cardinality(Ids(p)) = n /\ Cardinality(1 .. n) = n /\ IsFiniteSet(1 .. n)
  <2> DEFINE f == [i \in 1 .. n |-> p[i].id]
  <2>1. f \in [1 .. n -> Ids(p)] /\ \A i, j \in 1 .. n : f[i] = f[j] => i = j
    BY <1>3 DEF Ids, Unique
  <2>2. \A x \in Ids(p) : \E i \in 1 .. n : f[i] = x
    BY <1>3 DEF Ids
  <2> HIDE DEF f
  <2>3. f \in Injection(1 .. n, Ids(p)) /\ f \in Surjection(1 .. n, Ids(p))
    BY <2>1, <2>2 DEF Injection, Surjection, IsInjective
  <2>4. IsFiniteSet(1 .. n) /\ Cardinality(1 .. n) = n
    BY <1>3, FS_Interval
  <2> QED
    BY <2>3, <2>4, FS_Surjection
<1>9. \A i, j \in 1 .. n : ids[i] = ids[j] => i = j
  <2>1. ids \in Injection(1 .. n, Ids(p))
    BY <1>7, <1>8, FS_SurjSameCardinalityImpliesInj
  <2> QED
    BY <2>1 DEF Injection, IsInjective
<1>10. \A i \in 1 .. n : r[i] \in ToSet(p) /\ r[i].id = ids[i]
  <2> TAKE i \in 1 .. n
  <2>1. ids[i] \in Ids(p)
    BY <1>4 DEF ToSet
  <2>2. \E e \in ToSet(p) : e.id = ids[i]
    BY <2>1, IdsByElement
  <2> QED
    BY <1>4, <2>2
<1>11. DOMAIN r = 1 .. n
  BY <1>4
<1> HIDE DEF r
<1>12. \A e \in ToSet(p) : e \in Entry
  BY <1>3, ElementsAreEntries
<1>13. r \in Seq(Entry)
  <2>1. r \in [1 .. n -> Entry]
    <3>1. \A i \in 1 .. n : r[i] \in Entry
      BY <1>10, <1>12
    <3>2. r = [i \in 1 .. n |-> r[i]]
      BY <1>4 DEF r
    <3> QED
      BY <3>1, <3>2
  <2> QED
    BY <1>3, <2>1
<1>14. Unique(r)
  BY <1>9, <1>10, <1>11 DEF Unique
<1>15. ToSet(r) = ToSet(p)
  <2>1. \A e \in ToSet(r) : e \in ToSet(p)
    BY <1>10, <1>11 DEF ToSet
  <2>2. \A e \in ToSet(p) : e \in ToSet(r)
    <3> TAKE e \in ToSet(p)
    <3>1. e.id \in Ids(p)
      BY IdsByElement
    <3>2. PICK i \in 1 .. n : ids[i] = e.id
      BY <1>4, <3>1 DEF ToSet
    <3>3. r[i] = e
      BY <1>3, <1>10, <3>2, ElementsAreEntries
    <3> QED
      BY <1>11, <3>3 DEF ToSet
  <2> QED
    BY <2>1, <2>2
<1>16. Lists(r, s)
  BY <1>1, <1>13, <1>14, <1>15 DEF Lists
<1>17. QueueOK(Reorder(q, ids))
  BY <1>2, <1>16, QueueIsLists
<1> QED
  BY <1>5, <1>6, <1>15, <1>17
-----------------------------------------------------------------------------
(* What rows hold, by their elements. *)
LEMMA RowKeysByElement ==
  ASSUME NEW rs
  PROVE  RowKeys(rs) = {RowKey(r) : r \in ToSet(rs)}
BY DEF RowKeys, ToSet

(* How a row waits is what its two flags say. *)
LEMMA RowKeyIs ==
  ASSUME NEW r \in Row
  PROVE  /\ RowKey(r).id = r.id /\ RowKey(r).msg = r.msg
         /\ RowKey(r).lane = "steer" <=> r.steer
         /\ RowKey(r).lane = "held" <=> ~r.steer /\ r.held
BY DEF RowKey, Key, Lane, Row

(* Well-formed rows, by their elements. *)
LEMMA RowsByElement ==
  ASSUME NEW rs \in Seq(Row)
  PROVE  /\ \A r \in ToSet(rs) : r \in Row
         /\ RowsOK(rs) <=> Unique(rs) /\ \A r \in ToSet(rs) : r.steer => ~r.held
         /\ Unique(rs) => \A r, t \in ToSet(rs) : r.id = t.id => r = t
BY DEF ToSet, RowsOK, Unique

(* The delete of one row. *)
LEMMA DeleteRowKeys ==
  ASSUME NEW rs, RowsOK(rs), NEW id
  PROVE  /\ RowsOK(DeleteRow(rs, id))
         /\ ToSet(DeleteRow(rs, id)) = {r \in ToSet(rs) : r.id # id}
         /\ RowKeys(DeleteRow(rs, id)) = {x \in RowKeys(rs) : x.id # id}
<1> DEFINE ks == {i \in DOMAIN rs : rs[i].id # id}
           d == DeleteRow(rs, id)
<1>1. rs \in Seq(Row) /\ Unique(rs) /\ ks \in SUBSET DOMAIN rs
  BY DEF RowsOK
<1>2. d = Part(rs, ks)
  BY DEF DeleteRow, Select
<1>3. d \in Seq(Row) /\ Unique(d) /\ ToSet(d) = {rs[k] : k \in ks}
  <2> HIDE DEF ks, d
  <2> QED
    BY <1>1, <1>2, PartIsSeq, PartUnique, PartSet
<1>4. ToSet(d) = {r \in ToSet(rs) : r.id # id}
  BY <1>3 DEF ToSet
<1> HIDE DEF d
<1>5. RowsOK(d)
  BY <1>1, <1>3, <1>4, RowsByElement
<1>6. RowKeys(d) = {x \in RowKeys(rs) : x.id # id}
  BY <1>1, <1>4, RowKeysByElement, RowsByElement, RowKeyIs
<1> QED
  BY <1>4, <1>5, <1>6 DEF d

(* The insert of one row, wherever among rows of its position it lands. *)
LEMMA InsertedRowKeys ==
  ASSUME NEW rs, RowsOK(rs), NEW row \in Row, ~row.held, NEW new \in InsertedRow(rs, row)
  PROVE  /\ RowsOK(new)
         /\ RowKeys(new) = {x \in RowKeys(rs) : x.id # row.id} \cup {RowKey(row)}
<1> DEFINE s == DeleteRow(rs, row.id)
<1>1. /\ RowsOK(s) /\ ToSet(s) = {r \in ToSet(rs) : r.id # row.id}
      /\ RowKeys(s) = {x \in RowKeys(rs) : x.id # row.id}
  BY DeleteRowKeys
<1>2. PICK k \in 1 .. Len(s) + 1 : new = InsertAt(s, k, row)
  BY DEF InsertedRow
<1> HIDE DEF s
<1>3. s \in Seq(Row) /\ Unique(s)
  BY <1>1 DEF RowsOK
<1>4. DOMAIN s = 1 .. Len(s) /\ Len(s) \in Nat /\ k \in Nat /\ k >= 1 /\ k <= Len(s) + 1
  BY <1>3, LenProperties
<1> DEFINE a == SubSeq(s, 1, k - 1)
           b == SubSeq(s, k, Len(s))
<1>5. /\ a \in Seq(Row) /\ DOMAIN a = 1 .. k - 1 /\ \A i \in DOMAIN a : a[i] = s[i]
  <2>1. \A i \in 1 .. k - 1 : s[i] \in Row
    BY <1>3, <1>4
  <2>2. /\ a \in Seq(Row) /\ Len(a) = (IF 1 <= k - 1 THEN (k - 1) - 1 + 1 ELSE 0)
        /\ \A i \in 1 .. (k - 1) - 1 + 1 : a[i] = s[1 + i - 1]
    BY <1>4, <2>1, SubSeqProperties
  <2> HIDE DEF a
  <2>3. DOMAIN a = 1 .. Len(a) /\ Len(a) = k - 1
    BY <1>4, <2>2, LenProperties
  <2>4. \A i \in 1 .. k - 1 : 1 + i - 1 = i /\ i \in 1 .. (k - 1) - 1 + 1
    BY <1>4
  <2> QED
    BY <2>2, <2>3, <2>4
<1>6. /\ b \in Seq(Row) /\ DOMAIN b = 1 .. Len(s) - k + 1
      /\ \A i \in DOMAIN b : b[i] = s[k + i - 1]
  <2>1. \A i \in k .. Len(s) : s[i] \in Row
    BY <1>3, <1>4
  <2>2. /\ b \in Seq(Row) /\ Len(b) = (IF k <= Len(s) THEN Len(s) - k + 1 ELSE 0)
        /\ \A i \in 1 .. Len(s) - k + 1 : b[i] = s[k + i - 1]
    BY <1>4, <2>1, SubSeqProperties
  <2> HIDE DEF b
  <2>3. DOMAIN b = 1 .. Len(b) /\ Len(b) = Len(s) - k + 1
    BY <1>4, <2>2, LenProperties
  <2> QED
    BY <2>2, <2>3
<1> HIDE DEF a, b
<1>7. \A i \in DOMAIN a : i \in DOMAIN s /\ a[i] = s[i] /\ i < k
  BY <1>4, <1>5
<1>8. \A i \in DOMAIN b : k + i - 1 \in DOMAIN s /\ b[i] = s[k + i - 1] /\ k + i - 1 >= k
  BY <1>4, <1>6
<1>9. \A j \in DOMAIN s : j < k => j \in DOMAIN a
  BY <1>4, <1>5
<1>10. \A j \in DOMAIN s : ~(j < k) => j - k + 1 \in DOMAIN b /\ k + (j - k + 1) - 1 = j
  BY <1>4, <1>6
<1>11. ToSet(a) \cup ToSet(b) = ToSet(s)
  <2>1. \A x \in ToSet(a) : x \in ToSet(s)
    BY <1>7 DEF ToSet
  <2>2. \A x \in ToSet(b) : x \in ToSet(s)
    BY <1>8 DEF ToSet
  <2>3. \A j \in DOMAIN s : s[j] \in ToSet(a) \cup ToSet(b)
    <3> TAKE j \in DOMAIN s
    <3>1. CASE j < k
      BY <1>7, <1>9, <3>1 DEF ToSet
    <3>2. CASE ~(j < k)
      <4>1. b[j - k + 1] = s[j] /\ j - k + 1 \in DOMAIN b
        BY <1>8, <1>10, <3>2
      <4> QED
        BY <4>1 DEF ToSet
    <3> QED
      BY <3>1, <3>2
  <2> QED
    BY <2>1, <2>2, <2>3 DEF ToSet
<1>12. Unique(a)
  BY <1>3, <1>7 DEF Unique
<1>13. Unique(b)
  <2> SUFFICES ASSUME NEW i \in DOMAIN b, NEW j \in DOMAIN b, b[i].id = b[j].id PROVE i = j
    BY DEF Unique
  <2>1. k + i - 1 = k + j - 1
    BY <1>3, <1>8 DEF Unique
  <2> QED
    BY <1>4, <1>6, <2>1
<1>14. \A e \in ToSet(a), f \in ToSet(b) : e.id # f.id
  <2> SUFFICES ASSUME NEW i \in DOMAIN a, NEW j \in DOMAIN b, a[i].id = b[j].id PROVE FALSE
    BY DEF ToSet
  <2>1. i = k + j - 1
    BY <1>3, <1>7, <1>8 DEF Unique
  <2>2. i < k /\ k + j - 1 >= k /\ i \in Nat
    BY <1>4, <1>7, <1>8
  <2> QED
    BY <1>4, <2>1, <2>2
<1>15. \A r \in ToSet(s) : r.id # row.id
  BY <1>1
<1> DEFINE one == <<row>>
<1>16. one \in Seq(Row) /\ ToSet(one) = {row} /\ Unique(one)
  BY DEF ToSet, Unique
<1> HIDE DEF one
<1> DEFINE u == a \o one
<1>17. u \in Seq(Row) /\ ToSet(u) = ToSet(a) \cup {row}
  BY <1>5, <1>16, ConcatElements
<1>18. Unique(u)
  BY <1>5, <1>11, <1>12, <1>15, <1>16, ConcatUnique
<1> HIDE DEF u
<1>19. u \o b \in Seq(Row) /\ ToSet(u \o b) = ToSet(a) \cup {row} \cup ToSet(b)
  BY <1>6, <1>17, ConcatElements
<1>20. \A e \in ToSet(u), f \in ToSet(b) : e.id # f.id
  BY <1>11, <1>14, <1>15, <1>17
<1>21. Unique(u \o b)
  BY <1>6, <1>13, <1>17, <1>18, <1>20, ConcatUnique
<1>22. new = u \o b
  BY <1>2, Zenon DEF InsertAt, u, a, b, one
<1>23. new \in Seq(Row) /\ Unique(new) /\ ToSet(new) = ToSet(s) \cup {row}
  BY <1>11, <1>19, <1>21, <1>22
<1>24. \A r \in ToSet(s) : r.steer => ~r.held
  BY <1>1, <1>3, RowsByElement
<1>25. RowsOK(new)
  BY <1>23, <1>24, RowsByElement
<1>26. RowKeys(new) = RowKeys(s) \cup {RowKey(row)}
  BY <1>23, RowKeysByElement
<1> QED
  BY <1>1, <1>25, <1>26

(* The row a resume picks. *)
LEMMA PickedRow ==
  ASSUME NEW rs, RowsOK(rs)
  PROVE  LET waiting == Select(rs, LAMBDA r : ~r.steer /\ ~r.held)
         IN  waiting # <<>> => /\ Head(waiting) \in ToSet(rs)
                               /\ ~Head(waiting).steer /\ ~Head(waiting).held
<1> DEFINE ks == {i \in DOMAIN rs : ~rs[i].steer /\ ~rs[i].held}
           w == Part(rs, ks)
<1>1. rs \in Seq(Row) /\ ks \in SUBSET DOMAIN rs
  BY DEF RowsOK
<1>2. w \in Seq(Row) /\ ToSet(w) = {rs[k] : k \in ks}
  <2> HIDE DEF ks
  <2> QED
    BY <1>1, PartIsSeq, PartSet
<1>3. w # <<>> => Head(w) \in ToSet(w)
  <2> HIDE DEF w
  <2>1. w # <<>> => 1 \in DOMAIN w /\ Head(w) = w[1]
    BY <1>2
  <2> QED
    BY <2>1 DEF ToSet
<1>4. w # <<>> => Head(w) \in ToSet(rs) /\ ~Head(w).steer /\ ~Head(w).held
  BY <1>2, <1>3 DEF ToSet
<1> QED
  BY <1>4 DEF Select
-----------------------------------------------------------------------------
(* No message is twice in a batch. *)
Distinct(s) == \A i, j \in DOMAIN s : s[i] = s[j] => i = j

(* The first message of a batch, and the rest. *)
LEMMA HeadAndTail ==
  ASSUME NEW S, NEW b \in Seq(S), b # <<>>
  PROVE  /\ Head(b) \in S /\ Tail(b) \in Seq(S) /\ Len(Tail(b)) = Len(b) - 1
         /\ Len(b) \in Nat /\ Len(b) >= 1 /\ (Len(b) = 1 <=> Tail(b) = <<>>)
         /\ ToSet(b) = {Head(b)} \cup ToSet(Tail(b))
         /\ Distinct(b) => Distinct(Tail(b)) /\ Head(b) \notin ToSet(Tail(b))
<1> DEFINE t == Tail(b)
           n == Len(b)
<1>1. /\ Head(b) \in S /\ t \in Seq(S) /\ Len(t) = n - 1 /\ Head(b) = b[1]
      /\ \A i \in 1 .. Len(t) : t[i] = b[i + 1]
  BY HeadTailProperties
<1>2. DOMAIN b = 1 .. n /\ n \in Nat /\ n >= 1 /\ DOMAIN t = 1 .. n - 1
  BY <1>1, LenProperties
<1>3. n = 1 <=> t = <<>>
  BY <1>1, <1>2
<1> HIDE DEF t, n
<1>4. \A i \in DOMAIN t : i + 1 \in DOMAIN b /\ t[i] = b[i + 1] /\ i + 1 # 1
  BY <1>1, <1>2
<1>5. \A j \in DOMAIN b : j # 1 => j - 1 \in DOMAIN t /\ t[j - 1] = b[j]
  <2> TAKE j \in DOMAIN b
  <2> HAVE j # 1
  <2>1. j - 1 \in DOMAIN t /\ (j - 1) + 1 = j
    BY <1>2
  <2> QED
    BY <1>4, <2>1
<1>6. ToSet(b) = {Head(b)} \cup ToSet(t)
  <2>1. \A j \in DOMAIN b : b[j] \in {Head(b)} \cup ToSet(t)
    BY <1>1, <1>5 DEF ToSet
  <2>2. \A i \in DOMAIN t : t[i] \in ToSet(b)
    BY <1>4 DEF ToSet
  <2>3. Head(b) \in ToSet(b)
    BY <1>1, <1>2 DEF ToSet
  <2> QED
    BY <2>1, <2>2, <2>3 DEF ToSet
<1>7. ASSUME Distinct(b) PROVE Distinct(t) /\ Head(b) \notin ToSet(t)
  <2>1. ASSUME NEW i \in DOMAIN t, NEW j \in DOMAIN t, t[i] = t[j] PROVE i = j
    <3>1. i + 1 = j + 1
      BY <1>4, <1>7, <2>1 DEF Distinct
    <3> QED
      BY <1>2, <3>1
  <2>2. ASSUME NEW i \in DOMAIN t, t[i] = Head(b) PROVE FALSE
    <3>1. i + 1 = 1
      BY <1>1, <1>2, <1>4, <1>7, <2>2 DEF Distinct
    <3> QED
      BY <1>4, <3>1
  <2> QED
    BY <2>1, <2>2 DEF Distinct, ToSet
<1> QED
  BY <1>1, <1>2, <1>3, <1>6, <1>7 DEF t, n

(* The second message of a batch, and the others. *)
LEMMA SecondAndOthers ==
  ASSUME NEW S, NEW b \in Seq(S), Len(b) >= 2
  PROVE  LET r == RemoveAt(b, 2)
         IN  /\ b[2] \in S /\ r \in Seq(S) /\ Len(r) = Len(b) - 1
             /\ ToSet(b) = {b[2]} \cup ToSet(r)
             /\ Distinct(b) => Distinct(r) /\ b[2] \notin ToSet(r)
<1> DEFINE r == RemoveAt(b, 2)
           n == Len(b)
           x == SubSeq(b, 1, 2 - 1)
           y == SubSeq(b, 2 + 1, Len(b))
<1>1. DOMAIN b = 1 .. n /\ n \in Nat /\ n >= 2 /\ \A i \in 1 .. n : b[i] \in S
  BY LenProperties, ElementOfSeq
<1>2. x \in Seq(S) /\ Len(x) = 1 /\ x[1] = b[1]
  <2>1. \A i \in 1 .. 1 : b[i] \in S
    BY <1>1
  <2>2. /\ SubSeq(b, 1, 1) \in Seq(S)
        /\ Len(SubSeq(b, 1, 1)) = (IF 1 <= 1 THEN 1 - 1 + 1 ELSE 0)
        /\ \A i \in 1 .. 1 - 1 + 1 : SubSeq(b, 1, 1)[i] = b[1 + i - 1]
    BY <2>1, SubSeqProperties
  <2>3. 2 - 1 = 1
    OBVIOUS
  <2> QED
    BY <2>2, <2>3
<1>3. y \in Seq(S) /\ Len(y) = n - 2 /\ \A i \in 1 .. n - 2 : y[i] = b[i + 2]
  <2>1. \A i \in 3 .. n : b[i] \in S
    BY <1>1
  <2>2. /\ SubSeq(b, 3, n) \in Seq(S)
        /\ Len(SubSeq(b, 3, n)) = (IF 3 <= n THEN n - 3 + 1 ELSE 0)
        /\ \A i \in 1 .. n - 3 + 1 : SubSeq(b, 3, n)[i] = b[3 + i - 1]
    BY <1>1, <2>1, SubSeqProperties
  <2>3. y = SubSeq(b, 3, n) /\ n - 3 + 1 = n - 2
    BY <1>1
  <2>4. \A i \in 1 .. n - 2 : 3 + i - 1 = i + 2
    BY <1>1
  <2> HIDE DEF y
  <2>5. Len(y) = n - 2
    BY <1>1, <2>2, <2>3
  <2> QED
    BY <2>2, <2>3, <2>4, <2>5
<1>4. r = x \o y
  BY Zenon DEF RemoveAt
<1> HIDE DEF x, y, r
<1>5. /\ r \in Seq(S) /\ Len(r) = Len(x) + Len(y)
      /\ \A i \in 1 .. Len(x) + Len(y) : r[i] = IF i <= Len(x) THEN x[i] ELSE y[i - Len(x)]
  BY <1>2, <1>3, <1>4, ConcatProperties, Zenon
<1> HIDE DEF n
<1>6. Len(r) = n - 1 /\ DOMAIN r = 1 .. n - 1
  <2>1. Len(x) + Len(y) = n - 1
    BY <1>1, <1>2, <1>3
  <2>2. DOMAIN r = 1 .. Len(r)
    BY <1>5, LenProperties
  <2> QED
    BY <1>5, <2>1, <2>2
<1>7. r[1] = b[1] /\ \A i \in 2 .. n - 1 : r[i] = b[i + 1]
  <2>1. 1 \in 1 .. Len(x) + Len(y) /\ Len(x) = 1 /\ Len(x) + Len(y) = n - 1
    BY <1>1, <1>2, <1>3
  <2>2. r[1] = b[1]
    BY <1>2, <1>5, <2>1
  <2>3. ASSUME NEW i \in 2 .. n - 1 PROVE r[i] = b[i + 1]
    <3>1. i \in 1 .. n - 1 /\ ~(i <= 1) /\ i - 1 \in 1 .. n - 2 /\ (i - 1) + 2 = i + 1
      BY <1>1
    <3>2. r[i] = y[i - 1]
      BY <1>5, <2>1, <3>1
    <3> QED
      BY <1>3, <3>1, <3>2
  <2> QED
    BY <2>2, <2>3
<1> DEFINE at == [i \in 1 .. n - 1 |-> IF i = 1 THEN 1 ELSE i + 1]
<1>8. \A i \in 1 .. n - 1 : at[i] \in 1 .. n /\ at[i] # 2 /\ r[i] = b[at[i]]
  <2> TAKE i \in 1 .. n - 1
  <2>1. i = 1 \/ i \in 2 .. n - 1
    BY <1>1
  <2> QED
    BY <1>1, <1>7, <2>1
<1>9. \A i, j \in 1 .. n - 1 : at[i] = at[j] => i = j
  BY <1>1
<1>10. \A k \in 1 .. n : k # 2 => \E i \in 1 .. n - 1 : at[i] = k
  <2> TAKE k \in 1 .. n
  <2> HAVE k # 2
  <2>1. CASE k = 1
    <3>1. 1 \in 1 .. n - 1
      BY <1>1
    <3> QED
      BY <2>1, <3>1
  <2>2. CASE k # 1
    <3>1. k - 1 \in 1 .. n - 1 /\ k - 1 # 1 /\ (k - 1) + 1 = k
      BY <1>1, <2>2
    <3> QED
      BY <3>1
  <2> QED
    BY <2>1, <2>2
<1> HIDE DEF at
<1>11. b[2] \in S /\ 2 \in 1 .. n
  BY <1>1
<1>12. ToSet(b) = {b[2]} \cup ToSet(r)
  <2>1. \A k \in 1 .. n : b[k] \in {b[2]} \cup ToSet(r)
    BY <1>6, <1>8, <1>10 DEF ToSet
  <2>2. \A i \in 1 .. n - 1 : r[i] \in ToSet(b)
    BY <1>1, <1>8 DEF ToSet
  <2>3. b[2] \in ToSet(b)
    BY <1>1, <1>11 DEF ToSet
  <2> QED
    BY <1>1, <1>6, <2>1, <2>2, <2>3 DEF ToSet
<1>13. ASSUME Distinct(b) PROVE Distinct(r) /\ b[2] \notin ToSet(r)
  <2>1. ASSUME NEW i \in 1 .. n - 1, NEW j \in 1 .. n - 1, r[i] = r[j] PROVE i = j
    BY <1>1, <1>8, <1>9, <1>13, <2>1 DEF Distinct
  <2>2. ASSUME NEW i \in 1 .. n - 1, r[i] = b[2] PROVE FALSE
    BY <1>1, <1>8, <1>11, <1>13, <2>2 DEF Distinct
  <2> QED
    BY <1>6, <2>1, <2>2 DEF Distinct, ToSet
<1> QED
  BY <1>5, <1>6, <1>11, <1>12, <1>13 DEF n, r

(* The messages of a list of entries. *)
MessagesOf(out) == [i \in DOMAIN out |-> out[i].msg]

(* A batch of entries with different messages repeats none. *)
LEMMA MessagesOfEntries ==
  ASSUME NEW out \in Seq(Entry), Unique(out)
  PROVE  /\ MessagesOf(out) \in Seq(Messages) /\ Len(MessagesOf(out)) = Len(out)
         /\ ToSet(MessagesOf(out)) = {e.msg : e \in ToSet(out)}
         /\ (\A e, f \in ToSet(out) : e.msg = f.msg => e.id = f.id) => Distinct(MessagesOf(out))
<1> DEFINE b == MessagesOf(out)
           n == Len(out)
<1>1. DOMAIN out = 1 .. n /\ n \in Nat /\ \A i \in 1 .. n : out[i] \in Entry
  BY LenProperties, ElementOfSeq
<1>2. DOMAIN b = 1 .. n /\ \A i \in 1 .. n : b[i] = out[i].msg /\ out[i].msg \in Messages
  BY <1>1 DEF MessagesOf, Entry
<1>3. b \in [1 .. n -> Messages]
  BY <1>1, <1>2 DEF MessagesOf
<1> HIDE DEF b
<1>4. b \in Seq(Messages) /\ Len(b) = n
  BY <1>1, <1>3
<1>5. ToSet(b) = {e.msg : e \in ToSet(out)}
  BY <1>1, <1>2 DEF ToSet
<1>6. (\A e, f \in ToSet(out) : e.msg = f.msg => e.id = f.id) => Distinct(b)
  BY <1>1, <1>2 DEF Distinct, ToSet, Unique
<1> QED
  BY <1>4, <1>5, <1>6 DEF b
-----------------------------------------------------------------------------
(* The image of a finite set is finite. *)
LEMMA FiniteImage ==
  ASSUME NEW f, IsFiniteSet(DOMAIN f)
  PROVE  /\ IsFiniteSet({f[x] : x \in DOMAIN f})
         /\ Cardinality({f[x] : x \in DOMAIN f}) <= Cardinality(DOMAIN f)
<1> DEFINE T == {f[x] : x \in DOMAIN f}
           g == [x \in DOMAIN f |-> f[x]]
<1>1. g \in Surjection(DOMAIN f, T)
  BY DEF Surjection
<1> QED
  BY <1>1, FS_Surjection

(* An object is free for the next run or request. *)
LEMMA NewQueueIsFree ==
  ASSUME NEW l \in QueueIds \cup {None}, NEW hs,
         \A h \in Handlers : hs[h].ref \in QueueIds \cup {None},
         l = None \/ \E h \in Handlers : hs[h].ref = None
  PROVE  \E q \in QueueIds : q \notin Reachable(l, hs)
<1> DEFINE n == Cardinality(Handlers)
<1>1. IsFiniteSet(Handlers) /\ n \in Nat /\ None \notin Nat
  BY ChatTurnsAssumption, FS_CardinalityType
<1>2. IsFiniteSet(QueueIds) /\ Cardinality(QueueIds) = n + 1 /\ None \notin QueueIds
  <2>1. QueueIds = 1 .. n + 1
    BY DEF QueueIds
  <2> HIDE DEF n
  <2>2. /\ IsFiniteSet(1 .. n + 1)
        /\ Cardinality(1 .. n + 1) = IF 1 > n + 1 THEN 0 ELSE (n + 1) - 1 + 1
    BY <1>1, FS_Interval
  <2> QED
    BY <1>1, <2>1, <2>2
<1> SUFFICES ASSUME \A q \in QueueIds : q \in Reachable(l, hs) PROVE FALSE
  OBVIOUS
<1>3. ASSUME NEW H \in SUBSET Handlers, NEW x,
             QueueIds \subseteq {hs[h].ref : h \in H} \cup {x}, Cardinality(H) <= n - 1
      PROVE  FALSE
  <2> DEFINE f == [h \in H |-> hs[h].ref]
             T == {f[h] : h \in DOMAIN f}
  <2>1. IsFiniteSet(H)
    BY <1>1, FS_Subset
  <2>2. IsFiniteSet(T) /\ Cardinality(T) <= Cardinality(H)
    <3>1. DOMAIN f = H
      OBVIOUS
    <3> HIDE DEF f
    <3> QED
      BY <2>1, <3>1, FiniteImage
  <2>3. T = {hs[h].ref : h \in H}
    OBVIOUS
  <2> HIDE DEF T
  <2>4. IsFiniteSet(T \cup {x}) /\ Cardinality(T \cup {x}) <= Cardinality(T) + 1
    <3>1. /\ IsFiniteSet(T \cup {x})
          /\ Cardinality(T \cup {x}) = IF x \in T THEN Cardinality(T) ELSE Cardinality(T) + 1
      BY <2>2, FS_AddElement
    <3>2. Cardinality(T) \in Nat
      BY <2>2, FS_CardinalityType
    <3> QED
      BY <3>1, <3>2
  <2>5. Cardinality(QueueIds) <= Cardinality(T \cup {x})
    <3>1. QueueIds \in SUBSET (T \cup {x})
      BY <1>3, <2>3
    <3> QED
      BY <2>4, <3>1, FS_Subset
  <2>6. Cardinality(T) \in Nat /\ Cardinality(H) \in Nat /\ Cardinality(T \cup {x}) \in Nat
    BY <2>1, <2>2, <2>4, FS_CardinalityType
  <2> QED
    BY <1>1, <1>2, <1>3, <2>2, <2>4, <2>5, <2>6
<1>4. CASE \E h \in Handlers : hs[h].ref = None
  <2>1. PICK g \in Handlers : hs[g].ref = None
    BY <1>4
  <2>2. Cardinality(Handlers \ {g}) = n - 1
    BY <1>1, <2>1, FS_RemoveElement
  <2>3. QueueIds \subseteq {hs[h].ref : h \in Handlers \ {g}} \cup {l}
    BY <1>2, <2>1 DEF Reachable
  <2>4. Handlers \ {g} \in SUBSET Handlers /\ n - 1 <= n - 1
    BY <1>1
  <2> QED
    BY <1>3, <2>2, <2>3, <2>4
<1>5. CASE l = None
  <2> DEFINE f == [h \in Handlers |-> hs[h].ref]
             T == {f[h] : h \in DOMAIN f}
  <2>1. IsFiniteSet(T) /\ Cardinality(T) <= n
    <3>1. DOMAIN f = Handlers
      OBVIOUS
    <3> HIDE DEF f
    <3> QED
      BY <1>1, <3>1, FiniteImage
  <2>2. QueueIds \in SUBSET T
    BY <1>2, <1>5 DEF Reachable
  <2> HIDE DEF T
  <2>3. Cardinality(QueueIds) <= Cardinality(T) /\ Cardinality(T) \in Nat
    BY <2>1, <2>2, FS_Subset, FS_CardinalityType
  <2> QED
    BY <1>1, <1>2, <2>1, <2>3
<1> QED
  BY <1>4, <1>5

-----------------------------------------------------------------------------
(* The types: the goroutine, which has a batch exactly at the steps that use one ... *)
RunTypes ==
  /\ run \in [pc : RunSteps, msg : Nat, mode : {"new", "redo", "continue"}, upto : Nat,
              batch : Seq(Messages)]
  /\ run.pc = "idle" <=> live = None
  /\ run.pc # "idle" => run.msg \in Messages
  /\ run.pc \in {"inject", "requeue", "readd", "follow"} <=> run.batch # <<>>
  /\ run.pc = "readd" => Len(run.batch) >= 2
  /\ run.pc = "follow" => Len(run.batch) = 1

(* A re-run starts from a part of the transcript. *)
UptoIn == run.upto <= Len(transcript)

(* ... the queue objects ... *)
QueueTypes ==
  /\ live \in QueueIds \cup {None}
  /\ queues \in [QueueIds -> Queue]
  /\ \A q \in QueueIds : QueueOK(queues[q])

(* ... the handlers, which hold an object exactly while a request is applied to it ... *)
QueueOps == {"remove", "hold", "release", "steer", "reorder"}
HandlerSteps == {"free", "load", "apply", "list", "retry"} \cup PickSteps

HandlerRecs == [pc : HandlerSteps, ref : QueueIds \cup {None}, op : AllOps \cup {"none"},
                arg : Seq(Nat), pick : Row \cup {None}]

HandlerOK(h) ==
  /\ h \in HandlerRecs
  /\ h.pc = "apply" <=> h.ref # None
  /\ h.pc \in {"load", "apply"} => h.op \in QueueOps /\ (h.op # "reorder" => h.arg # <<>>)
  /\ h.pc \in PickSteps => h.pick \in Row /\ ~h.pick.steer /\ ~h.pick.held
  /\ h.pc = "retry" => h.arg \in Seq(Messages) /\ h.arg # <<>>

HandlerTypes ==
  /\ handlers \in [Handlers -> HandlerRecs]
  /\ \A h \in Handlers : HandlerOK(handlers[h])

(* ... and the rest. *)
HistoryTypes ==
  /\ transcript \in Seq(Messages)
  /\ accepted \in 0 .. MaxMessages
  /\ sent \in [Messages -> 0 .. 2]
  /\ deleted \subseteq Messages /\ editing \subseteq Messages
  /\ bounds \in [resumes : Nat, reruns : Nat, crashes : Nat, faults : Nat]

(* The type invariant the proofs rest on. *)
Types == RunTypes /\ QueueTypes /\ RowsOK(rows) /\ HandlerTypes /\ HistoryTypes
-----------------------------------------------------------------------------
(* A list has finitely many ids and elements. *)
LEMMA ListsAreFinite ==
  ASSUME NEW S, NEW s \in Seq(S)
  PROVE  IsFiniteSet(Ids(s)) /\ IsFiniteSet(ToSet(s))
<1>1. DOMAIN s = 1 .. Len(s) /\ Len(s) \in Nat
  BY LenProperties
<1>2. IsFiniteSet(DOMAIN s)
  BY <1>1, FS_Interval
<1>3. IsFiniteSet({s[i] : i \in DOMAIN s})
  BY <1>2, FiniteImage
<1> DEFINE f == [i \in DOMAIN s |-> s[i].id]
<1>4. DOMAIN f = DOMAIN s /\ Ids(s) = {f[i] : i \in DOMAIN f}
  BY DEF Ids
<1> HIDE DEF f
<1>5. IsFiniteSet(Ids(s))
  BY <1>2, <1>4, FiniteImage
<1> QED
  BY <1>3, <1>5 DEF ToSet

(* An id nobody holds. *)
LEMMA NewIDIsNew ==
  ASSUME Types
  PROVE  /\ NewID \in Nat /\ NewID \notin UsedIds
         /\ \A q \in QueueIds : NewID \notin Ids(queues[q].pending) \cup Ids(queues[q].steers)
         /\ NewID \notin Ids(rows)
         /\ \A h \in Handlers : handlers[h].pc \in PickSteps => NewID # handlers[h].pick.id
<1> DEFINE A == UNION {Ids(queues[q].pending) \cup Ids(queues[q].steers) : q \in QueueIds}
           B == UNION {ToSet(handlers[h].arg) : h \in Handlers}
           C == {handlers[h].pick.id : h \in {g \in Handlers : handlers[g].pc \in PickSteps}}
<1>0. IsFiniteSet(Handlers)
  BY ChatTurnsAssumption
<1>1. IsFiniteSet(A)
  <2> DEFINE f == [q \in QueueIds |-> Ids(queues[q].pending) \cup Ids(queues[q].steers)]
             F == {f[q] : q \in DOMAIN f}
  <2>1. IsFiniteSet(QueueIds)
    BY <1>0, FS_CardinalityType, FS_Interval DEF QueueIds
  <2>2. \A q \in QueueIds : IsFiniteSet(f[q])
    <3> TAKE q \in QueueIds
    <3>1. queues[q] \in Queue
      BY DEF Types, QueueTypes
    <3>2. queues[q].pending \in Seq(Entry) /\ queues[q].steers \in Seq(Entry)
      BY <3>1 DEF Queue
    <3>3. IsFiniteSet(Ids(queues[q].pending)) /\ IsFiniteSet(Ids(queues[q].steers))
      BY <3>2, ListsAreFinite
    <3>4. IsFiniteSet(Ids(queues[q].pending) \cup Ids(queues[q].steers))
      BY <3>3, FS_Union
    <3> QED
      BY <3>4
  <2>3. DOMAIN f = QueueIds /\ A = UNION F
    OBVIOUS
  <2> HIDE DEF f
  <2>4. IsFiniteSet(F)
    BY <2>1, <2>3, FiniteImage
  <2>5. \A T \in F : IsFiniteSet(T)
    BY <2>2, <2>3
  <2> HIDE DEF F, A
  <2> QED
    BY <2>3, <2>4, <2>5, FS_UNION
<1>2. IsFiniteSet(B)
  <2> DEFINE f == [h \in Handlers |-> ToSet(handlers[h].arg)]
             F == {f[h] : h \in DOMAIN f}
  <2>1. \A h \in Handlers : IsFiniteSet(f[h])
    <3> TAKE h \in Handlers
    <3>1. handlers[h] \in HandlerRecs
      BY DEF Types, HandlerTypes
    <3>2. handlers[h].arg \in Seq(Nat)
      BY <3>1 DEF HandlerRecs
    <3>3. IsFiniteSet(ToSet(handlers[h].arg))
      BY <3>2, ListsAreFinite
    <3> QED
      BY <3>3
  <2>2. DOMAIN f = Handlers /\ B = UNION F
    OBVIOUS
  <2> HIDE DEF f
  <2>3. IsFiniteSet(F)
    BY <1>0, <2>2, FiniteImage
  <2>4. \A T \in F : IsFiniteSet(T)
    BY <2>1, <2>2
  <2> HIDE DEF F, B
  <2> QED
    BY <2>2, <2>3, <2>4, FS_UNION
<1>3. IsFiniteSet(C)
  <2> DEFINE H == {g \in Handlers : handlers[g].pc \in PickSteps}
             f == [h \in H |-> handlers[h].pick.id]
  <2>1. H \in SUBSET Handlers
    OBVIOUS
  <2>2. IsFiniteSet(H)
    BY <1>0, <2>1, FS_Subset
  <2>3. DOMAIN f = H /\ C = {f[h] : h \in DOMAIN f}
    OBVIOUS
  <2> HIDE DEF H, f, C
  <2> QED
    BY <2>2, <2>3, FiniteImage
<1>4. IsFiniteSet(Ids(rows))
  BY ListsAreFinite DEF Types, RowsOK
<1>5. UsedIds = A \cup Ids(rows) \cup B \cup C
  BY DEF UsedIds
<1> HIDE DEF A, B, C
<1>6. IsFiniteSet(UsedIds)
  BY <1>1, <1>2, <1>3, <1>4, <1>5, FS_Union
<1> DEFINE c == Cardinality(UsedIds)
           N == {n \in 1 .. c + 1 : n \notin UsedIds}
<1>7. c \in Nat
  BY <1>6, FS_CardinalityType
<1>8. N # {}
  <2> SUFFICES ASSUME N = {} PROVE FALSE
    OBVIOUS
  <2>1. 1 .. c + 1 \in SUBSET UsedIds
    OBVIOUS
  <2>2. Cardinality(1 .. c + 1) <= c
    BY <1>6, <2>1, FS_Subset
  <2> HIDE DEF c
  <2>3. Cardinality(1 .. c + 1) = IF 1 > c + 1 THEN 0 ELSE (c + 1) - 1 + 1
    BY <1>7, FS_Interval
  <2> QED
    BY <1>7, <2>2, <2>3
<1>9. PICK n \in N : \A m \in N : n <= m
  <2>1. N \subseteq Nat
    BY <1>7
  <2> HIDE DEF N
  <2> QED
    BY <1>8, <2>1, LeastNat
<1>10. n \in 1 .. c + 1 /\ n \notin UsedIds /\ \A k \in 1 .. n - 1 : k \in UsedIds
  <2>1. n \in 1 .. c + 1 /\ n \notin UsedIds
    OBVIOUS
  <2>2. ASSUME NEW k \in 1 .. n - 1, k \notin UsedIds PROVE FALSE
    <3>1. k \in 1 .. c + 1 /\ ~(n <= k)
      BY <1>7, <2>1
    <3> QED
      BY <1>9, <2>2, <3>1
  <2> QED
    BY <2>1, <2>2
<1>11. NewID \in 1 .. c + 1 /\ NewID \notin UsedIds
  BY <1>10, Zenon DEF NewID
<1>12. NewID \in Nat
  <2> HIDE DEF c
  <2> QED
    BY <1>7, <1>11
<1>13. \A q \in QueueIds : NewID \notin Ids(queues[q].pending) \cup Ids(queues[q].steers)
  BY <1>5, <1>11 DEF A
<1>14. NewID \notin Ids(rows)
  BY <1>5, <1>11
<1>15. \A h \in Handlers : handlers[h].pc \in PickSteps => NewID # handlers[h].pick.id
  BY <1>5, <1>11 DEF C
<1> QED
  BY <1>11, <1>12, <1>13, <1>14, <1>15
-----------------------------------------------------------------------------
(* What waits has an id, a message and a way of waiting, and ids name one message. *)
KeyTypes == [id : Nat, msg : Messages, lane : {"free", "held", "steer"}]

LEMMA KeysAreUnique ==
  ASSUME NEW q, QueueOK(q)
  PROVE  /\ QueueKeys(q) \subseteq KeyTypes
         /\ \A x, y \in QueueKeys(q) : x.id = y.id => x = y
<1> DEFINE p == q.pending
           s == q.steers
<1>1. /\ p \in Seq(Entry) /\ s \in Seq(Entry) /\ Unique(p) /\ Unique(s)
      /\ \A e \in ToSet(p), f \in ToSet(s) : e.id # f.id
  BY QueueIsLists DEF Lists
<1>2. QueueKeys(q) = {PendingKey(e) : e \in ToSet(p)} \cup {SteerKey(e) : e \in ToSet(s)}
  BY KeysByElement
<1> HIDE DEF p, s
<1>3. /\ \A e \in ToSet(p) : e \in Entry
      /\ \A e, f \in ToSet(p) : e.id = f.id => e = f
  BY <1>1, ElementsAreEntries
<1>4. /\ \A e \in ToSet(s) : e \in Entry
      /\ \A e, f \in ToSet(s) : e.id = f.id => e = f
  BY <1>1, ElementsAreEntries
<1>5. \A e \in Entry : /\ PendingKey(e) \in KeyTypes /\ SteerKey(e) \in KeyTypes
                       /\ PendingKey(e).id = e.id /\ SteerKey(e).id = e.id
  BY DEF PendingKey, SteerKey, Key, Lane, Entry, KeyTypes
<1>6. QueueKeys(q) \subseteq KeyTypes
  BY <1>2, <1>3, <1>4, <1>5
<1>7. \A x, y \in QueueKeys(q) : x.id = y.id => x = y
  <2> SUFFICES ASSUME NEW x \in QueueKeys(q), NEW y \in QueueKeys(q), x.id = y.id
               PROVE  x = y
    OBVIOUS
  <2>1. \/ \E e, f \in ToSet(p) : x = PendingKey(e) /\ y = PendingKey(f)
        \/ \E e, f \in ToSet(s) : x = SteerKey(e) /\ y = SteerKey(f)
        \/ \E e \in ToSet(p), f \in ToSet(s) :
             (x = PendingKey(e) /\ y = SteerKey(f)) \/ (y = PendingKey(e) /\ x = SteerKey(f))
    BY <1>2
  <2> QED
    BY <1>1, <1>3, <1>4, <1>5, <2>1
<1> QED
  BY <1>6, <1>7

LEMMA RowKeysAreUnique ==
  ASSUME NEW rs, RowsOK(rs)
  PROVE  /\ RowKeys(rs) \subseteq KeyTypes
         /\ \A x, y \in RowKeys(rs) : x.id = y.id => x = y
BY HydrateIsQueue, KeysAreUnique

(* The entry a request names. *)
LEMMA NamedKey ==
  ASSUME NEW q, QueueOK(q), NEW id \in Ids(q.pending)
  PROVE  \E x \in QueueKeys(q) : x.id = id /\ x.lane # "steer"
<1>1. PICK i \in DOMAIN q.pending : q.pending[i].id = id
  BY DEF Ids
<1> DEFINE x == Key(q.pending[i].id, q.pending[i].msg, Lane(q.pending[i].held))
<1>2. x \in QueueKeys(q)
  BY DEF QueueKeys
<1>3. x.id = id /\ x.lane # "steer"
  BY <1>1 DEF Key, Lane
<1> QED
  BY <1>2, <1>3

(* A request, by what it leaves of each entry. *)
LEMMA AppliedKeys ==
  ASSUME NEW q, QueueOK(q), NEW op \in QueueOps, NEW arg \in Seq(Nat), Applies(q, op, arg)
  PROVE  LET r == Applied(q, op, arg)
         IN  /\ QueueOK(r)
             /\ \A y \in QueueKeys(r) : \E x \in QueueKeys(q) : Same(x, y)
             /\ op # "remove" => \A x \in QueueKeys(q) : \E y \in QueueKeys(r) : Same(x, y)
             /\ op = "remove" => \A y \in QueueKeys(r) : y.id # arg[1]
             /\ op = "reorder" => QueueKeys(r) = QueueKeys(q)
             /\ op # "reorder" => \A x \in QueueKeys(q) : x.id # arg[1] => x \in QueueKeys(r)
             /\ op = "hold" => \A x \in QueueKeys(q) : x.id = arg[1] =>
                                 \E y \in QueueKeys(r) : Same(x, y) /\ y.lane = "held"
<1> DEFINE K == QueueKeys(q)
           r == Applied(q, op, arg)
           R == QueueKeys(r)
<1>1. K \subseteq KeyTypes /\ \A x, y \in K : x.id = y.id => x = y
  BY KeysAreUnique
<1>2. op # "reorder" => arg[1] \in Ids(q.pending)
  BY DEF Applies
<1>3. op # "reorder" => \A x \in K : x.id = arg[1] => x.lane # "steer"
  <2> SUFFICES ASSUME op # "reorder", NEW x \in K, x.id = arg[1] PROVE x.lane # "steer"
    OBVIOUS
  <2>1. PICK y \in QueueKeys(q) : y.id = arg[1] /\ y.lane # "steer"
    BY <1>2, NamedKey
  <2>2. y = x
    BY <1>1, <2>1
  <2> QED
    BY <2>1, <2>2
<1>4. \A id, m : Key(id, m, "held").id = id /\ Key(id, m, "held").msg = m
                 /\ Key(id, m, "held").lane = "held"
                 /\ Key(id, m, "free").id = id /\ Key(id, m, "free").msg = m
  BY DEF Key
<1> HIDE DEF K
<1>5. \A x \in K : Same(x, x)
  BY DEF Same
<1>6. CASE op = "remove"
  <2>1. r = RemoveId(q, arg[1])
    BY <1>6 DEF Applied
  <2>2. QueueOK(r) /\ R = {x \in K : x.lane = "steer" \/ x.id # arg[1]}
    BY <2>1, RemoveKeys DEF K
  <2> HIDE DEF r
  <2> QED
    BY <1>3, <1>5, <1>6, <2>2 DEF K, r
<1>7. CASE op = "hold"
  <2>1. r = SetHeld(q, arg[1], TRUE)
    BY <1>7 DEF Applied
  <2>2. /\ QueueOK(r)
        /\ \A x \in K : x.lane = "steer" \/ x.id # arg[1] => x \in R
        /\ \A x \in K : x.lane # "steer" /\ x.id = arg[1] => Key(x.id, x.msg, Lane(TRUE)) \in R
        /\ \A y \in R : \E x \in K : Same(x, y)
    BY <2>1, SetHeldKeys, Zenon DEF K
  <2>3. Lane(TRUE) = "held"
    BY DEF Lane
  <2>6. \A x \in K : x.lane # "steer" /\ x.id = arg[1] => Key(x.id, x.msg, "held") \in R
    BY <2>2, <2>3, Zenon
  <2>4. \A x \in K : x.id = arg[1] => \E y \in R : Same(x, y) /\ y.lane = "held"
    BY <1>3, <1>4, <1>7, <2>6 DEF Same
  <2>5. \A x \in K : \E y \in R : Same(x, y)
    BY <1>5, <2>2, <2>4
  <2> HIDE DEF r
  <2> QED
    BY <1>7, <2>2, <2>4, <2>5 DEF K, r
<1>8. CASE op = "release"
  <2>1. r = SetHeld(q, arg[1], FALSE)
    BY <1>8 DEF Applied
  <2>2. /\ QueueOK(r)
        /\ \A x \in K : x.lane = "steer" \/ x.id # arg[1] => x \in R
        /\ \A x \in K : x.lane # "steer" /\ x.id = arg[1] => Key(x.id, x.msg, Lane(FALSE)) \in R
        /\ \A y \in R : \E x \in K : Same(x, y)
    BY <2>1, SetHeldKeys, Zenon DEF K
  <2>3. Lane(FALSE) = "free"
    BY DEF Lane
  <2>6. \A x \in K : x.lane # "steer" /\ x.id = arg[1] => Key(x.id, x.msg, "free") \in R
    BY <2>2, <2>3, Zenon
  <2>5. \A x \in K : \E y \in R : Same(x, y)
    BY <1>3, <1>4, <1>5, <1>8, <2>2, <2>6 DEF Same
  <2> HIDE DEF r
  <2> QED
    BY <1>8, <2>2, <2>5 DEF K, r
<1>9. CASE op = "steer"
  <2>1. r = SteerId(q, arg[1])
    BY <1>9 DEF Applied
  <2>2. /\ QueueOK(r)
        /\ \A x \in K : x.id # arg[1] => x \in R
        /\ \A x \in K : \E y \in R : Same(x, y)
        /\ \A y \in R : \E x \in K : Same(x, y)
    BY <2>1, SteerIdKeys DEF K
  <2> HIDE DEF r
  <2> QED
    BY <1>9, <2>2 DEF K, r
<1>10. CASE op = "reorder"
  <2>1. r = Reorder(q, arg)
    BY <1>10 DEF Applied
  <2>2. IsReorder(q, arg)
    BY <1>10 DEF Applies
  <2>3. QueueOK(r) /\ R = K
    BY <2>1, <2>2, ReorderKeys DEF K
  <2> HIDE DEF r
  <2> QED
    BY <1>5, <1>10, <2>3 DEF K, r
<1> QED
  BY <1>6, <1>7, <1>8, <1>9, <1>10 DEF QueueOps

(* The message a request names, as QueueApply finds it. *)
LEMMA NamedMessage ==
  ASSUME NEW q, QueueOK(q), NEW id \in Ids(q.pending)
  PROVE  LET msg == CHOOSE m \in Messages :
                      \E i \in DOMAIN q.pending :
                        q.pending[i] = [id |-> id, msg |-> m, held |-> q.pending[i].held]
         IN  \E x \in QueueKeys(q) : x.id = id /\ x.msg = msg
<1> DEFINE Named(m) == \E i \in DOMAIN q.pending :
                         q.pending[i] = [id |-> id, msg |-> m, held |-> q.pending[i].held]
           msg == CHOOSE m \in Messages : Named(m)
<1>1. PICK i \in DOMAIN q.pending : q.pending[i].id = id
  BY DEF Ids
<1>2. q.pending \in Seq(Entry) /\ Unique(q.pending)
  BY DEF QueueOK, Queue
<1>3. q.pending[i] \in Entry
  BY <1>2
<1>4. q.pending[i].msg \in Messages /\ Named(q.pending[i].msg)
  BY <1>1, <1>3 DEF Entry
<1>5. Named(msg)
  <2> HIDE DEF Named
  <2> QED
    BY <1>4
<1> HIDE DEF msg
<1>6. PICK j \in DOMAIN q.pending :
        q.pending[j] = [id |-> id, msg |-> msg, held |-> q.pending[j].held]
  BY <1>5
<1>7. q.pending[j].id = id /\ q.pending[j].msg = msg
  BY <1>6
<1> DEFINE x == Key(q.pending[j].id, q.pending[j].msg, Lane(q.pending[j].held))
<1>8. x \in QueueKeys(q)
  BY DEF QueueKeys
<1>9. x.id = id /\ x.msg = msg
  BY <1>7 DEF Key
<1> QED
  BY <1>8, <1>9 DEF msg
-----------------------------------------------------------------------------
(* The empty object is well-formed. *)
LEMMA EmptyQueueOK == QueueOK(EmptyQueue)
<1>1. <<>> \in Seq(Entry) /\ Unique(<<>>) /\ Ids(<<>>) = {}
  BY EmptyList DEF Ids
<1> QED
  BY <1>1 DEF QueueOK, Queue, EmptyQueue

(* So is a handler that serves nothing. *)
LEMMA FreeOK == HandlerOK(Free) /\ None \notin QueueIds
BY ChatTurnsAssumption DEF HandlerOK, HandlerRecs, Free, HandlerSteps, PickSteps, QueueIds

(* The types hold at the start. *)
LEMMA TypesInit == Init => Types /\ UptoIn
<1> SUFFICES ASSUME Init PROVE Types /\ UptoIn
  OBVIOUS
<1> USE DEF Init
<1>1. RunTypes
  BY DEF RunTypes, Idle, RunSteps
<1>2. QueueTypes
  <2>1. QueueOK(EmptyQueue)
    BY EmptyQueueOK
  <2>2. EmptyQueue \in Queue
    BY <2>1 DEF QueueOK
  <2> QED
    BY <2>1, <2>2 DEF QueueTypes
<1>3. RowsOK(rows)
  BY DEF RowsOK, Unique
<1>4. HandlerTypes
  <2>1. HandlerOK(Free) /\ Free \in HandlerRecs
    BY FreeOK DEF HandlerOK
  <2> QED
    BY <2>1 DEF HandlerTypes
<1>5. HistoryTypes
  BY ChatTurnsAssumption DEF HistoryTypes
<1>6. UptoIn
  BY DEF UptoIn, Idle
<1> QED
  BY <1>1, <1>2, <1>3, <1>4, <1>5, <1>6 DEF Types

(* A write leaves a well-formed object and its rows. *)
LEMMA WriteTypes ==
  ASSUME Types, live # None, NEW content, QueueOK(content), Write(live, content), live' = live
  PROVE  /\ QueueTypes' /\ RowsOK(rows)'
         /\ rows' = Snapshot(content) /\ queues' = [queues EXCEPT ![live] = content]
         /\ queues'[live'] = content
<1>1. /\ live \in QueueIds /\ queues \in [QueueIds -> Queue]
      /\ \A q \in QueueIds : QueueOK(queues[q])
  BY DEF Types, QueueTypes
<1>2. rows' = Snapshot(content) /\ queues' = [queues EXCEPT ![live] = content]
  BY DEF Write
<1>3. RowsOK(rows')
  BY <1>2, SnapshotIsRows
<1>4. content \in Queue
  BY DEF QueueOK
<1>5. queues' \in [QueueIds -> Queue] /\ \A q \in QueueIds : QueueOK(queues'[q])
  BY <1>1, <1>2, <1>4
<1> QED
  BY <1>1, <1>2, <1>3, <1>5 DEF QueueTypes

(* So does the collection of garbage. *)
LEMMA CollectedTypes ==
  ASSUME NEW qs \in [QueueIds -> Queue], \A q \in QueueIds : QueueOK(qs[q]), NEW l, NEW hs
  PROVE  /\ Collected(qs, l, hs) \in [QueueIds -> Queue]
         /\ \A q \in QueueIds : QueueOK(Collected(qs, l, hs)[q])
         /\ l \in QueueIds => Collected(qs, l, hs)[l] = qs[l]
<1>1. QueueOK(EmptyQueue) /\ EmptyQueue \in Queue
  BY EmptyQueueOK DEF QueueOK
<1> QED
  BY <1>1 DEF Collected, Reachable

(* A fresh object, and the run that begins on it. *)
LEMMA NewQueueTypes ==
  ASSUME Types, live = None \/ \E h \in Handlers : handlers[h].ref = None
  PROVE  /\ NewQueue \in QueueIds /\ NewQueue \notin Reachable(live, handlers)
         /\ [queues EXCEPT ![NewQueue] = Hydrate(rows)] \in [QueueIds -> Queue]
         /\ \A q \in QueueIds : QueueOK([queues EXCEPT ![NewQueue] = Hydrate(rows)][q])
<1>1. live \in QueueIds \cup {None} /\ \A h \in Handlers : handlers[h].ref \in QueueIds \cup {None}
  <2>1. \A h \in Handlers : handlers[h] \in HandlerRecs
    BY DEF Types, HandlerTypes
  <2> QED
    BY <2>1 DEF Types, QueueTypes, HandlerRecs
<1>2. \E q \in QueueIds : q \notin Reachable(live, handlers)
  BY <1>1, NewQueueIsFree
<1>3. NewQueue \in QueueIds /\ NewQueue \notin Reachable(live, handlers)
  BY <1>2 DEF NewQueue
<1>4. QueueOK(Hydrate(rows)) /\ Hydrate(rows) \in Queue
  BY HydrateIsQueue DEF Types, QueueOK
<1> QED
  BY <1>3, <1>4 DEF Types, QueueTypes

(* A run begins on an object of its own that holds what the rows say. *)
LEMMA BeginTypes ==
  ASSUME Types, NEW params, BeginRun(params)
  PROVE  /\ QueueTypes' /\ live = None /\ live' \in QueueIds /\ run' = params
         /\ queues'[live'] = Hydrate(rows)
<1>1. live = None
  BY DEF BeginRun
<1>2. /\ NewQueue \in QueueIds
      /\ [queues EXCEPT ![NewQueue] = Hydrate(rows)] \in [QueueIds -> Queue]
      /\ \A q \in QueueIds : QueueOK([queues EXCEPT ![NewQueue] = Hydrate(rows)][q])
  BY <1>1, NewQueueTypes
<1>3. live' = NewQueue /\ queues' = [queues EXCEPT ![NewQueue] = Hydrate(rows)] /\ run' = params
  BY DEF BeginRun
<1>4. queues'[live'] = Hydrate(rows)
  BY <1>2, <1>3 DEF Types, QueueTypes
<1> QED
  BY <1>1, <1>2, <1>3, <1>4 DEF QueueTypes

(* One handler takes a step. *)
LEMMA HandlerStep ==
  ASSUME HandlerTypes, NEW h \in Handlers, NEW r, HandlerOK(r),
         handlers' = [handlers EXCEPT ![h] = r]
  PROVE  HandlerTypes'
<1>1. r \in HandlerRecs
  BY DEF HandlerOK
<1> QED
  BY <1>1 DEF HandlerTypes

(* The session's queue is well-formed, live or not. *)
LEMMA CurrentOK == ASSUME Types PROVE QueueOK(Current)
<1>1. QueueOK(Hydrate(rows))
  BY HydrateIsQueue DEF Types
<1> QED
  BY <1>1 DEF Types, QueueTypes, Current
-----------------------------------------------------------------------------
(* How much two lists have in common, and a list with itself. *)
LEMMA CommonPrefix ==
  ASSUME NEW S, NEW s \in Seq(S), NEW t \in Seq(S)
  PROVE  LET n == Len(LongestCommonPrefix({s, t}))
         IN  n \in Nat /\ n <= Len(t) /\ (s = t => n = Len(t))
<1> DEFINE C == CommonPrefixes({s, t})
           p == LongestCommonPrefix({s, t})
<1>0. Len(s) \in Nat /\ Len(t) \in Nat
  OBVIOUS
<1>1. \A u \in {s, t}, l \in Nat : l <= Len(u) =>
        SubSeq(u, 1, l) \in Prefixes(u) /\ Len(SubSeq(u, 1, l)) = l
  <2> SUFFICES ASSUME NEW u \in {s, t}, NEW l \in Nat, l <= Len(u)
               PROVE  SubSeq(u, 1, l) \in Prefixes(u) /\ Len(SubSeq(u, 1, l)) = l
    OBVIOUS
  <2>1. u \in Seq(S)
    OBVIOUS
  <2>2. \A i \in 1 .. l : u[i] \in S
    BY <2>1
  <2>3. Len(SubSeq(u, 1, l)) = IF 1 <= l THEN l - 1 + 1 ELSE 0
    BY <2>2, SubSeqProperties
  <2> QED
    BY <1>0, <2>3 DEF Prefixes
<1>2. \A r \in C : Len(r) \in Nat /\ Len(r) <= Len(t)
  <2> SUFFICES ASSUME NEW r \in C PROVE Len(r) \in Nat /\ Len(r) <= Len(t)
    OBVIOUS
  <2>1. PICK u \in {s, t} : r \in Prefixes(u)
    BY DEF CommonPrefixes
  <2>2. PICK l \in 0 .. Len(u) : r = SubSeq(u, 1, l)
    BY <2>1 DEF Prefixes
  <2>3. l \in Nat /\ l <= Len(u)
    BY <1>0
  <2>4. Len(r) = l
    BY <1>1, <2>2, <2>3
  <2>5. Len(r) <= Len(t)
    BY DEF CommonPrefixes, IsPrefix
  <2> QED
    BY <2>3, <2>4, <2>5
<1>3. \A u \in {s, t} : SubSeq(u, 1, 0) = <<>>
  BY SubSeqEmpty
<1>4. <<>> \in C
  <2>1. SubSeq(s, 1, 0) \in Prefixes(s)
    BY <1>0 DEF Prefixes
  <2>3. <<>> \in Prefixes(s)
    BY <1>3, <2>1
  <2>2. \A u \in {s, t} : IsPrefix(<<>>, u)
    <3>1. Len(<<>>) = 0 /\ SubSeq(<<>>, 1, 0) = <<>>
      BY SubSeqEmpty
    <3> QED
      BY <1>0, <1>3, <3>1 DEF IsPrefix
  <2> QED
    BY <2>2, <2>3 DEF CommonPrefixes
<1>5. \E r \in C : \A o \in C : Len(o) <= Len(r)
  <2> DEFINE N == {Len(t) - Len(r) : r \in C}
  <2> HIDE DEF C
  <2>1. N \subseteq Nat /\ N # {}
    BY <1>0, <1>2, <1>4
  <2> HIDE DEF N
  <2>2. PICK k \in N : \A m \in N : k <= m
    BY <2>1, LeastNat
  <2>3. PICK r \in C : k = Len(t) - Len(r)
    BY DEF N
  <2>4. \A o \in C : Len(t) - Len(o) \in N
    BY DEF N
  <2>5. \A o \in C : Len(t) - Len(r) <= Len(t) - Len(o)
    BY <2>2, <2>3, <2>4
  <2> QED
    BY <1>0, <1>2, <2>5
<1>6. p \in C /\ \A o \in C : Len(o) <= Len(p)
  <2>1. p = CHOOSE r \in C : \A o \in C : Len(o) <= Len(r)
    BY Zenon DEF LongestCommonPrefix
  <2> HIDE DEF C, p
  <2> QED
    BY <1>5, <2>1
<1>7. s = t => t \in C
  <2> SUFFICES ASSUME s = t PROVE t \in C
    OBVIOUS
  <2>1. SubSeq(t, 1, Len(t)) = t
    BY SubSeqFull
  <2>2. t \in Prefixes(t)
    <3>1. Len(t) \in 0 .. Len(t)
      BY <1>0
    <3>2. SubSeq(t, 1, Len(t)) \in Prefixes(t)
      BY <3>1, Zenon DEF Prefixes
    <3> QED
      BY <2>1, <3>2, Zenon
  <2>3. IsPrefix(t, t)
    BY <1>0 DEF IsPrefix
  <2> QED
    BY <2>2, <2>3 DEF CommonPrefixes
<1> HIDE DEF C
<1>8. Len(p) \in Nat /\ Len(p) <= Len(t)
  BY <1>2, <1>6
<1>9. s = t => Len(t) <= Len(p)
  BY <1>6, <1>7
<1> HIDE DEF p
<1>10. s = t => Len(p) = Len(t)
  BY <1>0, <1>8, <1>9
<1> QED
  BY <1>8, <1>10 DEF p

(* The start of a list. *)
LEMMA Beginning ==
  ASSUME NEW S, NEW s \in Seq(S), NEW n \in Nat, n <= Len(s)
  PROVE  /\ SubSeq(s, 1, n) \in Seq(S) /\ Len(SubSeq(s, 1, n)) = n
         /\ ToSet(SubSeq(s, 1, n)) \subseteq ToSet(s)
         /\ n = Len(s) => SubSeq(s, 1, n) = s
<1>1. \A i \in 1 .. n : i \in DOMAIN s /\ s[i] \in S
  OBVIOUS
<1>2. /\ SubSeq(s, 1, n) \in Seq(S) /\ Len(SubSeq(s, 1, n)) = IF 1 <= n THEN n - 1 + 1 ELSE 0
      /\ \A i \in 1 .. n - 1 + 1 : SubSeq(s, 1, n)[i] = s[1 + i - 1]
  BY <1>1, SubSeqProperties
<1>3. Len(SubSeq(s, 1, n)) = n
  BY <1>2
<1>4. n = Len(s) => SubSeq(s, 1, n) = s
  BY SubSeqFull
<1>5. \A i \in 1 .. n : SubSeq(s, 1, n)[i] = s[i]
  <2> TAKE i \in 1 .. n
  <2>1. i \in 1 .. n - 1 + 1 /\ 1 + i - 1 = i
    OBVIOUS
  <2> QED
    BY <1>2, <2>1
<1>6. DOMAIN SubSeq(s, 1, n) = 1 .. n
  BY <1>2, <1>3
<1> QED
  BY <1>1, <1>2, <1>3, <1>4, <1>5, <1>6 DEF ToSet

(* One more element at the end. *)
LEMMA AppendElements ==
  ASSUME NEW S, NEW s \in Seq(S), NEW e \in S
  PROVE  /\ Append(s, e) \in Seq(S) /\ Len(Append(s, e)) = Len(s) + 1 /\ Len(s) \in Nat
         /\ ToSet(Append(s, e)) = ToSet(s) \cup {e}
<1>1. /\ Append(s, e) \in Seq(S) /\ Len(Append(s, e)) = Len(s) + 1 /\ Len(s) \in Nat
      /\ DOMAIN s = 1 .. Len(s) /\ DOMAIN Append(s, e) = 1 .. Len(s) + 1
      /\ \A i \in 1 .. Len(s) : Append(s, e)[i] = s[i]
      /\ Append(s, e)[Len(s) + 1] = e
  OBVIOUS
<1>2. 1 .. Len(s) + 1 = (1 .. Len(s)) \cup {Len(s) + 1}
  BY <1>1
<1> DEFINE n == Len(s)
           t == Append(s, e)
<1> HIDE DEF n, t
<1>3. ToSet(t) = {t[i] : i \in (1 .. n) \cup {n + 1}}
  BY <1>1, <1>2 DEF n, t, ToSet
<1>4. ToSet(s) = {s[i] : i \in 1 .. n}
  BY <1>1 DEF n, ToSet
<1>5. (\A i \in 1 .. n : t[i] = s[i]) /\ t[n + 1] = e
  BY <1>1 DEF n, t
<1>6. ToSet(t) = ToSet(s) \cup {e}
  BY <1>3, <1>4, <1>5
<1> QED
  BY <1>1, <1>6 DEF t
-----------------------------------------------------------------------------
(* What a step leaves alone keeps its type. *)
LEMMA TypeFrames ==
  ASSUME Types
  PROVE  /\ UNCHANGED <<run, live>> => RunTypes'
         /\ UNCHANGED <<queues, live>> => QueueTypes'
         /\ UNCHANGED rows => RowsOK(rows)'
         /\ UNCHANGED handlers => HandlerTypes'
         /\ UNCHANGED <<transcript, accepted, sent, history, bounds>> => HistoryTypes'
<1>1. UNCHANGED <<run, live>> => RunTypes'
  BY DEF Types, RunTypes
<1>2. UNCHANGED <<queues, live>> => QueueTypes'
  BY DEF Types, QueueTypes
<1>3. UNCHANGED rows => RowsOK(rows)'
  BY DEF Types
<1>4. UNCHANGED handlers => HandlerTypes'
  BY DEF Types, HandlerTypes
<1>5. UNCHANGED <<transcript, accepted, sent, history, bounds>> => HistoryTypes'
  BY DEF Types, HistoryTypes, history
<1> QED
  BY <1>1, <1>2, <1>3, <1>4, <1>5

(* The live queue, while there is a run. *)
LEMMA LiveQueue ==
  ASSUME Types, run.pc # "idle"
  PROVE  live # None /\ live \in QueueIds /\ QueueOK(queues[live]) /\ run.msg \in Messages
BY DEF Types, RunTypes, QueueTypes

(* The count of the times a message was sent stays in its range. *)
LEMMA SentTypes ==
  ASSUME Types, NEW m \in Messages
  PROVE  SentOnceMore(m) \in [Messages -> 0 .. 2]
BY DEF Types, HistoryTypes, SentOnceMore

(* A new message on the live queue, under an id nobody holds. *)
LEMMA AddTypes ==
  ASSUME Types, NEW m \in Messages, live # None
  PROVE  /\ QueueOK(Add(queues[live], NewID, m))
         /\ QueueKeys(Add(queues[live], NewID, m)) =
              QueueKeys(queues[live]) \cup {Key(NewID, m, "free")}
<1>1. live \in QueueIds /\ QueueOK(queues[live])
  BY DEF Types, QueueTypes
<1>2. NewID \in Nat /\ NewID \notin Ids(queues[live].pending) \cup Ids(queues[live].steers)
  BY <1>1, NewIDIsNew
<1> QED
  BY <1>1, <1>2, AddKeys

(* Every step keeps the types: the sends ... *)
LEMMA TypesSends == ASSUME Types, SendQueued \/ SendStarts PROVE Types'
<1>1. accepted < MaxMessages => accepted + 1 \in Messages
  BY ChatTurnsAssumption DEF Types, HistoryTypes, Messages
<1>2. accepted' = accepted + 1 /\ accepted < MaxMessages
      /\ UNCHANGED <<transcript, sent, history, bounds>> => HistoryTypes'
  BY ChatTurnsAssumption DEF Types, HistoryTypes, history
<1>3. CASE SendQueued
  <2>1. QueueTypes' /\ RowsOK(rows)'
    BY <1>1, <1>3, AddTypes, WriteTypes DEF SendQueued
  <2>2. RunTypes' /\ HandlerTypes' /\ HistoryTypes'
    BY <1>2, <1>3, TypeFrames DEF SendQueued
  <2> QED
    BY <2>1, <2>2 DEF Types
<1>4. CASE SendStarts
  <2>1. QueueTypes' /\ live' \in QueueIds /\ run' = NewTurn(accepted + 1)
    BY <1>4, BeginTypes DEF SendStarts
  <2>2. RunTypes'
    <3>1. accepted + 1 \in Messages /\ accepted + 1 \in Nat /\ live' # None
      BY <1>1, <1>4, <2>1, FreeOK DEF SendStarts, Messages
    <3>2. run' = [pc |-> "start", msg |-> accepted + 1, mode |-> "new", upto |-> 0, batch |-> <<>>]
      BY <2>1 DEF NewTurn, Idle
    <3> QED
      BY <3>1, <3>2 DEF RunTypes, RunSteps
  <2>3. RowsOK(rows)' /\ HandlerTypes' /\ HistoryTypes'
    BY <1>2, <1>4, TypeFrames DEF SendStarts
  <2> QED
    BY <2>1, <2>2, <2>3 DEF Types
<1> QED
  BY <1>3, <1>4

(* ... the steps of the goroutine, one by one ... *)
LEMMA TypesRun == ASSUME Types, UptoIn, RunStep PROVE Types'
<1>0. /\ UNCHANGED <<queues, live>> => QueueTypes'
      /\ UNCHANGED rows => RowsOK(rows)'
      /\ UNCHANGED handlers => HandlerTypes'
      /\ UNCHANGED <<transcript, accepted, sent, history, bounds>> => HistoryTypes'
  BY TypeFrames
<1>1. CASE Start
  <2>1. run.msg \in Messages /\ run.upto \in Nat /\ transcript \in Seq(Messages)
    BY <1>1, LiveQueue DEF Start, Types, RunTypes, HistoryTypes
  <2>2. SubSeq(transcript, 1, run.upto) \in Seq(Messages)
    BY <2>1, Beginning DEF UptoIn
  <2>3. transcript' \in Seq(Messages)
    BY <1>1, <2>1, <2>2 DEF Start, Types, RunTypes
  <2>4. HistoryTypes'
    BY <1>1, <2>1, <2>3, SentTypes DEF Start, Types, HistoryTypes, history
  <2>5. RunTypes'
    BY <1>1 DEF Start, Types, RunTypes, RunSteps
  <2> QED
    BY <1>0, <1>1, <2>4, <2>5 DEF Start, Types
<1>2. CASE StartFails
  <2>1. HistoryTypes'
    BY <1>2 DEF StartFails, Types, HistoryTypes, history
  <2>2. RunTypes'
    BY <1>2 DEF StartFails, Types, RunTypes, RunSteps
  <2> QED
    BY <1>0, <1>2, <2>1, <2>2 DEF StartFails, Types
<1>3. CASE SteerDrain
  <2> DEFINE s == queues[live].steers
  <2>1. QueueOK(queues[live]) /\ live # None
    BY <1>3, LiveQueue DEF SteerDrain
  <2>2. s \in Seq(Entry) /\ Unique(s)
    BY <2>1 DEF QueueOK, Queue
  <2>3. MessagesOf(s) \in Seq(Messages) /\ Len(MessagesOf(s)) = Len(s)
    BY <2>2, MessagesOfEntries
  <2>4. run' = [run EXCEPT !.pc = "inject", !.batch = MessagesOf(s)]
    BY <1>3 DEF SteerDrain, MessagesOf
  <2>5. s # <<>>
    BY <1>3 DEF SteerDrain
  <2>6. MessagesOf(s) # <<>>
    <3> HIDE DEF s
    <3> QED
      BY <2>2, <2>3, <2>5
  <2> HIDE DEF s
  <2>7. RunTypes'
    BY <1>3, <2>3, <2>4, <2>6 DEF SteerDrain, Types, RunTypes, RunSteps
  <2>8. QueueTypes' /\ RowsOK(rows)'
    BY <1>3, <2>1, NoSteersKeys, WriteTypes DEF SteerDrain
  <2> QED
    BY <1>0, <1>3, <2>7, <2>8 DEF SteerDrain, Types
<1>4. CASE Inject
  <2>1. run.batch \in Seq(Messages) /\ run.batch # <<>>
    BY <1>4 DEF Inject, Types, RunTypes
  <2>2. Head(run.batch) \in Messages /\ Tail(run.batch) \in Seq(Messages)
        /\ (Len(run.batch) = 1 <=> Tail(run.batch) = <<>>)
    BY <2>1, HeadAndTail
  <2>3. HistoryTypes'
    BY <1>4, <2>2, SentTypes DEF Inject, Types, HistoryTypes, history
  <2>4. RunTypes'
    BY <1>4, <2>2 DEF Inject, Types, RunTypes, RunSteps
  <2> QED
    BY <1>0, <1>4, <2>3, <2>4 DEF Inject, Types
<1>5. CASE InjectFails
  <2>1. HistoryTypes'
    BY <1>5 DEF InjectFails, Types, HistoryTypes, history
  <2>2. RunTypes'
    BY <1>5 DEF InjectFails, Types, RunTypes, RunSteps
  <2> QED
    BY <1>0, <1>5, <2>1, <2>2 DEF InjectFails, Types
<1>6. CASE Requeue
  <2>1. run.batch \in Seq(Messages) /\ run.batch # <<>> /\ live # None
    BY <1>6, LiveQueue DEF Requeue, Types, RunTypes
  <2>2. Head(run.batch) \in Messages /\ Tail(run.batch) \in Seq(Messages)
        /\ (Len(run.batch) = 1 <=> Tail(run.batch) = <<>>)
    BY <2>1, HeadAndTail
  <2>3. QueueTypes' /\ RowsOK(rows)'
    BY <1>6, <2>1, <2>2, AddTypes, WriteTypes DEF Requeue
  <2>4. RunTypes'
    BY <1>6, <2>2 DEF Requeue, Types, RunTypes, RunSteps
  <2> QED
    BY <1>0, <1>6, <2>3, <2>4 DEF Requeue, Types
<1>7. CASE TurnOK
  <2>1. RunTypes'
    BY <1>7 DEF TurnOK, Types, RunTypes, RunSteps
  <2> QED
    BY <1>0, <1>7, <2>1 DEF TurnOK, Types
<1>8. CASE TurnFail
  <2>1. RunTypes'
    BY <1>8 DEF TurnFail, Types, RunTypes, RunSteps
  <2> QED
    BY <1>0, <1>8, <2>1 DEF TurnFail, Types
<1>9. CASE Drain
  <2> DEFINE out == Drained(queues[live])
  <2>1. QueueOK(queues[live]) /\ live # None
    BY <1>9, LiveQueue DEF Drain
  <2>2. out \in Seq(Entry) /\ Unique(out)
    BY <2>1, DrainedKeys
  <2>3. run' = [run EXCEPT !.batch = MessagesOf(out),
                           !.pc = CASE Len(out) = 0 -> "checkHeld"
                                    [] Len(out) = 1 -> "follow"
                                    [] OTHER -> "readd"]
    BY <1>9 DEF Drain, MessagesOf
  <2>4. QueueTypes' /\ RowsOK(rows)'
    <3>1. CASE UNCHANGED <<queues, rows>>
      BY <1>0, <1>9, <3>1 DEF Drain
    <3>2. CASE Write(live, Kept(queues[live]))
      BY <1>9, <2>1, <3>2, KeptKeys, WriteTypes DEF Drain
    <3> QED
      BY <1>9, <3>1, <3>2 DEF Drain
  <2> HIDE DEF out
  <2>5. MessagesOf(out) \in Seq(Messages) /\ Len(MessagesOf(out)) = Len(out) /\ Len(out) \in Nat
    BY <2>2, MessagesOfEntries
  <2>6. MessagesOf(out) = <<>> <=> Len(out) = 0
    BY <2>5
  <2> DEFINE b == MessagesOf(out)
             pc == CASE Len(out) = 0 -> "checkHeld"
                     [] Len(out) = 1 -> "follow"
                     [] OTHER -> "readd"
  <2>8. /\ pc \in {"checkHeld", "follow", "readd"}
        /\ pc = "checkHeld" <=> b = <<>>
        /\ pc = "follow" => Len(b) = 1
        /\ pc = "readd" => Len(b) >= 2
    BY <2>5, <2>6
  <2>9. /\ b \in Seq(Messages) /\ run' = [run EXCEPT !.batch = b, !.pc = pc]
        /\ live' = live /\ run.pc = "done"
    BY <1>9, <2>3, <2>5 DEF Drain
  <2> HIDE DEF b, pc
  <2>7. RunTypes'
    BY <2>8, <2>9 DEF Types, RunTypes, RunSteps
  <2> QED
    BY <1>0, <1>9, <2>4, <2>7 DEF Drain, Types
<1>10. CASE ReAdd
  <2>1. run.batch \in Seq(Messages) /\ Len(run.batch) >= 2 /\ live # None
    BY <1>10, LiveQueue DEF ReAdd, Types, RunTypes
  <2> DEFINE r == RemoveAt(run.batch, 2)
  <2>2. run.batch[2] \in Messages /\ r \in Seq(Messages) /\ Len(r) = Len(run.batch) - 1
    BY <2>1, SecondAndOthers
  <2>3. QueueTypes' /\ RowsOK(rows)'
    BY <1>10, <2>1, <2>2, AddTypes, WriteTypes DEF ReAdd
  <2>4. run' = [run EXCEPT !.batch = r, !.pc = IF Len(run.batch) = 2 THEN "follow" ELSE "readd"]
    BY <1>10 DEF ReAdd
  <2> HIDE DEF r
  <2>5. r # <<>> /\ Len(run.batch) \in Nat
    BY <2>1, <2>2
  <2> DEFINE pc == IF Len(run.batch) = 2 THEN "follow" ELSE "readd"
  <2>7. pc \in {"follow", "readd"} /\ (pc = "follow" => Len(r) = 1) /\ (pc = "readd" => Len(r) >= 2)
    <3>1. Len(run.batch) = 2 => Len(r) = 1
      BY <2>2
    <3> DEFINE n == Len(run.batch)
               k == Len(r)
    <3>3. n \in Nat /\ n >= 2 /\ k = n - 1
      BY <2>1, <2>2, <2>5
    <3> HIDE DEF n, k
    <3>4. n # 2 => k >= 2
      BY <3>3
    <3>2. Len(run.batch) # 2 => Len(r) >= 2
      BY <3>4 DEF n, k
    <3> QED
      BY <3>1, <3>2
  <2>8. run' = [run EXCEPT !.batch = r, !.pc = pc] /\ live' = live /\ run.pc = "readd"
    BY <1>10, <2>4 DEF ReAdd
  <2> HIDE DEF pc
  <2>6. RunTypes'
    BY <2>2, <2>5, <2>7, <2>8 DEF Types, RunTypes, RunSteps
  <2> QED
    BY <1>0, <1>10, <2>3, <2>6 DEF ReAdd, Types
<1>11. CASE Follow
  <2>1. run.batch \in Seq(Messages) /\ run.batch # <<>>
    BY <1>11 DEF Follow, Types, RunTypes
  <2>2. Head(run.batch) \in Messages
    BY <2>1, HeadAndTail
  <2>3. transcript \in Seq(Messages) /\ Len(transcript) + 1 \in Nat
    BY DEF Types, HistoryTypes
  <2>4. HistoryTypes'
    BY <1>11, <2>2, <2>3 DEF Follow, Types, HistoryTypes, history
  <2>5. RunTypes'
    BY <1>11, <2>2, <2>3 DEF Follow, Types, RunTypes, RunSteps, Messages
  <2> QED
    BY <1>0, <1>11, <2>4, <2>5 DEF Follow, Types
<1>12. CASE FollowFails
  <2>1. HistoryTypes'
    BY <1>12 DEF FollowFails, Types, HistoryTypes, history
  <2>2. RunTypes'
    <3>1. <<>> \in Seq(Messages)
      OBVIOUS
    <3> QED
      BY <1>12, <3>1 DEF FollowFails, Types, RunTypes, RunSteps
  <2> QED
    BY <1>0, <1>12, <2>1, <2>2 DEF FollowFails, Types
<1>13. CASE CheckHeld
  <2>1. RunTypes'
    BY <1>13 DEF CheckHeld, Types, RunTypes, RunSteps
  <2> QED
    BY <1>0, <1>13, <2>1 DEF CheckHeld, Types
<1>14. CASE HeldOver
  <2>1. HistoryTypes'
    BY <1>14 DEF HeldOver, Types, HistoryTypes, history
  <2>2. RunTypes'
    BY <1>14 DEF HeldOver, Types, RunTypes, RunSteps
  <2> QED
    BY <1>0, <1>14, <2>1, <2>2 DEF HeldOver, Types
<1>15. CASE HeldStop
  <2>1. RunTypes'
    BY <1>15 DEF HeldStop, Types, RunTypes, RunSteps
  <2> QED
    BY <1>0, <1>15, <2>1 DEF HeldStop, Types
<1>16. CASE End
  <2>1. RunTypes'
    BY <1>16 DEF End, RunTypes, RunSteps, Idle
  <2>2. QueueTypes'
    BY <1>16, CollectedTypes DEF End, Types, QueueTypes
  <2> QED
    BY <1>0, <1>16, <2>1, <2>2 DEF End, Types
<1> QED
  BY <1>1, <1>2, <1>3, <1>4, <1>5, <1>6, <1>7, <1>8, <1>9, <1>10, <1>11, <1>12, <1>13,
     <1>14, <1>15, <1>16 DEF RunStep
-----------------------------------------------------------------------------
(* A request names ids of the queue the client was shown. *)
LEMMA RequestIs ==
  ASSUME Types, NEW request \in Requests
  PROVE  /\ request.op \in QueueOps \cap AllOps /\ request.arg \in Seq(Nat)
         /\ request.op # "reorder" => request.arg # <<>>
<1> DEFINE p == Current.pending
           ids == [i \in DOMAIN p |-> p[i].id]
<1>1. p \in Seq(Entry)
  BY CurrentOK DEF QueueOK, Queue
<1>2. ids \in Seq(Nat)
  <2> HIDE DEF p
  <2>1. DOMAIN p = 1 .. Len(p) /\ Len(p) \in Nat /\ \A i \in DOMAIN p : p[i] \in Entry
    BY <1>1
  <2>2. \A i \in 1 .. Len(p) : p[i].id \in Nat
    BY <2>1 DEF Entry
  <2> QED
    BY <2>1, <2>2
<1>3. Reverse(ids) \in Seq(Nat)
  <2> HIDE DEF ids
  <2>1. Len(ids) \in Nat /\ \A i \in 1 .. Len(ids) : ids[i] \in Nat
    BY <1>2
  <2>2. \A i \in 1 .. Len(ids) : (Len(ids) - i) + 1 \in 1 .. Len(ids)
    BY <2>1
  <2>3. Reverse(ids) = [i \in 1 .. Len(ids) |-> ids[(Len(ids) - i) + 1]]
    BY DEF Reverse
  <2> QED
    BY <2>1, <2>2, <2>3
<1>4. \A id \in ToSet(ids) : id \in Nat
  <2> HIDE DEF ids
  <2> QED
    BY <1>2 DEF ToSet
<1>5. Requests =
        {[op |-> op, arg |-> <<id>>] : op \in Ops \cap {"remove", "hold", "release", "steer"},
                                       id \in ToSet(ids)}
        \cup {[op |-> op, arg |-> Reverse(ids)] : op \in Ops \cap {"reorder"}}
  BY DEF Requests
<1> HIDE DEF ids
<1>6. CASE \E op \in Ops \cap {"remove", "hold", "release", "steer"}, id \in ToSet(ids) :
             request = [op |-> op, arg |-> <<id>>]
  BY <1>4, <1>6, ChatTurnsAssumption DEF QueueOps, AllOps
<1>7. CASE \E op \in Ops \cap {"reorder"} : request = [op |-> op, arg |-> Reverse(ids)]
  BY <1>3, <1>7, ChatTurnsAssumption DEF QueueOps, AllOps
<1> QED
  BY <1>5, <1>6, <1>7

(* ... the two halves of queueFor ... *)
LEMMA QueueForTypes == ASSUME Types, NEW h \in Handlers, QueueFor(h) PROVE Types'
<1>1. PICK request \in Requests :
        handlers' = [handlers EXCEPT ![h] =
          [Free EXCEPT !.pc = IF live # None THEN "apply" ELSE "load",
                       !.ref = live, !.op = request.op, !.arg = request.arg]]
  BY DEF QueueFor
<1> DEFINE r == [Free EXCEPT !.pc = IF live # None THEN "apply" ELSE "load",
                             !.ref = live, !.op = request.op, !.arg = request.arg]
<1>2. handlers' = [handlers EXCEPT ![h] = r]
  BY <1>1
<1>3. /\ request.op \in QueueOps \cap AllOps /\ request.arg \in Seq(Nat)
      /\ request.op # "reorder" => request.arg # <<>>
  BY RequestIs
<1>4. live \in QueueIds \cup {None}
  BY DEF Types, QueueTypes
<1>5. HandlerOK(r)
  <2>1. /\ r.pc = IF live # None THEN "apply" ELSE "load"
        /\ r.ref = live /\ r.op = request.op /\ r.arg = request.arg
    BY DEF Free
  <2>2. r \in HandlerRecs
    BY <1>3, <1>4, FreeOK DEF HandlerOK, HandlerRecs, HandlerSteps, PickSteps
  <2> HIDE DEF r
  <2> QED
    BY <1>3, <1>4, <2>1, <2>2 DEF HandlerOK, PickSteps
<1> HIDE DEF r
<1>6. HandlerTypes'
  BY <1>2, <1>5, HandlerStep DEF Types
<1>7. RunTypes' /\ QueueTypes' /\ RowsOK(rows)' /\ HistoryTypes'
  BY TypeFrames DEF QueueFor
<1> QED
  BY <1>6, <1>7 DEF Types

LEMMA QueueLoadTypes ==
  ASSUME Types, NEW h \in Handlers, QueueLoad(h)
  PROVE  Types' /\ NewQueue \in QueueIds /\ NewQueue # live
<1>1. handlers[h].pc = "load" /\ HandlerOK(handlers[h])
  BY DEF QueueLoad, Types, HandlerTypes
<1>2. handlers[h].ref = None
  BY <1>1 DEF HandlerOK
<1>3. /\ NewQueue \in QueueIds /\ NewQueue \notin Reachable(live, handlers)
      /\ [queues EXCEPT ![NewQueue] = Hydrate(rows)] \in [QueueIds -> Queue]
      /\ \A q \in QueueIds : QueueOK([queues EXCEPT ![NewQueue] = Hydrate(rows)][q])
  BY <1>2, NewQueueTypes
<1>4. QueueTypes'
  BY <1>3 DEF QueueLoad, QueueTypes, Types
<1>5. DOMAIN handlers = Handlers
  BY DEF Types, HandlerTypes
<1> DEFINE r == [handlers[h] EXCEPT !.pc = "apply", !.ref = NewQueue]
<1>6. handlers' = [handlers EXCEPT ![h] = r]
  BY <1>5 DEF QueueLoad
<1>7. HandlerOK(r)
  BY <1>1, <1>3, FreeOK DEF HandlerOK, HandlerRecs, HandlerSteps, PickSteps
<1> HIDE DEF r
<1>8. HandlerTypes'
  BY <1>6, <1>7, HandlerStep DEF Types
<1>9. RunTypes' /\ RowsOK(rows)' /\ HistoryTypes'
  BY TypeFrames DEF QueueLoad
<1>10. NewQueue # live
  BY <1>3 DEF Reachable
<1> QED
  BY <1>3, <1>4, <1>8, <1>9, <1>10 DEF Types

(* What a request does when it finds what it names. *)
Found(h) == Applies(queues[handlers[h].ref], handlers[h].op, handlers[h].arg)
Result(h) == Applied(queues[handlers[h].ref], handlers[h].op, handlers[h].arg)

(* The method's effect on the object the handler holds. *)
LEMMA ApplyIs ==
  ASSUME Types, NEW h \in Handlers, QueueApply(h)
  PROVE  LET q == handlers[h].ref
         IN  /\ q \in QueueIds /\ QueueOK(queues[q])
             /\ handlers[h].op \in QueueOps /\ handlers[h].arg \in Seq(Nat)
             /\ handlers' = [handlers EXCEPT ![h] = Free]
             /\ UNCHANGED <<live, run, transcript, accepted, sent, bounds>>
             /\ Found(h) =>
                  /\ QueueOK(Result(h)) /\ rows' = Snapshot(Result(h))
                  /\ queues' = Collected([queues EXCEPT ![q] = Result(h)], live, handlers')
                  /\ mishaps' = mishaps \cup (IF Overlaps(q) THEN {"overlap"} ELSE {})
             /\ ~Found(h) =>
                  /\ queues' = Collected(queues, live, handlers')
                  /\ UNCHANGED <<rows, history, mishaps>>
<1> DEFINE q == handlers[h].ref
           op == handlers[h].op
           arg == handlers[h].arg
<1>1. HandlerOK(handlers[h]) /\ handlers[h].pc = "apply"
  BY DEF QueueApply, Types, HandlerTypes
<1>2. q \in QueueIds /\ op \in QueueOps /\ arg \in Seq(Nat)
  BY <1>1 DEF HandlerOK, HandlerRecs
<1>3. QueueOK(queues[q])
  BY <1>2 DEF Types, QueueTypes
<1>4. handlers' = [handlers EXCEPT ![h] = Free]
      /\ UNCHANGED <<live, run, transcript, accepted, sent, bounds>>
  BY DEF QueueApply
<1>5. ASSUME Found(h)
      PROVE  /\ QueueOK(Result(h)) /\ rows' = Snapshot(Result(h))
             /\ queues' = Collected([queues EXCEPT ![q] = Result(h)], live, handlers')
             /\ mishaps' = mishaps \cup (IF Overlaps(q) THEN {"overlap"} ELSE {})
  <2>1. QueueOK(Applied(queues[q], op, arg))
    <3>1. Applies(queues[q], op, arg)
      BY <1>5 DEF Found
    <3> HIDE DEF q, op, arg
    <3> QED
      BY <1>2, <1>3, <3>1, AppliedKeys
  <2>2. rows' = Snapshot(Result(h))
        /\ mishaps' = mishaps \cup (IF Overlaps(q) THEN {"overlap"} ELSE {})
    BY <1>5, Zenon DEF QueueApply, Found, Result
  <2>3. queues' = Collected([queues EXCEPT ![q] = Applied(@, op, arg)], live,
                            [handlers EXCEPT ![h] = Free])
    BY <1>5, Zenon DEF QueueApply, Found
  <2>4. [queues EXCEPT ![q] = Applied(@, op, arg)] = [queues EXCEPT ![q] = Result(h)]
    BY DEF Result
  <2> QED
    BY <1>4, <2>1, <2>2, <2>3, <2>4 DEF Result
<1>6. ASSUME ~Found(h)
      PROVE  queues' = Collected(queues, live, handlers') /\ UNCHANGED <<rows, history, mishaps>>
  BY <1>4, <1>6 DEF QueueApply, Found
<1> QED
  BY <1>2, <1>3, <1>4, <1>5, <1>6

(* ... the method itself ... *)
LEMMA QueueApplyTypes == ASSUME Types, NEW h \in Handlers, QueueApply(h) PROVE Types'
<1> DEFINE q == handlers[h].ref
<1>1. /\ q \in QueueIds /\ QueueOK(queues[q])
      /\ handlers' = [handlers EXCEPT ![h] = Free]
      /\ UNCHANGED <<live, run, transcript, accepted, sent, bounds>>
      /\ Found(h) =>
           /\ QueueOK(Result(h)) /\ rows' = Snapshot(Result(h))
           /\ queues' = Collected([queues EXCEPT ![q] = Result(h)], live, handlers')
      /\ ~Found(h) => queues' = Collected(queues, live, handlers') /\ UNCHANGED rows
  BY ApplyIs
<1>2. HandlerTypes'
  BY <1>1, FreeOK, HandlerStep DEF Types
<1>3. queues \in [QueueIds -> Queue] /\ \A o \in QueueIds : QueueOK(queues[o])
  BY DEF Types, QueueTypes
<1>4. QueueTypes' /\ RowsOK(rows)'
  <2>1. CASE Found(h)
    <3> DEFINE qs == [queues EXCEPT ![q] = Result(h)]
    <3>1. Result(h) \in Queue
      BY <1>1, <2>1 DEF QueueOK
    <3>2. qs \in [QueueIds -> Queue] /\ \A o \in QueueIds : QueueOK(qs[o])
      BY <1>1, <1>3, <2>1, <3>1
    <3>5. queues' = Collected(qs, live, handlers')
      BY <1>1, <2>1
    <3> HIDE DEF qs
    <3>3. queues' \in [QueueIds -> Queue] /\ \A o \in QueueIds : QueueOK(queues'[o])
      BY <3>2, <3>5, CollectedTypes
    <3>4. RowsOK(rows')
      BY <1>1, <2>1, SnapshotIsRows
    <3> QED
      BY <1>1, <3>3, <3>4 DEF Types, QueueTypes
  <2>2. CASE ~Found(h)
    <3>1. queues' \in [QueueIds -> Queue] /\ \A o \in QueueIds : QueueOK(queues'[o])
      BY <1>1, <1>3, <2>2, CollectedTypes
    <3> QED
      BY <1>1, <2>2, <3>1 DEF Types, QueueTypes
  <2> QED
    BY <2>1, <2>2
<1>5. RunTypes'
  BY <1>1, TypeFrames
<1>6. deleted' \subseteq Messages /\ editing' \subseteq Messages
  <2>1. deleted \subseteq Messages /\ editing \subseteq Messages
    BY DEF Types, HistoryTypes
  <2>2. CASE ~Found(h)
    BY <2>1, <2>2, ApplyIs DEF history
  <2>3. CASE Found(h)
    <3> DEFINE msg == CHOOSE m \in Messages :
                 \E i \in DOMAIN queues[q].pending : queues[q].pending[i] =
                   [id |-> handlers[h].arg[1], msg |-> m, held |-> queues[q].pending[i].held]
    <3>1. /\ deleted' = deleted \cup {m \in Messages : handlers[h].op = "remove" /\ m = msg}
          /\ editing' = CASE handlers[h].op = "hold" -> editing \cup {msg}
                          [] handlers[h].op = "reorder" -> editing
                          [] OTHER -> editing \ {msg}
      BY <2>3, Zenon DEF QueueApply, Found
    <3>2. handlers[h].op = "hold" => msg \in Messages
      <4> SUFFICES ASSUME handlers[h].op = "hold" PROVE msg \in Messages
        OBVIOUS
      <4>1. handlers[h].arg[1] \in Ids(queues[q].pending)
        BY <2>3 DEF Found, Applies
      <4>2. PICK i \in DOMAIN queues[q].pending : queues[q].pending[i].id = handlers[h].arg[1]
        BY <4>1 DEF Ids
      <4>3. queues[q].pending \in Seq(Entry)
        BY <1>1 DEF QueueOK, Queue
      <4>4. queues[q].pending[i] \in Entry
        BY <4>3
      <4>5. \E m \in Messages :
              \E k \in DOMAIN queues[q].pending : queues[q].pending[k] =
                [id |-> handlers[h].arg[1], msg |-> m, held |-> queues[q].pending[k].held]
        BY <4>2, <4>4 DEF Entry
      <4> QED
        BY <4>5
    <3> HIDE DEF msg
    <3> QED
      BY <2>1, <3>1, <3>2
  <2> QED
    BY <2>2, <2>3
<1>7. HistoryTypes'
  BY <1>1, <1>6 DEF Types, HistoryTypes
<1> QED
  BY <1>2, <1>4, <1>5, <1>7 DEF Types
-----------------------------------------------------------------------------
(* A step of a handler that has no queue object. *)
LEMMA PickTypes ==
  ASSUME Types, NEW h \in Handlers, handlers[h].pc \in PickSteps
  PROVE  /\ handlers[h].pick \in Row /\ ~handlers[h].pick.steer /\ ~handlers[h].pick.held
         /\ handlers[h].ref = None /\ handlers[h].pick.msg \in Messages /\ HandlerOK(handlers[h])
<1>1. HandlerOK(handlers[h])
  BY DEF Types, HandlerTypes
<1>2. handlers[h].pick \in Row /\ ~handlers[h].pick.steer /\ ~handlers[h].pick.held
      /\ handlers[h].ref = None
  BY <1>1 DEF HandlerOK, PickSteps
<1> QED
  BY <1>1, <1>2 DEF Row

(* A resume goes on with the row it picked. *)
LEMMA MoveTypes ==
  ASSUME Types, NEW h \in Handlers, handlers[h].pc \in PickSteps, NEW pc \in PickSteps,
         handlers' = [handlers EXCEPT ![h].pc = pc]
  PROVE  HandlerTypes'
<1> DEFINE r == [handlers[h] EXCEPT !.pc = pc]
<1>1. handlers' = [handlers EXCEPT ![h] = r]
  BY DEF Types, HandlerTypes
<1>2. HandlerOK(r)
  BY PickTypes DEF HandlerOK, HandlerRecs, HandlerSteps, PickSteps
<1> HIDE DEF r
<1> QED
  BY <1>1, <1>2, HandlerStep DEF Types

(* A turn that begins with a message of the user. *)
LEMMA NewTurnTypes ==
  ASSUME NEW m \in Messages, run' = NewTurn(m), live' \in QueueIds
  PROVE  RunTypes'
<1>1. run' = [pc |-> "start", msg |-> m, mode |-> "new", upto |-> 0, batch |-> <<>>]
  BY DEF NewTurn, Idle
<1>2. live' # None /\ m \in Nat
  BY FreeOK DEF Messages
<1> QED
  BY <1>1, <1>2 DEF RunTypes, RunSteps

(* ... the steps of a resume ... *)
LEMMA TypesResume == ASSUME Types, NEW h \in Handlers, ResumeStep(h) PROVE Types'
<1>0. /\ UNCHANGED <<run, live>> => RunTypes'
      /\ UNCHANGED <<queues, live>> => QueueTypes'
      /\ UNCHANGED rows => RowsOK(rows)'
      /\ UNCHANGED <<transcript, accepted, sent, history, bounds>> => HistoryTypes'
  BY TypeFrames
<1>1. CASE ResumeIdle(h)
  <2> DEFINE r == [Free EXCEPT !.pc = "list", !.op = "resume"]
  <2>1. HandlerOK(r)
    BY FreeOK DEF HandlerOK, HandlerRecs, Free, HandlerSteps, PickSteps, AllOps
  <2>2. handlers' = [handlers EXCEPT ![h] = r]
    BY <1>1 DEF ResumeIdle
  <2> HIDE DEF r
  <2>3. HandlerTypes'
    BY <2>1, <2>2, HandlerStep DEF Types
  <2>4. HistoryTypes'
    BY <1>1 DEF ResumeIdle, Types, HistoryTypes, history
  <2> QED
    BY <1>0, <1>1, <2>3, <2>4 DEF ResumeIdle, Types
<1>2. CASE ResumeList(h)
  <2> DEFINE waiting == Select(rows, LAMBDA r : ~r.steer /\ ~r.held)
             head == Head(waiting)
             r == [handlers[h] EXCEPT !.pc = "delete", !.pick = head]
  <2>1. handlers' = [handlers EXCEPT ![h] = IF waiting = <<>> THEN Free ELSE r]
    BY <1>2 DEF ResumeList
  <2>2. waiting # <<>> => head \in ToSet(rows) /\ ~head.steer /\ ~head.held
    BY PickedRow DEF Types
  <2>3. \A x \in ToSet(rows) : x \in Row
    BY RowsByElement DEF Types, RowsOK
  <2> HIDE DEF waiting, head
  <2>4. HandlerOK(handlers[h]) /\ handlers[h].pc = "list"
    BY <1>2 DEF ResumeList, Types, HandlerTypes
  <2>5. waiting # <<>> => HandlerOK(r)
    BY <2>2, <2>3, <2>4 DEF HandlerOK, HandlerRecs, HandlerSteps, PickSteps
  <2> HIDE DEF r
  <2>6. HandlerTypes'
    BY <2>1, <2>5, FreeOK, HandlerStep DEF Types
  <2> QED
    BY <1>0, <1>2, <2>6 DEF ResumeList, Types
<1>3. CASE ResumeDelete(h)
  <2>1. HandlerTypes'
    BY <1>3, MoveTypes DEF ResumeDelete, PickSteps
  <2>2. RowsOK(rows)'
    BY <1>3, DeleteRowKeys DEF ResumeDelete, Types
  <2> QED
    BY <1>0, <1>3, <2>1, <2>2 DEF ResumeDelete, Types
<1>4. CASE ResumeBegins(h)
  <2>1. handlers[h].pick.msg \in Messages
    BY <1>4, PickTypes DEF ResumeBegins, PickSteps
  <2>2. QueueTypes' /\ live' \in QueueIds /\ run' = NewTurn(handlers[h].pick.msg)
    BY <1>4, BeginTypes DEF ResumeBegins
  <2>3. RunTypes'
    BY <2>1, <2>2, NewTurnTypes
  <2>4. HandlerTypes'
    BY <1>4, FreeOK, HandlerStep DEF ResumeBegins, Types
  <2> QED
    BY <1>0, <1>4, <2>2, <2>3, <2>4 DEF ResumeBegins, Types
<1>5. CASE ResumeQueues(h)
  <2>1. handlers[h].pick.msg \in Messages
    BY <1>5, PickTypes DEF ResumeQueues, PickSteps
  <2>2. QueueTypes' /\ RowsOK(rows)'
    BY <1>5, <2>1, AddTypes, WriteTypes DEF ResumeQueues
  <2>3. HandlerTypes'
    BY <1>5, MoveTypes DEF ResumeQueues, PickSteps
  <2> QED
    BY <1>0, <1>5, <2>2, <2>3 DEF ResumeQueues, Types
<1>6. CASE ResumeRefused(h)
  <2>1. HandlerTypes'
    BY <1>6, MoveTypes DEF ResumeRefused, PickSteps
  <2> QED
    BY <1>0, <1>6, <2>1 DEF ResumeRefused, Types
<1>7. CASE ResumeRestore(h)
  <2>1. handlers[h].pick \in Row /\ ~handlers[h].pick.held
    BY <1>7, PickTypes DEF ResumeRestore, PickSteps
  <2>2. RowsOK(rows)'
    BY <1>7, <2>1, InsertedRowKeys DEF ResumeRestore, Types
  <2>3. HandlerTypes'
    BY <1>7, FreeOK, HandlerStep DEF ResumeRestore, Types
  <2> QED
    BY <1>0, <1>7, <2>2, <2>3 DEF ResumeRestore, Types
<1> QED
  BY <1>1, <1>2, <1>3, <1>4, <1>5, <1>6, <1>7 DEF ResumeStep

(* What a retry read, and the run it begins. *)
LEMMA RetryIs ==
  ASSUME Types, NEW h \in Handlers, RetryBegins(h)
  PROVE  LET seen == handlers[h].arg
         IN  /\ seen \in Seq(Messages) /\ seen # <<>> /\ Last(seen) \in ToSet(seen)
             /\ Last(seen) \in Messages /\ handlers[h].ref = None
             /\ \E mode \in {"redo", "continue"} :
                  /\ run' = [pc |-> "start", msg |-> Last(seen), mode |-> mode,
                             upto |-> Len(LongestCommonPrefix({seen, transcript})),
                             batch |-> <<>>]
                  /\ \E params : BeginRun(params)
             /\ Len(LongestCommonPrefix({seen, transcript})) \in 0 .. Len(transcript)
             /\ seen = transcript =>
                  Len(LongestCommonPrefix({seen, transcript})) = Len(transcript)
<1> DEFINE seen == handlers[h].arg
           upto == Len(LongestCommonPrefix({seen, transcript}))
           last == Last(seen)
<1>1. HandlerOK(handlers[h]) /\ handlers[h].pc = "retry"
  BY DEF RetryBegins, Types, HandlerTypes
<1>2. seen \in Seq(Messages) /\ seen # <<>> /\ handlers[h].ref = None
  BY <1>1 DEF HandlerOK
<1>3. PICK mode \in {"redo", "continue"} :
        BeginRun([Idle EXCEPT !.pc = "start", !.msg = last, !.mode = mode, !.upto = upto])
  BY DEF RetryBegins
<1>4. last \in ToSet(seen) /\ last \in Messages
  <2> HIDE DEF seen
  <2>1. Len(seen) \in DOMAIN seen /\ seen[Len(seen)] \in Messages
    BY <1>2
  <2>2. last = seen[Len(seen)]
    BY DEF Last
  <2> QED
    BY <2>1, <2>2 DEF ToSet
<1>5. transcript \in Seq(Messages)
  BY DEF Types, HistoryTypes
<1>6. upto \in Nat /\ upto <= Len(transcript) /\ (seen = transcript => upto = Len(transcript))
  <2> HIDE DEF seen
  <2> QED
    BY <1>2, <1>5, CommonPrefix
<1>7. upto \in 0 .. Len(transcript)
  <2> HIDE DEF upto
  <2> QED
    BY <1>5, <1>6
<1>8. run' = [Idle EXCEPT !.pc = "start", !.msg = last, !.mode = mode, !.upto = upto]
  BY <1>3 DEF BeginRun
<1> HIDE DEF upto, last
<1>9. run' = [pc |-> "start", msg |-> last, mode |-> mode, upto |-> upto, batch |-> <<>>]
  BY <1>8 DEF Idle
<1> QED
  BY <1>2, <1>3, <1>4, <1>6, <1>7, <1>9 DEF upto, last

(* ... those of a retry ... *)
LEMMA TypesRetry ==
  ASSUME Types, NEW h \in Handlers, RetryRead(h) \/ RetryBegins(h) \/ RetryRefused(h)
  PROVE  Types'
<1>0. /\ UNCHANGED <<run, live>> => RunTypes'
      /\ UNCHANGED <<queues, live>> => QueueTypes'
      /\ UNCHANGED rows => RowsOK(rows)'
      /\ UNCHANGED <<transcript, accepted, sent, history, bounds>> => HistoryTypes'
  BY TypeFrames
<1>1. CASE RetryRead(h)
  <2> DEFINE r == [Free EXCEPT !.pc = "retry", !.op = "retry", !.arg = transcript]
  <2>1. transcript \in Seq(Messages) /\ transcript \in Seq(Nat) /\ transcript # <<>>
    <3>1. transcript \in Seq(Messages) /\ transcript # <<>>
      BY <1>1 DEF RetryRead, Types, HistoryTypes
    <3>2. Len(transcript) \in Nat /\ \A i \in 1 .. Len(transcript) : transcript[i] \in Messages
      BY <3>1
    <3>3. \A m \in Messages : m \in Nat
      BY DEF Messages
    <3> QED
      BY <3>1, <3>2, <3>3
  <2>2. HandlerOK(r)
    BY <2>1, FreeOK DEF HandlerOK, HandlerRecs, Free, HandlerSteps, PickSteps, AllOps
  <2>3. handlers' = [handlers EXCEPT ![h] = r]
    BY <1>1 DEF RetryRead
  <2> HIDE DEF r
  <2>4. HandlerTypes'
    BY <2>2, <2>3, HandlerStep DEF Types
  <2> QED
    BY <1>0, <1>1, <2>4 DEF RetryRead, Types
<1>2. CASE RetryBegins(h)
  <2> DEFINE last == Last(handlers[h].arg)
             upto == Len(LongestCommonPrefix({handlers[h].arg, transcript}))
  <2>1. /\ last \in Messages /\ upto \in 0 .. Len(transcript)
        /\ \E mode \in {"redo", "continue"} :
             /\ run' = [pc |-> "start", msg |-> last, mode |-> mode, upto |-> upto, batch |-> <<>>]
             /\ \E params : BeginRun(params)
    BY <1>2, RetryIs
  <2>2. sent' = [sent EXCEPT ![last] = 0]
    BY <1>2 DEF RetryBegins
  <2> HIDE DEF last, upto
  <2>3. QueueTypes' /\ live' \in QueueIds
    BY <2>1, BeginTypes
  <2>4. RunTypes'
    <3>1. live' # None /\ last \in Nat /\ upto \in Nat
      BY <2>1, <2>3, FreeOK DEF Messages
    <3> QED
      BY <2>1, <3>1 DEF RunTypes, RunSteps
  <2>5. HandlerTypes'
    BY <1>2, FreeOK, HandlerStep DEF RetryBegins, Types
  <2>6. HistoryTypes'
    <3>1. sent' \in [Messages -> 0 .. 2]
      <4>1. sent \in [Messages -> 0 .. 2] /\ 0 \in 0 .. 2
        BY DEF Types, HistoryTypes
      <4> QED
        BY <2>2, <4>1
    <3>2. UNCHANGED <<transcript, accepted, deleted, editing, bounds>>
      BY <1>2 DEF RetryBegins, history
    <3> QED
      BY <3>1, <3>2 DEF Types, HistoryTypes
  <2> QED
    BY <1>0, <1>2, <2>3, <2>4, <2>5, <2>6 DEF RetryBegins, Types
<1>3. CASE RetryRefused(h)
  <2>1. HandlerTypes'
    BY <1>3, FreeOK, HandlerStep DEF RetryRefused, Types
  <2> QED
    BY <1>0, <1>3, <2>1 DEF RetryRefused, Types
<1> QED
  BY <1>1, <1>2, <1>3

(* ... and a restart. *)
LEMMA TypesCrash == ASSUME Types, Crash PROVE Types'
<1>1. RunTypes'
  BY DEF Crash, RunTypes, RunSteps, Idle
<1>2. QueueTypes'
  <2>1. QueueOK(EmptyQueue) /\ EmptyQueue \in Queue
    BY EmptyQueueOK DEF QueueOK
  <2> QED
    BY <2>1 DEF Crash, QueueTypes
<1>3. HandlerTypes'
  <2>1. HandlerOK(Free) /\ Free \in HandlerRecs
    BY FreeOK DEF HandlerOK
  <2> QED
    BY <2>1 DEF Crash, HandlerTypes
<1>4. HistoryTypes'
  BY DEF Crash, Types, HistoryTypes, history
<1>5. RowsOK(rows)'
  BY DEF Crash, Types
<1> QED
  BY <1>1, <1>2, <1>3, <1>4, <1>5 DEF Types

(* The types are an inductive invariant, with where a re-run starts from. *)
LEMMA TypesStep == ASSUME Types, UptoIn, Next PROVE Types'
BY TypesSends, TypesRun, TypesCrash, QueueForTypes, QueueLoadTypes, QueueApplyTypes,
   TypesResume, TypesRetry DEF Next

(* A re-run keeps starting from a part of the transcript: only the start of a turn
   cuts it, and what starts from more than there is has been read before. *)
LEMMA UptoStep == ASSUME Types, UptoIn, Next PROVE UptoIn'
<1>1. /\ run.upto \in Nat /\ transcript \in Seq(Messages) /\ Len(transcript) \in Nat
      /\ run.upto <= Len(transcript)
  BY DEF Types, RunTypes, HistoryTypes, UptoIn
<1>2. \A m \in Messages : Len(Append(transcript, m)) = Len(transcript) + 1
  BY <1>1
<1>3. CASE Start
  <2>1. run' = [run EXCEPT !.pc = "round"] /\ run.msg \in Messages
    BY <1>3, LiveQueue DEF Start
  <2>2. run'.upto = run.upto
    BY <2>1 DEF Types, RunTypes
  <2>3. Len(SubSeq(transcript, 1, run.upto)) = run.upto
    BY <1>1, Beginning
  <2>4. run.mode \in {"new", "redo", "continue"}
    BY DEF Types, RunTypes
  <2>5. CASE run.mode = "new"
    <3>1. transcript' = Append(transcript, run.msg)
      BY <1>3, <2>5 DEF Start
    <3>2. Len(transcript') = Len(transcript) + 1
      BY <1>2, <2>1, <3>1
    <3> QED
      BY <1>1, <2>2, <3>2 DEF UptoIn
  <2>6. CASE run.mode = "redo"
    <3>1. Len(transcript') = run.upto
      BY <1>3, <2>3, <2>6 DEF Start
    <3> QED
      BY <1>1, <2>2, <3>1 DEF UptoIn
  <2>7. CASE run.mode = "continue"
    <3>1. transcript' = transcript
      BY <1>3, <2>7 DEF Start
    <3> QED
      BY <1>1, <2>2, <3>1 DEF UptoIn
  <2> QED
    BY <2>4, <2>5, <2>6, <2>7
<1>4. CASE Inject \/ Follow
  <2>1. run.batch \in Seq(Messages) /\ run.batch # <<>>
    BY <1>4 DEF Inject, Follow, Types, RunTypes
  <2>2. Head(run.batch) \in Messages
    BY <2>1, HeadAndTail
  <2>3. Len(transcript') = Len(transcript) + 1
    BY <1>2, <1>4, <2>2 DEF Inject, Follow
  <2>4. run'.upto = run.upto \/ run'.upto = Len(transcript) + 1
    <3>1. CASE Inject
      BY <3>1 DEF Inject, Types, RunTypes
    <3>2. CASE Follow
      BY <3>2 DEF Follow
    <3> QED
      BY <1>4, <3>1, <3>2
  <2> QED
    BY <1>1, <2>3, <2>4 DEF UptoIn
<1>5. CASE End \/ Crash \/ SendStarts \/ \E h \in Handlers : ResumeBegins(h)
  <2>1. run'.upto = 0
    <3>1. Idle.upto = 0 /\ \A m : NewTurn(m).upto = 0
      BY DEF NewTurn, Idle
    <3>2. run' = Idle \/ \E m : run' = NewTurn(m)
      BY <1>5, Zenon DEF End, Crash, SendStarts, ResumeBegins, BeginRun
    <3> QED
      BY <3>1, <3>2
  <2>2. transcript' = transcript
    BY <1>5 DEF End, Crash, SendStarts, ResumeBegins
  <2> QED
    BY <1>1, <2>1, <2>2 DEF UptoIn
<1>6. ASSUME NEW h \in Handlers, RetryBegins(h) PROVE UptoIn'
  <2> DEFINE upto == Len(LongestCommonPrefix({handlers[h].arg, transcript}))
  <2>1. upto \in 0 .. Len(transcript) /\ run'.upto = upto
    BY <1>6, RetryIs
  <2>2. transcript' = transcript
    BY <1>6 DEF RetryBegins
  <2> HIDE DEF upto
  <2> QED
    BY <1>1, <2>1, <2>2 DEF UptoIn
<1>7. ASSUME run'.upto = run.upto, UNCHANGED transcript PROVE UptoIn'
  BY <1>1, <1>7 DEF UptoIn
<1>8. CASE \/ StartFails \/ SteerDrain \/ InjectFails \/ Requeue \/ TurnOK \/ TurnFail \/ Drain
           \/ ReAdd \/ FollowFails \/ CheckHeld \/ HeldOver \/ HeldStop
  <2>1. transcript' = transcript
    BY <1>8 DEF StartFails, SteerDrain, InjectFails, Requeue, TurnOK, TurnFail, Drain, ReAdd,
                FollowFails, CheckHeld, HeldOver, HeldStop
  <2>2. run'.upto = run.upto
    <3>1. CASE StartFails
      BY <3>1 DEF StartFails, Types, RunTypes
    <3>2. CASE SteerDrain
      BY <3>2 DEF SteerDrain, Types, RunTypes
    <3>3. CASE InjectFails
      BY <3>3 DEF InjectFails, Types, RunTypes
    <3>4. CASE Requeue
      BY <3>4 DEF Requeue, Types, RunTypes
    <3>5. CASE TurnOK
      BY <3>5 DEF TurnOK, Types, RunTypes
    <3>6. CASE TurnFail
      BY <3>6 DEF TurnFail, Types, RunTypes
    <3>7. CASE Drain
      BY <3>7 DEF Drain, Types, RunTypes
    <3>8. CASE ReAdd
      BY <3>8 DEF ReAdd, Types, RunTypes
    <3>9. CASE FollowFails
      BY <3>9 DEF FollowFails, Types, RunTypes
    <3>10. CASE CheckHeld
      BY <3>10 DEF CheckHeld, Types, RunTypes
    <3>11. CASE HeldOver
      BY <3>11 DEF HeldOver, Types, RunTypes
    <3>12. CASE HeldStop
      BY <3>12 DEF HeldStop, Types, RunTypes
    <3> QED
      BY <1>8, <3>1, <3>2, <3>3, <3>4, <3>5, <3>6, <3>7, <3>8, <3>9, <3>10, <3>11, <3>12
  <2> QED
    BY <1>7, <2>1, <2>2
<1>9. CASE UNCHANGED <<run, transcript>>
  BY <1>7, <1>9
<1>10. CASE SendQueued
  BY <1>9, <1>10 DEF SendQueued
<1>11. ASSUME NEW h \in Handlers,
              \/ QueueFor(h) \/ QueueLoad(h) \/ QueueApply(h) \/ ResumeIdle(h) \/ ResumeList(h)
              \/ ResumeDelete(h) \/ ResumeQueues(h) \/ ResumeRefused(h) \/ ResumeRestore(h)
              \/ RetryRead(h) \/ RetryRefused(h)
       PROVE  UptoIn'
  <2>1. UNCHANGED <<run, transcript>>
    BY <1>11, Zenon DEF QueueFor, QueueLoad, QueueApply, ResumeIdle, ResumeList, ResumeDelete,
                        ResumeQueues, ResumeRefused, ResumeRestore, RetryRead, RetryRefused
  <2> QED
    BY <1>9, <2>1
<1> QED
  BY <1>3, <1>4, <1>5, <1>6, <1>8, <1>10, <1>11 DEF Next, RunStep, ResumeStep
-----------------------------------------------------------------------------
(* No stale writer so far. *)
Clean == "overlap" \notin mishaps

(* What happened stays recorded, so a clean state has a clean past. *)
LEMMA MishapsGrow == ASSUME Next PROVE mishaps \subseteq mishaps'
<1>1. ASSUME NEW h \in Handlers,
             \/ QueueFor(h) \/ QueueLoad(h) \/ ResumeIdle(h) \/ ResumeList(h)
             \/ ResumeBegins(h) \/ ResumeRefused(h) \/ RetryRead(h) \/ RetryRefused(h)
      PROVE  mishaps' = mishaps
  BY <1>1, Zenon DEF QueueFor, QueueLoad, ResumeIdle, ResumeList, ResumeBegins, ResumeRefused,
                     RetryRead, RetryRefused
<1>2. ASSUME NEW h \in Handlers,
             ResumeDelete(h) \/ ResumeQueues(h) \/ ResumeRestore(h) \/ RetryBegins(h)
      PROVE  mishaps \subseteq mishaps'
  BY <1>2, Zenon DEF ResumeDelete, ResumeQueues, ResumeRestore, RetryBegins
<1>3. ASSUME NEW h \in Handlers, QueueApply(h) PROVE mishaps \subseteq mishaps'
  BY <1>3, Zenon DEF QueueApply
<1>4. CASE \/ SendQueued \/ SendStarts \/ Start \/ SteerDrain \/ Inject \/ InjectFails \/ Requeue
           \/ TurnOK \/ TurnFail \/ Drain \/ ReAdd \/ Follow \/ CheckHeld \/ HeldOver \/ HeldStop
           \/ End
  <2>1. mishaps' = mishaps
    BY <1>4, Zenon DEF SendQueued, SendStarts, Start, SteerDrain, Inject, InjectFails, Requeue,
                       TurnOK, TurnFail, Drain, ReAdd, Follow, CheckHeld, HeldOver, HeldStop,
                       End
  <2> QED
    BY <2>1
<1>5. CASE StartFails \/ FollowFails \/ Crash
  BY <1>5, Zenon DEF StartFails, FollowFails, Crash
<1> QED
  BY <1>1, <1>2, <1>3, <1>4, <1>5 DEF Next, RunStep, ResumeStep

LEMMA StaysClean == ASSUME Next, Clean' PROVE Clean
BY MishapsGrow DEF Clean

(* The queue object a clean request writes to is what the rows say. *)
LEMMA CleanRequest ==
  ASSUME Types, StoreMirrorsQueue, NEW h \in Handlers, QueueApply(h), Clean', Found(h)
  PROVE  /\ RowKeys(rows) = QueueKeys(queues[handlers[h].ref])
         /\ handlers[h].ref # live => live = None
<1> DEFINE q == handlers[h].ref
<1>1. /\ QueueOK(queues[q]) /\ q \in QueueIds
      /\ mishaps' = mishaps \cup (IF Overlaps(q) THEN {"overlap"} ELSE {})
  BY ApplyIs
<1>2. Clean /\ ~Overlaps(q)
  <2> HIDE DEF q
  <2> QED
    BY <1>1 DEF Clean
<1>3. RowsOK(rows) /\ None \notin QueueIds
  BY FreeOK DEF Types
<1>4. q # live => live = None /\ Hydrate(rows) = Hydrate(Snapshot(queues[q]))
  BY <1>2 DEF Overlaps
<1>5. q = live => Hydrate(rows) = Hydrate(Snapshot(queues[q]))
  BY <1>1, <1>2, <1>3 DEF StoreMirrorsQueue, Clean
<1> QED
  BY <1>1, <1>3, <1>4, <1>5, MirrorKeys

(* Every step keeps the rows a mirror of the live queue: each method writes through,
   a run begins on what the rows say, and who writes otherwise overlaps. *)
LEMMA MirrorStep == ASSUME Types, StoreMirrorsQueue, Next PROVE StoreMirrorsQueue'
<1> SUFFICES ASSUME live' # None, Clean'
             PROVE  Hydrate(rows') = Hydrate(Snapshot(queues'[live']))
  BY DEF StoreMirrorsQueue, Clean
<1>1. Clean
  BY StaysClean
<1>2. live # None => Hydrate(rows) = Hydrate(Snapshot(queues[live]))
  BY <1>1 DEF StoreMirrorsQueue, Clean
<1>3. ASSUME NEW content, QueueOK(content), live # None, Write(live, content), live' = live
      PROVE  Hydrate(rows') = Hydrate(Snapshot(queues'[live']))
  BY <1>3, WriteTypes
<1>4. ASSUME NEW params, BeginRun(params), UNCHANGED rows
      PROVE  Hydrate(rows') = Hydrate(Snapshot(queues'[live']))
  <2>1. queues'[live'] = Hydrate(rows) /\ RowsOK(rows)
    BY <1>4, BeginTypes DEF Types
  <2> QED
    BY <1>4, <2>1, LoadedIsSaved
<1>5. ASSUME UNCHANGED <<rows, live>>, queues'[live] = queues[live]
      PROVE  Hydrate(rows') = Hydrate(Snapshot(queues'[live']))
  BY <1>2, <1>5
<1>6. ASSUME UNCHANGED <<rows, live, queues>>
      PROVE  Hydrate(rows') = Hydrate(Snapshot(queues'[live']))
  BY <1>5, <1>6
<1>7. CASE SendQueued
  <2>1. accepted + 1 \in Messages
    BY <1>7, ChatTurnsAssumption DEF SendQueued, Types, HistoryTypes, Messages
  <2> QED
    BY <1>3, <1>7, <2>1, AddTypes DEF SendQueued
<1>8. CASE SendStarts
  BY <1>4, <1>8 DEF SendStarts
<1>9. CASE \/ Start \/ StartFails \/ Inject \/ InjectFails \/ TurnOK \/ TurnFail \/ Follow
           \/ FollowFails \/ CheckHeld \/ HeldOver \/ HeldStop
  <2>1. UNCHANGED <<rows, live, queues>>
    BY <1>9, Zenon DEF Start, StartFails, Inject, InjectFails, TurnOK, TurnFail, Follow,
                       FollowFails, CheckHeld, HeldOver, HeldStop
  <2> QED
    BY <1>6, <2>1
<1>10. CASE SteerDrain
  <2>1. live # None /\ QueueOK(queues[live])
    BY <1>10, LiveQueue DEF SteerDrain
  <2> QED
    BY <1>3, <1>10, <2>1, NoSteersKeys DEF SteerDrain
<1>11. CASE Drain
  <2>1. live # None /\ QueueOK(queues[live])
    BY <1>11, LiveQueue DEF Drain
  <2>2. UNCHANGED <<queues, rows>> \/ Write(live, Kept(queues[live]))
    BY <1>11 DEF Drain
  <2>3. live' = live
    BY <1>11 DEF Drain
  <2> QED
    BY <1>3, <1>6, <2>1, <2>2, <2>3, KeptKeys
<1>12. CASE Requeue
  <2>1. live # None /\ run.batch \in Seq(Messages) /\ run.batch # <<>>
    BY <1>12, LiveQueue DEF Requeue, Types, RunTypes
  <2>2. Head(run.batch) \in Messages
    BY <2>1, HeadAndTail
  <2> QED
    BY <1>3, <1>12, <2>1, <2>2, AddTypes DEF Requeue
<1>13. CASE ReAdd
  <2>1. live # None /\ run.batch \in Seq(Messages) /\ Len(run.batch) >= 2
    BY <1>13, LiveQueue DEF ReAdd, Types, RunTypes
  <2>2. run.batch[2] \in Messages
    BY <2>1, SecondAndOthers
  <2> QED
    BY <1>3, <1>13, <2>1, <2>2, AddTypes DEF ReAdd
<1>14. CASE End \/ Crash
  BY <1>14 DEF End, Crash
<1>15. ASSUME NEW h \in Handlers,
              \/ QueueFor(h) \/ ResumeIdle(h) \/ ResumeList(h) \/ ResumeRefused(h)
              \/ RetryRead(h) \/ RetryRefused(h)
       PROVE  Hydrate(rows') = Hydrate(Snapshot(queues'[live']))
  <2>1. UNCHANGED <<rows, live, queues>>
    BY <1>15, Zenon DEF QueueFor, ResumeIdle, ResumeList, ResumeRefused, RetryRead, RetryRefused
  <2> QED
    BY <1>6, <2>1
<1>16. ASSUME NEW h \in Handlers, QueueLoad(h)
       PROVE  Hydrate(rows') = Hydrate(Snapshot(queues'[live']))
  <2>1. NewQueue # live
    BY <1>16, QueueLoadTypes
  <2>2. queues'[live] = queues[live]
    BY <1>16, <2>1 DEF QueueLoad, Types, QueueTypes
  <2> QED
    BY <1>5, <1>16, <2>2 DEF QueueLoad
<1>17. ASSUME NEW h \in Handlers, QueueApply(h)
       PROVE  Hydrate(rows') = Hydrate(Snapshot(queues'[live']))
  <2> DEFINE q == handlers[h].ref
  <2>1. /\ q \in QueueIds /\ live' = live
        /\ Found(h) => /\ QueueOK(Result(h)) /\ rows' = Snapshot(Result(h))
                       /\ queues' = Collected([queues EXCEPT ![q] = Result(h)], live, handlers')
        /\ ~Found(h) => queues' = Collected(queues, live, handlers') /\ UNCHANGED rows
    BY <1>17, ApplyIs
  <2>2. live \in QueueIds /\ queues \in [QueueIds -> Queue]
        /\ \A o \in QueueIds : QueueOK(queues[o])
    BY <2>1 DEF Types, QueueTypes
  <2>3. CASE Found(h)
    <3>1. q = live
      BY <1>17, <2>1, <2>3, CleanRequest
    <3> DEFINE qs == [queues EXCEPT ![q] = Result(h)]
    <3>2. queues'[live] = qs[live]
      BY <2>1, <2>2, <2>3 DEF Collected, Reachable
    <3>3. qs[live] = Result(h)
      BY <2>2, <3>1
    <3> QED
      BY <2>1, <2>3, <3>2, <3>3
  <2>4. CASE ~Found(h)
    <3>1. queues'[live] = queues[live]
      BY <2>1, <2>2, <2>4 DEF Collected, Reachable
    <3> QED
      BY <1>5, <2>1, <2>4, <3>1
  <2> QED
    BY <2>3, <2>4
<1>18. ASSUME NEW h \in Handlers, ResumeBegins(h)
       PROVE  Hydrate(rows') = Hydrate(Snapshot(queues'[live']))
  BY <1>4, <1>18 DEF ResumeBegins
<1>19. ASSUME NEW h \in Handlers, RetryBegins(h)
       PROVE  Hydrate(rows') = Hydrate(Snapshot(queues'[live']))
  <2>1. \E params : BeginRun(params)
    BY <1>19, Zenon DEF RetryBegins
  <2>2. UNCHANGED rows
    BY <1>19, Zenon DEF RetryBegins
  <2> QED
    BY <1>4, <2>1, <2>2
<1>20. ASSUME NEW h \in Handlers, ResumeQueues(h) \/ ResumeDelete(h) \/ ResumeRestore(h) PROVE FALSE
  <2>1. "overlap" \in mishaps'
    BY <1>20, Zenon DEF ResumeQueues, ResumeDelete, ResumeRestore
  <2> QED
    BY <2>1 DEF Clean
<1> QED
  BY <1>7, <1>8, <1>9, <1>10, <1>11, <1>12, <1>13, <1>14, <1>15, <1>16, <1>17, <1>18, <1>19,
     <1>20 DEF Next, RunStep, ResumeStep
-----------------------------------------------------------------------------
(* Where messages are. *)
Keys == RowKeys(rows)

(* The resumes that picked a row, and those that deleted it; what the goroutine
   holds; whose turn it is; what the transcript has. *)
Chosen == {h \in Handlers : handlers[h].pc \in PickSteps}
Taken == {h \in Handlers : handlers[h].pc \in {"begin", "restore"}}
Batch == ToSet(run.batch)
InTurn == IF run.pc = "idle" THEN {} ELSE {run.msg}
Told == ToSet(transcript)

(* The messages of what waits. *)
MsgsOf(K) == {x.msg : x \in K}

(* Effects on the picks of resumes. *)
PicksStay ==
  /\ Chosen' = Chosen /\ Taken' = Taken
  /\ \A h \in Chosen : handlers'[h].pick = handlers[h].pick

(* One resume is over, the others are where they were. *)
PickGone(h) ==
  /\ Chosen' = Chosen \ {h} /\ Taken' = Taken \ {h}
  /\ \A g \in Chosen \ {h} : handlers'[g].pick = handlers[g].pick

(* The types of the places. *)
LEMMA KeysTyped ==
  ASSUME Types
  PROVE  /\ Keys \subseteq KeyTypes
         /\ \A x, y \in Keys : x.id = y.id => x = y
         /\ Taken \subseteq Chosen /\ Chosen \subseteq Handlers
         /\ \A h \in Chosen : handlers[h].pick \in Row /\ handlers[h].pick.msg \in Messages
         /\ Batch \subseteq Messages /\ InTurn \subseteq Messages /\ Told \subseteq Messages
<1>1. Keys \subseteq KeyTypes /\ \A x, y \in Keys : x.id = y.id => x = y
  BY RowKeysAreUnique DEF Types, Keys
<1>2. Taken \subseteq Chosen /\ Chosen \subseteq Handlers
  BY DEF Taken, Chosen, PickSteps
<1>3. \A h \in Chosen : handlers[h].pick \in Row /\ handlers[h].pick.msg \in Messages
  BY PickTypes DEF Chosen
<1>4. InTurn \subseteq Messages
  BY DEF InTurn, Types, RunTypes
<1>5. \A s \in Seq(Messages) : ToSet(s) \subseteq Messages
  BY DEF ToSet
<1>6. Batch \subseteq Messages /\ Told \subseteq Messages
  BY <1>5 DEF Batch, Told, Types, RunTypes, HistoryTypes
<1> QED
  BY <1>1, <1>2, <1>3, <1>4, <1>6

(* The live queue's entries are what the rows say. *)
LEMMA LiveKeys ==
  ASSUME Types, StoreMirrorsQueue, Clean, live # None
  PROVE  QueueKeys(queues[live]) = Keys /\ QueueOK(queues[live])
<1>1. QueueOK(queues[live]) /\ RowsOK(rows)
  BY DEF Types, QueueTypes
<1>2. Hydrate(rows) = Hydrate(Snapshot(queues[live]))
  BY DEF StoreMirrorsQueue, Clean
<1> QED
  BY <1>1, <1>2, MirrorKeys DEF Keys

(* After a write the rows hold what the object holds. *)
LEMMA WrittenKeys ==
  ASSUME NEW q, QueueOK(q), rows' = Snapshot(q)
  PROVE  Keys' = QueueKeys(q)
BY SnapshotIsRows DEF Keys

(* A message goes to the end of the live queue. *)
LEMMA AddedKeys ==
  ASSUME Types, StoreMirrorsQueue, Clean, live # None, NEW m \in Messages,
         Write(live, Add(queues[live], NewID, m))
  PROVE  /\ Keys' = Keys \cup {Key(NewID, m, "free")}
         /\ \A x \in Keys : x.id # NewID
         /\ \A h \in Chosen : handlers[h].pick.id # NewID
<1>1. QueueOK(Add(queues[live], NewID, m))
      /\ QueueKeys(Add(queues[live], NewID, m)) =
              QueueKeys(queues[live]) \cup {Key(NewID, m, "free")}
  BY AddTypes
<1>2. rows' = Snapshot(Add(queues[live], NewID, m))
  BY DEF Write
<1>3. Keys' = Keys \cup {Key(NewID, m, "free")}
  BY <1>1, <1>2, LiveKeys, WrittenKeys
<1>4. \A x \in Keys : x.id # NewID
  <2>1. NewID \notin Ids(rows)
    BY NewIDIsNew
  <2>2. \A i \in DOMAIN rows : RowKey(rows[i]).id = rows[i].id
    BY DEF RowKey, Key
  <2> QED
    BY <2>1, <2>2 DEF Keys, RowKeys, Ids
<1>5. \A h \in Chosen : handlers[h].pick.id # NewID
  BY NewIDIsNew DEF Chosen
<1> QED
  BY <1>3, <1>4, <1>5

(* A handler that leaves its request lets its row go; one that had none changes
   nothing there. *)
LEMMA HandlerEffect ==
  ASSUME Types, NEW h \in Handlers, NEW r, handlers' = [handlers EXCEPT ![h] = r]
  PROVE  /\ r.pc \notin PickSteps => PickGone(h)
         /\ r.pc \notin PickSteps /\ handlers[h].pc \notin PickSteps => PicksStay
<1>1. DOMAIN handlers = Handlers
  BY DEF Types, HandlerTypes
<1>2. handlers'[h] = r /\ \A g \in Handlers \ {h} : handlers'[g] = handlers[g]
  BY <1>1
<1> QED
  BY <1>2 DEF PickGone, PicksStay, Chosen, Taken, PickSteps
-----------------------------------------------------------------------------
(* What a step does to the places, whichever action it is. *)
IdIsFree(id) == (\A x \in Keys : x.id # id) /\ \A h \in Chosen : handlers[h].pick.id # id

(* One message leaves the batch. *)
BatchLoses(m) ==
  /\ m \in Messages /\ Batch = {m} \cup Batch'
  /\ Distinct(run.batch) => Distinct(run'.batch) /\ m \notin Batch'

(* No message waits twice. *)
OneMessageOnce(K) == \A x, y \in K : x.msg = y.msg => x = y

(* Nothing is moved, and the turn that starts is one that was starting. *)
Quiet ==
  /\ PicksStay /\ Keys' = Keys
  /\ run'.batch = run.batch /\ InTurn' = InTurn
  /\ UNCHANGED <<transcript, accepted, sent, history>>
  /\ run'.pc = "start" => run' = run \/ bounds'.reruns # 0
  /\ run.pc = "start" => run'.pc = "start" \/ mishaps' # {}

(* A send queues a message; it is new. *)
Queues ==
  /\ PicksStay /\ accepted' = accepted + 1 /\ accepted + 1 \in Messages
  /\ \E id \in Nat : IdIsFree(id) /\ Keys' = Keys \cup {Key(id, accepted + 1, "free")}
  /\ UNCHANGED <<run, transcript, sent, history>>

(* A send starts a turn with it. *)
Starts ==
  /\ PicksStay /\ accepted' = accepted + 1 /\ accepted + 1 \in Messages
  /\ Keys' = Keys /\ run.pc = "idle" /\ Batch = {} /\ run' = NewTurn(accepted + 1)
  /\ UNCHANGED <<transcript, sent, history>>

(* A turn starts: its message goes to the agent, and to the transcript. *)
Tells ==
  /\ PicksStay /\ Keys' = Keys
  /\ run.pc = "start" /\ run'.pc = "round" /\ run.msg \in Messages
  /\ run'.batch = run.batch /\ InTurn' = InTurn
  /\ Told' \subseteq Told \cup {run.msg} /\ sent' = SentOnceMore(run.msg)
  /\ run.mode = "new" => Told' = Told \cup {run.msg}
  /\ run.mode = "redo" /\ run.upto >= Len(transcript) => Told' = Told
  /\ run.mode = "continue" => Told' = Told
  /\ UNCHANGED <<accepted, history>>

(* The goroutine takes messages out of the queue, none of them held. *)
Takes ==
  /\ PicksStay /\ Batch = {} /\ InTurn' = InTurn
  /\ run.pc # "start" /\ run'.pc # "start"
  /\ \E K \in SUBSET Keys :
       /\ Keys' = Keys \ K /\ Batch' = MsgsOf(K)
       /\ \A x \in K : x.lane # "held"
       /\ OneMessageOnce(Keys) => Distinct(run'.batch)
  /\ UNCHANGED <<transcript, accepted, sent, history>>

(* A taken message is recorded between two rounds. *)
Injects ==
  /\ PicksStay /\ Keys' = Keys /\ InTurn' = InTurn
  /\ run.pc # "start" /\ run'.pc # "start"
  /\ \E m \in Messages : BatchLoses(m) /\ Told' = Told \cup {m} /\ sent' = SentOnceMore(m)
  /\ UNCHANGED <<accepted, history>>

(* A taken message goes back to the queue, under a new id. *)
PutsBack ==
  /\ PicksStay /\ InTurn' = InTurn
  /\ run.pc # "start" /\ run'.pc # "start"
  /\ \E m \in Messages, id \in Nat :
       BatchLoses(m) /\ IdIsFree(id) /\ Keys' = Keys \cup {Key(id, m, "free")}
  /\ UNCHANGED <<transcript, accepted, sent, history>>

(* The taken message is recorded and becomes the next turn. *)
Follows ==
  /\ PicksStay /\ Keys' = Keys
  /\ run.pc # "start" /\ run'.pc = "start" /\ run'.mode = "redo"
  /\ run'.batch = <<>> /\ run'.upto = Len(transcript')
  /\ \E m \in Messages :
       Batch = {m} /\ InTurn' = {m} /\ run'.msg = m /\ Told' = Told \cup {m}
  /\ UNCHANGED <<accepted, sent, history>>

(* The run ends, or all of the memory goes: what is lost had to be in memory only. *)
Drops ==
  /\ PicksStay \/ (Chosen' = {} /\ Taken' = {})
  /\ Keys' = Keys /\ run'.pc # "start" /\ run'.batch = <<>> /\ InTurn' \subseteq InTurn
  /\ \/ PicksStay /\ Batch = {} /\ run.pc # "start"
     \/ mishaps' # {}
     \/ \A m \in 1 .. accepted : m \in deleted \cup Told \cup MsgsOf(Keys)
  /\ UNCHANGED <<transcript, accepted, sent, history>>

(* A request's effect on what waits: its message stays what it was; a delete
   removes it, an edit that begins holds it. *)
Changes ==
  /\ PicksStay /\ UNCHANGED <<run, transcript, accepted, sent>>
  /\ \A y \in Keys' : \E x \in Keys : Same(x, y)
  /\ \E z \in Keys :
       /\ \/ /\ \A x \in Keys : x.id = z.id \/ x \in Keys'
             /\ \A y \in Keys' : y.id # z.id
             /\ deleted' = deleted \cup {z.msg} /\ editing' = editing \ {z.msg}
          \/ /\ \A x \in Keys : x.id = z.id \/ x \in Keys'
             /\ \E y \in Keys' : Same(z, y)
             /\ deleted' = deleted /\ editing' = editing \ {z.msg}
          \/ /\ \A x \in Keys : x.id = z.id \/ x \in Keys'
             /\ \E y \in Keys' : Same(z, y) /\ y.lane = "held"
             /\ deleted' = deleted /\ editing' = editing \cup {z.msg}

(* A resume picks one of the rows. *)
Chooses ==
  /\ UNCHANGED <<Keys, run, transcript, accepted, sent, history>>
  /\ \E h \in Handlers, x \in Keys :
       /\ handlers[h].pc = "list"
       /\ Chosen' = Chosen \cup {h} /\ Taken' = Taken /\ h \notin Chosen
       /\ \A g \in Chosen : handlers'[g].pick = handlers[g].pick
       /\ handlers'[h].pick.id = x.id /\ handlers'[h].pick.msg = x.msg

(* A resume deletes the row it picked. *)
TakesRow ==
  /\ UNCHANGED <<run, transcript, accepted, sent, history>>
  /\ \E h \in Chosen, x \in Keys :
       /\ x.id = handlers[h].pick.id /\ x.lane = "free" /\ h \notin Taken
       /\ Keys' = Keys \ {x}
       /\ Chosen' = Chosen /\ Taken' = Taken \cup {h}
       /\ \A g \in Chosen : handlers'[g].pick = handlers[g].pick

(* The message of that row starts a run. *)
Resumes ==
  /\ Keys' = Keys /\ run.pc = "idle" /\ Batch = {}
  /\ \E h \in Taken : PickGone(h) /\ run' = NewTurn(handlers[h].pick.msg)
  /\ UNCHANGED <<transcript, accepted, sent, history>>

(* The row is put back. *)
Restores ==
  /\ UNCHANGED <<run, transcript, accepted, sent, history>>
  /\ \E h \in Taken :
       /\ PickGone(h)
       /\ Keys' = {x \in Keys : x.id # handlers[h].pick.id}
                  \cup {Key(handlers[h].pick.id, handlers[h].pick.msg, "free")}

(* A retry re-runs a message of the transcript: it may be sent once more. *)
Retries ==
  /\ PicksStay /\ Keys' = Keys /\ run.pc = "idle" /\ Batch = {}
  /\ run'.pc = "start" /\ run'.batch = <<>> /\ run'.mode # "new"
  /\ run'.upto >= Len(transcript)
  /\ \E m \in Told : run'.msg = m /\ InTurn' = {m} /\ sent' = [sent EXCEPT ![m] = 0]
  /\ UNCHANGED <<transcript, accepted, history>>
-----------------------------------------------------------------------------
(* Without a run there is no object of it and no batch. *)
LEMMA IdleRun ==
  ASSUME Types
  PROVE  /\ live = None <=> run.pc = "idle"
         /\ run.pc \notin {"inject", "requeue", "readd", "follow"} => run.batch = <<>> /\ Batch = {}
BY DEF Types, RunTypes, Batch, ToSet

(* The steps that move nothing. *)
LEMMA QuietSteps ==
  ASSUME Types,
         \/ StartFails \/ InjectFails \/ TurnOK \/ TurnFail \/ CheckHeld \/ HeldOver \/ HeldStop
         \/ \E h \in Handlers : \/ QueueFor(h) \/ QueueLoad(h) \/ ResumeIdle(h) \/ ResumeRefused(h)
                                \/ RetryRead(h) \/ RetryRefused(h)
  PROVE  Quiet
<1>1. ASSUME UNCHANGED <<rows, handlers, transcript, accepted, sent, history>>,
             run'.batch = run.batch, run'.msg = run.msg, run'.pc # "idle", run.pc # "idle",
             run'.pc = "start" => bounds'.reruns # 0, run.pc = "start" => mishaps' # {}
      PROVE  Quiet
  BY <1>1 DEF Quiet, PicksStay, Chosen, Taken, Keys, InTurn, history
<1>2. CASE StartFails \/ InjectFails \/ TurnOK \/ TurnFail \/ CheckHeld \/ HeldOver \/ HeldStop
  <2>1. UNCHANGED <<rows, handlers, transcript, accepted, sent, history>>
    BY <1>2, Zenon DEF StartFails, InjectFails, TurnOK, TurnFail, CheckHeld, HeldOver, HeldStop
  <2>2. /\ run'.batch = run.batch /\ run'.msg = run.msg /\ run'.pc # "idle" /\ run.pc # "idle"
        /\ run'.pc = "start" => bounds'.reruns # 0
        /\ run.pc = "start" => mishaps' # {}
    <3>1. CASE StartFails
      BY <3>1 DEF StartFails, Types, RunTypes
    <3>2. CASE InjectFails
      BY <3>2 DEF InjectFails, Types, RunTypes
    <3>3. CASE TurnOK
      BY <3>3 DEF TurnOK, Types, RunTypes
    <3>4. CASE TurnFail
      BY <3>4 DEF TurnFail, Types, RunTypes
    <3>5. CASE CheckHeld
      BY <3>5 DEF CheckHeld, Types, RunTypes
    <3>6. CASE HeldOver
      <4>1. bounds.reruns \in Nat /\ bounds'.reruns = bounds.reruns + 1
        BY <3>6 DEF HeldOver, Types, HistoryTypes
      <4> QED
        BY <3>6, <4>1 DEF HeldOver, Types, RunTypes
    <3>7. CASE HeldStop
      BY <3>7 DEF HeldStop, Types, RunTypes
    <3> QED
      BY <1>2, <3>1, <3>2, <3>3, <3>4, <3>5, <3>6, <3>7
  <2> QED
    BY <1>1, <2>1, <2>2
<1>3. ASSUME PicksStay, UNCHANGED <<rows, run, transcript, accepted, sent, history>>
      PROVE  Quiet
  BY <1>3 DEF Quiet, Keys, InTurn
<1>4. ASSUME NEW h \in Handlers, QueueFor(h) \/ ResumeIdle(h) \/ RetryRead(h) \/ RetryRefused(h)
      PROVE  Quiet
  <2>1. UNCHANGED <<rows, run, transcript, accepted, sent, history>>
    BY <1>4, Zenon DEF QueueFor, ResumeIdle, RetryRead, RetryRefused
  <2>2. \E r : handlers' = [handlers EXCEPT ![h] = r] /\ r.pc \notin PickSteps
    <3>2. CASE QueueFor(h)
      <4>1. PICK request \in Requests :
              handlers' = [handlers EXCEPT ![h] =
                [Free EXCEPT !.pc = IF live # None THEN "apply" ELSE "load",
                             !.ref = live, !.op = request.op, !.arg = request.arg]]
        BY <3>2 DEF QueueFor
      <4> DEFINE r == [Free EXCEPT !.pc = IF live # None THEN "apply" ELSE "load",
                                   !.ref = live, !.op = request.op, !.arg = request.arg]
      <4>2. r.pc \notin PickSteps
        BY DEF PickSteps, Free
      <4> HIDE DEF r
      <4>3. handlers' = [handlers EXCEPT ![h] = r]
        BY <4>1 DEF r
      <4> QED
        BY <4>2, <4>3
    <3>3. CASE ResumeIdle(h)
      <4> DEFINE r == [Free EXCEPT !.pc = "list", !.op = "resume"]
      <4>1. r.pc \notin PickSteps
        BY DEF PickSteps, Free
      <4>2. handlers' = [handlers EXCEPT ![h] = r]
        BY <3>3 DEF ResumeIdle
      <4> HIDE DEF r
      <4> QED
        BY <4>1, <4>2
    <3>4. CASE RetryRead(h)
      <4> DEFINE r == [Free EXCEPT !.pc = "retry", !.op = "retry", !.arg = transcript]
      <4>1. r.pc \notin PickSteps
        BY DEF PickSteps, Free
      <4>2. handlers' = [handlers EXCEPT ![h] = r]
        BY <3>4 DEF RetryRead
      <4> HIDE DEF r
      <4> QED
        BY <4>1, <4>2
    <3>5. CASE RetryRefused(h)
      <4>1. Free.pc \notin PickSteps
        BY DEF PickSteps, Free
      <4> QED
        BY <3>5, <4>1, Zenon DEF RetryRefused
    <3> QED
      BY <1>4, <3>2, <3>3, <3>4, <3>5
  <2>3. handlers[h].pc \notin PickSteps
    BY <1>4 DEF QueueFor, ResumeIdle, RetryRead, RetryRefused, PickSteps
  <2>4. PicksStay
    BY <2>2, <2>3, HandlerEffect
  <2> QED
    BY <1>3, <2>1, <2>4
<1>5. ASSUME NEW h \in Handlers, QueueLoad(h) \/ ResumeRefused(h)
      PROVE  Quiet
  <2>1. UNCHANGED <<rows, run, transcript, accepted, sent, history>>
    BY <1>5, Zenon DEF QueueLoad, ResumeRefused
  <2>2. DOMAIN handlers = Handlers /\ \A g \in Handlers : handlers[g] \in HandlerRecs
    BY DEF Types, HandlerTypes
  <2>3. CASE QueueLoad(h)
    BY <1>3, <2>1, <2>2, <2>3 DEF QueueLoad, PicksStay, Chosen, Taken, PickSteps, HandlerRecs
  <2>4. CASE ResumeRefused(h)
    BY <1>3, <2>1, <2>2, <2>4 DEF ResumeRefused, PicksStay, Chosen, Taken, PickSteps,
                                  HandlerRecs
  <2> QED
    BY <1>5, <2>3, <2>4
<1> QED
  BY <1>2, <1>4, <1>5
-----------------------------------------------------------------------------
(* Only the handlers have picks. *)
LEMMA PicksStayFrame == ASSUME UNCHANGED handlers PROVE PicksStay
BY DEF PicksStay, Chosen, Taken

(* The effect of each of the other actions. *)
LEMMA SendEffects ==
  ASSUME Types, StoreMirrorsQueue, Clean
  PROVE  (SendQueued => Queues) /\ (SendStarts => Starts)
<1>1. accepted < MaxMessages => accepted + 1 \in Messages
  BY ChatTurnsAssumption DEF Types, HistoryTypes, Messages
<1>2. SendQueued => Queues
  <2> SUFFICES ASSUME SendQueued PROVE Queues
    OBVIOUS
  <2>1. /\ Keys' = Keys \cup {Key(NewID, accepted + 1, "free")}
        /\ \A x \in Keys : x.id # NewID
        /\ \A h \in Chosen : handlers[h].pick.id # NewID
    BY <1>1, AddedKeys DEF SendQueued
  <2>2. NewID \in Nat
    BY NewIDIsNew
  <2> QED
    BY <1>1, <2>1, <2>2, PicksStayFrame DEF SendQueued, Queues, IdIsFree
<1>3. SendStarts => Starts
  <2> SUFFICES ASSUME SendStarts PROVE Starts
    OBVIOUS
  <2>1. live = None /\ run' = NewTurn(accepted + 1)
    BY DEF SendStarts, BeginRun
  <2>2. UNCHANGED <<rows, transcript, sent, history, handlers>> /\ accepted' = accepted + 1
        /\ accepted < MaxMessages
    BY DEF SendStarts
  <2>3. run.pc = "idle" /\ Batch = {}
    BY <2>1, IdleRun
  <2> QED
    BY <1>1, <2>1, <2>2, <2>3, PicksStayFrame DEF Starts, Keys
<1> QED
  BY <1>2, <1>3

(* The start of a turn, in its three modes. *)
LEMMA StartEffect == ASSUME Types, UptoIn, Start PROVE Tells
<1>1. /\ run.msg \in Messages /\ run.upto \in Nat /\ run.upto <= Len(transcript)
      /\ transcript \in Seq(Messages) /\ Len(transcript) \in Nat
      /\ run.mode \in {"new", "redo", "continue"}
  BY LiveQueue DEF Start, Types, RunTypes, HistoryTypes, UptoIn
<1>2. run' = [run EXCEPT !.pc = "round"] /\ run.pc = "start"
  BY DEF Start
<1>3. run'.pc = "round" /\ run'.batch = run.batch /\ InTurn' = InTurn
  BY <1>2 DEF Types, RunTypes, InTurn
<1>4. run.mode = "new" => Told' = Told \cup {run.msg}
  <2> SUFFICES ASSUME run.mode = "new" PROVE Told' = Told \cup {run.msg}
    OBVIOUS
  <2>1. transcript' = Append(transcript, run.msg)
    BY DEF Start
  <2> QED
    BY <1>1, <2>1, AppendElements DEF Told
<1>5. run.mode = "redo" => /\ Told' \subseteq Told
                           /\ run.upto >= Len(transcript) => Told' = Told
  <2> SUFFICES ASSUME run.mode = "redo"
               PROVE  Told' \subseteq Told /\ (run.upto >= Len(transcript) => Told' = Told)
    OBVIOUS
  <2>1. transcript' = SubSeq(transcript, 1, run.upto)
    BY DEF Start
  <2>2. Told' \subseteq Told
    BY <1>1, <2>1, Beginning DEF Told
  <2>3. run.upto >= Len(transcript) => run.upto = Len(transcript)
    BY <1>1
  <2>4. run.upto = Len(transcript) => SubSeq(transcript, 1, run.upto) = transcript
    BY <1>1, Beginning
  <2> QED
    BY <2>1, <2>2, <2>3, <2>4 DEF Told
<1>6. run.mode = "continue" => Told' = Told
  BY DEF Start, Told
<1>7. Told' \subseteq Told \cup {run.msg}
  BY <1>1, <1>4, <1>5, <1>6
<1>8. UNCHANGED <<rows, handlers, accepted, history>> /\ sent' = SentOnceMore(run.msg)
  BY DEF Start
<1> QED
  BY <1>1, <1>2, <1>3, <1>4, <1>5, <1>6, <1>7, <1>8, PicksStayFrame DEF Tells, Keys

(* The messages of what a step takes out of the queue. *)
LEMMA TakenOut ==
  ASSUME Types, NEW K \in SUBSET Keys, NEW out \in Seq(Entry), Unique(out),
         \A e \in ToSet(out) : \E x \in K : x.id = e.id /\ x.msg = e.msg,
         \A x \in K : \E e \in ToSet(out) : x.id = e.id /\ x.msg = e.msg
  PROVE  /\ ToSet(MessagesOf(out)) = MsgsOf(K)
         /\ OneMessageOnce(Keys) => Distinct(MessagesOf(out))
<1>1. /\ ToSet(MessagesOf(out)) = {e.msg : e \in ToSet(out)}
      /\ (\A e, f \in ToSet(out) : e.msg = f.msg => e.id = f.id) => Distinct(MessagesOf(out))
  BY MessagesOfEntries
<1> DEFINE E == ToSet(out)
<1> HIDE DEF E
<1>2. \A e \in E : \E x \in K : x.id = e.id /\ x.msg = e.msg
  BY DEF E
<1>3. \A x \in K : \E e \in E : x.id = e.id /\ x.msg = e.msg
  BY DEF E
<1>4. {e.msg : e \in E} = MsgsOf(K)
  BY <1>2, <1>3 DEF MsgsOf
<1>5. OneMessageOnce(Keys) => \A e, f \in E : e.msg = f.msg => e.id = f.id
  BY <1>2 DEF OneMessageOnce
<1> QED
  BY <1>1, <1>4, <1>5 DEF E

(* steerDrain and drain. *)
LEMMA TakeEffects ==
  ASSUME Types, StoreMirrorsQueue, Clean, SteerDrain \/ Drain
  PROVE  Takes
<1>0. run.pc # "idle" /\ run.pc # "start" /\ Batch = {}
  BY IdleRun DEF SteerDrain, Drain
<1>1. live # None /\ QueueOK(queues[live]) /\ QueueKeys(queues[live]) = Keys
  BY <1>0, LiveQueue, LiveKeys
<1>2. UNCHANGED <<transcript, accepted, sent, history, handlers>>
  BY Zenon DEF SteerDrain, Drain
<1>3. CASE SteerDrain
  <2> DEFINE s == queues[live].steers
             K == {x \in Keys : x.lane = "steer"}
  <2>1. s \in Seq(Entry) /\ Unique(s)
    BY <1>1 DEF QueueOK, Queue
  <2>2. run' = [run EXCEPT !.pc = "inject", !.batch = MessagesOf(s)]
    BY <1>3 DEF SteerDrain, MessagesOf
  <2>3. run'.pc = "inject" /\ run'.batch = MessagesOf(s) /\ InTurn' = InTurn
    BY <1>0, <2>2 DEF Types, RunTypes, InTurn
  <2>4. QueueKeys(queues[live]) = {PendingKey(e) : e \in ToSet(queues[live].pending)}
                                  \cup {SteerKey(e) : e \in ToSet(s)}
    BY KeysByElement
  <2>5. /\ \A e : PendingKey(e).lane # "steer"
        /\ \A e : SteerKey(e).lane = "steer" /\ SteerKey(e).id = e.id /\ SteerKey(e).msg = e.msg
    BY DEF PendingKey, SteerKey, Key, Lane
  <2> HIDE DEF s
  <2>6. \A e \in ToSet(s) : \E x \in K : x.id = e.id /\ x.msg = e.msg
    BY <1>1, <2>4, <2>5
  <2>7. \A x \in K : \E e \in ToSet(s) : x.id = e.id /\ x.msg = e.msg
    BY <1>1, <2>4, <2>5
  <2>8. K \in SUBSET Keys
    OBVIOUS
  <2> HIDE DEF K
  <2>9. ToSet(MessagesOf(s)) = MsgsOf(K) /\ (OneMessageOnce(Keys) => Distinct(MessagesOf(s)))
    BY <2>1, <2>6, <2>7, <2>8, TakenOut
  <2>10. Keys' = {x \in Keys : x.lane # "steer"}
    <3>1. QueueOK(NoSteers(queues[live]))
          /\ QueueKeys(NoSteers(queues[live])) = {x \in QueueKeys(queues[live]) : x.lane # "steer"}
      BY <1>1, NoSteersKeys
    <3>2. rows' = Snapshot(NoSteers(queues[live]))
      BY <1>3 DEF SteerDrain, Write
    <3> QED
      BY <1>1, <3>1, <3>2, WrittenKeys
  <2>11. Keys' = Keys \ K /\ \A x \in K : x.lane # "held"
    BY <2>10 DEF K
  <2> QED
    BY <1>0, <1>2, <2>3, <2>8, <2>9, <2>11, PicksStayFrame DEF Takes, Batch
<1>4. CASE Drain
  <2> DEFINE out == Drained(queues[live])
             K == {x \in Keys : x.lane # "held"}
  <2>1. /\ out \in Seq(Entry) /\ Unique(out)
        /\ \A e \in ToSet(out) : \E x \in Keys : x.id = e.id /\ x.msg = e.msg /\ x.lane # "held"
        /\ \A x \in Keys : x.lane # "held" => \E e \in ToSet(out) : x.id = e.id /\ x.msg = e.msg
    BY <1>1, DrainedKeys
  <2>2. run' = [run EXCEPT !.batch = MessagesOf(out),
                           !.pc = CASE Len(out) = 0 -> "checkHeld"
                                    [] Len(out) = 1 -> "follow"
                                    [] OTHER -> "readd"]
    BY <1>4 DEF Drain, MessagesOf
  <2> HIDE DEF out
  <2>3. /\ run'.pc \in {"checkHeld", "follow", "readd"}
        /\ run'.batch = MessagesOf(out) /\ InTurn' = InTurn
    <3> DEFINE pc == CASE Len(out) = 0 -> "checkHeld"
                       [] Len(out) = 1 -> "follow"
                       [] OTHER -> "readd"
    <3>1. pc \in {"checkHeld", "follow", "readd"}
      OBVIOUS
    <3>2. run' = [run EXCEPT !.batch = MessagesOf(out), !.pc = pc]
      BY <2>2
    <3> HIDE DEF pc
    <3>3. run'.pc = pc /\ run'.batch = MessagesOf(out) /\ run'.msg = run.msg
      BY <3>2 DEF Types, RunTypes
    <3> QED
      BY <1>0, <3>1, <3>3 DEF InTurn
  <2>4. /\ \A e \in ToSet(out) : \E x \in K : x.id = e.id /\ x.msg = e.msg
        /\ \A x \in K : \E e \in ToSet(out) : x.id = e.id /\ x.msg = e.msg
    BY <2>1
  <2>8. K \in SUBSET Keys
    OBVIOUS
  <2> HIDE DEF K
  <2>9. ToSet(MessagesOf(out)) = MsgsOf(K) /\ (OneMessageOnce(Keys) => Distinct(MessagesOf(out)))
    BY <2>1, <2>4, <2>8, TakenOut
  <2>10. Keys' = {x \in Keys : x.lane = "held"}
    <3>1. QueueOK(Kept(queues[live]))
          /\ QueueKeys(Kept(queues[live])) = {x \in QueueKeys(queues[live]) : x.lane = "held"}
      BY <1>1, KeptKeys
    <3>2. CASE Queued(queues[live]) = {}
      <4>1. Keys = {}
        <5>1. DOMAIN queues[live].pending = {} /\ DOMAIN queues[live].steers = {}
          BY <3>2 DEF Queued, Msgs
        <5>2. QueueKeys(queues[live]) = {}
          BY <5>1 DEF QueueKeys
        <5> QED
          BY <1>1, <5>2
      <4>2. UNCHANGED rows
        BY <1>4, <3>2 DEF Drain
      <4> QED
        BY <4>1, <4>2 DEF Keys
    <3>3. CASE Queued(queues[live]) # {}
      <4>1. rows' = Snapshot(Kept(queues[live]))
        BY <1>4, <3>3 DEF Drain, Write
      <4> QED
        BY <1>1, <3>1, <4>1, WrittenKeys
    <3> QED
      BY <3>2, <3>3
  <2>11. Keys' = Keys \ K /\ \A x \in K : x.lane # "held"
    BY <2>10 DEF K
  <2> QED
    BY <1>0, <1>2, <2>3, <2>8, <2>9, <2>11, PicksStayFrame DEF Takes, Batch
<1> QED
  BY <1>3, <1>4
-----------------------------------------------------------------------------
(* The goroutine with a batch: AddInjectedMessage ... *)
LEMMA InjectEffect == ASSUME Types, Inject PROVE Injects
<1>1. run.batch \in Seq(Messages) /\ run.batch # <<>> /\ run.pc = "inject"
  BY DEF Inject, Types, RunTypes
<1> DEFINE b == run.batch
           m == Head(run.batch)
<1>2. /\ m \in Messages /\ ToSet(b) = {m} \cup ToSet(Tail(b))
      /\ Distinct(b) => Distinct(Tail(b)) /\ m \notin ToSet(Tail(b))
  BY <1>1, HeadAndTail
<1>3. run'.batch = Tail(b) /\ run'.pc \in {"round", "inject"} /\ InTurn' = InTurn
  BY <1>1 DEF Inject, Types, RunTypes, InTurn
<1>4. UNCHANGED <<rows, handlers, accepted, history>> /\ transcript' = Append(transcript, m)
      /\ sent' = SentOnceMore(m)
  BY DEF Inject
<1>5. Told' = Told \cup {m}
  BY <1>2, <1>4, AppendElements DEF Told, Types, HistoryTypes
<1> HIDE DEF m
<1>6. BatchLoses(m)
  BY <1>2, <1>3 DEF BatchLoses, Batch
<1> QED
  BY <1>1, <1>2, <1>3, <1>4, <1>5, <1>6, PicksStayFrame DEF Injects, Keys

(* ... q.add for what it could not record or does not start ... *)
LEMMA PutBackEffects ==
  ASSUME Types, StoreMirrorsQueue, Clean, Requeue \/ ReAdd
  PROVE  PutsBack
<1>0. live # None /\ run.batch \in Seq(Messages) /\ run.batch # <<>>
  BY LiveQueue DEF Requeue, ReAdd, Types, RunTypes
<1>1. UNCHANGED <<transcript, accepted, sent, history, handlers>>
  BY Zenon DEF Requeue, ReAdd
<1>2. ASSUME NEW m \in Messages, Write(live, Add(queues[live], NewID, m)), BatchLoses(m),
             InTurn' = InTurn, run.pc # "start", run'.pc # "start"
      PROVE  PutsBack
  <2>1. Keys' = Keys \cup {Key(NewID, m, "free")} /\ IdIsFree(NewID)
    BY <1>0, <1>2, AddedKeys DEF IdIsFree
  <2>2. NewID \in Nat
    BY NewIDIsNew
  <2> QED
    BY <1>1, <1>2, <2>1, <2>2, PicksStayFrame DEF PutsBack
<1>3. CASE Requeue
  <2> DEFINE m == Head(run.batch)
             b == run.batch
  <2>1. /\ m \in Messages /\ ToSet(b) = {m} \cup ToSet(Tail(b))
        /\ Distinct(b) => Distinct(Tail(b)) /\ m \notin ToSet(Tail(b))
    BY <1>0, HeadAndTail
  <2>2. run'.batch = Tail(b) /\ run'.pc # "start" /\ run.pc = "requeue" /\ InTurn' = InTurn
    BY <1>3 DEF Requeue, Types, RunTypes, InTurn
  <2>3. Write(live, Add(queues[live], NewID, m))
    BY <1>3 DEF Requeue
  <2> HIDE DEF m
  <2>4. BatchLoses(m)
    BY <2>1, <2>2 DEF BatchLoses, Batch
  <2> QED
    BY <1>2, <2>1, <2>2, <2>3, <2>4
<1>4. CASE ReAdd
  <2> DEFINE m == run.batch[2]
             b == run.batch
             r == RemoveAt(b, 2)
  <2>0. Len(b) >= 2 /\ run.pc = "readd"
    BY <1>4 DEF ReAdd, Types, RunTypes
  <2>1. /\ m \in Messages /\ ToSet(b) = {m} \cup ToSet(r)
        /\ Distinct(b) => Distinct(r) /\ m \notin ToSet(r)
    BY <1>0, <2>0, SecondAndOthers
  <2>2. run' = [run EXCEPT !.batch = r, !.pc = IF Len(run.batch) = 2 THEN "follow" ELSE "readd"]
    BY <1>4 DEF ReAdd
  <2> HIDE DEF r
  <2>5. run'.batch = r /\ run'.pc # "start" /\ InTurn' = InTurn
    BY <2>0, <2>2 DEF Types, RunTypes, InTurn
  <2>3. Write(live, Add(queues[live], NewID, m))
    BY <1>4 DEF ReAdd
  <2> HIDE DEF m
  <2>4. BatchLoses(m)
    BY <2>1, <2>5 DEF BatchLoses, Batch
  <2> QED
    BY <1>2, <2>0, <2>1, <2>3, <2>4, <2>5
<1> QED
  BY <1>3, <1>4

(* ... the follow-up turn ... *)
LEMMA FollowEffect == ASSUME Types, Follow PROVE Follows
<1> DEFINE m == Head(run.batch)
           b == run.batch
<1>1. b \in Seq(Messages) /\ Len(b) = 1 /\ b # <<>> /\ run.pc = "follow"
  BY DEF Follow, Types, RunTypes
<1>2. m \in Messages /\ ToSet(b) = {m} \cup ToSet(Tail(b)) /\ Tail(b) = <<>>
  BY <1>1, HeadAndTail
<1>3. ToSet(<<>>) = {}
  BY EmptyList
<1>4. Batch = {m}
  BY <1>2, <1>3 DEF Batch
<1>5. /\ run' = [pc |-> "start", msg |-> m, mode |-> "redo", upto |-> Len(transcript) + 1,
                 batch |-> <<>>]
      /\ transcript' = Append(transcript, m)
      /\ UNCHANGED <<rows, handlers, accepted, sent, history>>
  BY DEF Follow
<1>6. Told' = Told \cup {m} /\ Len(transcript') = Len(transcript) + 1
  BY <1>2, <1>5, AppendElements DEF Told, Types, HistoryTypes
<1> HIDE DEF m
<1>7. run'.pc = "start" /\ run'.mode = "redo" /\ run'.batch = <<>> /\ run'.msg = m
      /\ run'.upto = Len(transcript') /\ InTurn' = {m}
  BY <1>5, <1>6 DEF InTurn
<1> QED
  BY <1>1, <1>2, <1>4, <1>5, <1>6, <1>7, PicksStayFrame DEF Follows, Keys

(* ... and the ends: a write that fails, the deferred end, a restart. *)
LEMMA DropEffects == ASSUME Types, FollowFails \/ End \/ Crash PROVE Drops
<1>1. UNCHANGED <<rows, transcript, accepted, sent, history>>
  BY Zenon DEF FollowFails, End, Crash
<1>2. CASE FollowFails
  <2>1. run'.pc = "ending" /\ run'.batch = <<>> /\ InTurn' = InTurn
    BY <1>2 DEF FollowFails, Types, RunTypes, InTurn
  <2>2. UNCHANGED handlers /\ mishaps' # {}
    BY <1>2 DEF FollowFails
  <2> QED
    BY <1>1, <2>1, <2>2, PicksStayFrame DEF Drops, Keys
<1>3. CASE End
  <2>1. run'.pc = "idle" /\ run'.batch = <<>> /\ InTurn' = {}
    BY <1>3 DEF End, Idle, InTurn
  <2>2. UNCHANGED handlers /\ run.pc = "ending" /\ Batch = {}
    BY <1>3, IdleRun DEF End
  <2> QED
    BY <1>1, <2>1, <2>2, PicksStayFrame DEF Drops, Keys
<1>4. CASE Crash
  <2>1. run'.pc = "idle" /\ run'.batch = <<>> /\ InTurn' = {}
    BY <1>4 DEF Crash, Idle, InTurn
  <2>2. Chosen' = {} /\ Taken' = {}
    BY <1>4 DEF Crash, Free, Chosen, Taken, PickSteps
  <2>3. mishaps' # {} \/ InMemoryOnly = {}
    BY <1>4 DEF Crash
  <2>4. Msgs(rows) = MsgsOf(Keys)
    <3>1. \A i \in DOMAIN rows : RowKey(rows[i]).msg = rows[i].msg
      BY DEF RowKey, Key
    <3> QED
      BY <3>1 DEF MsgsOf, Keys, RowKeys, Msgs
  <2>5. InMemoryOnly = {} => \A m \in 1 .. accepted : m \in deleted \cup Told \cup MsgsOf(Keys)
    BY <2>4 DEF InMemoryOnly, Told
  <2> QED
    BY <1>1, <2>1, <2>2, <2>3, <2>5 DEF Drops, Keys
<1> QED
  BY <1>2, <1>3, <1>4

(* A request of the queue, unless it overlaps. *)
LEMMA ApplyEffect ==
  ASSUME Types, StoreMirrorsQueue, NEW h \in Handlers, QueueApply(h), Clean'
  PROVE  Quiet \/ Changes
<1> DEFINE q == handlers[h].ref
           op == handlers[h].op
           arg == handlers[h].arg
           R == QueueKeys(Result(h))
<1>1. /\ q \in QueueIds /\ QueueOK(queues[q])
      /\ op \in QueueOps /\ arg \in Seq(Nat)
      /\ handlers' = [handlers EXCEPT ![h] = Free]
      /\ UNCHANGED <<live, run, transcript, accepted, sent, bounds>>
      /\ Found(h) => QueueOK(Result(h)) /\ rows' = Snapshot(Result(h))
      /\ ~Found(h) => UNCHANGED <<rows, history, mishaps>>
  BY ApplyIs
<1>2. PicksStay
  <2>1. Free.pc \notin PickSteps /\ handlers[h].pc \notin PickSteps
    BY DEF Free, PickSteps, QueueApply
  <2> QED
    BY <1>1, <2>1, HandlerEffect
<1>3. CASE ~Found(h)
  <2>1. UNCHANGED <<rows, run, transcript, accepted, sent, history>>
    BY <1>1, <1>3
  <2> QED
    BY <1>2, <2>1 DEF Quiet, Keys, InTurn
<1>4. CASE Found(h)
  <2>1. Keys = QueueKeys(queues[q])
    BY <1>4, CleanRequest DEF Keys
  <2>2. Keys' = R
    BY <1>1, <1>4, WrittenKeys
  <2>3. Applies(queues[q], op, arg)
    BY <1>4 DEF Found
  <2> HIDE DEF q, op, arg
  <2>4. Result(h) = Applied(queues[q], op, arg)
    BY DEF Result, q, op, arg
  <2>5. /\ \A y \in R : \E x \in Keys : Same(x, y)
        /\ op # "remove" => \A x \in Keys : \E y \in R : Same(x, y)
        /\ op = "remove" => \A y \in R : y.id # arg[1]
        /\ op = "reorder" => R = Keys
        /\ op # "reorder" => \A x \in Keys : x.id # arg[1] => x \in R
        /\ op = "hold" => \A x \in Keys : x.id = arg[1] =>
                             \E y \in R : Same(x, y) /\ y.lane = "held"
    BY <1>1, <2>1, <2>3, <2>4, AppliedKeys DEF q, op, arg
  <2> DEFINE msg == CHOOSE m \in Messages :
                      \E i \in DOMAIN queues[q].pending :
                        queues[q].pending[i] =
                          [id |-> arg[1], msg |-> m, held |-> queues[q].pending[i].held]
  <2>6. /\ deleted' = deleted \cup {m \in Messages : op = "remove" /\ m = msg}
        /\ editing' = CASE op = "hold" -> editing \cup {msg}
                        [] op = "reorder" -> editing
                        [] OTHER -> editing \ {msg}
    BY <1>4, Zenon DEF QueueApply, Found, q, op, arg
  <2>7. op # "reorder" => \E z \in Keys : z.id = arg[1] /\ z.msg = msg
    <3> SUFFICES ASSUME op # "reorder" PROVE \E z \in Keys : z.id = arg[1] /\ z.msg = msg
      OBVIOUS
    <3>1. arg[1] \in Ids(queues[q].pending)
      BY <2>3 DEF Applies
    <3>2. QueueOK(queues[q])
      BY <1>1 DEF q
    <3> QED
      BY <2>1, <3>1, <3>2, NamedMessage
  <2> HIDE DEF msg, R
  <2>8. CASE op = "reorder"
    <3>1. deleted' = deleted /\ editing' = editing
      BY <2>6, <2>8
    <3>2. Keys' = Keys
      BY <2>2, <2>5, <2>8
    <3> QED
      BY <1>1, <1>2, <3>1, <3>2 DEF Quiet, InTurn, history
  <2>9. CASE op # "reorder"
    <3>1. PICK z \in Keys : z.id = arg[1] /\ z.msg = msg
      BY <2>7, <2>9
    <3>2. \A x \in Keys : x.id = z.id \/ x \in Keys'
      BY <2>2, <2>5, <2>9, <3>1
    <3>3. z.msg \in Messages
      BY KeysTyped DEF KeyTypes
    <3>4. CASE op = "remove"
      <4>1. \A y \in Keys' : y.id # z.id
        BY <2>2, <2>5, <3>1, <3>4
      <4>2. deleted' = deleted \cup {z.msg} /\ editing' = editing \ {z.msg}
        BY <2>6, <3>1, <3>3, <3>4
      <4> QED
        BY <1>1, <1>2, <2>2, <2>5, <3>2, <4>1, <4>2 DEF Changes
    <3>5. CASE op = "hold"
      <4>1. \E y \in Keys' : Same(z, y) /\ y.lane = "held"
        BY <2>2, <2>5, <3>1, <3>5
      <4>2. deleted' = deleted /\ editing' = editing \cup {z.msg}
        BY <2>6, <3>1, <3>5
      <4> QED
        BY <1>1, <1>2, <2>2, <2>5, <3>2, <4>1, <4>2 DEF Changes
    <3>6. CASE op \notin {"remove", "hold"}
      <4>1. \E y \in Keys' : Same(z, y)
        BY <2>2, <2>5, <3>1, <3>6
      <4>2. deleted' = deleted /\ editing' = editing \ {z.msg}
        BY <2>6, <2>9, <3>1, <3>6
      <4> QED
        BY <1>1, <1>2, <2>2, <2>5, <3>2, <4>1, <4>2 DEF Changes
    <3> QED
      BY <3>4, <3>5, <3>6
  <2> QED
    BY <2>8, <2>9
<1> QED
  BY <1>3, <1>4
-----------------------------------------------------------------------------
(* A row that is neither steered nor held waits free. *)
LEMMA UnheldKey ==
  ASSUME NEW r \in Row, ~r.steer, ~r.held
  PROVE  RowKey(r) = Key(r.id, r.msg, "free") /\ RowKey(r).lane = "free"
<1>1. (IF r.steer THEN "steer" ELSE Lane(r.held)) = "free"
  BY DEF Lane
<1> QED
  BY <1>1 DEF RowKey, Key

(* The steps of a resume: it picks a row ... *)
LEMMA ListEffect == ASSUME Types, NEW h \in Handlers, ResumeList(h) PROVE Quiet \/ Chooses
<1> DEFINE waiting == Select(rows, LAMBDA r : ~r.steer /\ ~r.held)
           head == Head(waiting)
           r == [handlers[h] EXCEPT !.pc = "delete", !.pick = head]
<1>1. handlers' = [handlers EXCEPT ![h] = IF waiting = <<>> THEN Free ELSE r]
      /\ UNCHANGED <<rows, run, transcript, accepted, sent, history>>
      /\ handlers[h].pc = "list"
  BY DEF ResumeList
<1>2. waiting # <<>> => head \in ToSet(rows)
  BY PickedRow DEF Types
<1>3. DOMAIN handlers = Handlers /\ handlers[h] \in HandlerRecs
  BY DEF Types, HandlerTypes
<1> HIDE DEF waiting, head
<1>4. CASE waiting = <<>>
  <2>1. handlers' = [handlers EXCEPT ![h] = Free]
    BY <1>1, <1>4
  <2>2. Free.pc \notin PickSteps /\ handlers[h].pc \notin PickSteps
    BY <1>1 DEF Free, PickSteps
  <2>3. PicksStay
    BY <2>1, <2>2, HandlerEffect
  <2> QED
    BY <1>1, <2>3 DEF Quiet, Keys, InTurn
<1>5. CASE waiting # <<>>
  <2>1. r.pc = "delete" /\ r.pick = head
    BY <1>3 DEF HandlerRecs
  <2>2. handlers' = [handlers EXCEPT ![h] = r]
    BY <1>1, <1>5
  <2> HIDE DEF r
  <2>3. handlers'[h] = r /\ \A g \in Handlers \ {h} : handlers'[g] = handlers[g]
    BY <1>3, <2>2
  <2>4. /\ Chosen' = Chosen \cup {h} /\ Taken' = Taken /\ h \notin Chosen
        /\ \A g \in Chosen : handlers'[g].pick = handlers[g].pick
    BY <1>1, <2>1, <2>3 DEF Chosen, Taken, PickSteps
  <2>5. RowKey(head) \in Keys /\ RowKey(head).id = head.id /\ RowKey(head).msg = head.msg
    BY <1>2, <1>5, RowKeysByElement DEF Keys, RowKey, Key
  <2>6. handlers'[h].pick = head
    BY <2>1, <2>3
  <2> QED
    BY <1>1, <2>4, <2>5, <2>6 DEF Chooses, Keys
<1> QED
  BY <1>4, <1>5

(* ... deletes it, and unless that overlaps the row was there ... *)
LEMMA DeleteEffect ==
  ASSUME Types, NEW h \in Handlers, ResumeDelete(h), Clean'
  PROVE  TakesRow
<1> DEFINE pick == handlers[h].pick
<1>1. /\ pick \in Row /\ ~pick.steer /\ ~pick.held
  BY PickTypes DEF ResumeDelete, PickSteps
<1>2. /\ handlers[h].pc = "delete" /\ rows' = DeleteRow(rows, pick.id)
      /\ handlers' = [handlers EXCEPT ![h].pc = "begin"]
      /\ UNCHANGED <<run, transcript, accepted, sent, history>>
  BY DEF ResumeDelete
<1>3. PICK i \in DOMAIN rows : /\ rows[i].id = pick.id
                               /\ rows[i].steer = pick.steer /\ rows[i].held = pick.held
  <2>1. CASE \E i \in DOMAIN rows : /\ rows[i].id = pick.id
                                    /\ rows[i].steer = pick.steer /\ rows[i].held = pick.held
    BY <2>1
  <2>2. CASE ~\E i \in DOMAIN rows : /\ rows[i].id = pick.id
                                     /\ rows[i].steer = pick.steer /\ rows[i].held = pick.held
    BY <2>2, Zenon DEF ResumeDelete, Clean
  <2> QED
    BY <2>1, <2>2
<1>4. rows[i] \in Row
  BY DEF Types, RowsOK
<1> DEFINE x == RowKey(rows[i])
<1>5. x \in Keys /\ x.id = pick.id
  BY <1>3 DEF Keys, RowKeys, RowKey, Key
<1>6. x.lane = "free"
  <2>1. ~rows[i].steer /\ ~rows[i].held
    BY <1>1, <1>3
  <2> QED
    BY <1>4, <2>1, UnheldKey
<1>7. Keys' = Keys \ {x}
  <2>1. Keys' = {y \in Keys : y.id # pick.id}
    BY <1>2, DeleteRowKeys DEF Types, Keys
  <2>2. \A y \in Keys : y.id = x.id => y = x
    BY <1>5, KeysTyped
  <2> HIDE DEF x
  <2> QED
    BY <1>5, <2>1, <2>2
<1>8. DOMAIN handlers = Handlers /\ \A g \in Handlers : handlers[g] \in HandlerRecs
  BY DEF Types, HandlerTypes
<1>9. /\ h \in Chosen /\ h \notin Taken /\ Chosen' = Chosen /\ Taken' = Taken \cup {h}
      /\ \A g \in Chosen : handlers'[g].pick = handlers[g].pick
  BY <1>2, <1>8 DEF Chosen, Taken, PickSteps, HandlerRecs
<1> HIDE DEF x
<1> QED
  BY <1>2, <1>5, <1>6, <1>7, <1>9 DEF TakesRow

(* ... starts a run with it ... *)
LEMMA BeginEffect == ASSUME Types, NEW h \in Handlers, ResumeBegins(h) PROVE Resumes
<1>1. /\ handlers[h].pc = "begin" /\ live = None /\ run' = NewTurn(handlers[h].pick.msg)
      /\ handlers' = [handlers EXCEPT ![h] = Free]
      /\ UNCHANGED <<rows, transcript, accepted, sent, history>>
  BY DEF ResumeBegins, BeginRun
<1>2. h \in Taken
  BY <1>1 DEF Taken
<1>3. Free.pc \notin PickSteps
  BY DEF Free, PickSteps
<1>4. PickGone(h)
  BY <1>1, <1>3, HandlerEffect
<1>5. run.pc = "idle" /\ Batch = {}
  BY <1>1, IdleRun
<1> QED
  BY <1>1, <1>2, <1>4, <1>5 DEF Resumes, Keys

(* ... or puts it back. *)
LEMMA RestoreEffect == ASSUME Types, NEW h \in Handlers, ResumeRestore(h) PROVE Restores
<1> DEFINE pick == handlers[h].pick
<1>1. /\ handlers[h].pc = "restore" /\ rows' \in InsertedRow(rows, pick)
      /\ handlers' = [handlers EXCEPT ![h] = Free]
      /\ UNCHANGED <<run, transcript, accepted, sent, history>>
  BY DEF ResumeRestore
<1>2. pick \in Row /\ ~pick.steer /\ ~pick.held
  BY <1>1, PickTypes DEF PickSteps
<1>3. h \in Taken
  BY <1>1 DEF Taken
<1>4. Free.pc \notin PickSteps
  BY DEF Free, PickSteps
<1>5. PickGone(h)
  BY <1>1, <1>4, HandlerEffect
<1>6. Keys' = {x \in Keys : x.id # pick.id} \cup {RowKey(pick)}
  BY <1>1, <1>2, InsertedRowKeys DEF Types, Keys
<1>7. RowKey(pick) = Key(pick.id, pick.msg, "free")
  BY <1>2, UnheldKey
<1> QED
  BY <1>1, <1>3, <1>5, <1>6, <1>7 DEF Restores

(* A retry begins on the message it read, which nothing has cut meanwhile. *)
LEMMA RetryEffect == ASSUME Types, NEW h \in Handlers, RetryBegins(h), Clean' PROVE Retries
<1> DEFINE seen == handlers[h].arg
           m == Last(seen)
           upto == Len(LongestCommonPrefix({seen, transcript}))
<1>1. /\ m \in ToSet(seen) /\ m \in Messages
      /\ \E mode \in {"redo", "continue"} :
           /\ run' = [pc |-> "start", msg |-> m, mode |-> mode, upto |-> upto, batch |-> <<>>]
           /\ \E params : BeginRun(params)
      /\ seen = transcript => upto = Len(transcript)
  BY RetryIs
<1>2. /\ handlers[h].pc = "retry" /\ handlers' = [handlers EXCEPT ![h] = Free]
      /\ sent' = [sent EXCEPT ![m] = 0]
      /\ UNCHANGED <<rows, transcript, accepted, history>>
  BY DEF RetryBegins
<1>3. seen = transcript
  BY Zenon DEF RetryBegins, Clean
<1>4. live = None
  BY <1>1 DEF BeginRun
<1>5. run.pc = "idle" /\ Batch = {}
  BY <1>4, IdleRun
<1>6. PicksStay
  <2>1. Free.pc \notin PickSteps /\ handlers[h].pc \notin PickSteps
    BY <1>2 DEF Free, PickSteps
  <2> QED
    BY <1>2, <2>1, HandlerEffect
<1>7. m \in Told
  BY <1>1, <1>3 DEF Told
<1>8. upto >= Len(transcript)
  <2>1. Len(transcript) \in Nat
    BY DEF Types, HistoryTypes
  <2> HIDE DEF upto
  <2> QED
    BY <1>1, <1>3, <2>1
<1> HIDE DEF upto, m
<1>9. /\ run'.pc = "start" /\ run'.batch = <<>> /\ run'.mode # "new" /\ run'.upto = upto
      /\ run'.msg = m /\ InTurn' = {m}
  BY <1>1 DEF InTurn
<1> QED
  BY <1>2, <1>5, <1>6, <1>7, <1>8, <1>9 DEF Retries, Keys

(* Every clean step has one of the fifteen effects.  The invariants below are proved
   against the effects, not against the thirty-two actions. *)
LEMMA Effects ==
  ASSUME Types, UptoIn, StoreMirrorsQueue, Next, Clean'
  PROVE  \/ Quiet \/ Queues \/ Starts \/ Tells \/ Takes \/ Injects \/ PutsBack \/ Follows \/ Drops
         \/ Changes \/ Chooses \/ TakesRow \/ Resumes \/ Restores \/ Retries
<1>1. Clean
  BY StaysClean
<1>2. CASE SendQueued \/ SendStarts
  BY <1>1, <1>2, SendEffects
<1>3. CASE RunStep
  BY <1>1, <1>3, StartEffect, TakeEffects, InjectEffect, PutBackEffects, FollowEffect,
     DropEffects, QuietSteps
     DEF RunStep
<1>4. CASE Crash
  BY <1>4, DropEffects
<1>5. ASSUME NEW h \in Handlers, ResumeStep(h)
      PROVE  Quiet \/ Chooses \/ TakesRow \/ Resumes \/ Restores
  <2>1. ~ResumeQueues(h)
    BY DEF ResumeQueues, Clean
  <2> QED
    BY <1>5, <2>1, ListEffect, DeleteEffect, BeginEffect, RestoreEffect, QuietSteps
       DEF ResumeStep
<1>6. ASSUME NEW h \in Handlers, \/ QueueFor(h) \/ QueueLoad(h) \/ RetryRead(h) \/ RetryRefused(h)
      PROVE  Quiet
  BY <1>6, QuietSteps
<1>7. ASSUME NEW h \in Handlers, QueueApply(h) PROVE Quiet \/ Changes
  BY <1>7, ApplyEffect
<1>8. ASSUME NEW h \in Handlers, RetryBegins(h) PROVE Retries
  BY <1>8, RetryEffect
<1> QED
  BY <1>2, <1>3, <1>4, <1>5, <1>6, <1>7, <1>8 DEF Next
-----------------------------------------------------------------------------
(* A row that a resume takes has gone; no id is on two messages. *)
PicksApart ==
  Clean =>
    /\ \A h \in Taken, x \in Keys : x.id # handlers[h].pick.id
    /\ \A h, g \in Taken : handlers[h].pick.id = handlers[g].pick.id => h = g
    /\ \A h \in Chosen, x \in Keys : x.id = handlers[h].pick.id => x.msg = handlers[h].pick.msg
    /\ \A h, g \in Chosen :
         handlers[h].pick.id = handlers[g].pick.id => handlers[h].pick.msg = handlers[g].pick.msg

(* Every effect keeps the picks apart. *)
LEMMA PicksStep ==
  ASSUME Types, UptoIn, StoreMirrorsQueue, PicksApart, Next
  PROVE  PicksApart'
<1> SUFFICES ASSUME Clean'
             PROVE  /\ \A h \in Taken', x \in Keys' : x.id # handlers'[h].pick.id
                    /\ \A h, g \in Taken' : handlers'[h].pick.id = handlers'[g].pick.id => h = g
                    /\ \A h \in Chosen', x \in Keys' :
                         x.id = handlers'[h].pick.id => x.msg = handlers'[h].pick.msg
                    /\ \A h, g \in Chosen' : handlers'[h].pick.id = handlers'[g].pick.id =>
                                               handlers'[h].pick.msg = handlers'[g].pick.msg
  BY DEF PicksApart
<1> DEFINE Goal == /\ \A h \in Taken', x \in Keys' : x.id # handlers'[h].pick.id
                   /\ \A h, g \in Taken' : handlers'[h].pick.id = handlers'[g].pick.id => h = g
                   /\ \A h \in Chosen', x \in Keys' :
                        x.id = handlers'[h].pick.id => x.msg = handlers'[h].pick.msg
                   /\ \A h, g \in Chosen' : handlers'[h].pick.id = handlers'[g].pick.id =>
                                              handlers'[h].pick.msg = handlers'[g].pick.msg
<1>1. Clean
  BY StaysClean
<1>2. /\ \A h \in Taken, x \in Keys : x.id # handlers[h].pick.id
      /\ \A h, g \in Taken : handlers[h].pick.id = handlers[g].pick.id => h = g
      /\ \A h \in Chosen, x \in Keys : x.id = handlers[h].pick.id => x.msg = handlers[h].pick.msg
      /\ \A h, g \in Chosen :
           handlers[h].pick.id = handlers[g].pick.id => handlers[h].pick.msg = handlers[g].pick.msg
  BY <1>1 DEF PicksApart
<1>3. Taken \subseteq Chosen /\ \A x, y \in Keys : x.id = y.id => x = y
  BY KeysTyped
<1>4. ASSUME PicksStay, \A y \in Keys' : (\E x \in Keys : Same(x, y)) \/ IdIsFree(y.id)
      PROVE  Goal
  BY <1>2, <1>3, <1>4 DEF PicksStay, Same, IdIsFree
<1>5. ASSUME PicksStay, Keys' \subseteq Keys PROVE Goal
  BY <1>4, <1>5 DEF Same
<1>6. CASE Quiet \/ Starts \/ Tells \/ Takes \/ Injects \/ Follows \/ Retries
  <2>1. PicksStay /\ Keys' \subseteq Keys
    BY <1>6 DEF Quiet, Starts, Tells, Takes, Injects, Follows, Retries
  <2> QED
    BY <1>5, <2>1
<1>7. CASE Queues \/ PutsBack
  <2>1. PICK id, m : IdIsFree(id) /\ Keys' = Keys \cup {Key(id, m, "free")}
    BY <1>7 DEF Queues, PutsBack
  <2>2. PicksStay
    BY <1>7 DEF Queues, PutsBack
  <2>3. Key(id, m, "free").id = id
    BY DEF Key
  <2> QED
    BY <1>4, <2>1, <2>2, <2>3 DEF Same
<1>8. CASE Drops
  BY <1>5, <1>8 DEF Drops
<1>9. CASE Changes
  BY <1>4, <1>9 DEF Changes
<1>10. CASE Chooses
  <2>1. PICK h \in Handlers, x \in Keys :
          /\ Chosen' = Chosen \cup {h} /\ Taken' = Taken /\ h \notin Chosen
          /\ \A g \in Chosen : handlers'[g].pick = handlers[g].pick
          /\ handlers'[h].pick.id = x.id /\ handlers'[h].pick.msg = x.msg
    BY <1>10 DEF Chooses
  <2>2. Keys' = Keys
    BY <1>10 DEF Chooses
  <2> QED
    BY <1>2, <1>3, <2>1, <2>2
<1>11. CASE TakesRow
  <2>1. PICK h \in Chosen, x \in Keys :
          /\ x.id = handlers[h].pick.id
          /\ Keys' = Keys \ {x}
          /\ Chosen' = Chosen /\ Taken' = Taken \cup {h}
          /\ \A g \in Chosen : handlers'[g].pick = handlers[g].pick
    BY <1>11 DEF TakesRow
  <2> QED
    BY <1>2, <1>3, <2>1
<1>12. CASE Resumes
  <2>1. PICK h \in Taken : PickGone(h)
    BY <1>12 DEF Resumes
  <2>2. Keys' = Keys
    BY <1>12 DEF Resumes
  <2> QED
    BY <1>2, <1>3, <2>1, <2>2 DEF PickGone
<1>13. CASE Restores
  <2>1. PICK h \in Taken :
          /\ PickGone(h)
          /\ Keys' = {x \in Keys : x.id # handlers[h].pick.id}
                     \cup {Key(handlers[h].pick.id, handlers[h].pick.msg, "free")}
    BY <1>13 DEF Restores
  <2> DEFINE k == Key(handlers[h].pick.id, handlers[h].pick.msg, "free")
  <2>2. k.id = handlers[h].pick.id /\ k.msg = handlers[h].pick.msg
    BY DEF Key
  <2>3. Keys' \subseteq Keys \cup {k}
    BY <2>1
  <2> HIDE DEF k
  <2> QED
    BY <1>2, <1>3, <2>1, <2>2, <2>3 DEF PickGone
<1> QED
  BY <1>6, <1>7, <1>8, <1>9, <1>10, <1>11, <1>12, <1>13, Effects
-----------------------------------------------------------------------------
(* A message being edited is held in the rows. *)
EditingHeldInRows ==
  Clean => \A m \in editing : \E x \in Keys : x.msg = m /\ x.lane = "held"

(* Every effect keeps the edited messages held: nothing takes a held one out. *)
LEMMA EditingStep ==
  ASSUME Types, UptoIn, StoreMirrorsQueue, PicksApart, EditingHeldInRows, Next
  PROVE  EditingHeldInRows'
<1> SUFFICES ASSUME Clean', NEW m \in editing'
             PROVE  \E x \in Keys' : x.msg = m /\ x.lane = "held"
  BY DEF EditingHeldInRows
<1>1. Clean /\ \A n \in editing : \E x \in Keys : x.msg = n /\ x.lane = "held"
  BY StaysClean DEF EditingHeldInRows
<1>2. ASSUME editing' = editing, \A x \in Keys : x.lane = "held" => x \in Keys'
      PROVE  \E x \in Keys' : x.msg = m /\ x.lane = "held"
  BY <1>1, <1>2
<1>3. CASE \/ Quiet \/ Starts \/ Tells \/ Takes \/ Injects \/ Follows \/ Drops \/ Queues \/ PutsBack
           \/ Chooses \/ Resumes \/ Retries
  <2>1. editing' = editing
    BY <1>3 DEF Quiet, Starts, Tells, Takes, Injects, Follows, Drops, Queues, PutsBack, Chooses,
                Resumes, Retries, history
  <2>2. \A x \in Keys : x.lane = "held" => x \in Keys'
    BY <1>3 DEF Quiet, Starts, Tells, Takes, Injects, Follows, Drops, Queues, PutsBack, Chooses,
                Resumes, Retries
  <2> QED
    BY <1>2, <2>1, <2>2
<1>4. CASE TakesRow
  <2>1. editing' = editing
    BY <1>4 DEF TakesRow, history
  <2>2. \A x \in Keys : x.lane = "held" => x \in Keys'
    BY <1>4 DEF TakesRow
  <2> QED
    BY <1>2, <2>1, <2>2
<1>5. CASE Restores
  <2>1. editing' = editing
    BY <1>5 DEF Restores, history
  <2>2. \A x \in Keys : x \in Keys'
    BY <1>1, <1>5 DEF Restores, PicksApart
  <2> QED
    BY <1>2, <2>1, <2>2
<1>6. CASE Changes
  <2>1. PICK z \in Keys :
          /\ \A x \in Keys : x.id = z.id \/ x \in Keys'
          /\ \/ editing' = editing \ {z.msg}
             \/ editing' = editing \cup {z.msg} /\ \E y \in Keys' : Same(z, y) /\ y.lane = "held"
    BY <1>6 DEF Changes
  <2>2. \A x \in Keys : x.id = z.id => x = z
    BY KeysTyped
  <2>3. CASE m = z.msg
    BY <2>1, <2>3 DEF Same
  <2>4. CASE m # z.msg
    <3>1. m \in editing
      BY <2>1, <2>4
    <3>2. PICK x \in Keys : x.msg = m /\ x.lane = "held"
      BY <1>1, <3>1
    <3>3. x.id # z.id
      BY <2>2, <2>4, <3>2
    <3> QED
      BY <2>1, <3>2, <3>3
  <2> QED
    BY <2>3, <2>4
<1> QED
  BY <1>3, <1>4, <1>5, <1>6, Effects

(* The rows hold what the queue a client sees holds, so the edit is held there. *)
LEMMA EditingFollows ==
  ASSUME Types, StoreMirrorsQueue, EditingHeldInRows
  PROVE  EditingIsHeld
<1> SUFFICES ASSUME Clean, NEW m \in editing
             PROVE  \E i \in DOMAIN Current.pending :
                      Current.pending[i].msg = m /\ IsHeld(Current.pending[i])
  BY DEF EditingIsHeld, Clean
<1>1. QueueKeys(Current) = Keys
  <2>1. CASE live # None
    BY <2>1, LiveKeys DEF Current
  <2>2. CASE live = None
    BY <2>2, HydrateIsQueue DEF Current, Types, Keys
  <2> QED
    BY <2>1, <2>2
<1>2. PICK x \in QueueKeys(Current) : x.msg = m /\ x.lane = "held"
  BY <1>1 DEF EditingHeldInRows
<1> DEFINE p == Current.pending
<1>3. PICK i \in DOMAIN p : x = Key(p[i].id, p[i].msg, Lane(p[i].held))
  <2>1. x \notin {Key(Current.steers[i].id, Current.steers[i].msg, "steer") :
                  i \in DOMAIN Current.steers}
    BY <1>2 DEF Key
  <2> QED
    BY <2>1 DEF QueueKeys
<1>4. p[i].msg = m /\ Lane(p[i].held) = "held"
  BY <1>2, <1>3 DEF Key
<1>5. p[i].held
  BY <1>4 DEF Lane
<1> QED
  BY <1>4, <1>5 DEF IsHeld
-----------------------------------------------------------------------------
(* A message is in one place only, and not sent before it is given to the agent. *)
Gone == InTurn \cup Told \cup deleted

(* Each message is in one place: waiting, with a resume, in the batch of the
   goroutine, or with the agent or deleted. *)
OnePlace ==
  /\ OneMessageOnce(Keys) /\ Distinct(run.batch)
  /\ \A h, g \in Taken : handlers[h].pick.msg = handlers[g].pick.msg => h = g
  /\ \A h \in Taken, x \in Keys : x.msg # handlers[h].pick.msg
  /\ \A x \in Keys : x.msg \notin Batch \cup Gone
  /\ \A h \in Taken : handlers[h].pick.msg \notin Batch \cup Gone
  /\ \A m \in Batch : m \notin Gone
  /\ \A m \in deleted : m \notin InTurn \cup Told

(* A message the server accepted and has not sent. *)
Unsent(m) == m <= accepted /\ sent[m] = 0

(* What waits was accepted and not sent yet; what is not accepted was never sent. *)
Known ==
  /\ \A x \in Keys : Unsent(x.msg)
  /\ \A h \in Taken : Unsent(handlers[h].pick.msg)
  /\ \A m \in Batch \cup deleted : Unsent(m)
  /\ \A m \in InTurn \cup Told : m <= accepted
  /\ \A m \in Messages : m > accepted => sent[m] = 0

(* Both, as long as no stale writer overlapped. *)
PlacesKept == Clean => OnePlace /\ Known

(* How the two updates of the count change it. *)
LEMMA SentIs ==
  ASSUME Types, NEW m \in Messages, NEW n \in Messages
  PROVE  /\ SentOnceMore(m)[n] = IF n # m THEN sent[n] ELSE IF sent[m] < 2 THEN sent[m] + 1 ELSE 2
         /\ [sent EXCEPT ![m] = 0][n] = IF n # m THEN sent[n] ELSE 0
<1>1. sent \in [Messages -> 0 .. 2]
  BY DEF Types, HistoryTypes
<1> QED
  BY <1>1 DEF SentOnceMore

(* The types of the places again, with what arithmetic needs. *)
LEMMA PlacesTyped ==
  ASSUME Types
  PROVE  /\ \A x \in Keys : x.msg \in Messages
         /\ \A h \in Taken : handlers[h].pick.msg \in Messages
         /\ Batch \subseteq Messages /\ InTurn \subseteq Messages /\ Told \subseteq Messages
         /\ deleted \subseteq Messages /\ accepted \in Nat /\ \A m \in Messages : m \in Nat
         /\ Taken \subseteq Chosen
         /\ \A x, y \in Keys : x.id = y.id => x = y
<1>1. \A k \in KeyTypes : k.msg \in Messages
  BY DEF KeyTypes
<1> QED
  BY <1>1, KeysTyped DEF Types, HistoryTypes, Messages

(* Every effect keeps each message in one place: it moves messages from one of them
   to another, and sends only what it takes out of there. *)
LEMMA PlacesStep ==
  ASSUME Types, UptoIn, StoreMirrorsQueue, PicksApart, PlacesKept, Next
  PROVE  PlacesKept'
<1> SUFFICES ASSUME Clean' PROVE OnePlace' /\ Known'
  BY DEF PlacesKept
<1>1. Clean /\ OnePlace /\ Known
  BY StaysClean DEF PlacesKept
<1>2. /\ \A x \in Keys : x.msg \in Messages
      /\ \A h \in Taken : handlers[h].pick.msg \in Messages
      /\ Batch \subseteq Messages /\ InTurn \subseteq Messages /\ Told \subseteq Messages
      /\ deleted \subseteq Messages /\ accepted \in Nat /\ \A m \in Messages : m \in Nat
      /\ Taken \subseteq Chosen
      /\ \A x, y \in Keys : x.id = y.id => x = y
  BY PlacesTyped
<1>3. Distinct(<<>>) /\ ToSet(<<>>) = {}
  BY EmptyList DEF Distinct
<1>4. \A id, m : Key(id, m, "free").id = id /\ Key(id, m, "free").msg = m
  BY DEF Key
(* Nothing moves, or something is dropped. *)
<1>5. ASSUME PicksStay \/ Taken' = {}, Keys' \subseteq Keys, Distinct(run'.batch),
             Batch' \subseteq Batch, InTurn' \subseteq InTurn, Told' = Told,
             UNCHANGED <<accepted, sent, deleted>>
      PROVE  OnePlace' /\ Known'
  <2>1. /\ Taken' \subseteq Taken /\ \A h \in Taken' : handlers'[h].pick = handlers[h].pick
    BY <1>2, <1>5 DEF PicksStay
  <2>2. OnePlace'
    BY <1>1, <1>5, <2>1 DEF OnePlace, OneMessageOnce, Gone
  <2>3. Known'
    BY <1>1, <1>5, <2>1 DEF Known, Unsent
  <2> QED
    BY <2>2, <2>3
<1>6. CASE Quiet
  <2>1. Batch' = Batch /\ Told' = Told /\ Distinct(run'.batch)
    BY <1>1, <1>6 DEF Quiet, Batch, Told, OnePlace
  <2> QED
    BY <1>5, <1>6, <2>1 DEF Quiet, history
<1>7. CASE Drops
  <2>1. Batch' = {} /\ Told' = Told /\ Distinct(run'.batch)
    BY <1>3, <1>7 DEF Drops, Batch, Told
  <2> QED
    BY <1>5, <1>7, <2>1 DEF Drops, history
(* A new message is known nowhere. *)
<1>8. ASSUME accepted + 1 \in Messages
      PROVE  /\ \A x \in Keys : x.msg # accepted + 1
             /\ \A h \in Taken : handlers[h].pick.msg # accepted + 1
             /\ accepted + 1 \notin Batch \cup Gone
             /\ accepted + 1 <= accepted + 1
             /\ sent[accepted + 1] = 0
  <2>1. \A m \in Messages : m <= accepted => m <= accepted + 1 /\ m # accepted + 1
    BY <1>2
  <2>2. sent[accepted + 1] = 0
    <3>1. accepted + 1 > accepted
      BY <1>2
    <3> QED
      BY <1>1, <1>8, <3>1 DEF Known
  <2>3. accepted + 1 \notin Batch \cup Gone
    BY <1>1, <1>2, <2>1 DEF Known, Gone, Unsent
  <2>4. /\ \A x \in Keys : x.msg # accepted + 1
        /\ \A h \in Taken : handlers[h].pick.msg # accepted + 1
    BY <1>1, <1>2, <2>1 DEF Known, Unsent
  <2>5. accepted + 1 <= accepted + 1
    BY <1>2
  <2> QED
    BY <2>1, <2>2, <2>3, <2>4, <2>5 DEF Unsent
<1>9. ASSUME accepted + 1 \in Messages, accepted' = accepted + 1, UNCHANGED sent
      PROVE  /\ \A m \in Messages : Unsent(m) => m <= accepted' /\ sent'[m] = 0
             /\ accepted + 1 <= accepted' /\ sent'[accepted + 1] = 0
             /\ \A m \in Messages : m > accepted' => sent'[m] = 0
             /\ \A m \in Messages : m <= accepted => m <= accepted'
  <2>1. \A m \in Messages : /\ m > accepted + 1 => m > accepted
                            /\ m <= accepted => m <= accepted + 1
    BY <1>2
  <2>2. \A m \in Messages : m > accepted => sent[m] = 0
    BY <1>1 DEF Known
  <2>3. accepted + 1 <= accepted + 1 /\ sent[accepted + 1] = 0
    BY <1>8, <1>9
  <2>4. \A m \in Messages : Unsent(m) => m <= accepted' /\ sent'[m] = 0
    BY <1>2, <1>9, <2>1 DEF Unsent
  <2>5. \A m \in Messages : m > accepted' => sent'[m] = 0
    BY <1>2, <1>9, <2>1, <2>2
  <2>6. \A m \in Messages : m <= accepted => m <= accepted'
    BY <1>2, <1>9, <2>1
  <2> QED
    BY <1>9, <2>3, <2>4, <2>5, <2>6
<1>10. CASE Queues
  <2>1. PICK id \in Nat : Keys' = Keys \cup {Key(id, accepted + 1, "free")}
    BY <1>10 DEF Queues
  <2> DEFINE k == Key(id, accepted + 1, "free")
  <2>2. k.msg = accepted + 1 /\ Keys' = Keys \cup {k}
    BY <1>4, <2>1
  <2> HIDE DEF k
  <2>3. /\ PicksStay /\ accepted + 1 \in Messages /\ accepted' = accepted + 1
        /\ UNCHANGED <<run, sent, deleted>>
        /\ Batch' = Batch /\ InTurn' = InTurn /\ Told' = Told
    BY <1>10 DEF Queues, Batch, InTurn, Told, history
  <2>4. Taken' = Taken /\ \A h \in Taken : handlers'[h].pick = handlers[h].pick
    BY <1>2, <2>3 DEF PicksStay
  <2>5. OnePlace'
    BY <1>1, <1>8, <2>2, <2>3, <2>4 DEF OnePlace, OneMessageOnce, Gone
  <2>6. Known'
    <3>1. \A x \in Keys' : x.msg <= accepted' /\ sent'[x.msg] = 0
      BY <1>1, <1>2, <1>9, <2>2, <2>3 DEF Known
    <3>2. \A h \in Taken' : handlers'[h].pick.msg <= accepted' /\ sent'[handlers'[h].pick.msg] = 0
      BY <1>1, <1>2, <1>9, <2>3, <2>4 DEF Known
    <3>3. \A m \in Batch' \cup deleted' : m <= accepted' /\ sent'[m] = 0
      BY <1>1, <1>2, <1>9, <2>3 DEF Known
    <3>4. \A m \in InTurn' \cup Told' : m <= accepted'
      BY <1>1, <1>2, <1>9, <2>3 DEF Known
    <3> QED
      BY <1>9, <2>3, <3>1, <3>2, <3>3, <3>4 DEF Known, Unsent
  <2> QED
    BY <2>5, <2>6
<1>11. CASE Starts
  <2>1. /\ PicksStay /\ accepted + 1 \in Messages /\ accepted' = accepted + 1
        /\ UNCHANGED <<sent, deleted>> /\ Keys' = Keys /\ Told' = Told
        /\ run.pc = "idle" /\ Batch = {} /\ run' = NewTurn(accepted + 1)
    BY <1>11 DEF Starts, Told, history
  <2>2. run'.batch = <<>> /\ Batch' = {} /\ InTurn' = {accepted + 1}
    BY <1>3, <2>1 DEF NewTurn, Idle, InTurn, Batch
  <2>3. InTurn = {}
    BY <2>1 DEF InTurn
  <2>4. Taken' = Taken /\ \A h \in Taken : handlers'[h].pick = handlers[h].pick
    BY <1>2, <2>1 DEF PicksStay
  <2>5. OnePlace'
    BY <1>1, <1>3, <1>8, <2>1, <2>2, <2>3, <2>4 DEF OnePlace, Gone
  <2>6. Known'
    <3>1. \A x \in Keys' : x.msg <= accepted' /\ sent'[x.msg] = 0
      BY <1>1, <1>2, <1>9, <2>1 DEF Known
    <3>2. \A h \in Taken' : handlers'[h].pick.msg <= accepted' /\ sent'[handlers'[h].pick.msg] = 0
      BY <1>1, <1>2, <1>9, <2>1, <2>4 DEF Known
    <3>3. \A m \in Batch' \cup deleted' : m <= accepted' /\ sent'[m] = 0
      BY <1>1, <1>2, <1>9, <2>1, <2>2 DEF Known
    <3>4. \A m \in InTurn' \cup Told' : m <= accepted'
      BY <1>1, <1>2, <1>9, <2>1, <2>2 DEF Known
    <3> QED
      BY <1>9, <2>1, <3>1, <3>2, <3>3, <3>4 DEF Known, Unsent
  <2> QED
    BY <2>5, <2>6
<1>12. CASE Tells
  <2>1. /\ PicksStay /\ Keys' = Keys /\ run.msg \in Messages /\ run.pc = "start"
        /\ run'.batch = run.batch /\ Batch' = Batch /\ InTurn' = InTurn
        /\ Told' \subseteq Told \cup {run.msg} /\ sent' = SentOnceMore(run.msg)
        /\ UNCHANGED <<accepted, deleted>>
    BY <1>12 DEF Tells, Batch, history
  <2>2. InTurn = {run.msg}
    BY <2>1 DEF InTurn
  <2>3. Taken' = Taken /\ \A h \in Taken : handlers'[h].pick = handlers[h].pick
    BY <1>2, <2>1 DEF PicksStay
  <2>4. OnePlace'
    BY <1>1, <2>1, <2>2, <2>3 DEF OnePlace, Gone
  <2>5. \A n \in Messages : n # run.msg => sent'[n] = sent[n]
    BY <2>1, SentIs
  <2>6. run.msg <= accepted /\ ~(run.msg > accepted)
    BY <1>1, <1>2, <2>1, <2>2 DEF Known
  <2>7. Known'
    BY <1>1, <1>2, <2>1, <2>2, <2>3, <2>5, <2>6 DEF Known, Unsent, OnePlace, Gone
  <2> QED
    BY <2>4, <2>7
<1>13. CASE Takes
  <2>1. PICK K \in SUBSET Keys :
          /\ Keys' = Keys \ K /\ Batch' = MsgsOf(K)
          /\ OneMessageOnce(Keys) => Distinct(run'.batch)
    BY <1>13 DEF Takes
  <2>2. /\ PicksStay /\ Batch = {} /\ InTurn' = InTurn /\ Told' = Told
        /\ UNCHANGED <<accepted, sent, deleted>>
    BY <1>13 DEF Takes, Told, history
  <2>3. Taken' = Taken /\ \A h \in Taken : handlers'[h].pick = handlers[h].pick
    BY <1>2, <2>2 DEF PicksStay
  <2>4. \A m \in Batch' : \E x \in K : x.msg = m
    BY <2>1 DEF MsgsOf
  <2>5. OnePlace'
    <3>1. /\ OneMessageOnce(Keys)' /\ Distinct(run'.batch)
      BY <1>1, <2>1 DEF OnePlace, OneMessageOnce
    <3>2. \A x \in Keys' : x.msg \notin Batch'
      BY <1>1, <2>1, <2>4 DEF OnePlace, OneMessageOnce
    <3> QED
      BY <1>1, <2>1, <2>2, <2>3, <2>4, <3>1, <3>2 DEF OnePlace, Gone
  <2>6. Known'
    BY <1>1, <2>1, <2>2, <2>3, <2>4 DEF Known, Unsent
  <2> QED
    BY <2>5, <2>6
<1>14. CASE Injects
  <2>1. PICK m \in Messages : BatchLoses(m) /\ Told' = Told \cup {m} /\ sent' = SentOnceMore(m)
    BY <1>14 DEF Injects
  <2>2. /\ PicksStay /\ Keys' = Keys /\ InTurn' = InTurn /\ UNCHANGED <<accepted, deleted>>
    BY <1>14 DEF Injects, history
  <2>3. Taken' = Taken /\ \A h \in Taken : handlers'[h].pick = handlers[h].pick
    BY <1>2, <2>2 DEF PicksStay
  <2>4. Batch = {m} \cup Batch' /\ Distinct(run'.batch) /\ m \notin Batch'
    BY <1>1, <2>1 DEF BatchLoses, OnePlace
  <2>5. OnePlace'
    BY <1>1, <2>1, <2>2, <2>3, <2>4 DEF OnePlace, Gone
  <2>6. \A n \in Messages : n # m => sent'[n] = sent[n]
    BY <2>1, SentIs
  <2>7. m <= accepted /\ ~(m > accepted) /\ m \notin Gone
    BY <1>1, <1>2, <2>4 DEF Known, Unsent, OnePlace
  <2>8. Known'
    BY <1>1, <1>2, <2>1, <2>2, <2>3, <2>4, <2>6, <2>7 DEF Known, Unsent, OnePlace, Gone
  <2> QED
    BY <2>5, <2>8
<1>15. CASE PutsBack
  <2>1. PICK m \in Messages, id \in Nat : BatchLoses(m) /\ Keys' = Keys \cup {Key(id, m, "free")}
    BY <1>15 DEF PutsBack
  <2> DEFINE k == Key(id, m, "free")
  <2>2. k.msg = m /\ Keys' = Keys \cup {k}
    BY <1>4, <2>1
  <2> HIDE DEF k
  <2>3. /\ PicksStay /\ InTurn' = InTurn /\ Told' = Told /\ UNCHANGED <<accepted, sent, deleted>>
    BY <1>15 DEF PutsBack, Told, history
  <2>4. Taken' = Taken /\ \A h \in Taken : handlers'[h].pick = handlers[h].pick
    BY <1>2, <2>3 DEF PicksStay
  <2>5. Batch = {m} \cup Batch' /\ Distinct(run'.batch) /\ m \notin Batch'
    BY <1>1, <2>1 DEF BatchLoses, OnePlace
  <2>6. OnePlace'
    BY <1>1, <2>2, <2>3, <2>4, <2>5 DEF OnePlace, OneMessageOnce, Gone
  <2>7. Known'
    BY <1>1, <2>2, <2>3, <2>4, <2>5 DEF Known, Unsent
  <2> QED
    BY <2>6, <2>7
<1>16. CASE Follows
  <2>1. PICK m \in Messages : Batch = {m} /\ InTurn' = {m} /\ Told' = Told \cup {m}
    BY <1>16 DEF Follows
  <2>2. /\ PicksStay /\ Keys' = Keys /\ run'.batch = <<>> /\ UNCHANGED <<accepted, sent, deleted>>
        /\ Batch' = {}
    BY <1>3, <1>16 DEF Follows, Batch, history
  <2>3. Taken' = Taken /\ \A h \in Taken : handlers'[h].pick = handlers[h].pick
    BY <1>2, <2>2 DEF PicksStay
  <2>4. OnePlace'
    BY <1>1, <1>3, <2>1, <2>2, <2>3 DEF OnePlace, Gone
  <2>5. Known'
    BY <1>1, <2>1, <2>2, <2>3 DEF Known, Unsent
  <2> QED
    BY <2>4, <2>5
<1>17. CASE Changes
  <2>1. /\ PicksStay /\ UNCHANGED <<run, transcript, accepted, sent>>
        /\ Batch' = Batch /\ InTurn' = InTurn /\ Told' = Told
        /\ \A y \in Keys' : \E x \in Keys : Same(x, y)
    BY <1>17 DEF Changes, Batch, InTurn, Told
  <2>2. PICK z \in Keys :
          \/ (\A y \in Keys' : y.id # z.id) /\ deleted' = deleted \cup {z.msg}
          \/ deleted' = deleted
    BY <1>17 DEF Changes
  <2>3. Taken' = Taken /\ \A h \in Taken : handlers'[h].pick = handlers[h].pick
    BY <1>2, <2>1 DEF PicksStay
  <2>4. \A y, u \in Keys' : y.id = u.id => y = u
    <3>1. Types'
      BY TypesStep
    <3>2. RowsOK(rows')
      BY <3>1 DEF Types
    <3> QED
      BY <3>2, RowKeysAreUnique DEF Keys
  <2>5. OneMessageOnce(Keys)'
    BY <1>1, <2>1, <2>4 DEF OnePlace, OneMessageOnce, Same
  <2>6. CASE deleted' = deleted
    <3>1. OnePlace'
      BY <1>1, <2>1, <2>3, <2>5, <2>6 DEF OnePlace, Gone, Same
    <3>2. Known'
      BY <1>1, <2>1, <2>3, <2>6 DEF Known, Unsent, Same
    <3> QED
      BY <3>1, <3>2
  <2>7. CASE (\A y \in Keys' : y.id # z.id) /\ deleted' = deleted \cup {z.msg}
    <3>1. \A y \in Keys' : y.msg # z.msg
      BY <1>1, <2>1, <2>7 DEF OnePlace, OneMessageOnce, Same
    <3>2. OnePlace'
      BY <1>1, <2>1, <2>3, <2>5, <2>7, <3>1 DEF OnePlace, Gone, Same
    <3>3. Known'
      BY <1>1, <2>1, <2>3, <2>7 DEF Known, Unsent, Same
    <3> QED
      BY <3>2, <3>3
  <2> QED
    BY <2>2, <2>6, <2>7
<1>18. CASE Chooses
  <2>1. /\ UNCHANGED <<Keys, run, accepted, sent, deleted>> /\ Batch' = Batch
        /\ InTurn' = InTurn /\ Told' = Told
    BY <1>18 DEF Chooses, Batch, InTurn, Told, history
  <2>2. Taken' = Taken /\ \A h \in Taken : handlers'[h].pick = handlers[h].pick
    BY <1>2, <1>18 DEF Chooses
  <2>3. OnePlace'
    BY <1>1, <2>1, <2>2 DEF OnePlace, Gone
  <2>4. Known'
    BY <1>1, <2>1, <2>2 DEF Known, Unsent
  <2> QED
    BY <2>3, <2>4
<1>19. CASE TakesRow
  <2>1. PICK h \in Chosen, x \in Keys :
          /\ x.id = handlers[h].pick.id /\ h \notin Taken
          /\ Keys' = Keys \ {x} /\ Taken' = Taken \cup {h}
          /\ \A g \in Chosen : handlers'[g].pick = handlers[g].pick
    BY <1>19 DEF TakesRow
  <2>2. /\ UNCHANGED <<run, accepted, sent, deleted>> /\ Batch' = Batch
        /\ InTurn' = InTurn /\ Told' = Told
    BY <1>19 DEF TakesRow, Batch, InTurn, Told, history
  <2>3. x.msg = handlers[h].pick.msg
    BY <1>1, <2>1 DEF PicksApart
  <2>4. handlers'[h].pick.msg = x.msg /\ \A g \in Taken : handlers'[g].pick = handlers[g].pick
    BY <1>2, <2>1, <2>3
  <2>5. OnePlace'
    BY <1>1, <2>1, <2>2, <2>4 DEF OnePlace, OneMessageOnce, Gone
  <2>6. Known'
    BY <1>1, <2>1, <2>2, <2>4 DEF Known, Unsent
  <2> QED
    BY <2>5, <2>6
<1>20. CASE Resumes
  <2>1. PICK h \in Taken : PickGone(h) /\ run' = NewTurn(handlers[h].pick.msg)
    BY <1>20 DEF Resumes
  <2>2. /\ Keys' = Keys /\ run.pc = "idle" /\ Batch = {} /\ Told' = Told
        /\ UNCHANGED <<accepted, sent, deleted>>
    BY <1>20 DEF Resumes, Told, history
  <2>3. run'.batch = <<>> /\ Batch' = {} /\ InTurn' = {handlers[h].pick.msg}
    BY <1>3, <2>1 DEF NewTurn, Idle, InTurn, Batch
  <2>4. Taken' = Taken \ {h} /\ \A g \in Taken' : handlers'[g].pick = handlers[g].pick
    BY <1>2, <2>1 DEF PickGone
  <2>5. OnePlace'
    BY <1>1, <1>3, <2>1, <2>2, <2>3, <2>4 DEF OnePlace, Gone
  <2>6. Known'
    BY <1>1, <2>1, <2>2, <2>3, <2>4 DEF Known, Unsent
  <2> QED
    BY <2>5, <2>6
<1>21. CASE Restores
  <2>1. PICK h \in Taken :
          /\ PickGone(h)
          /\ Keys' = {x \in Keys : x.id # handlers[h].pick.id}
                     \cup {Key(handlers[h].pick.id, handlers[h].pick.msg, "free")}
    BY <1>21 DEF Restores
  <2> DEFINE k == Key(handlers[h].pick.id, handlers[h].pick.msg, "free")
  <2>2. k.msg = handlers[h].pick.msg /\ Keys' \subseteq Keys \cup {k}
    BY <1>4, <2>1
  <2> HIDE DEF k
  <2>3. /\ UNCHANGED <<run, accepted, sent, deleted>> /\ Batch' = Batch
        /\ InTurn' = InTurn /\ Told' = Told
    BY <1>21 DEF Restores, Batch, InTurn, Told, history
  <2>4. Taken' = Taken \ {h} /\ \A g \in Taken' : handlers'[g].pick = handlers[g].pick
    BY <1>2, <2>1 DEF PickGone
  <2>5. OnePlace'
    BY <1>1, <2>1, <2>2, <2>3, <2>4 DEF OnePlace, OneMessageOnce, Gone
  <2>6. Known'
    BY <1>1, <2>1, <2>2, <2>3, <2>4 DEF Known, Unsent
  <2> QED
    BY <2>5, <2>6
<1>22. CASE Retries
  <2>1. PICK m \in Told : InTurn' = {m} /\ sent' = [sent EXCEPT ![m] = 0]
    BY <1>22 DEF Retries
  <2>2. /\ PicksStay /\ Keys' = Keys /\ Batch = {} /\ run'.batch = <<>> /\ Batch' = {}
        /\ Told' = Told /\ UNCHANGED <<accepted, deleted>>
    BY <1>3, <1>22 DEF Retries, Batch, Told, history
  <2>3. Taken' = Taken /\ \A h \in Taken : handlers'[h].pick = handlers[h].pick
    BY <1>2, <2>2 DEF PicksStay
  <2>4. OnePlace'
    BY <1>1, <1>3, <2>1, <2>2, <2>3 DEF OnePlace, Gone
  <2>5. \A n \in Messages : sent'[n] = sent[n] \/ sent'[n] = 0
    BY <1>2, <2>1, SentIs
  <2>6. Known'
    BY <1>1, <1>2, <2>1, <2>2, <2>3, <2>5 DEF Known, Unsent
  <2> QED
    BY <2>4, <2>6
<1> QED
  BY <1>6, <1>7, <1>10, <1>11, <1>12, <1>13, <1>14, <1>15, <1>16, <1>17, <1>18, <1>19, <1>20,
     <1>21, <1>22, Effects
-----------------------------------------------------------------------------
(* A held wait that let the loop go on stays recorded. *)
LEMMA RerunsGrow == ASSUME Types, Next, bounds'.reruns = 0 PROVE bounds.reruns = 0
<1>0. bounds \in [resumes : Nat, reruns : Nat, crashes : Nat, faults : Nat]
  BY DEF Types, HistoryTypes
<1>1. CASE HeldOver
  BY <1>0, <1>1 DEF HeldOver
<1>2. CASE StartFails \/ InjectFails \/ FollowFails \/ Crash
  BY <1>0, <1>2 DEF StartFails, InjectFails, FollowFails, Crash
<1>3. ASSUME NEW h \in Handlers, ResumeIdle(h) PROVE bounds'.reruns = bounds.reruns
  BY <1>0, <1>3 DEF ResumeIdle
<1>4. ASSUME UNCHANGED bounds PROVE bounds'.reruns = bounds.reruns
  BY <1>4
<1>5. CASE \/ SendQueued \/ SendStarts \/ Start \/ SteerDrain \/ Inject \/ Requeue \/ TurnOK
           \/ TurnFail \/ Drain \/ ReAdd \/ Follow \/ CheckHeld \/ HeldStop \/ End
  <2>1. UNCHANGED bounds
    BY <1>5, Zenon DEF SendQueued, SendStarts, Start, SteerDrain, Inject, Requeue, TurnOK,
                       TurnFail, Drain, ReAdd, Follow, CheckHeld, HeldStop, End
  <2> QED
    BY <1>4, <2>1
<1>6. ASSUME NEW h \in Handlers,
             \/ QueueFor(h) \/ QueueLoad(h) \/ QueueApply(h) \/ ResumeList(h) \/ ResumeDelete(h)
             \/ ResumeBegins(h) \/ ResumeQueues(h) \/ ResumeRefused(h) \/ ResumeRestore(h)
             \/ RetryRead(h) \/ RetryBegins(h) \/ RetryRefused(h)
      PROVE  bounds'.reruns = bounds.reruns
  <2>1. UNCHANGED bounds
    BY <1>6, Zenon DEF QueueFor, QueueLoad, QueueApply, ResumeList, ResumeDelete, ResumeBegins,
       ResumeQueues, ResumeRefused, ResumeRestore, RetryRead, RetryBegins, RetryRefused
  <2> QED
    BY <1>4, <2>1
<1> QED
  BY <1>1, <1>2, <1>3, <1>5, <1>6 DEF Next, RunStep, ResumeStep

(* A turn that is about to start was not sent since it was last asked for. *)
TurnUnsent ==
  Clean /\ bounds.reruns = 0 =>
    /\ run.pc = "start" => sent[run.msg] = 0
    /\ \A m \in Messages : sent[m] <= 1

(* Every effect keeps this.  A turn begins with a message that was not sent: a new
   one, a row that waited, a taken message, or one a retry asks for again. *)
LEMMA TurnUnsentStep ==
  ASSUME Types, UptoIn, StoreMirrorsQueue, PlacesKept, TurnUnsent, Next
  PROVE  TurnUnsent'
<1> SUFFICES ASSUME Clean', bounds'.reruns = 0
             PROVE  /\ run'.pc = "start" => sent'[run'.msg] = 0
                    /\ \A m \in Messages : sent'[m] <= 1
  BY DEF TurnUnsent
<1>1. Clean /\ OnePlace /\ Known /\ bounds.reruns = 0
  BY StaysClean, RerunsGrow DEF PlacesKept
<1>2. /\ run.pc = "start" => sent[run.msg] = 0
      /\ \A m \in Messages : sent[m] <= 1
  BY <1>1 DEF TurnUnsent
<1>3. \A m : NewTurn(m).msg = m /\ NewTurn(m).pc = "start"
  BY DEF NewTurn, Idle
<1>4. CASE Quiet
  BY <1>2, <1>4 DEF Quiet
<1>5. CASE Queues \/ Changes \/ Chooses \/ TakesRow \/ Restores
  <2>1. UNCHANGED <<run, sent>>
    BY <1>5 DEF Queues, Changes, Chooses, TakesRow, Restores
  <2> QED
    BY <1>2, <2>1
<1>6. CASE Takes \/ PutsBack \/ Drops
  <2>1. run'.pc # "start" /\ sent' = sent
    BY <1>6 DEF Takes, PutsBack, Drops
  <2> QED
    BY <1>2, <2>1
<1>7. CASE Starts
  <2>1. accepted + 1 \in Messages /\ run' = NewTurn(accepted + 1) /\ sent' = sent
    BY <1>7 DEF Starts
  <2>2. accepted + 1 > accepted
    BY PlacesTyped
  <2>3. sent[accepted + 1] = 0
    BY <1>1, <2>1, <2>2 DEF Known
  <2> QED
    BY <1>2, <1>3, <2>1, <2>3
<1>8. ASSUME NEW m \in Messages, sent[m] = 0, sent' = SentOnceMore(m)
      PROVE  \A n \in Messages : sent'[n] <= 1
  <2>1. \A n \in Messages : sent'[n] = IF n # m THEN sent[n] ELSE 1
    BY <1>8, SentIs
  <2> QED
    BY <1>2, <2>1
<1>9. CASE Tells
  <2>1. /\ run.pc = "start" /\ run'.pc = "round" /\ run.msg \in Messages
        /\ sent' = SentOnceMore(run.msg)
    BY <1>9 DEF Tells
  <2> QED
    BY <1>2, <1>8, <2>1
<1>10. CASE Injects
  <2>1. PICK m \in Messages : BatchLoses(m) /\ sent' = SentOnceMore(m)
    BY <1>10 DEF Injects
  <2>2. sent[m] = 0
    BY <1>1, <2>1 DEF BatchLoses, Known, Unsent
  <2>3. run'.pc # "start"
    BY <1>10 DEF Injects
  <2> QED
    BY <1>8, <2>1, <2>2, <2>3
<1>11. CASE Follows
  <2>1. PICK m \in Messages : Batch = {m} /\ run'.msg = m
    BY <1>11 DEF Follows
  <2>2. sent[m] = 0 /\ sent' = sent
    BY <1>1, <1>11, <2>1 DEF Follows, Known, Unsent
  <2> QED
    BY <1>2, <2>1, <2>2
<1>12. CASE Resumes
  <2>1. PICK h \in Taken : run' = NewTurn(handlers[h].pick.msg)
    BY <1>12 DEF Resumes
  <2>2. sent[handlers[h].pick.msg] = 0 /\ sent' = sent
    BY <1>1, <1>12 DEF Resumes, Known, Unsent
  <2> QED
    BY <1>2, <1>3, <2>1, <2>2
<1>13. CASE Retries
  <2>1. PICK m \in Told : run'.msg = m /\ sent' = [sent EXCEPT ![m] = 0]
    BY <1>13 DEF Retries
  <2>2. m \in Messages
    BY PlacesTyped
  <2>3. \A n \in Messages : sent'[n] = IF n # m THEN sent[n] ELSE 0
    BY <2>1, <2>2, SentIs
  <2> QED
    BY <1>2, <2>1, <2>2, <2>3
<1> QED
  BY <1>4, <1>5, <1>6, <1>7, <1>9, <1>10, <1>11, <1>12, <1>13, Effects
-----------------------------------------------------------------------------
(* A turn that re-runs what is there cuts nothing. *)
NothingCut ==
  mishaps = {} /\ bounds.reruns = 0 /\ run.pc = "start" /\ run.mode # "new" =>
    /\ run.msg \in Told
    /\ run.mode = "redo" => run.upto >= Len(transcript)

(* Every effect keeps this: a re-run begins with its message in the transcript, and
   the transcript does not grow before the turn starts. *)
LEMMA NothingCutStep ==
  ASSUME Types, UptoIn, StoreMirrorsQueue, NothingCut, Next
  PROVE  NothingCut'
<1> SUFFICES ASSUME mishaps' = {}, bounds'.reruns = 0, run'.pc = "start", run'.mode # "new"
             PROVE  /\ run'.msg \in Told'
                    /\ run'.mode = "redo" => run'.upto >= Len(transcript')
  BY DEF NothingCut
<1>1. mishaps = {} /\ bounds.reruns = 0 /\ Clean'
  BY MishapsGrow, RerunsGrow DEF Clean
<1>2. ASSUME UNCHANGED <<run, transcript>>
      PROVE  run'.msg \in Told' /\ (run'.mode = "redo" => run'.upto >= Len(transcript'))
  BY <1>1, <1>2 DEF NothingCut, Told
<1>3. CASE Quiet
  BY <1>2, <1>3 DEF Quiet
<1>4. CASE Queues \/ Changes \/ Chooses \/ TakesRow \/ Restores
  <2>1. UNCHANGED <<run, transcript>>
    BY <1>4 DEF Queues, Changes, Chooses, TakesRow, Restores
  <2> QED
    BY <1>2, <2>1
<1>5. CASE Starts \/ Resumes
  <2>1. \A m : NewTurn(m).mode = "new"
    BY DEF NewTurn, Idle
  <2> QED
    BY <1>5, <2>1 DEF Starts, Resumes
<1>6. CASE Tells \/ Takes \/ Injects \/ PutsBack \/ Drops
  BY <1>6 DEF Tells, Takes, Injects, PutsBack, Drops
<1>7. CASE Follows
  <2>1. run'.upto = Len(transcript') /\ run'.msg \in Told'
    BY <1>7 DEF Follows
  <2>2. Len(transcript') \in Nat
    BY TypesStep DEF Types, HistoryTypes
  <2> QED
    BY <2>1, <2>2
<1>8. CASE Retries
  BY <1>8 DEF Retries, Told
<1> QED
  BY <1>1, <1>3, <1>4, <1>5, <1>6, <1>7, <1>8, Effects

(* Where a message can be, by the keys of its row. *)
AtStart == IF run.pc = "start" THEN {run.msg} ELSE {}

(* ... by the resumes that took a row out ... *)
Carried == {handlers[h].pick.msg : h \in Taken}

(* ... and all together. *)
Anywhere == deleted \cup Told \cup MsgsOf(Keys) \cup Batch \cup AtStart \cup Carried

(* No accepted message is missing. *)
NoneMissing ==
  mishaps = {} /\ bounds.reruns = 0 => \A m \in 1 .. accepted : m \in Anywhere

(* They are the places the property names. *)
LEMMA SomewhereIs == Somewhere = Told \cup MsgsOf(Keys) \cup Batch \cup AtStart \cup Carried
<1>1. Msgs(rows) = MsgsOf(Keys)
  <2>1. \A i \in DOMAIN rows : RowKey(rows[i]).msg = rows[i].msg
    BY DEF RowKey, Key
  <2> QED
    BY <2>1 DEF MsgsOf, Keys, RowKeys, Msgs
<1>2. {run.msg : p \in {run.pc} \cap {"start"}} = AtStart
  BY DEF AtStart
<1>3. Carried =
        {handlers[h].pick.msg : h \in {g \in Handlers : handlers[g].pc \in {"begin", "restore"}}}
  BY DEF Carried, Taken
<1> QED
  BY <1>1, <1>2, <1>3 DEF Somewhere, Told, Batch

(* Every effect keeps them there: what it takes from one place it puts in another. *)
LEMMA NoneMissingStep ==
  ASSUME Types, UptoIn, StoreMirrorsQueue, PicksApart, NothingCut, NoneMissing, Next
  PROVE  NoneMissing'
<1> SUFFICES ASSUME mishaps' = {}, bounds'.reruns = 0, NEW m \in 1 .. accepted'
             PROVE  m \in Anywhere'
  BY DEF NoneMissing
<1>1. mishaps = {} /\ bounds.reruns = 0 /\ Clean' /\ Clean
  BY MishapsGrow, RerunsGrow DEF Clean
<1>2. \A n \in 1 .. accepted : n \in Anywhere
  BY <1>1 DEF NoneMissing
<1>3. accepted \in Nat /\ Taken \subseteq Chosen /\ \A x, y \in Keys : x.id = y.id => x = y
  BY PlacesTyped
<1>4. \A id, n : Key(id, n, "free").msg = n
  BY DEF Key
<1>5. \A K : \A x \in K : x.msg \in MsgsOf(K)
  BY DEF MsgsOf
<1>6. PicksStay => Carried' = Carried
  BY <1>3 DEF PicksStay, Carried
<1>7. CASE Quiet
  <2>1. AtStart' = AtStart \/ AtStart = {}
    BY <1>7 DEF Quiet, AtStart
  <2>2. Keys' = Keys /\ Batch' = Batch /\ Told' = Told /\ UNCHANGED <<accepted, deleted>>
        /\ MsgsOf(Keys)' = MsgsOf(Keys)
    BY <1>7 DEF Quiet, Batch, Told, history, MsgsOf
  <2> QED
    BY <1>2, <1>6, <1>7, <2>1, <2>2 DEF Quiet, Anywhere
<1>8. CASE Queues
  <2>1. PICK id \in Nat : Keys' = Keys \cup {Key(id, accepted + 1, "free")}
    BY <1>8 DEF Queues
  <2>2. /\ accepted + 1 \in MsgsOf(Keys)' /\ MsgsOf(Keys) \subseteq MsgsOf(Keys)'
    BY <1>4, <2>1 DEF MsgsOf
  <2>3. /\ Batch' = Batch /\ Told' = Told /\ AtStart' = AtStart
        /\ deleted' = deleted /\ accepted' = accepted + 1 /\ PicksStay
    BY <1>8 DEF Queues, Batch, Told, AtStart, history
  <2>4. m \in 1 .. accepted \/ m = accepted + 1
    BY <1>3, <2>3
  <2> QED
    BY <1>2, <1>6, <2>2, <2>3, <2>4 DEF Anywhere
<1>9. CASE Starts
  <2>1. /\ Keys' = Keys /\ MsgsOf(Keys)' = MsgsOf(Keys) /\ Told' = Told /\ Batch = {}
        /\ run.pc = "idle" /\ run' = NewTurn(accepted + 1)
        /\ deleted' = deleted /\ accepted' = accepted + 1 /\ PicksStay
    BY <1>9 DEF Starts, Told, history, MsgsOf
  <2>2. AtStart = {} /\ accepted + 1 \in AtStart'
    BY <2>1 DEF AtStart, NewTurn, Idle
  <2>3. m \in 1 .. accepted \/ m = accepted + 1
    BY <1>3, <2>1
  <2> QED
    BY <1>2, <1>6, <2>1, <2>2, <2>3 DEF Anywhere
<1>10. CASE Tells
  <2>1. /\ Keys' = Keys /\ MsgsOf(Keys)' = MsgsOf(Keys) /\ Batch' = Batch /\ run.pc = "start"
        /\ UNCHANGED <<accepted, deleted>> /\ PicksStay
    BY <1>10 DEF Tells, Batch, history, MsgsOf
  <2>2. Told \cup AtStart \subseteq Told'
    <3>1. run.mode \in {"new", "redo", "continue"}
      BY DEF Types, RunTypes
    <3> QED
      BY <1>1, <1>10, <2>1, <3>1 DEF Tells, NothingCut, AtStart
  <2> QED
    BY <1>2, <1>6, <2>1, <2>2 DEF Anywhere
<1>11. CASE Takes
  <2>1. PICK K \in SUBSET Keys : Keys' = Keys \ K /\ Batch' = MsgsOf(K)
    BY <1>11 DEF Takes
  <2>2. MsgsOf(Keys) \subseteq MsgsOf(Keys)' \cup Batch'
    BY <2>1 DEF MsgsOf
  <2>3. Batch = {} /\ AtStart = {} /\ Told' = Told /\ UNCHANGED <<accepted, deleted>> /\ PicksStay
    BY <1>11 DEF Takes, AtStart, Told, history
  <2> QED
    BY <1>2, <1>6, <2>2, <2>3 DEF Anywhere
<1>12. CASE Injects
  <2>1. PICK n \in Messages : BatchLoses(n) /\ Told' = Told \cup {n}
    BY <1>12 DEF Injects
  <2>2. Batch \cup Told \subseteq Batch' \cup Told'
    BY <2>1 DEF BatchLoses
  <2>3. /\ Keys' = Keys /\ MsgsOf(Keys)' = MsgsOf(Keys) /\ AtStart = {}
        /\ UNCHANGED <<accepted, deleted>> /\ PicksStay
    BY <1>12 DEF Injects, AtStart, history, MsgsOf
  <2> QED
    BY <1>2, <1>6, <2>2, <2>3 DEF Anywhere
<1>13. CASE PutsBack
  <2>1. PICK n \in Messages, id \in Nat : BatchLoses(n) /\ Keys' = Keys \cup {Key(id, n, "free")}
    BY <1>13 DEF PutsBack
  <2>2. /\ n \in MsgsOf(Keys)' /\ MsgsOf(Keys) \subseteq MsgsOf(Keys)'
    BY <1>4, <2>1 DEF MsgsOf
  <2>3. Batch \subseteq Batch' \cup MsgsOf(Keys)'
    BY <2>1, <2>2 DEF BatchLoses
  <2>4. Told' = Told /\ AtStart = {} /\ UNCHANGED <<accepted, deleted>> /\ PicksStay
    BY <1>13 DEF PutsBack, AtStart, Told, history
  <2> QED
    BY <1>2, <1>6, <2>2, <2>3, <2>4 DEF Anywhere
<1>14. CASE Follows
  <2>1. Batch \cup Told \subseteq Told'
    BY <1>14 DEF Follows
  <2>2. /\ Keys' = Keys /\ MsgsOf(Keys)' = MsgsOf(Keys) /\ AtStart = {}
        /\ UNCHANGED <<accepted, deleted>> /\ PicksStay
    BY <1>14 DEF Follows, AtStart, history, MsgsOf
  <2> QED
    BY <1>2, <1>6, <2>1, <2>2 DEF Anywhere
<1>15. CASE Drops
  <2>1. Told' = Told /\ MsgsOf(Keys)' = MsgsOf(Keys) /\ UNCHANGED <<accepted, deleted>>
    BY <1>15 DEF Drops, Told, history, MsgsOf
  <2>2. CASE PicksStay /\ Batch = {} /\ run.pc # "start"
    <3>1. AtStart = {}
      BY <2>2 DEF AtStart
    <3> QED
      BY <1>2, <1>6, <2>1, <2>2, <3>1 DEF Anywhere
  <2>3. CASE \A n \in 1 .. accepted : n \in deleted \cup Told \cup MsgsOf(Keys)
    BY <2>1, <2>3 DEF Anywhere
  <2> QED
    BY <1>15, <2>2, <2>3 DEF Drops
<1>16. CASE Changes
  <2>1. PICK z \in Keys :
          /\ \A x \in Keys : x.id = z.id \/ x \in Keys'
          /\ \/ deleted' = deleted \cup {z.msg}
             \/ deleted' = deleted /\ \E y \in Keys' : Same(z, y)
    BY <1>16 DEF Changes
  <2>2. MsgsOf(Keys) \cup deleted \subseteq MsgsOf(Keys)' \cup deleted'
    BY <1>3, <2>1 DEF MsgsOf, Same
  <2>3. /\ Batch' = Batch /\ Told' = Told /\ AtStart' = AtStart /\ accepted' = accepted /\ PicksStay
    BY <1>16 DEF Changes, Batch, Told, AtStart
  <2> QED
    BY <1>2, <1>6, <2>2, <2>3 DEF Anywhere
<1>17. CASE Chooses
  <2>1. /\ MsgsOf(Keys)' = MsgsOf(Keys) /\ Batch' = Batch /\ Told' = Told /\ AtStart' = AtStart
        /\ UNCHANGED <<accepted, deleted>>
    BY <1>17 DEF Chooses, Batch, Told, AtStart, history, MsgsOf
  <2>2. Carried' = Carried
    <3>1. Taken' = Taken /\ \A g \in Taken : handlers'[g].pick = handlers[g].pick
      BY <1>3, <1>17 DEF Chooses
    <3> QED
      BY <3>1 DEF Carried
  <2> QED
    BY <1>2, <2>1, <2>2 DEF Anywhere
<1>18. CASE TakesRow
  <2>1. PICK h \in Chosen, x \in Keys :
          /\ x.id = handlers[h].pick.id
          /\ Keys' = Keys \ {x} /\ Taken' = Taken \cup {h}
          /\ \A g \in Chosen : handlers'[g].pick = handlers[g].pick
    BY <1>18 DEF TakesRow
  <2>2. x.msg = handlers[h].pick.msg
    BY <1>1, <2>1 DEF PicksApart
  <2>3. x.msg \in Carried' /\ Carried \subseteq Carried'
    BY <1>3, <2>1, <2>2 DEF Carried
  <2>4. MsgsOf(Keys) \subseteq MsgsOf(Keys)' \cup {x.msg}
    BY <2>1 DEF MsgsOf
  <2>5. /\ Batch' = Batch /\ Told' = Told /\ AtStart' = AtStart /\ UNCHANGED <<accepted, deleted>>
    BY <1>18 DEF TakesRow, Batch, Told, AtStart, history
  <2> QED
    BY <1>2, <2>3, <2>4, <2>5 DEF Anywhere
<1>19. CASE Resumes
  <2>1. PICK h \in Taken : PickGone(h) /\ run' = NewTurn(handlers[h].pick.msg)
    BY <1>19 DEF Resumes
  <2>2. handlers[h].pick.msg \in AtStart'
    BY <2>1 DEF AtStart, NewTurn, Idle
  <2>3. Carried \subseteq Carried' \cup AtStart'
    BY <1>3, <2>1, <2>2 DEF PickGone, Carried
  <2>4. /\ MsgsOf(Keys)' = MsgsOf(Keys) /\ Batch = {} /\ Told' = Told /\ AtStart = {}
        /\ UNCHANGED <<accepted, deleted>>
    BY <1>19 DEF Resumes, Told, AtStart, history, MsgsOf
  <2> QED
    BY <1>2, <2>3, <2>4 DEF Anywhere
<1>20. CASE Restores
  <2>1. PICK h \in Taken :
          /\ PickGone(h)
          /\ Keys' = {x \in Keys : x.id # handlers[h].pick.id}
                     \cup {Key(handlers[h].pick.id, handlers[h].pick.msg, "free")}
    BY <1>20 DEF Restores
  <2>2. \A x \in Keys : x.id # handlers[h].pick.id
    BY <1>1 DEF PicksApart
  <2>3. handlers[h].pick.msg \in MsgsOf(Keys)' /\ MsgsOf(Keys) \subseteq MsgsOf(Keys)'
    BY <1>4, <2>1, <2>2 DEF MsgsOf
  <2>4. Carried \subseteq Carried' \cup {handlers[h].pick.msg}
    BY <1>3, <2>1 DEF PickGone, Carried
  <2>5. /\ Batch' = Batch /\ Told' = Told /\ AtStart' = AtStart /\ UNCHANGED <<accepted, deleted>>
    BY <1>20 DEF Restores, Batch, Told, AtStart, history
  <2> QED
    BY <1>2, <2>3, <2>4, <2>5 DEF Anywhere
<1>21. CASE Retries
  <2>1. /\ MsgsOf(Keys)' = MsgsOf(Keys) /\ Batch = {} /\ Told' = Told /\ AtStart = {}
        /\ UNCHANGED <<accepted, deleted>> /\ PicksStay
    BY <1>21 DEF Retries, Told, AtStart, history, MsgsOf
  <2> QED
    BY <1>2, <1>6, <2>1 DEF Anywhere
<1> QED
  BY <1>1, <1>7, <1>8, <1>9, <1>10, <1>11, <1>12, <1>13, <1>14, <1>15, <1>16, <1>17, <1>18,
     <1>19,
     <1>20, <1>21, Effects
-----------------------------------------------------------------------------
(* The inductive invariant. *)
ChatInv ==
  /\ Types /\ UptoIn
  /\ StoreMirrorsQueue
  /\ PicksApart
  /\ EditingHeldInRows
  /\ PlacesKept
  /\ TurnUnsent
  /\ NothingCut
  /\ NoneMissing

(* It holds at the start, where nothing is anywhere ... *)
LEMMA ChatInvInit == Init => ChatInv
<1> SUFFICES ASSUME Init PROVE ChatInv
  OBVIOUS
<1>1. Types /\ UptoIn
  BY TypesInit
<1>2. Keys = {} /\ Chosen = {} /\ Taken = {} /\ Batch = {} /\ InTurn = {} /\ Told = {}
  <2>1. rows = <<>> /\ run.batch = <<>> /\ transcript = <<>> /\ run.pc = "idle"
    BY DEF Init, Idle
  <2>2. \A h \in Handlers : handlers[h].pc = "free"
    BY DEF Init, Free
  <2>3. \A h \in Handlers : handlers[h].pc \notin PickSteps
    BY <2>2 DEF PickSteps
  <2>4. \A h \in Handlers : handlers[h].pc \notin {"begin", "restore"}
    BY <2>2
  <2> QED
    BY <2>1, <2>3, <2>4 DEF Keys, RowKeys, Chosen, Taken, Batch, InTurn, Told, ToSet
<1>3. /\ live = None /\ run.pc = "idle" /\ run.batch = <<>> /\ accepted = 0
      /\ deleted = {} /\ editing = {} /\ \A m \in Messages : sent[m] = 0
  BY DEF Init, Idle
<1>4. StoreMirrorsQueue
  BY <1>3 DEF StoreMirrorsQueue
<1>5. PicksApart /\ EditingHeldInRows
  BY <1>2, <1>3 DEF PicksApart, EditingHeldInRows
<1>6. PlacesKept
  BY <1>2, <1>3 DEF PlacesKept, OnePlace, Known, Gone, OneMessageOnce, Distinct
<1>7. TurnUnsent /\ NothingCut
  BY <1>3 DEF TurnUnsent, NothingCut
<1>8. NoneMissing
  BY <1>3 DEF NoneMissing
<1> QED
  BY <1>1, <1>4, <1>5, <1>6, <1>7, <1>8 DEF ChatInv

(* ... every step keeps it ... *)
LEMMA ChatInvStep == ChatInv /\ [Next]_vars => ChatInv'
<1> SUFFICES ASSUME ChatInv, [Next]_vars PROVE ChatInv'
  OBVIOUS
<1> USE DEF ChatInv
<1>1. CASE Next
  BY <1>1, TypesStep, UptoStep, MirrorStep, PicksStep, EditingStep, PlacesStep, TurnUnsentStep,
     NothingCutStep, NoneMissingStep
<1>2. CASE UNCHANGED vars
  <2> USE <1>2 DEF vars, history
  <2>1. Types' /\ UptoIn' /\ StoreMirrorsQueue'
    BY DEF Types, RunTypes, QueueTypes, HandlerTypes, HistoryTypes, UptoIn, StoreMirrorsQueue
  <2>2. /\ Keys' = Keys /\ Chosen' = Chosen /\ Taken' = Taken /\ Batch' = Batch
        /\ InTurn' = InTurn /\ Told' = Told /\ Clean' = Clean
    BY DEF Keys, Chosen, Taken, Batch, InTurn, Told, Clean
  <2>3. PicksApart' /\ EditingHeldInRows'
    BY <2>2 DEF PicksApart, EditingHeldInRows
  <2>4. PlacesKept'
    BY <2>2 DEF PlacesKept, OnePlace, Known, Gone, Unsent
  <2>5. TurnUnsent' /\ NothingCut'
    BY <2>2 DEF TurnUnsent, NothingCut
  <2>6. NoneMissing'
    BY <2>2 DEF NoneMissing, Anywhere, AtStart, Carried, MsgsOf
  <2> QED
    BY <2>1, <2>3, <2>4, <2>5, <2>6
<1> QED
  BY <1>1, <1>2

(* ... and it implies the properties the run checks. *)
LEMMA ChatInvImplies ==
  ASSUME ChatInv
  PROVE  /\ StoreMirrorsQueue /\ NothingLost /\ NeverSentTwice
         /\ DeletedStaysDeleted /\ EditingIsHeld
<1> USE DEF ChatInv
<1>1. NothingLost
  BY SomewhereIs DEF NothingLost, NoneMissing, Anywhere
<1>2. NeverSentTwice
  BY DEF NeverSentTwice, SentOnce, TurnUnsent, Clean
<1>3. DeletedStaysDeleted
  <2> SUFFICES ASSUME Clean, NEW m \in deleted PROVE sent[m] = 0 /\ m \notin Somewhere
    BY DEF DeletedStaysDeleted, Clean
  <2>1. OnePlace /\ Known
    BY DEF PlacesKept
  <2>2. sent[m] = 0
    BY <2>1 DEF Known, Unsent
  <2>3. m \notin MsgsOf(Keys) /\ m \notin Batch /\ m \notin Carried
    BY <2>1 DEF OnePlace, Gone, MsgsOf, Carried
  <2>4. m \notin Told /\ m \notin AtStart
    BY <2>1 DEF OnePlace, AtStart, InTurn
  <2>5. Somewhere = Told \cup MsgsOf(Keys) \cup Batch \cup AtStart \cup Carried
    BY SomewhereIs
  <2> QED
    BY <2>2, <2>3, <2>4, <2>5
<1>4. EditingIsHeld
  BY EditingFollows
<1> QED
  BY <1>1, <1>2, <1>3, <1>4

(* The inductive invariant of one session, for any number of messages, handlers,
   resumes, restarts and failed writes: ChatInv holds in every reachable state. *)
THEOREM ChatInvariant == Spec => []ChatInv
<1>1. Init => ChatInv
  BY ChatInvInit
<1>2. ChatInv /\ [Next]_vars => ChatInv'
  BY ChatInvStep
<1> QED
  BY <1>1, <1>2, PTL DEF Spec

(* persistLocked under the lock of every method keeps the rows of queued_messages
   what the live queue is, in every interleaving of the goroutine and the handlers,
   as long as nobody writes through an object that is not the live one. *)
THEOREM RowsMirrorQueue == Spec => []StoreMirrorsQueue
<1>1. ChatInv => StoreMirrorsQueue
  BY ChatInvImplies
<1> QED
  BY <1>1, ChatInvariant, PTL

(* A message the server accepted and nobody deleted is in the transcript or on its
   way there: streamChatTurn, the queue requests and resume drop none.  What may
   excuse a loss is recorded in mishaps. *)
THEOREM AcceptedIsKept == Spec => []NothingLost
<1>1. ChatInv => NothingLost
  BY ChatInvImplies
<1> QED
  BY <1>1, ChatInvariant, PTL

(* A message is given to the agent once per request for it, as a turn or between
   two rounds. *)
THEOREM SentAtMostOnce == Spec => []NeverSentTwice
<1>1. ChatInv => NeverSentTwice
  BY ChatInvImplies
<1> QED
  BY <1>1, ChatInvariant, PTL

(* A delete that found its message is final: the message was not sent, is not sent
   later, and is neither waiting, taken nor in the transcript again. *)
THEOREM DeletedIsGone == Spec => []DeletedStaysDeleted
<1>1. ChatInv => DeletedStaysDeleted
  BY ChatInvImplies
<1> QED
  BY <1>1, ChatInvariant, PTL

(* A message somebody is editing waits, held, until the edit is over: no drain, no
   steer drain, no resume and no restart takes it out or forgets the hold. *)
THEOREM EditIsNeverSent == Spec => []EditingIsHeld
<1>1. ChatInv => EditingIsHeld
  BY ChatInvImplies
<1> QED
  BY <1>1, ChatInvariant, PTL
=============================================================================
