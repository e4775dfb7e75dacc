----------------------------- MODULE EventProofs ----------------------------
(***************************************************************************)
(* Proofs about module Event, for any callbacks and bounds.                *)
(***************************************************************************)
EXTENDS Event, SequenceTheorems, WellFoundedInduction, TLAPS

-----------------------------------------------------------------------------
(***************************************************************************)
(* Numbers and lists.                                                      *)
(***************************************************************************)
\* A set of natural numbers that is not empty has a smallest one.
LEMMA MinOfNaturals ==
  ASSUME NEW S, S \subseteq Nat, S # {}
  PROVE  Min(S) \in S /\ \A n \in S : Min(S) <= n
<1> DEFINE R == OpToRel(<, Nat)
<1>1. \A m, n \in Nat : << m, n >> \in R <=> m < n
  BY DEF OpToRel
<1>2. \E m \in S : \A n \in S : << n, m >> \notin R
  BY NatLessThanWellFounded, WFMin, Zenon
<1> HIDE DEF R
<1>3. PICK m \in S : \A n \in S : << n, m >> \notin R
  BY <1>2
<1>4. \A n \in S : ~(n < m)
  BY <1>1, <1>3
<1>5. \A n \in S : m <= n
  BY <1>4
<1> QED BY <1>5 DEF Min

\* A sequence and one element more.
LEMMA AppendFacts ==
  ASSUME NEW S, NEW seq \in Seq(S), NEW e \in S
  PROVE  /\ Append(seq, e) \in Seq(S) /\ Append(seq, e) # << >>
         /\ Len(seq) \in Nat /\ Len(Append(seq, e)) = Len(seq) + 1
         /\ Append(seq, e)[Len(seq) + 1] = e
         /\ \A k \in 1..Len(seq) : Append(seq, e)[k] = seq[k]
BY AppendProperties, LenProperties

\* The first place of an id.
LEMMA FirstPlaceFacts ==
  ASSUME NEW list \in Seq(Nat), NEW id
  PROVE  /\ FirstPlace(list, id) \in 0 .. Len(list)
         /\ FirstPlace(list, id) # 0 => list[FirstPlace(list, id)] = id
         /\ \A i \in 1..Len(list) :
               list[i] = id => FirstPlace(list, id) # 0 /\ FirstPlace(list, id) <= i
<1> DEFINE places == {i \in DOMAIN list : list[i] = id}
<1>1. Len(list) \in Nat /\ DOMAIN list = 1..Len(list)
  BY LenProperties
<1>2. places \subseteq Nat
  BY <1>1
<1>3. CASE places = {}
  BY <1>1, <1>3 DEF FirstPlace
<1>4. CASE places # {}
  <2>1. Min(places) \in places /\ \A i \in places : Min(places) <= i
    BY <1>2, <1>4, MinOfNaturals
  <2>2. FirstPlace(list, id) = Min(places)
    BY <1>4 DEF FirstPlace
  <2>3. \A i : i \in places <=> i \in 1..Len(list) /\ list[i] = id
    BY <1>1
  <2> HIDE DEF places
  <2> QED BY <1>1, <2>1, <2>2, <2>3
<1> QED BY <1>3, <1>4

\* A sequence without its p-th element.
LEMMA RemoveAtFacts ==
  ASSUME NEW S, NEW seq \in Seq(S), NEW p \in 1..Len(seq)
  PROVE  /\ RemoveAt(seq, p) \in Seq(S) /\ Len(RemoveAt(seq, p)) = Len(seq) - 1
         /\ \A j \in 1 .. Len(seq) - 1 :
               RemoveAt(seq, p)[j] = IF j < p THEN seq[j] ELSE seq[j + 1]
<1>1. Len(seq) \in Nat /\ \A i \in 1..Len(seq) : seq[i] \in S
  BY LenProperties, ElementOfSeq
<1> DEFINE left == SubSeq(seq, 1, p - 1)
           right == SubSeq(seq, p + 1, Len(seq))
<1>2. /\ left \in Seq(S) /\ Len(left) = p - 1
      /\ \A i \in 1 .. p - 1 : left[i] = seq[i]
  BY <1>1, SubSeqProperties
<1>3. /\ right \in Seq(S) /\ Len(right) = Len(seq) - p
      /\ \A i \in 1 .. Len(seq) - p : right[i] = seq[p + i]
  BY <1>1, SubSeqProperties
<1>4. RemoveAt(seq, p) = left \o right
  BY DEF RemoveAt
<1> HIDE DEF left, right
<1>5. /\ left \o right \in Seq(S) /\ Len(left \o right) = Len(seq) - 1
      /\ \A i \in 1 .. Len(seq) - 1 :
            (left \o right)[i] = IF i <= p - 1 THEN left[i] ELSE right[i - (p - 1)]
  <2>1. /\ left \o right \in Seq(S) /\ Len(left \o right) = Len(left) + Len(right)
        /\ \A i \in 1 .. Len(left) + Len(right) :
              (left \o right)[i] = IF i <= Len(left) THEN left[i] ELSE right[i - Len(left)]
    BY <1>2, <1>3, ConcatProperties
  <2>2. Len(left) + Len(right) = Len(seq) - 1
    BY <1>1, <1>2, <1>3
  <2> QED BY <1>2, <2>1, <2>2
<1>6. ASSUME NEW j \in 1 .. Len(seq) - 1
      PROVE  (left \o right)[j] = IF j < p THEN seq[j] ELSE seq[j + 1]
  <2>1. CASE j < p
    <3>1. j \in 1 .. p - 1 /\ j <= p - 1
      BY <1>1, <2>1
    <3> QED BY <1>2, <1>5, <2>1, <3>1
  <2>2. CASE ~(j < p)
    <3>1. j - (p - 1) \in 1 .. Len(seq) - p /\ p + (j - (p - 1)) = j + 1 /\ ~(j <= p - 1)
      BY <1>1, <2>2
    <3>2. right[j - (p - 1)] = seq[p + (j - (p - 1))]
      BY <1>3, <3>1
    <3> QED BY <1>5, <2>2, <3>1, <3>2
  <2> QED BY <2>1, <2>2
<1> QED BY <1>4, <1>5, <1>6

-----------------------------------------------------------------------------
(***************************************************************************)
(* Erasing: by least counterexample along the places.                      *)
(***************************************************************************)
\* What is left of list after each of the first m erasures.
Leaves(rest, list, places, m) ==
    rest = [n \in 0..m |-> IF n = 0 THEN list ELSE RemoveAt(rest[n - 1], places[n][1])]

LEMMA LeavesExist ==
  ASSUME NEW list, NEW places
  PROVE  \A m \in Nat : \E rest : Leaves(rest, list, places, m)
<1> DEFINE Without == {m \in Nat : ~\E rest : Leaves(rest, list, places, m)}
           m == Min(Without)
<1> SUFFICES ASSUME Without # {} PROVE FALSE
  OBVIOUS
<1>1. m \in Without /\ \A n \in Without : m <= n
  BY MinOfNaturals
<1> HIDE DEF m
<1>2. m \in Nat /\ ~\E rest : Leaves(rest, list, places, m)
  BY <1>1
<1>3. m # 0
  <2>1. Leaves([n \in 0..0 |-> list], list, places, 0)
    BY DEF Leaves
  <2> QED BY <1>2, <2>1
<1>4. m - 1 \in Nat /\ ~(m <= m - 1)
  BY <1>2, <1>3
<1>5. PICK f : Leaves(f, list, places, m - 1)
  BY <1>1, <1>4
<1> DEFINE g == [n \in 0..m |-> IF n < m THEN f[n] ELSE RemoveAt(f[m - 1], places[m][1])]
<1>6. \A n \in 0..m - 1 : f[n] = IF n = 0 THEN list ELSE RemoveAt(f[n - 1], places[n][1])
  BY <1>5 DEF Leaves
<1>7. \A n \in 0..m : g[n] = IF n = 0 THEN list ELSE RemoveAt(g[n - 1], places[n][1])
  BY <1>2, <1>3, <1>6
<1>8. Leaves(g, list, places, m)
  BY <1>7 DEF Leaves
<1> QED BY <1>2, <1>8

LEMMA ErasedInTurn ==
  ASSUME NEW list, NEW places \in Seq((Nat \ {0}) \X Nat)
  PROVE  \E rest : /\ rest[0] = list
                   /\ \A n \in 1..Len(places) : rest[n] = RemoveAt(rest[n - 1], places[n][1])
                   /\ Erased(list, places) = rest[Len(places)]
<1> DEFINE size == Len(places)
           rest == CHOOSE rest : Leaves(rest, list, places, size)
<1>1. size \in Nat
  BY LenProperties
<1>2. Leaves(rest, list, places, size)
  BY <1>1, LeavesExist, Zenon
<1>3. Erased(list, places) = rest[size]
  BY DEF Erased, Leaves
<1> HIDE DEF rest, size
<1>4. rest = [n \in 0..size |-> IF n = 0 THEN list ELSE RemoveAt(rest[n - 1], places[n][1])]
  BY <1>2 DEF Leaves
<1>5. \A n \in 0..size : rest[n] = IF n = 0 THEN list ELSE RemoveAt(rest[n - 1], places[n][1])
  BY <1>4
<1>6. rest[0] = list
  BY <1>1, <1>5
<1>7. \A n \in 1..size : rest[n] = RemoveAt(rest[n - 1], places[n][1])
  BY <1>1, <1>5
<1> QED BY <1>3, <1>6, <1>7 DEF size
\* Whatever stands at a place of out stood at that place of in, or behind it.
Thinned(out, in) == \A j \in 1..Len(out) : \E i \in 1..Len(in) : j <= i /\ out[j] = in[i]

\* No id stands in two places.
Distinct(list) == \A i, j \in 1..Len(list) : list[i] = list[j] => i = j

\* Removing an element thins a list and leaves it distinct.
LEMMA RemovingThins ==
  ASSUME NEW seq \in Seq(Nat), NEW p \in 1..Len(seq)
  PROVE  /\ Thinned(RemoveAt(seq, p), seq)
         /\ Distinct(seq) => Distinct(RemoveAt(seq, p))
<1> DEFINE out == RemoveAt(seq, p)
<1>1. /\ Len(seq) \in Nat /\ Len(out) = Len(seq) - 1
      /\ \A j \in 1 .. Len(seq) - 1 : out[j] = IF j < p THEN seq[j] ELSE seq[j + 1]
  BY RemoveAtFacts, LenProperties
<1> HIDE DEF out
<1> DEFINE from(j) == IF j < p THEN j ELSE j + 1
<1>2. \A j \in 1..Len(out) : /\ from(j) \in 1..Len(seq) /\ j <= from(j)
                             /\ out[j] = seq[from(j)]
  BY <1>1
<1>3. \A i, j \in 1..Len(out) : from(i) = from(j) => i = j
  BY <1>1
<1> HIDE DEF from
<1>4. Thinned(out, seq)
  BY <1>2 DEF Thinned
<1>5. Distinct(seq) => Distinct(out)
  BY <1>2, <1>3 DEF Distinct
<1> QED BY <1>4, <1>5 DEF out

LEMMA ThinnedTwice ==
  ASSUME NEW a \in Seq(Nat), NEW b \in Seq(Nat), NEW c \in Seq(Nat), Thinned(a, b), Thinned(b, c)
  PROVE  Thinned(a, c)
<1> SUFFICES ASSUME NEW j \in 1..Len(a) PROVE \E i \in 1..Len(c) : j <= i /\ a[j] = c[i]
  BY DEF Thinned
<1>1. PICK k \in 1..Len(b) : j <= k /\ a[j] = b[k]
  BY DEF Thinned
<1>2. PICK i \in 1..Len(c) : k <= i /\ b[k] = c[i]
  BY DEF Thinned
<1>3. j <= i
  BY <1>1, <1>2
<1> QED BY <1>1, <1>2, <1>3

\* Every place is before the end of what is left as its turn comes.
InReach(list, places) == \A i \in DOMAIN places : places[i][1] <= Len(list) - (i - 1)

LEMMA ErasedFacts ==
  ASSUME NEW list \in Seq(Nat), NEW places \in Seq((Nat \ {0}) \X Nat), InReach(list, places)
  PROVE  /\ Erased(list, places) \in Seq(Nat)
         /\ Thinned(Erased(list, places), list)
         /\ Distinct(list) => Distinct(Erased(list, places))
         /\ places = << >> => Erased(list, places) = list
<1>1. /\ Len(places) \in Nat /\ DOMAIN places = 1..Len(places) /\ Len(list) \in Nat
      /\ \A i \in 1..Len(places) : places[i] \in (Nat \ {0}) \X Nat
  BY LenProperties, ElementOfSeq
<1>2. PICK rest : /\ rest[0] = list
                  /\ \A n \in 1..Len(places) : rest[n] = RemoveAt(rest[n - 1], places[n][1])
                  /\ Erased(list, places) = rest[Len(places)]
  BY ErasedInTurn
<1> DEFINE Good(n) == /\ rest[n] \in Seq(Nat) /\ Len(rest[n]) = Len(list) - n
                      /\ Thinned(rest[n], list)
                      /\ Distinct(list) => Distinct(rest[n])
           Bad == {n \in 0..Len(places) : ~Good(n)}
<1>3. Good(0)
  <2>1. Thinned(list, list)
    BY <1>1 DEF Thinned
  <2> QED BY <1>1, <1>2, <2>1
<1>4. ASSUME NEW n \in 1..Len(places), Good(n - 1)
      PROVE  Good(n)
  <2>1. rest[n] = RemoveAt(rest[n - 1], places[n][1])
    BY <1>2
  <2>2. places[n][1] \in 1..Len(rest[n - 1])
    <3>1. places[n][1] \in Nat \ {0} /\ places[n][1] <= Len(list) - (n - 1)
      BY <1>1 DEF InReach
    <3> QED BY <1>1, <1>4, <3>1
  <2>3. /\ rest[n] \in Seq(Nat) /\ Len(rest[n]) = Len(rest[n - 1]) - 1
        /\ Thinned(rest[n], rest[n - 1])
        /\ Distinct(rest[n - 1]) => Distinct(rest[n])
    BY <1>4, <2>1, <2>2, RemoveAtFacts, RemovingThins
  <2>4. Thinned(rest[n], list)
    BY <1>4, <2>3, ThinnedTwice
  <2> QED BY <1>1, <1>4, <2>3, <2>4
<1> HIDE DEF Good
<1>5. Bad = {}
  <2> SUFFICES ASSUME Bad # {} PROVE FALSE
    OBVIOUS
  <2> DEFINE n == Min(Bad)
  <2>1. n \in Bad /\ \A m \in Bad : n <= m
    <3>1. Bad \subseteq Nat
      BY <1>1
    <3> QED BY <3>1, MinOfNaturals
  <2> HIDE DEF n
  <2>2. n \in 0..Len(places) /\ ~Good(n)
    BY <2>1
  <2>3. n \in 1..Len(places) /\ n - 1 \in 0..Len(places) /\ ~(n <= n - 1)
    BY <1>1, <1>3, <2>2
  <2>4. Good(n - 1)
    BY <2>1, <2>3
  <2> QED BY <1>4, <2>2, <2>3, <2>4
<1>6. Good(Len(places))
  BY <1>1, <1>5
<1>7. places = << >> => Erased(list, places) = list
  BY <1>2, EmptySeq
<1> QED BY <1>2, <1>6, <1>7 DEF Good
-----------------------------------------------------------------------------
(***************************************************************************)
(* The capacity, by least counterexample along the elements.               *)
(***************************************************************************)
\* What room there is after the n-th element, up to the m-th.
Rooms(room, held, m) ==
    room = [n \in 0..m |-> IF n <= held THEN held
                           ELSE IF n <= room[n - 1] THEN room[n - 1]
                           ELSE IF room[n - 1] = 0 THEN 1 ELSE 2 * room[n - 1]]

LEMMA RoomsExist ==
  ASSUME NEW held \in Nat
  PROVE  \A m \in Nat : \E room : Rooms(room, held, m)
<1> DEFINE Without == {m \in Nat : ~\E room : Rooms(room, held, m)}
           m == Min(Without)
<1> SUFFICES ASSUME Without # {} PROVE FALSE
  OBVIOUS
<1>1. m \in Without /\ \A n \in Without : m <= n
  BY MinOfNaturals
<1> HIDE DEF m
<1>2. m \in Nat /\ ~\E room : Rooms(room, held, m)
  BY <1>1
<1>3. m # 0
  <2>1. Rooms([n \in 0..0 |-> held], held, 0)
    BY DEF Rooms
  <2> QED BY <1>2, <2>1
<1>4. m - 1 \in Nat /\ ~(m <= m - 1)
  BY <1>2, <1>3
<1>5. PICK f : Rooms(f, held, m - 1)
  BY <1>1, <1>4
<1> DEFINE after(r, n) == IF n <= held THEN held
                          ELSE IF n <= r THEN r ELSE IF r = 0 THEN 1 ELSE 2 * r
           g == [n \in 0..m |-> IF n < m THEN f[n] ELSE after(f[m - 1], m)]
<1>6. \A n \in 0..m - 1 : f[n] = after(f[n - 1], n)
  BY <1>5 DEF Rooms
<1>7. \A n \in 0..m : g[n] = after(g[n - 1], n)
  <2> HIDE DEF after
  <2>1. \A n \in 0..m : n < m => g[n] = f[n] /\ (g[n - 1] = f[n - 1] \/ n = 0)
    BY <1>2
  <2>2. \A r : after(r, 0) = held
    BY DEF after
  <2>3. g[m] = after(f[m - 1], m) /\ g[m - 1] = f[m - 1]
    BY <1>2, <1>3
  <2>4. ASSUME NEW n \in 0..m, n < m
        PROVE  g[n] = after(g[n - 1], n)
    <3>1. n \in 0..m - 1 /\ g[n] = f[n]
      BY <1>2, <2>4
    <3>2. CASE n = 0
      BY <1>6, <2>2, <3>1, <3>2
    <3>3. CASE n # 0
      BY <1>6, <2>1, <2>4, <3>1, <3>3
    <3> QED BY <3>2, <3>3
  <2>5. \A n \in 0..m : n < m \/ n = m
    BY <1>2
  <2> QED BY <2>3, <2>4, <2>5
<1>8. Rooms(g, held, m)
  BY <1>7 DEF Rooms
<1> QED BY <1>2, <1>8

\* There is room for what was pushed, and no more room than before if there was
\* enough.
LEMMA GrownFacts ==
  ASSUME capacity \in Nat, NEW size \in Nat
  PROVE  /\ Grown(size) \in Nat /\ size <= Grown(size)
         /\ size <= capacity => Grown(size) = capacity
<1> DEFINE room == CHOOSE room : Rooms(room, capacity, size)
<1>1. Rooms(room, capacity, size)
  BY RoomsExist, Zenon
<1>2. Grown(size) = room[size]
  BY DEF Grown, Rooms
<1> HIDE DEF room
<1>3. \A n \in 0..size : room[n] = IF n <= capacity THEN capacity
                                  ELSE IF n <= room[n - 1] THEN room[n - 1]
                                  ELSE IF room[n - 1] = 0 THEN 1 ELSE 2 * room[n - 1]
  BY <1>1 DEF Rooms
<1> DEFINE Good(n) == room[n] \in Nat /\ n <= room[n]
           Bad == {n \in 0..size : ~Good(n)}
<1>4. Good(0)
  BY <1>3
<1>5. ASSUME NEW n \in 1..size, Good(n - 1)
      PROVE  Good(n)
  BY <1>3, <1>5
<1> HIDE DEF Good
<1>6. Bad = {}
  <2> SUFFICES ASSUME Bad # {} PROVE FALSE
    OBVIOUS
  <2> DEFINE n == Min(Bad)
  <2>1. n \in Bad /\ \A k \in Bad : n <= k
    <3>1. Bad \subseteq Nat
      OBVIOUS
    <3> QED BY <3>1, MinOfNaturals
  <2> HIDE DEF n
  <2>2. n \in 0..size /\ ~Good(n)
    BY <2>1
  <2>3. n \in 1..size /\ n - 1 \in 0..size /\ ~(n <= n - 1)
    BY <1>4, <2>2
  <2>4. Good(n - 1)
    BY <2>1, <2>3
  <2> QED BY <1>5, <2>2, <2>3, <2>4
<1>7. Good(size)
  BY <1>6
<1>8. size <= capacity => room[size] = capacity
  BY <1>3
<1> QED BY <1>2, <1>7, <1>8 DEF Good

-----------------------------------------------------------------------------
(***************************************************************************)
(* What the state is made of, and the kinds of steps.                      *)
(***************************************************************************)
Frame == [at : Nat \ {0}, last : Nat, buffer : Nat, heard : Seq(Nat), owed : SUBSET Nat, old : Nat]

Frames(calls) == {calls[i] : i \in 1..Len(calls)}

Types ==
    /\ subscribers \in Seq(Nat) /\ toSubscribe \in Seq(Nat)
    /\ toUnsubscribe \in Seq((Nat \ {0}) \X Nat)
    /\ capacity \in Nat /\ Len(subscribers) <= capacity
    /\ lastId \in Nat /\ active \subseteq Nat
    /\ isEmitting \in BOOLEAN
    /\ stack \in Seq(Frame)
    /\ \A f \in Frames(stack) : Len(f.heard) = f.at
    /\ \A i \in 1..Len(subscribers) : subscribers[i] <= lastId
    /\ \A i \in 1..Len(toSubscribe) : toSubscribe[i] <= lastId
    /\ \A id \in active : id <= lastId

\* The calls around the innermost one, and that one.
LEMMA StackFacts ==
  ASSUME Types, stack # << >>
  PROVE  /\ Front(stack) \in Seq(Frame) /\ Frames(Front(stack)) \subseteq Frames(stack)
         /\ Top \in Frame /\ Top \in Frames(stack) /\ Len(Top.heard) = Top.at
<1>1. stack \in Seq(Frame) /\ Len(stack) \in Nat \ {0}
  BY EmptySeq, LenProperties DEF Types
<1>2. \A i \in 1..Len(stack) : stack[i] \in Frame
  BY <1>1, ElementOfSeq
<1>3. /\ Front(stack) \in Seq(Frame) /\ Len(Front(stack)) = Len(stack) - 1
      /\ \A i \in 1 .. Len(stack) - 1 : Front(stack)[i] = stack[i]
  <2>1. \A i \in 1 .. Len(stack) - 1 : stack[i] \in Frame
    BY <1>1, <1>2
  <2>2. 1 \in Int /\ Len(stack) - 1 \in Int /\ Len(stack) - 1 - 1 + 1 = Len(stack) - 1
    BY <1>1
  <2> QED BY <1>1, <2>1, <2>2, SubSeqProperties DEF Front
<1>4. Frames(Front(stack)) \subseteq Frames(stack)
  BY <1>1, <1>3 DEF Frames
<1>5. Len(stack) \in 1..Len(stack)
  BY <1>1
<1>6. Top \in Frame /\ Top \in Frames(stack)
  BY <1>2, <1>5 DEF Top, Frames
<1>7. Len(Top.heard) = Top.at
  BY <1>6 DEF Types
<1> QED BY <1>3, <1>4, <1>6, <1>7

\* One call more.
LEMMA PushFacts ==
  ASSUME NEW rest \in Seq(Frame), NEW f \in Frame
  PROVE  /\ Append(rest, f) \in Seq(Frame) /\ Append(rest, f) # << >>
         /\ Frames(Append(rest, f)) = Frames(rest) \cup {f}
<1>1. /\ Append(rest, f) \in Seq(Frame) /\ Append(rest, f) # << >>
      /\ Len(rest) \in Nat /\ Len(Append(rest, f)) = Len(rest) + 1
      /\ Append(rest, f)[Len(rest) + 1] = f
      /\ \A k \in 1..Len(rest) : Append(rest, f)[k] = rest[k]
  BY AppendFacts
<1>2. \A k \in 1 .. Len(rest) + 1 : k \in 1..Len(rest) \/ k = Len(rest) + 1
  BY <1>1
<1>3. \A k \in 1..Len(rest) : k \in 1 .. Len(rest) + 1
  BY <1>1
<1>4. Len(rest) + 1 \in 1 .. Len(rest) + 1
  BY <1>1
<1> QED BY <1>1, <1>2, <1>3, <1>4 DEF Frames

\* The emit that takes its turn: a new one, or the innermost, which goes on.
Begins(rest, f) ==
    /\ rest = stack
    /\ f.at = 1 /\ f.last = Len(subscribers) /\ f.buffer = capacity /\ f.heard = << >>
    /\ f.owed = active \cap Range(subscribers) /\ f.old = lastId

GoesOn(rest, f) ==
    /\ stack # << >> /\ rest = Front(stack)
    /\ f.at = Top.at + 1 /\ f.last = Top.last /\ f.buffer = Top.buffer
    /\ f.heard = Top.heard /\ f.owed = Top.owed /\ f.old = Top.old

\* It calls a subscriber, finds its iterator spoilt, or ends.
Calls(rest, f) ==
    /\ f.at <= f.last /\ f.at <= Len(subscribers)
    /\ \E g \in Frame : /\ stack' = Append(rest, g)
                        /\ g.at = f.at /\ g.last = f.last /\ g.buffer = f.buffer
                        /\ g.owed = f.owed /\ g.old = f.old
                        /\ g.heard = Append(f.heard, subscribers[f.at])
    /\ ~isEmitting' => ~isEmitting
    /\ UNCHANGED << listVars, fault, done >>

Breaks(f) ==
    /\ f.at <= f.last /\ ~(f.buffer = capacity /\ f.at <= Len(subscribers))
    /\ fault' = "wild"
    /\ ~isEmitting' => ~isEmitting
    /\ stack' = stack
    /\ UNCHANGED << listVars, done >>

Ends(rest, f) ==
    /\ f.at > f.last
    /\ End(rest, f)
    /\ UNCHANGED << toSubscribe, toUnsubscribe >>

Turn(rest, f) ==
    /\ rest \in Seq(Frame) /\ f \in Frame /\ Len(f.heard) = f.at - 1
    /\ Frames(rest) \subseteq Frames(stack)
    /\ Begins(rest, f) \/ GoesOn(rest, f)
    /\ Calls(rest, f) \/ Breaks(f) \/ Ends(rest, f)
    /\ isEmitting' \in BOOLEAN
    /\ used \subseteq used'
    /\ UNCHANGED << lastId, active >>

LEMMA VisitTurns ==
  ASSUME Types, NEW rest \in Seq(Frame), NEW f \in Frame, Len(f.heard) = f.at - 1,
         Frames(rest) \subseteq Frames(stack), Begins(rest, f) \/ GoesOn(rest, f),
         Visit(rest, f), used \subseteq used',
         UNCHANGED << toSubscribe, toUnsubscribe, lastId, active >>
  PROVE  Turn(rest, f)
<1>1. f.at \in Nat \ {0} /\ f.last \in Nat /\ f.heard \in Seq(Nat)
  BY DEF Frame
<1>2. isEmitting \in BOOLEAN
  BY DEF Types
<1>3. CASE AtEnd(f)
  <2>1. Ends(rest, f)
    BY <1>3 DEF Visit, AtEnd, Ends
  <2>2. isEmitting' \in BOOLEAN
    BY <2>1 DEF Ends, End, FlagAfter
  <2> QED BY <2>1, <2>2 DEF Turn
<1>4. CASE ~AtEnd(f)
  <2>1. f.at <= f.last
    BY <1>1, <1>4 DEF AtEnd
  <2>2. isEmitting' = (isEmitting \/ f.at = 1)
    BY <1>4 DEF Visit
  <2>3. isEmitting' \in BOOLEAN /\ (~isEmitting' => ~isEmitting)
    BY <1>2, <2>2, Zenon
  <2>4. UNCHANGED << listVars, done >>
    BY <1>4 DEF Visit, listVars
  <2>5. CASE f.buffer = capacity /\ f.at <= Len(subscribers)
    <3> DEFINE g == [f EXCEPT !.heard = Append(@, subscribers[f.at])]
    <3>1. stack' = Append(rest, g) /\ fault' = fault
      BY <1>4, <2>5 DEF Visit
    <3>2. subscribers[f.at] \in Nat
      <4>1. f.at \in 1..Len(subscribers) /\ subscribers \in Seq(Nat)
        BY <1>1, <2>5, LenProperties DEF Types
      <4> QED BY <4>1, ElementOfSeq
    <3>3. Append(f.heard, subscribers[f.at]) \in Seq(Nat)
      BY <1>1, <3>2, AppendFacts
    <3>4. /\ g \in Frame
          /\ g.at = f.at /\ g.last = f.last /\ g.buffer = f.buffer
          /\ g.owed = f.owed /\ g.old = f.old
          /\ g.heard = Append(f.heard, subscribers[f.at])
      BY <3>3 DEF Frame
    <3> HIDE DEF g
    <3>5. Calls(rest, f)
      BY <2>1, <2>3, <2>4, <2>5, <3>1, <3>4 DEF Calls
    <3> QED BY <2>3, <3>5 DEF Turn
  <2>6. CASE ~(f.buffer = capacity /\ f.at <= Len(subscribers))
    <3>1. fault' = "wild" /\ stack' = stack
      BY <1>4, <2>6 DEF Visit
    <3>2. Breaks(f)
      BY <2>1, <2>3, <2>4, <2>6, <3>1 DEF Breaks
    <3> QED BY <2>3, <3>2 DEF Turn
  <2> QED BY <2>5, <2>6
<1> QED BY <1>3, <1>4

LEMMA StepKinds ==
  ASSUME Types, [Next]_vars
  PROVE  \/ Subscribe \/ Throw \/ UNCHANGED vars
         \/ \E id \in active : Unsubscribe(id)
         \/ \E rest, f : Turn(rest, f)
<1>1. ASSUME Emit
      PROVE  \E rest, f : Turn(rest, f)
  <2> DEFINE f == [at |-> 1, last |-> Len(subscribers), buffer |-> capacity, heard |-> << >>,
                   owed |-> active \cap Range(subscribers), old |-> lastId]
  <2>1. f \in Frame /\ Begins(stack, f) /\ Len(f.heard) = f.at - 1
    <3>1. << >> \in Seq(Nat) /\ Len(<< >>) = 0 /\ Len(subscribers) \in Nat
      BY EmptySeq, LenProperties DEF Types
    <3>2. capacity \in Nat /\ lastId \in Nat /\ active \cap Range(subscribers) \in SUBSET Nat
      BY DEF Types
    <3>3. f \in Frame
      BY <3>1, <3>2 DEF Frame
    <3>4. Begins(stack, f)
      BY DEF Begins
    <3> QED BY <3>1, <3>3, <3>4
  <2>2. Visit(stack, f) /\ UNCHANGED << toSubscribe, toUnsubscribe, lastId, active >>
    BY <1>1 DEF Emit
  <2>3. used \subseteq used'
    BY <1>1 DEF Emit, Uses
  <2> HIDE DEF f
  <2>4. stack \in Seq(Frame)
    BY DEF Types
  <2>5. Turn(stack, f)
    BY <2>1, <2>2, <2>3, <2>4, VisitTurns
  <2> QED BY <2>5
<1>2. ASSUME Return
      PROVE  \E rest, f : Turn(rest, f)
  <2> DEFINE f == [Top EXCEPT !.at = @ + 1]
  <2>1. /\ stack # << >> /\ Visit(Front(stack), f)
        /\ UNCHANGED << toSubscribe, toUnsubscribe, lastId, active, used >>
    BY <1>2 DEF Return
  <2>2. /\ Front(stack) \in Seq(Frame) /\ Frames(Front(stack)) \subseteq Frames(stack)
        /\ Top \in Frame /\ Len(Top.heard) = Top.at
    BY <2>1, StackFacts
  <2>3. f \in Frame /\ GoesOn(Front(stack), f) /\ Len(f.heard) = f.at - 1
    <3>1. /\ Top.at \in Nat \ {0} /\ Top.last \in Nat /\ Top.buffer \in Nat
          /\ Top.heard \in Seq(Nat) /\ Top.owed \in SUBSET Nat /\ Top.old \in Nat
      BY <2>2 DEF Frame
    <3>2. /\ f.at = Top.at + 1 /\ f.last = Top.last /\ f.buffer = Top.buffer
          /\ f.heard = Top.heard /\ f.owed = Top.owed /\ f.old = Top.old
      BY <2>2 DEF Frame
    <3>3. Top.at + 1 \in Nat \ {0} /\ Top.at + 1 - 1 = Top.at
      BY <3>1
    <3>4. f \in Frame
      BY <2>2, <3>3 DEF Frame
    <3> HIDE DEF f
    <3>5. GoesOn(Front(stack), f)
      BY <2>1, <3>2 DEF GoesOn
    <3>6. Len(f.heard) = f.at - 1
      BY <2>2, <3>2, <3>3
    <3> QED BY <3>4, <3>5, <3>6
  <2> HIDE DEF f
  <2>4. used \subseteq used'
    BY <2>1
  <2>5. Turn(Front(stack), f)
    BY <2>1, <2>2, <2>3, <2>4, VisitTurns
  <2> QED BY <2>5
<1> QED BY <1>1, <1>2 DEF Next, Terminated
-----------------------------------------------------------------------------
(***************************************************************************)
(* What each step does to the lists.                                       *)
(***************************************************************************)
LEMMA SubscribeFacts ==
  ASSUME Types, Subscribe
  PROVE  /\ lastId' = lastId + 1 /\ active' = active \cup {lastId + 1}
         /\ UNCHANGED << toUnsubscribe, isEmitting, stack, fault, done >>
         /\ used \subseteq used' /\ (stack # << >> => "subscribe" \in used')
         /\ isEmitting => /\ toSubscribe' = Append(toSubscribe, lastId + 1)
                          /\ subscribers' = subscribers /\ capacity' = capacity
         /\ ~isEmitting => /\ subscribers' = Append(subscribers, lastId + 1)
                           /\ capacity' = Grown(Len(subscribers) + 1)
                           /\ toSubscribe' = toSubscribe
<1>1. /\ lastId' = lastId + 1 /\ active' = active \cup {lastId + 1}
      /\ UNCHANGED << toUnsubscribe, isEmitting, stack, fault, done >>
  BY DEF Subscribe, NewId
<1>2. used \subseteq used' /\ (stack # << >> => "subscribe" \in used')
  BY DEF Subscribe, Uses
<1>3. CASE isEmitting
  BY <1>1, <1>2, <1>3 DEF Subscribe, NewId
<1>4. CASE ~isEmitting
  <2>1. subscribers' = Append(subscribers, lastId + 1) /\ toSubscribe' = toSubscribe
    BY <1>4 DEF Subscribe, NewId
  <2>2. Len(subscribers') = Len(subscribers) + 1
    BY <2>1, AppendFacts DEF Types
  <2>3. capacity' = Grown(Len(subscribers) + 1)
    BY <1>4, <2>2 DEF Subscribe
  <2> QED BY <1>1, <1>2, <1>4, <2>1, <2>3
<1> QED BY <1>3, <1>4

LEMMA UnsubscribeFacts ==
  ASSUME Types, NEW id \in active, Unsubscribe(id)
  PROVE  /\ active' = active \ {id}
         /\ UNCHANGED << capacity, toSubscribe, isEmitting, lastId, done >>
         /\ used \subseteq used' /\ (stack # << >> => "unsubscribe" \in used')
         /\ stack' \in Seq(Frame) /\ (stack' = << >> <=> stack = << >>)
         /\ \A g \in Frames(stack') : \E f \in Frames(stack) :
               /\ g.at = f.at /\ g.last = f.last /\ g.buffer = f.buffer /\ g.heard = f.heard
         /\ \/ fault' = "not_found" /\ UNCHANGED << subscribers, toUnsubscribe >>
            \/ /\ ~isEmitting /\ UNCHANGED << toUnsubscribe, fault >>
               /\ \E p \in 1..Len(subscribers) :
                     subscribers[p] = id /\ subscribers' = RemoveAt(subscribers, p)
            \/ /\ isEmitting /\ UNCHANGED << subscribers, fault >>
               /\ toUnsubscribe' \in Seq((Nat \ {0}) \X Nat) /\ toUnsubscribe' # << >>
<1>1. /\ active' = active \ {id}
      /\ UNCHANGED << capacity, toSubscribe, isEmitting, lastId, done >>
  BY DEF Unsubscribe
<1>2. used \subseteq used' /\ (stack # << >> => "unsubscribe" \in used')
  BY DEF Unsubscribe, Uses
<1>3. stack \in Seq(Frame) /\ Len(stack) \in Nat /\ DOMAIN stack = 1..Len(stack)
  BY LenProperties DEF Types
<1>4. stack' = [i \in 1..Len(stack) |-> [stack[i] EXCEPT !.owed = @ \ {id}]]
  BY <1>3 DEF Unsubscribe
<1>5. ASSUME NEW i \in 1..Len(stack)
      PROVE  /\ stack'[i] \in Frame
             /\ stack'[i].at = stack[i].at /\ stack'[i].last = stack[i].last
             /\ stack'[i].buffer = stack[i].buffer /\ stack'[i].heard = stack[i].heard
  <2>1. stack[i] \in Frame
    BY <1>3, ElementOfSeq
  <2>2. stack'[i] = [stack[i] EXCEPT !.owed = @ \ {id}]
    BY <1>4
  <2>3. stack[i].owed \ {id} \in SUBSET Nat
    BY <2>1 DEF Frame
  <2> QED BY <2>1, <2>2, <2>3 DEF Frame
<1>6. stack' \in [1..Len(stack) -> Frame]
  BY <1>4, <1>5
<1>7. stack' \in Seq(Frame) /\ Len(stack') = Len(stack)
  <2>1. stack' \in Seq(Frame)
    BY <1>3, <1>6, SeqDef
  <2>2. DOMAIN stack' = 1..Len(stack) /\ DOMAIN stack' = 1..Len(stack') /\ Len(stack') \in Nat
    BY <1>6, <2>1, LenProperties
  <2> QED BY <1>3, <2>1, <2>2
<1>8. stack' = << >> <=> stack = << >>
  BY <1>3, <1>7, EmptySeq
<1>9. \A g \in Frames(stack') : \E f \in Frames(stack) :
         g.at = f.at /\ g.last = f.last /\ g.buffer = f.buffer /\ g.heard = f.heard
  BY <1>5, <1>7 DEF Frames
<1>10. /\ PlaceOf(id) \in 0..Len(subscribers) /\ Len(subscribers) \in Nat
       /\ PlaceOf(id) # 0 => subscribers[PlaceOf(id)] = id
  BY FirstPlaceFacts, LenProperties DEF PlaceOf, Types
<1>11. \/ fault' = "not_found" /\ UNCHANGED << subscribers, toUnsubscribe >>
       \/ /\ ~isEmitting /\ UNCHANGED << toUnsubscribe, fault >>
          /\ \E p \in 1..Len(subscribers) :
                subscribers[p] = id /\ subscribers' = RemoveAt(subscribers, p)
       \/ /\ isEmitting /\ UNCHANGED << subscribers, fault >>
          /\ toUnsubscribe' \in Seq((Nat \ {0}) \X Nat) /\ toUnsubscribe' # << >>
  <2>1. CASE PlaceOf(id) = 0
    BY <2>1 DEF Unsubscribe
  <2>2. CASE PlaceOf(id) # 0 /\ ~isEmitting
    <3>1. PlaceOf(id) \in 1..Len(subscribers)
      BY <1>10, <2>2
    <3> QED BY <1>10, <2>2, <3>1 DEF Unsubscribe
  <2>3. CASE PlaceOf(id) # 0 /\ isEmitting
    <3>1. << PlaceOf(id), capacity >> \in (Nat \ {0}) \X Nat
      BY <1>10, <2>3 DEF Types
    <3>2. toUnsubscribe' = Append(toUnsubscribe, << PlaceOf(id), capacity >>)
      BY <2>3 DEF Unsubscribe
    <3> DEFINE Place == (Nat \ {0}) \X Nat
    <3>3. toUnsubscribe \in Seq(Place)
      BY DEF Types
    <3> HIDE DEF Place
    <3>4. toUnsubscribe' \in Seq(Place) /\ toUnsubscribe' # << >>
      <4>1. << PlaceOf(id), capacity >> \in Place
        BY <3>1 DEF Place
      <4> QED BY <3>2, <3>3, <4>1, AppendFacts
    <3> QED BY <2>3, <3>4 DEF Unsubscribe, Place
  <2> QED BY <2>1, <2>2, <2>3
<1> QED BY <1>1, <1>2, <1>7, <1>8, <1>9, <1>11

\* apply_changes_: it erases in turn and adds, or runs into what is not there.
LEMMA EndFacts ==
  ASSUME Types, NEW rest, NEW f, Ends(rest, f)
  PROVE  /\ stack' = rest /\ ~isEmitting' /\ UNCHANGED << toSubscribe, toUnsubscribe >>
         /\ done' = [owed |-> f.owed, old |-> f.old, heard |-> f.heard]
         /\ \/ /\ fault' = fault /\ InReach(subscribers, toUnsubscribe)
               /\ subscribers' = Erased(subscribers, toUnsubscribe) \o toSubscribe
               /\ capacity' = Grown(Len(subscribers'))
            \/ fault' = "wild" /\ toUnsubscribe # << >> /\ UNCHANGED << subscribers, capacity >>
<1>1. /\ stack' = rest /\ ~isEmitting' /\ UNCHANGED << toSubscribe, toUnsubscribe >>
      /\ done' = [owed |-> f.owed, old |-> f.old, heard |-> f.heard]
  BY DEF Ends, End, FlagAfter
<1>2. CASE Erasable
  <2>1. InReach(subscribers, toUnsubscribe)
    BY <1>2 DEF Erasable, InReach
  <2>2. subscribers' = Added /\ capacity' = Grown(Len(subscribers')) /\ fault' = fault
    BY <1>2 DEF Ends, End
  <2> QED BY <1>1, <2>1, <2>2 DEF Added
<1>3. CASE ~Erasable
  <2>1. fault' = "wild" /\ UNCHANGED << subscribers, capacity >>
    BY <1>3 DEF Ends, End
  <2>2. toUnsubscribe # << >>
    BY <1>3, EmptySeq DEF Erasable
  <2> QED BY <1>1, <2>1, <2>2
<1> QED BY <1>2, <1>3

\* The list after an end whose changes apply.
LEMMA AddedFacts ==
  ASSUME Types, InReach(subscribers, toUnsubscribe)
  PROVE  /\ Erased(subscribers, toUnsubscribe) \in Seq(Nat)
         /\ Thinned(Erased(subscribers, toUnsubscribe), subscribers)
         /\ Distinct(subscribers) => Distinct(Erased(subscribers, toUnsubscribe))
         /\ toUnsubscribe = << >> => Erased(subscribers, toUnsubscribe) = subscribers
BY ErasedFacts DEF Types
-----------------------------------------------------------------------------
(***************************************************************************)
(* The invariant.                                                          *)
(***************************************************************************)
\* Of two ids the smaller one stands somewhere before any place of the larger.
Arrived(list, ids) ==
    \A i, k \in 1..Len(list) :
        list[i] \in ids /\ list[k] \in ids /\ list[k] < list[i] =>
            \E j \in 1..Len(list) : j < i /\ list[j] = list[k]

\* A call that has called the first n: it still walks over the list it began
\* with, whatever came behind it, and finds there whom it owes.
Owes(f, n) ==
    /\ n <= f.last /\ f.last <= Len(subscribers)
    /\ \A k \in 1..n : f.heard[k] = subscribers[k]
    /\ \A k \in 1..f.last : subscribers[k] <= f.old
    /\ \A id \in f.owed : id \in active /\ \E k \in 1..f.last : subscribers[k] = id

\* What waits has been on the list before.
Back == \A i \in 1..Len(toSubscribe) : toSubscribe[i] \in active =>
            \E j \in 1..Len(subscribers) : subscribers[j] = toSubscribe[i]

\* What waits for the end of an emit comes after all that is on the list, or,
\* having been added by an earlier end, again; without an emit all of it is on
\* the list.
Owing ==
    NoneErased =>
        /\ \A f \in Frames(stack) : Owes(f, f.at)
        /\ Arrived(subscribers \o toSubscribe, active)
        /\ ~isEmitting => Back

\* A call that has called n, none of whom stands at the places to come.
Fresh(f, n) ==
    /\ Distinct(f.heard)
    /\ \A k \in 1..n : \A j \in 1..Len(subscribers) : j > n => f.heard[k] # subscribers[j]

\* As long as no callback subscribes or throws, nobody waits to be added.
Once ==
    used \cap {"subscribe", "throw"} = {} =>
        /\ toSubscribe = << >> /\ Distinct(subscribers)
        /\ stack = << >> => ~isEmitting
        /\ \A f \in Frames(stack) : Fresh(f, f.at)

\* As long as callbacks only emit, nothing changes under the walks.
Nesting ==
    used \subseteq {"emit"} =>
        /\ toSubscribe = << >> /\ toUnsubscribe = << >> /\ fault # "wild"
        /\ stack = << >> => ~isEmitting
        /\ \A f \in Frames(stack) : f.last = Len(subscribers) /\ f.buffer = capacity

IInv ==
    /\ Types /\ Owing /\ Once /\ Nesting
    /\ CallsWhomItOwes /\ OncePerEmit

\* The ids of a list all count up to n.
Known(list, n) == \A i \in 1..Len(list) : list[i] <= n

LEMMA KnownOfAppend ==
  ASSUME NEW list \in Seq(Nat), NEW n \in Nat, Known(list, n)
  PROVE  Known(list, n + 1) /\ Known(Append(list, n + 1), n + 1)
<1>1. /\ Append(list, n + 1) \in Seq(Nat) /\ Len(Append(list, n + 1)) = Len(list) + 1
      /\ Len(list) \in Nat /\ Append(list, n + 1)[Len(list) + 1] = n + 1
      /\ \A k \in 1..Len(list) : Append(list, n + 1)[k] = list[k]
  BY AppendFacts
<1>2. \A i \in 1..Len(list) : list[i] \in Nat /\ list[i] <= n
  BY ElementOfSeq DEF Known
<1>3. Known(list, n + 1)
  BY <1>2 DEF Known
<1>4. \A i \in 1 .. Len(list) + 1 : Append(list, n + 1)[i] <= n + 1
  <2> TAKE i \in 1 .. Len(list) + 1
  <2>1. CASE i = Len(list) + 1
    BY <1>1, <2>1
  <2>2. CASE i # Len(list) + 1
    <3>1. i \in 1..Len(list)
      BY <1>1, <2>2
    <3> QED BY <1>1, <1>2, <3>1
  <2> QED BY <2>1, <2>2
<1> QED BY <1>1, <1>3, <1>4 DEF Known

LEMMA KnownOfThinned ==
  ASSUME NEW a, NEW b, NEW n, Thinned(a, b), Known(b, n)
  PROVE  Known(a, n)
BY DEF Thinned, Known

LEMMA KnownOfConcat ==
  ASSUME NEW a \in Seq(Nat), NEW b \in Seq(Nat), NEW n, Known(a, n), Known(b, n)
  PROVE  Known(a \o b, n)
<1>1. /\ a \o b \in Seq(Nat) /\ Len(a \o b) = Len(a) + Len(b)
      /\ Len(a) \in Nat /\ Len(b) \in Nat
      /\ \A i \in 1 .. Len(a) + Len(b) : (a \o b)[i] = IF i <= Len(a) THEN a[i] ELSE b[i - Len(a)]
  BY ConcatProperties, LenProperties
<1>2. \A i \in 1 .. Len(a) + Len(b) : i <= Len(a) => i \in 1..Len(a)
  BY <1>1
<1>3. \A i \in 1 .. Len(a) + Len(b) : ~(i <= Len(a)) => i - Len(a) \in 1..Len(b)
  BY <1>1
<1> QED BY <1>1, <1>2, <1>3 DEF Known

\* Appending at the end of a list leaves its beginning.
LEMMA ConcatFacts ==
  ASSUME NEW a \in Seq(Nat), NEW b \in Seq(Nat)
  PROVE  /\ a \o b \in Seq(Nat) /\ Len(a) \in Nat /\ Len(b) \in Nat
         /\ Len(a \o b) = Len(a) + Len(b)
         /\ \A i \in 1..Len(a) : (a \o b)[i] = a[i]
         /\ \A i \in 1..Len(b) : (a \o b)[Len(a) + i] = b[i]
         /\ \A i \in 1..Len(a \o b) : i \notin 1..Len(a) => i - Len(a) \in 1..Len(b)
<1>1. /\ a \o b \in Seq(Nat) /\ Len(a \o b) = Len(a) + Len(b)
      /\ Len(a) \in Nat /\ Len(b) \in Nat
      /\ \A i \in 1 .. Len(a) + Len(b) : (a \o b)[i] = IF i <= Len(a) THEN a[i] ELSE b[i - Len(a)]
  BY ConcatProperties, LenProperties
<1>2. \A i \in 1..Len(a) : i \in 1 .. Len(a) + Len(b) /\ i <= Len(a)
  BY <1>1
<1>3. \A i \in 1..Len(b) : /\ Len(a) + i \in 1 .. Len(a) + Len(b) /\ ~(Len(a) + i <= Len(a))
                           /\ Len(a) + i - Len(a) = i
  BY <1>1
<1>4. \A i \in 1 .. Len(a) + Len(b) : i \notin 1..Len(a) => i - Len(a) \in 1..Len(b)
  BY <1>1
<1> QED BY <1>1, <1>2, <1>3, <1>4

LEMMA NextTypes ==
  ASSUME Types, [Next]_vars
  PROVE  Types'
<1>1. /\ subscribers \in Seq(Nat) /\ toSubscribe \in Seq(Nat)
      /\ toUnsubscribe \in Seq((Nat \ {0}) \X Nat)
      /\ capacity \in Nat /\ Len(subscribers) <= capacity /\ Len(subscribers) \in Nat
      /\ lastId \in Nat /\ active \subseteq Nat /\ stack \in Seq(Frame)
      /\ Known(subscribers, lastId) /\ Known(toSubscribe, lastId)
      /\ \A id \in active : id <= lastId
      /\ \A f \in Frames(stack) : Len(f.heard) = f.at
  BY LenProperties DEF Types, Known
<1>2. isEmitting \in BOOLEAN
  BY DEF Types
<1>3. CASE Subscribe
  <2>1. /\ lastId' = lastId + 1 /\ active' = active \cup {lastId + 1}
        /\ UNCHANGED << toUnsubscribe, isEmitting, stack >>
    BY <1>3, SubscribeFacts
  <2>2. lastId' \in Nat /\ active' \subseteq Nat /\ \A id \in active' : id <= lastId'
    BY <1>1, <2>1
  <2>3. CASE isEmitting
    <3>1. /\ toSubscribe' = Append(toSubscribe, lastId + 1)
          /\ subscribers' = subscribers /\ capacity' = capacity
      BY <1>3, <2>3, SubscribeFacts
    <3>2. /\ toSubscribe' \in Seq(Nat) /\ Known(toSubscribe', lastId')
          /\ Known(subscribers', lastId')
      BY <1>1, <2>1, <3>1, KnownOfAppend, AppendFacts
    <3> QED BY <1>1, <1>2, <2>1, <2>2, <3>1, <3>2 DEF Types, Known
  <2>4. CASE ~isEmitting
    <3>1. /\ subscribers' = Append(subscribers, lastId + 1)
          /\ capacity' = Grown(Len(subscribers) + 1) /\ toSubscribe' = toSubscribe
      BY <1>3, <2>4, SubscribeFacts
    <3>2. /\ subscribers' \in Seq(Nat) /\ Known(subscribers', lastId')
          /\ Known(toSubscribe', lastId') /\ Len(subscribers') = Len(subscribers) + 1
      <4>1. subscribers' \in Seq(Nat) /\ Len(subscribers') = Len(subscribers) + 1
        <5>1. lastId + 1 \in Nat
          BY <1>1
        <5> QED BY <1>1, <3>1, <5>1, AppendFacts
      <4>2. Known(subscribers', lastId')
        BY <1>1, <2>1, <3>1, KnownOfAppend
      <4>3. Known(toSubscribe', lastId')
        BY <1>1, <2>1, <3>1, KnownOfAppend
      <4> QED BY <4>1, <4>2, <4>3
    <3>3. capacity' \in Nat /\ Len(subscribers') <= capacity'
      BY <1>1, <3>1, <3>2, GrownFacts
    <3> QED BY <1>1, <1>2, <2>1, <2>2, <3>1, <3>2, <3>3 DEF Types, Known
  <2> QED BY <1>2, <2>3, <2>4
<1>4. ASSUME NEW id \in active, Unsubscribe(id)
      PROVE  Types'
  <2>1. /\ active' = active \ {id}
        /\ UNCHANGED << capacity, toSubscribe, isEmitting, lastId >>
        /\ stack' \in Seq(Frame)
        /\ \A g \in Frames(stack') : \E f \in Frames(stack) : g.at = f.at /\ g.heard = f.heard
    BY <1>4, UnsubscribeFacts
  <2>2. \A g \in Frames(stack') : Len(g.heard) = g.at
    BY <1>1, <2>1
  <2>3. /\ subscribers' \in Seq(Nat) /\ Len(subscribers') <= capacity
        /\ Known(subscribers', lastId)
    <3>1. CASE subscribers' = subscribers
      BY <1>1, <3>1
    <3>2. ASSUME NEW p \in 1..Len(subscribers), subscribers' = RemoveAt(subscribers, p)
          PROVE  /\ subscribers' \in Seq(Nat) /\ Len(subscribers') <= capacity
                 /\ Known(subscribers', lastId)
      <4>1. subscribers' \in Seq(Nat) /\ Len(subscribers') = Len(subscribers) - 1
        BY <1>1, <3>2, RemoveAtFacts
      <4>2. Thinned(subscribers', subscribers)
        BY <1>1, <3>2, RemovingThins
      <4> QED BY <1>1, <4>1, <4>2, KnownOfThinned
    <3> QED BY <1>4, <3>1, <3>2, UnsubscribeFacts
  <2>4. toUnsubscribe' \in Seq((Nat \ {0}) \X Nat)
    BY <1>1, <1>4, UnsubscribeFacts
  <2> QED BY <1>1, <1>2, <2>1, <2>2, <2>3, <2>4 DEF Types, Known
<1>5. CASE Throw
  <2>1. stack' \in Seq(Frame) /\ Frames(stack') \subseteq Frames(stack)
    BY <1>5, StackFacts DEF Throw
  <2>2. UNCHANGED << listVars, isEmitting, lastId, active >>
    BY <1>5 DEF Throw
  <2> QED BY <1>1, <1>2, <2>1, <2>2 DEF Types, listVars
<1>6. ASSUME NEW rest, NEW f, Turn(rest, f)
      PROVE  Types'
  <2>1. /\ rest \in Seq(Frame) /\ f \in Frame /\ Len(f.heard) = f.at - 1
        /\ Frames(rest) \subseteq Frames(stack) /\ lastId' = lastId /\ active' = active
    BY <1>6 DEF Turn
  <2>2. isEmitting' \in BOOLEAN
    BY <1>6 DEF Turn
  <2>3. CASE Calls(rest, f)
    <3>1. PICK g \in Frame : /\ stack' = Append(rest, g) /\ g.at = f.at
                             /\ g.heard = Append(f.heard, subscribers[f.at])
      BY <2>3 DEF Calls
    <3>2. stack' \in Seq(Frame) /\ Frames(stack') = Frames(rest) \cup {g}
      BY <2>1, <3>1, PushFacts
    <3>3. Len(g.heard) = g.at
      <4>1. f.at \in Nat \ {0} /\ f.heard \in Seq(Nat) /\ f.at <= Len(subscribers)
        BY <2>1, <2>3 DEF Frame, Calls
      <4>2. f.at \in 1..Len(subscribers)
        BY <1>1, <4>1
      <4>3. subscribers[f.at] \in Nat
        BY <1>1, <4>2, ElementOfSeq
      <4>4. Len(g.heard) = Len(f.heard) + 1
        BY <3>1, <4>1, <4>3, AppendFacts
      <4> QED BY <2>1, <3>1, <4>1, <4>4
    <3>4. UNCHANGED << subscribers, toSubscribe, toUnsubscribe, capacity >>
      BY <2>3 DEF Calls, listVars
    <3> QED BY <1>1, <2>1, <2>2, <3>2, <3>3, <3>4 DEF Types, Known
  <2>4. CASE Breaks(f)
    BY <1>1, <2>1, <2>2, <2>4 DEF Breaks, listVars, Types, Known
  <2>5. CASE Ends(rest, f)
    <3>1. stack' = rest /\ UNCHANGED << toSubscribe, toUnsubscribe >>
      BY <2>5, EndFacts
    <3>2. /\ subscribers' \in Seq(Nat) /\ Known(subscribers', lastId)
          /\ capacity' \in Nat /\ Len(subscribers') <= capacity'
      <4>1. CASE UNCHANGED << subscribers, capacity >>
        BY <1>1, <4>1
      <4>2. CASE /\ InReach(subscribers, toUnsubscribe) /\ capacity' = Grown(Len(subscribers'))
                 /\ subscribers' = Erased(subscribers, toUnsubscribe) \o toSubscribe
        <5> DEFINE left == Erased(subscribers, toUnsubscribe)
        <5>1. left \in Seq(Nat) /\ Thinned(left, subscribers)
          BY <4>2, AddedFacts
        <5> HIDE DEF left
        <5>2. Known(left, lastId)
          BY <1>1, <5>1, KnownOfThinned
        <5>3. subscribers' = left \o toSubscribe
          BY <4>2 DEF left
        <5>4. subscribers' \in Seq(Nat) /\ Known(subscribers', lastId)
          BY <1>1, <5>1, <5>2, <5>3, KnownOfConcat, ConcatFacts
        <5>5. Len(subscribers') \in Nat
          BY <5>4, LenProperties
        <5>6. capacity' \in Nat /\ Len(subscribers') <= capacity'
          BY <1>1, <4>2, <5>5, GrownFacts
        <5> QED BY <5>4, <5>6
      <4> QED BY <2>5, <4>1, <4>2, EndFacts
    <3> QED BY <1>1, <2>1, <2>2, <3>1, <3>2 DEF Types, Known
  <2> QED BY <1>6, <2>3, <2>4, <2>5 DEF Turn
<1>7. CASE UNCHANGED vars
  BY <1>1, <1>2, <1>7 DEF vars, listVars, Types, Known
<1> QED BY <1>3, <1>4, <1>5, <1>6, <1>7, StepKinds
-----------------------------------------------------------------------------
(***************************************************************************)
(* Nested emits.                                                           *)
(***************************************************************************)
\* The history of what callbacks do only grows.
LEMMA NextUsed ==
  ASSUME Types, [Next]_vars
  PROVE  used \subseteq used'
<1>1. CASE Subscribe
  BY <1>1, SubscribeFacts
<1>2. ASSUME NEW id \in active, Unsubscribe(id)
      PROVE  used \subseteq used'
  BY <1>2, UnsubscribeFacts
<1>3. CASE Throw
  BY <1>3 DEF Throw, Uses
<1>4. ASSUME NEW rest, NEW f, Turn(rest, f)
      PROVE  used \subseteq used'
  BY <1>4 DEF Turn
<1>5. CASE UNCHANGED vars
  BY <1>5 DEF vars
<1> QED BY <1>1, <1>2, <1>3, <1>4, <1>5, StepKinds

\* A throwing callback leaves a mark.
LEMMA ThrowFacts ==
  ASSUME Types, Throw
  PROVE  /\ stack # << >> /\ "throw" \in used'
         /\ Frames(stack') \subseteq Frames(stack)
         /\ UNCHANGED << listVars, isEmitting, fault, lastId, active, done >>
BY StackFacts DEF Throw, Uses

LEMMA NoFrames == Frames(<< >>) = {}
BY EmptySeq DEF Frames

LEMMA NextNesting ==
  ASSUME Types, Nesting, [Next]_vars
  PROVE  Nesting'
<1> SUFFICES ASSUME used' \subseteq {"emit"}
             PROVE  /\ toSubscribe' = << >> /\ toUnsubscribe' = << >> /\ fault' # "wild"
                    /\ stack' = << >> => ~isEmitting'
                    /\ \A f \in Frames(stack') : f.last = Len(subscribers') /\ f.buffer = capacity'
  BY DEF Nesting
<1>1. /\ toSubscribe = << >> /\ toUnsubscribe = << >> /\ fault # "wild"
      /\ stack = << >> => ~isEmitting
      /\ \A f \in Frames(stack) : f.last = Len(subscribers) /\ f.buffer = capacity
  BY NextUsed DEF Nesting
<1>2. CASE Subscribe
  <2>1. stack = << >> /\ ~isEmitting
    BY <1>1, <1>2, SubscribeFacts
  <2>2. UNCHANGED << toSubscribe, toUnsubscribe, fault, stack, isEmitting >>
    BY <1>2, <2>1, SubscribeFacts
  <2> QED BY <1>1, <2>1, <2>2, NoFrames
<1>3. ASSUME NEW id \in active, Unsubscribe(id)
      PROVE  /\ toSubscribe' = << >> /\ toUnsubscribe' = << >> /\ fault' # "wild"
             /\ stack' = << >> /\ ~isEmitting'
  <2>1. stack = << >> /\ ~isEmitting
    BY <1>1, <1>3, UnsubscribeFacts
  <2>2. stack' = << >> /\ UNCHANGED << toSubscribe, isEmitting >>
    BY <1>3, <2>1, UnsubscribeFacts
  <2>3. toUnsubscribe' = toUnsubscribe /\ (fault' = fault \/ fault' = "not_found")
    BY <1>3, <2>1, UnsubscribeFacts
  <2> QED BY <1>1, <2>1, <2>2, <2>3
<1>4. CASE Throw
  BY <1>4, ThrowFacts
<1>5. ASSUME NEW rest, NEW f, Turn(rest, f)
      PROVE  /\ toSubscribe' = << >> /\ toUnsubscribe' = << >> /\ fault' # "wild"
             /\ stack' = << >> => ~isEmitting'
             /\ \A g \in Frames(stack') : g.last = Len(subscribers') /\ g.buffer = capacity'
  <2>1. /\ rest \in Seq(Frame) /\ f \in Frame /\ Frames(rest) \subseteq Frames(stack)
        /\ Begins(rest, f) \/ GoesOn(rest, f)
    BY <1>5 DEF Turn
  <2>2. f.last = Len(subscribers) /\ f.buffer = capacity
    BY <1>1, <2>1, StackFacts DEF Begins, GoesOn
  <2>3. CASE Calls(rest, f)
    <3>1. PICK g \in Frame : /\ stack' = Append(rest, g)
                             /\ g.last = f.last /\ g.buffer = f.buffer
      BY <2>3 DEF Calls
    <3>2. stack' # << >> /\ Frames(stack') = Frames(rest) \cup {g}
      BY <2>1, <3>1, PushFacts
    <3>3. UNCHANGED << subscribers, capacity, toSubscribe, toUnsubscribe, fault >>
      BY <2>3 DEF Calls, listVars
    <3> QED BY <1>1, <2>1, <2>2, <3>1, <3>2, <3>3
  <2>4. CASE Breaks(f)
    BY <2>2, <2>4 DEF Breaks
  <2>5. CASE Ends(rest, f)
    <3>1. stack' = rest /\ ~isEmitting' /\ UNCHANGED << toSubscribe, toUnsubscribe >>
      BY <2>5, EndFacts
    <3>2. /\ fault' = fault /\ InReach(subscribers, toUnsubscribe)
          /\ subscribers' = Erased(subscribers, toUnsubscribe) \o toSubscribe
          /\ capacity' = Grown(Len(subscribers'))
      BY <1>1, <2>5, EndFacts
    <3>3. subscribers \in Seq(Nat) /\ capacity \in Nat /\ Len(subscribers) <= capacity
      BY DEF Types
    <3>4. subscribers' = subscribers
      BY <1>1, <3>2, <3>3, AddedFacts, ConcatEmptySeq
    <3>5. capacity' = capacity
      <4>1. Len(subscribers) \in Nat
        BY <3>3, LenProperties
      <4> QED BY <3>2, <3>3, <3>4, <4>1, GrownFacts
    <3> QED BY <1>1, <2>1, <3>1, <3>2, <3>4, <3>5
  <2> QED BY <1>5, <2>3, <2>4, <2>5 DEF Turn
<1>6. CASE UNCHANGED vars
  BY <1>1, <1>6 DEF vars, listVars
<1> QED BY <1>2, <1>3, <1>4, <1>5, <1>6, StepKinds, NoFrames
-----------------------------------------------------------------------------
(***************************************************************************)
(* Nobody twice.                                                           *)
(***************************************************************************)
LEMMA DistinctOfNew ==
  ASSUME NEW list \in Seq(Nat), NEW n \in Nat, Known(list, n), Distinct(list)
  PROVE  Distinct(Append(list, n + 1))
<1>1. /\ Append(list, n + 1) \in Seq(Nat) /\ Len(Append(list, n + 1)) = Len(list) + 1
      /\ Len(list) \in Nat /\ Append(list, n + 1)[Len(list) + 1] = n + 1
      /\ \A k \in 1..Len(list) : Append(list, n + 1)[k] = list[k]
  BY AppendFacts
<1>2. \A i \in 1..Len(list) : list[i] \in Nat /\ list[i] <= n /\ list[i] # n + 1
  BY ElementOfSeq DEF Known
<1>3. \A i \in 1 .. Len(list) + 1 : i \in 1..Len(list) \/ i = Len(list) + 1
  BY <1>1
<1> QED BY <1>1, <1>2, <1>3 DEF Distinct

\* A walk stays fresh when what is ahead of it moves forward.
LEMMA FreshOfThinned ==
  ASSUME NEW f, NEW g, NEW n \in Nat, g.heard = f.heard, Fresh(f, n),
         subscribers' \in Seq(Nat), subscribers \in Seq(Nat),
         Thinned(subscribers', subscribers)
  PROVE  Fresh(g, n)'
<1>1. Distinct(g.heard)
  BY DEF Fresh, Distinct
<1>2. ASSUME NEW k \in 1..n, NEW j \in 1..Len(subscribers'), j > n
      PROVE  g.heard[k] # subscribers'[j]
  <2>1. PICK i \in 1..Len(subscribers) : j <= i /\ subscribers'[j] = subscribers[i]
    BY DEF Thinned
  <2>2. i > n
    BY <1>2, <2>1
  <2> QED BY <2>1, <2>2 DEF Fresh
<1> QED BY <1>1, <1>2 DEF Fresh

LEMMA ThinnedItself ==
  ASSUME NEW list \in Seq(Nat)
  PROVE  Thinned(list, list)
BY LenProperties DEF Thinned

\* The call that takes its turn.
LEMMA FreshTurn ==
  ASSUME Types, NEW rest, NEW f, Turn(rest, f), \A g \in Frames(stack) : Fresh(g, g.at)
  PROVE  Fresh(f, f.at - 1)
<1>1. CASE Begins(rest, f)
  <2>1. f.heard = << >> /\ f.at - 1 = 0
    BY <1>1 DEF Begins
  <2> QED BY <2>1, EmptySeq DEF Fresh, Distinct
<1>2. CASE GoesOn(rest, f)
  <2>1. stack # << >> /\ f.heard = Top.heard /\ f.at = Top.at + 1
    BY <1>2 DEF GoesOn
  <2>2. Fresh(Top, Top.at) /\ Top \in Frame
    BY <2>1, StackFacts
  <2>3. f.at - 1 = Top.at
    BY <2>1, <2>2 DEF Frame
  <2> QED BY <2>1, <2>2, <2>3 DEF Fresh
<1> QED BY <1>1, <1>2 DEF Turn

\* Whom it calls has not been called, and stands nowhere further on.
LEMMA FreshCall ==
  ASSUME Types, Distinct(subscribers), NEW rest, NEW f, Turn(rest, f), Fresh(f, f.at - 1),
         NEW g \in Frame, g.at = f.at, g.heard = Append(f.heard, subscribers[f.at]),
         f.at <= Len(subscribers), subscribers' = subscribers
  PROVE  Fresh(g, g.at)'
<1> DEFINE n == f.at - 1
           last == subscribers[f.at]
<1>1. f.at \in Nat \ {0} /\ f.heard \in Seq(Nat) /\ Len(f.heard) = n
  BY DEF Turn, Frame
<1>2. n \in Nat /\ n + 1 = f.at /\ f.at \in 1..Len(subscribers)
  BY <1>1
<1>3. last \in Nat
  BY <1>2, ElementOfSeq DEF Types
<1>4. /\ g.heard \in Seq(Nat) /\ Len(g.heard) = n + 1 /\ g.heard[n + 1] = last
      /\ \A k \in 1..n : g.heard[k] = f.heard[k]
  BY <1>1, <1>3, AppendFacts
<1>5. /\ Distinct(f.heard)
      /\ \A k \in 1..n : \A j \in 1..Len(subscribers) : j > n => f.heard[k] # subscribers[j]
  BY DEF Fresh
<1>6. f.at > n
  BY <1>2
<1>7. \A j \in 1..Len(subscribers) : j > f.at => j > n /\ last # subscribers[j]
  BY <1>2 DEF Distinct
<1>8. \A k \in 1..n : f.heard[k] # last
  BY <1>2, <1>5, <1>6
<1> HIDE DEF n, last
<1>9. \A k \in 1 .. n + 1 : k \in 1..n \/ k = n + 1
  BY <1>2
<1>10. Distinct(g.heard)
  BY <1>1, <1>4, <1>5, <1>8, <1>9 DEF Distinct
<1>11. \A k \in 1..f.at : \A j \in 1..Len(subscribers) : j > f.at => g.heard[k] # subscribers[j]
  BY <1>2, <1>4, <1>5, <1>7, <1>9
<1>12. Distinct(g.heard)'
  BY <1>10 DEF Distinct
<1> QED BY <1>11, <1>12 DEF Fresh

LEMMA NextOnce ==
  ASSUME Types, Once, OncePerEmit, [Next]_vars
  PROVE  Once' /\ OncePerEmit'
<1> SUFFICES ASSUME used' \cap {"subscribe", "throw"} = {}
             PROVE  /\ toSubscribe' = << >> /\ Distinct(subscribers)'
                    /\ stack' = << >> => ~isEmitting'
                    /\ \A f \in Frames(stack') : Fresh(f, f.at)'
                    /\ done' # << >> => IsInjective(done'.heard)
  BY DEF Once, OncePerEmit
<1>1. /\ toSubscribe = << >> /\ Distinct(subscribers)
      /\ stack = << >> => ~isEmitting
      /\ \A f \in Frames(stack) : Fresh(f, f.at)
      /\ done # << >> => IsInjective(done.heard)
  BY NextUsed DEF Once, OncePerEmit
<1>2. subscribers \in Seq(Nat) /\ Known(subscribers, lastId) /\ lastId \in Nat
  BY DEF Types, Known
<1>3. CASE Subscribe
  <2>1. stack = << >> /\ ~isEmitting
    BY <1>1, <1>3, SubscribeFacts
  <2>2. /\ UNCHANGED << toSubscribe, stack, isEmitting, done >>
        /\ subscribers' = Append(subscribers, lastId + 1)
    BY <1>3, <2>1, SubscribeFacts
  <2>3. Distinct(subscribers)'
    BY <1>1, <1>2, <2>2, DistinctOfNew DEF Distinct
  <2> QED BY <1>1, <2>1, <2>2, <2>3, NoFrames
<1>4. ASSUME NEW id \in active, Unsubscribe(id)
      PROVE  /\ toSubscribe' = << >> /\ Distinct(subscribers)'
             /\ stack' = << >> => ~isEmitting'
             /\ \A g \in Frames(stack') : Fresh(g, g.at)'
             /\ done' # << >> => IsInjective(done'.heard)
  <2>1. UNCHANGED << toSubscribe, isEmitting, done >> /\ (stack' = << >> <=> stack = << >>)
    BY <1>4, UnsubscribeFacts
  <2>2. /\ subscribers' \in Seq(Nat) /\ Thinned(subscribers', subscribers)
        /\ Distinct(subscribers)'
    <3>1. CASE subscribers' = subscribers
      BY <1>1, <1>2, <3>1, ThinnedItself DEF Distinct
    <3>2. ASSUME NEW p \in 1..Len(subscribers), subscribers' = RemoveAt(subscribers, p)
          PROVE  /\ subscribers' \in Seq(Nat) /\ Thinned(subscribers', subscribers)
                 /\ Distinct(subscribers')
      BY <1>1, <1>2, <3>2, RemoveAtFacts, RemovingThins
    <3>3. Distinct(subscribers') => Distinct(subscribers)'
      BY DEF Distinct
    <3> QED BY <1>4, <3>1, <3>2, <3>3, UnsubscribeFacts
  <2>3. ASSUME NEW g \in Frames(stack')
        PROVE  Fresh(g, g.at)'
    <3>1. PICK f \in Frames(stack) : g.at = f.at /\ g.heard = f.heard
      BY <1>4, UnsubscribeFacts
    <3>2. f \in Frame
      BY ElementOfSeq, LenProperties DEF Types, Frames
    <3>3. f.at \in Nat
      BY <3>2 DEF Frame
    <3>4. Fresh(g, f.at)'
      BY <1>1, <1>2, <2>2, <3>1, <3>3, FreshOfThinned
    <3> QED BY <3>1, <3>4 DEF Fresh
  <2> QED BY <1>1, <2>1, <2>2, <2>3
<1>5. CASE Throw
  BY <1>5, ThrowFacts
<1>6. ASSUME NEW rest, NEW f, Turn(rest, f)
      PROVE  /\ toSubscribe' = << >> /\ Distinct(subscribers)'
             /\ stack' = << >> => ~isEmitting'
             /\ \A g \in Frames(stack') : Fresh(g, g.at)'
             /\ done' # << >> => IsInjective(done'.heard)
  <2>1. /\ rest \in Seq(Frame) /\ f \in Frame /\ Frames(rest) \subseteq Frames(stack)
        /\ Begins(rest, f) \/ GoesOn(rest, f)
        /\ Len(f.heard) = f.at - 1
    BY <1>6 DEF Turn
  <2>2. Fresh(f, f.at - 1)
    BY <1>1, <1>6, FreshTurn
  <2>3. CASE Calls(rest, f)
    <3>1. PICK g \in Frame : /\ stack' = Append(rest, g) /\ g.at = f.at
                             /\ g.heard = Append(f.heard, subscribers[f.at])
      BY <2>3 DEF Calls
    <3>2. stack' # << >> /\ Frames(stack') = Frames(rest) \cup {g}
      BY <2>1, <3>1, PushFacts
    <3>3. UNCHANGED << subscribers, toSubscribe, done >> /\ f.at <= Len(subscribers)
      BY <2>3 DEF Calls, listVars
    <3>4. Fresh(g, g.at)'
      BY <1>1, <1>6, <2>2, <3>1, <3>3, FreshCall
    <3>5. ASSUME NEW h \in Frames(rest)
          PROVE  Fresh(h, h.at)'
      BY <1>1, <2>1, <3>3 DEF Fresh, Distinct
    <3>6. Distinct(subscribers)'
      BY <1>1, <3>3 DEF Distinct
    <3> QED BY <1>1, <3>2, <3>3, <3>4, <3>5, <3>6
  <2>4. CASE Breaks(f)
    <3>1. stack # << >>
      BY <2>1, <2>4 DEF Breaks, Begins, GoesOn
    <3>2. stack' = stack /\ UNCHANGED << subscribers, toSubscribe, done >>
      BY <2>4 DEF Breaks, listVars
    <3>3. ASSUME NEW h \in Frames(stack)
          PROVE  Fresh(h, h.at)'
      BY <1>1, <3>2 DEF Fresh, Distinct
    <3>4. Distinct(subscribers)'
      BY <1>1, <3>2 DEF Distinct
    <3> QED BY <1>1, <3>1, <3>2, <3>3, <3>4
  <2>5. CASE Ends(rest, f)
    <3>1. /\ stack' = rest /\ ~isEmitting' /\ toSubscribe' = toSubscribe
          /\ done' = [owed |-> f.owed, old |-> f.old, heard |-> f.heard]
      BY <2>5, EndFacts
    <3>2. /\ subscribers' \in Seq(Nat) /\ Thinned(subscribers', subscribers)
          /\ Distinct(subscribers')
      <4>1. CASE subscribers' = subscribers
        BY <1>1, <1>2, <4>1, ThinnedItself
      <4>2. CASE /\ InReach(subscribers, toUnsubscribe)
                 /\ subscribers' = Erased(subscribers, toUnsubscribe) \o toSubscribe
        <5>1. /\ Erased(subscribers, toUnsubscribe) \in Seq(Nat)
              /\ Thinned(Erased(subscribers, toUnsubscribe), subscribers)
              /\ Distinct(Erased(subscribers, toUnsubscribe))
          BY <1>1, <4>2, AddedFacts
        <5>2. subscribers' = Erased(subscribers, toUnsubscribe)
          BY <1>1, <4>2, <5>1, ConcatEmptySeq
        <5> QED BY <5>1, <5>2
      <4> QED BY <2>5, <4>1, <4>2, EndFacts
    <3>3. ASSUME NEW h \in Frames(rest)
          PROVE  Fresh(h, h.at)'
      <4>1. h \in Frames(stack)
        BY <2>1
      <4>2. h \in Frame
        BY <4>1, ElementOfSeq, LenProperties DEF Types, Frames
      <4>3. h.at \in Nat
        BY <4>2 DEF Frame
      <4> QED BY <1>1, <1>2, <3>2, <4>1, <4>3, FreshOfThinned
    <3>4. IsInjective(done'.heard)
      <4>1. done'.heard = f.heard /\ Distinct(f.heard)
        BY <2>2, <3>1 DEF Fresh
      <4>2. DOMAIN f.heard = 1..Len(f.heard)
        BY <2>1, LenProperties DEF Frame
      <4> QED BY <4>1, <4>2 DEF IsInjective, Distinct
    <3>5. Distinct(subscribers)'
      BY <3>2 DEF Distinct
    <3> QED BY <1>1, <3>1, <3>3, <3>4, <3>5
  <2> QED BY <1>6, <2>3, <2>4, <2>5 DEF Turn
<1>7. CASE UNCHANGED vars
  <2>1. UNCHANGED << subscribers, toSubscribe, isEmitting, stack, done >>
    BY <1>7 DEF vars, listVars
  <2> QED BY <1>1, <2>1 DEF Fresh, Distinct
<1> QED BY <1>3, <1>4, <1>5, <1>6, <1>7, StepKinds
-----------------------------------------------------------------------------
(***************************************************************************)
(* In the order they arrived.                                              *)
(***************************************************************************)
\* A newcomer at the end.
LEMMA ArrivedOfNew ==
  ASSUME NEW list \in Seq(Nat), NEW n \in Nat, NEW ids, Known(list, n), Arrived(list, ids)
  PROVE  Arrived(Append(list, n + 1), ids \cup {n + 1})
<1> DEFINE more == Append(list, n + 1)
<1>1. /\ Len(more) = Len(list) + 1 /\ Len(list) \in Nat /\ more[Len(list) + 1] = n + 1
      /\ \A k \in 1..Len(list) : more[k] = list[k]
  BY AppendFacts
<1>2. \A i \in 1..Len(list) : list[i] \in Nat /\ list[i] <= n /\ list[i] # n + 1
  BY ElementOfSeq DEF Known
<1> HIDE DEF more
<1>3. ASSUME NEW i \in 1..Len(more), NEW k \in 1..Len(more),
             more[i] \in ids \cup {n + 1}, more[k] \in ids \cup {n + 1}, more[k] < more[i]
      PROVE  \E j \in 1..Len(more) : j < i /\ more[j] = more[k]
  <2>1. k \in 1..Len(list)
    <3>1. CASE k = Len(list) + 1
      <4>1. more[i] <= n + 1 /\ more[i] \in Nat
        BY <1>1, <1>2
      <4> QED BY <1>1, <1>3, <3>1, <4>1
    <3> QED BY <1>1, <3>1
  <2>2. CASE i = Len(list) + 1
    BY <1>1, <2>1, <2>2
  <2>3. CASE i # Len(list) + 1
    <3>1. i \in 1..Len(list)
      BY <1>1, <2>3
    <3>2. list[i] \in ids /\ list[k] \in ids /\ list[k] < list[i]
      BY <1>1, <1>2, <1>3, <2>1, <3>1
    <3>3. PICK j \in 1..Len(list) : j < i /\ list[j] = list[k]
      BY <2>1, <3>1, <3>2 DEF Arrived
    <3> QED BY <1>1, <2>1, <3>3
  <2> QED BY <2>2, <2>3
<1> QED BY <1>3 DEF Arrived, more

\* The beginning of a list.
LEMMA ArrivedOfPrefix ==
  ASSUME NEW a \in Seq(Nat), NEW b \in Seq(Nat), NEW ids, Arrived(a \o b, ids)
  PROVE  Arrived(a, ids)
<1> DEFINE all == a \o b
<1>1. /\ Len(a) \in Nat /\ Len(b) \in Nat /\ Len(all) = Len(a) + Len(b)
      /\ \A i \in 1..Len(a) : all[i] = a[i]
  BY ConcatFacts
<1>2. Arrived(all, ids)
  OBVIOUS
<1> HIDE DEF all
<1>3. ASSUME NEW i \in 1..Len(a), NEW k \in 1..Len(a), a[i] \in ids, a[k] \in ids, a[k] < a[i]
      PROVE  \E j \in 1..Len(a) : j < i /\ a[j] = a[k]
  <2>1. i \in 1..Len(all) /\ k \in 1..Len(all) /\ all[i] = a[i] /\ all[k] = a[k]
    BY <1>1
  <2>2. PICK j \in 1..Len(all) : j < i /\ all[j] = all[k]
    BY <1>2, <1>3, <2>1 DEF Arrived
  <2>3. j \in 1..Len(a)
    BY <1>1, <2>2
  <2> QED BY <1>1, <2>1, <2>2, <2>3
<1> QED BY <1>3 DEF Arrived

\* What stands on the list already may be added again.
LEMMA ArrivedOfRepeated ==
  ASSUME NEW a \in Seq(Nat), NEW b \in Seq(Nat), NEW ids, Arrived(a, ids),
         \A i \in 1..Len(b) : b[i] \in ids => \E j \in 1..Len(a) : a[j] = b[i]
  PROVE  Arrived(a \o b, ids)
<1> DEFINE all == a \o b
<1>1. /\ Len(a) \in Nat /\ Len(b) \in Nat /\ Len(all) = Len(a) + Len(b)
      /\ \A i \in 1..Len(a) : all[i] = a[i]
      /\ \A i \in 1..Len(b) : all[Len(a) + i] = b[i]
      /\ \A i \in 1..Len(all) : i \notin 1..Len(a) => i - Len(a) \in 1..Len(b)
  BY ConcatFacts
<1> HIDE DEF all
<1>2. ASSUME NEW k \in 1..Len(all), all[k] \in ids
      PROVE  \E j \in 1..Len(a) : a[j] = all[k]
  <2>1. CASE k \in 1..Len(a)
    BY <1>1, <2>1
  <2>2. CASE k \notin 1..Len(a)
    <3>1. k - Len(a) \in 1..Len(b) /\ Len(a) + (k - Len(a)) = k
      BY <1>1, <2>2
    <3>2. all[k] = b[k - Len(a)]
      BY <1>1, <3>1
    <3> QED BY <1>2, <3>1, <3>2
  <2> QED BY <2>1, <2>2
<1>3. ASSUME NEW i \in 1..Len(all), NEW k \in 1..Len(all),
             all[i] \in ids, all[k] \in ids, all[k] < all[i]
      PROVE  \E j \in 1..Len(all) : j < i /\ all[j] = all[k]
  <2>1. PICK k2 \in 1..Len(a) : a[k2] = all[k]
    BY <1>2, <1>3
  <2>2. CASE i \in 1..Len(a)
    <3>1. a[i] \in ids /\ a[k2] \in ids /\ a[k2] < a[i]
      BY <1>1, <1>3, <2>1, <2>2
    <3>2. PICK j \in 1..Len(a) : j < i /\ a[j] = a[k2]
      BY <2>1, <2>2, <3>1 DEF Arrived
    <3>3. j \in 1..Len(all) /\ all[j] = a[j]
      BY <1>1
    <3> QED BY <2>1, <3>2, <3>3
  <2>3. CASE i \notin 1..Len(a)
    <3>1. k2 < i /\ k2 \in 1..Len(all) /\ all[k2] = a[k2]
      BY <1>1, <2>3
    <3> QED BY <2>1, <3>1
  <2> QED BY <2>2, <2>3
<1> QED BY <1>3 DEF Arrived, all

\* Removing an id from the list, and from those that count.
LEMMA ArrivedOfRemoved ==
  ASSUME NEW list \in Seq(Nat), NEW p \in 1..Len(list), NEW ids, Arrived(list, ids)
  PROVE  Arrived(RemoveAt(list, p), ids \ {list[p]})
<1> DEFINE out == RemoveAt(list, p)
           from(j) == IF j < p THEN j ELSE j + 1
           to(j) == IF j < p THEN j ELSE j - 1
<1>1. /\ Len(list) \in Nat /\ Len(out) = Len(list) - 1
      /\ \A j \in 1 .. Len(list) - 1 : out[j] = IF j < p THEN list[j] ELSE list[j + 1]
  BY RemoveAtFacts, LenProperties
<1> HIDE DEF out
<1>2. \A j \in 1..Len(out) : from(j) \in 1..Len(list) /\ out[j] = list[from(j)]
  BY <1>1
<1>3. \A j \in 1..Len(list) : j # p =>
         /\ to(j) \in 1..Len(out) /\ out[to(j)] = list[j]
         /\ \A i \in 1..Len(out) : j < from(i) => to(j) < i
  BY <1>1
<1> HIDE DEF from, to
<1>4. ASSUME NEW i \in 1..Len(out), NEW k \in 1..Len(out),
             out[i] \in ids \ {list[p]}, out[k] \in ids \ {list[p]}, out[k] < out[i]
      PROVE  \E j \in 1..Len(out) : j < i /\ out[j] = out[k]
  <2>1. PICK j \in 1..Len(list) : j < from(i) /\ list[j] = list[from(k)]
    BY <1>2, <1>4 DEF Arrived
  <2>2. j # p
    BY <1>2, <1>4, <2>1
  <2>3. to(j) \in 1..Len(out) /\ to(j) < i /\ out[to(j)] = out[k]
    BY <1>2, <1>3, <2>1, <2>2
  <2> QED BY <2>3
<1> QED BY <1>4 DEF Arrived, out

\* Removing an element of the first of two lists.
LEMMA RemovedOfConcat ==
  ASSUME NEW a \in Seq(Nat), NEW b \in Seq(Nat), NEW p \in 1..Len(a)
  PROVE  /\ p \in 1..Len(a \o b) /\ (a \o b)[p] = a[p]
         /\ RemoveAt(a, p) \o b = RemoveAt(a \o b, p)
<1> DEFINE all == a \o b
           less == RemoveAt(a, p)
           left == less \o b
           right == RemoveAt(all, p)
<1>1. /\ all \in Seq(Nat) /\ Len(a) \in Nat /\ Len(b) \in Nat /\ Len(all) = Len(a) + Len(b)
      /\ \A i \in 1..Len(a) : all[i] = a[i]
      /\ \A i \in 1..Len(b) : all[Len(a) + i] = b[i]
  BY ConcatFacts
<1>2. /\ less \in Seq(Nat) /\ Len(less) = Len(a) - 1
      /\ \A j \in 1 .. Len(a) - 1 : less[j] = IF j < p THEN a[j] ELSE a[j + 1]
  BY RemoveAtFacts
<1>3. p \in 1..Len(all) /\ all[p] = a[p]
  BY <1>1
<1> HIDE DEF all, less
<1>4. /\ right \in Seq(Nat) /\ Len(right) = Len(all) - 1
      /\ \A j \in 1 .. Len(all) - 1 : right[j] = IF j < p THEN all[j] ELSE all[j + 1]
  BY <1>1, <1>3, RemoveAtFacts
<1>5. /\ left \in Seq(Nat) /\ Len(left) = Len(less) + Len(b)
      /\ \A i \in 1..Len(less) : left[i] = less[i]
      /\ \A i \in 1..Len(b) : left[Len(less) + i] = b[i]
  BY <1>2, ConcatFacts
<1> HIDE DEF left, right
<1>6. Len(left) = Len(right)
  BY <1>1, <1>2, <1>4, <1>5
<1>7. ASSUME NEW j \in 1..Len(left)
      PROVE  left[j] = right[j]
  <2>1. CASE j \in 1..Len(less)
    <3>1. left[j] = less[j] /\ j \in 1 .. Len(a) - 1 /\ j \in 1 .. Len(all) - 1
      <4>1. left[j] = less[j]
        BY <1>5, <2>1
      <4>2. j \in 1 .. Len(a) - 1
        BY <1>2, <2>1
      <4>3. j \in 1 .. Len(all) - 1
        BY <1>1, <4>2
      <4> QED BY <4>1, <4>2, <4>3
    <3>2. j \in 1..Len(a) /\ j + 1 \in 1..Len(a)
      BY <1>1, <3>1
    <3> QED BY <1>1, <1>2, <1>4, <3>1, <3>2
  <2>2. CASE j \notin 1..Len(less)
    <3> DEFINE i == j - Len(less)
    <3>1. i \in 1..Len(b) /\ Len(less) + i = j
      BY <1>1, <1>2, <1>5, <2>2
    <3>2. j \in 1 .. Len(all) - 1 /\ ~(j < p) /\ j + 1 = Len(a) + i
      BY <1>1, <1>2, <3>1
    <3> HIDE DEF i
    <3>3. left[j] = b[i]
      BY <1>5, <3>1
    <3>4. right[j] = all[j + 1]
      BY <1>4, <3>2
    <3> QED BY <1>1, <3>1, <3>2, <3>3, <3>4
  <2> QED BY <2>1, <2>2
<1>8. left = right
  BY <1>4, <1>5, <1>6, <1>7, SeqEqual
<1> QED BY <1>3, <1>8 DEF all, less, left, right

\* A set that counts less.
LEMMA ArrivedOfFewer ==
  ASSUME NEW list, NEW ids, NEW fewer, fewer \subseteq ids, Arrived(list, ids)
  PROVE  Arrived(list, fewer)
BY DEF Arrived
-----------------------------------------------------------------------------
(***************************************************************************)
(* What an emit owes.                                                      *)
(***************************************************************************)
\* A walk goes on over a list that only grew behind its end, among callers who
\* stayed.
LEMMA OwesOfGrown ==
  ASSUME NEW f \in Frame, NEW n \in Nat, Owes(f, n),
         subscribers \in Seq(Nat), Len(subscribers') \in Nat, Len(subscribers) <= Len(subscribers'),
         \A i \in 1..Len(subscribers) : subscribers'[i] = subscribers[i],
         active \subseteq active'
  PROVE  Owes(f, n)'
<1>1. Len(subscribers) \in Nat /\ f.last \in Nat
  BY LenProperties DEF Frame
<1>2. n <= f.last /\ f.last <= Len(subscribers)
  BY DEF Owes
<1>3. f.last <= Len(subscribers')
  BY <1>1, <1>2
<1>4. \A k \in 1..f.last : k \in 1..Len(subscribers)
  BY <1>1, <1>2
<1>5. \A k \in 1..n : k \in 1..Len(subscribers)
  BY <1>1, <1>2
<1>6. \A k \in 1..n : f.heard[k] = subscribers'[k]
  BY <1>5 DEF Owes
<1>7. \A k \in 1..f.last : subscribers'[k] <= f.old
  BY <1>4 DEF Owes
<1>8. \A id \in f.owed : id \in active' /\ \E k \in 1..f.last : subscribers'[k] = id
  BY <1>4 DEF Owes
<1> QED BY <1>2, <1>3, <1>6, <1>7, <1>8 DEF Owes

\* A frame of the calls in progress is one.
LEMMA FrameFacts ==
  ASSUME Types, NEW f \in Frames(stack)
  PROVE  f \in Frame /\ f.at \in Nat
<1>1. f \in Frame
  BY ElementOfSeq, LenProperties DEF Types, Frames
<1> QED BY <1>1 DEF Frame

\* The call that takes its turn.
LEMMA OwesTurn ==
  ASSUME Types, NEW rest, NEW f, Turn(rest, f), \A g \in Frames(stack) : Owes(g, g.at)
  PROVE  Owes(f, f.at - 1)
<1>1. CASE Begins(rest, f)
  <2>1. /\ f.at - 1 = 0 /\ f.last = Len(subscribers) /\ f.old = lastId
        /\ f.owed = active \cap Range(subscribers)
    BY <1>1 DEF Begins
  <2>2. /\ Len(subscribers) \in Nat /\ DOMAIN subscribers = 1..Len(subscribers)
        /\ \A k \in 1..Len(subscribers) : subscribers[k] <= lastId
    BY LenProperties DEF Types
  <2>3. \A id \in f.owed : id \in active /\ \E k \in 1..f.last : subscribers[k] = id
    BY <2>1, <2>2 DEF Range
  <2> QED BY <2>1, <2>2, <2>3 DEF Owes
<1>2. CASE GoesOn(rest, f)
  <2>1. /\ stack # << >> /\ f.heard = Top.heard /\ f.at = Top.at + 1
        /\ f.last = Top.last /\ f.owed = Top.owed /\ f.old = Top.old
    BY <1>2 DEF GoesOn
  <2>2. Owes(Top, Top.at) /\ Top \in Frame
    BY <2>1, StackFacts
  <2>3. f.at - 1 = Top.at
    BY <2>1, <2>2 DEF Frame
  <2> QED BY <2>1, <2>2, <2>3 DEF Owes
<1> QED BY <1>1, <1>2 DEF Turn

\* It calls whom it finds.
LEMMA OwesCall ==
  ASSUME Types, NEW rest, NEW f, Turn(rest, f), Owes(f, f.at - 1),
         NEW g \in Frame, g.at = f.at, g.last = f.last, g.owed = f.owed, g.old = f.old,
         g.heard = Append(f.heard, subscribers[f.at]),
         f.at <= f.last, f.at <= Len(subscribers)
  PROVE  Owes(g, g.at)
<1> DEFINE n == f.at - 1
<1>1. f.at \in Nat \ {0} /\ f.heard \in Seq(Nat) /\ Len(f.heard) = n
  BY DEF Turn, Frame
<1>2. n \in Nat /\ n + 1 = f.at /\ f.at \in 1..Len(subscribers)
  BY <1>1
<1>3. subscribers[f.at] \in Nat
  BY <1>2, ElementOfSeq DEF Types
<1>4. /\ g.heard[n + 1] = subscribers[f.at]
      /\ \A k \in 1..n : g.heard[k] = f.heard[k]
  BY <1>1, <1>3, AppendFacts
<1>5. \A k \in 1..n : f.heard[k] = subscribers[k]
  BY DEF Owes
<1> HIDE DEF n
<1>6. \A k \in 1..f.at : k \in 1..n \/ k = n + 1
  BY <1>2
<1>7. \A k \in 1..f.at : g.heard[k] = subscribers[k]
  BY <1>2, <1>4, <1>5, <1>6
<1> QED BY <1>7 DEF Owes

\* An emit at its end has called the list it began with, in the order of arrival.
LEMMA OwesEnd ==
  ASSUME Types, NEW rest, NEW f, Turn(rest, f), f.at > f.last, Owes(f, f.at - 1),
         Arrived(subscribers, active)
  PROVE  /\ f.owed \subseteq Range(f.heard)
         /\ \A id \in Range(f.heard) : id <= f.old
         /\ \A id, later \in f.owed :
               id < later => FirstPlace(f.heard, id) < FirstPlace(f.heard, later)
<1>1. /\ f.at \in Nat \ {0} /\ f.last \in Nat /\ f.owed \in SUBSET Nat /\ f.heard \in Seq(Nat)
      /\ Len(f.heard) = f.at - 1
  BY DEF Turn, Frame
<1>2. f.at - 1 = f.last /\ f.last <= Len(subscribers) /\ Len(subscribers) \in Nat
  BY <1>1, LenProperties DEF Owes, Types
<1>3. Len(f.heard) = f.last /\ DOMAIN f.heard = 1..f.last
  BY <1>1, <1>2, LenProperties
<1>4. /\ \A k \in 1..f.last : f.heard[k] = subscribers[k]
      /\ \A k \in 1..f.last : subscribers[k] <= f.old
      /\ \A id \in f.owed : id \in active /\ \E k \in 1..f.last : subscribers[k] = id
  BY <1>2 DEF Owes
<1>5. f.owed \subseteq Range(f.heard)
  BY <1>3, <1>4 DEF Range
<1>6. \A id \in Range(f.heard) : id <= f.old
  BY <1>3, <1>4 DEF Range
<1>7. ASSUME NEW id \in f.owed, NEW later \in f.owed, id < later
      PROVE  FirstPlace(f.heard, id) < FirstPlace(f.heard, later)
  <2> DEFINE i == FirstPlace(f.heard, later)
             first == FirstPlace(f.heard, id)
  <2>1. /\ i \in 0..f.last /\ (i # 0 => f.heard[i] = later)
        /\ \A k \in 1..f.last : f.heard[k] = later => i # 0
    BY <1>1, <1>3, FirstPlaceFacts
  <2>2. first \in 0..f.last /\ \A k \in 1..f.last : f.heard[k] = id => first <= k
    BY <1>1, <1>3, FirstPlaceFacts
  <2> HIDE DEF i, first
  <2>3. i # 0
    BY <1>4, <2>1
  <2>4. i \in 1..f.last /\ i \in 1..Len(subscribers) /\ subscribers[i] = later
    BY <1>1, <1>2, <1>4, <2>1, <2>3
  <2>5. PICK k \in 1..f.last : subscribers[k] = id
    BY <1>4
  <2>6. k \in 1..Len(subscribers)
    BY <1>1, <1>2
  <2>7. PICK j \in 1..Len(subscribers) : j < i /\ subscribers[j] = id
    BY <1>4, <1>7, <2>4, <2>5, <2>6 DEF Arrived
  <2>8. j \in 1..f.last
    BY <1>1, <1>2, <2>4, <2>7
  <2>9. f.heard[j] = id
    BY <1>4, <2>7, <2>8
  <2>10. first <= j
    BY <2>2, <2>8, <2>9
  <2>11. first < i
    BY <1>1, <2>1, <2>2, <2>7, <2>8, <2>10
  <2> QED BY <2>11 DEF i, first
<1> QED BY <1>5, <1>6, <1>7
LEMMA SubscribeOwes ==
  ASSUME Types, Subscribe, Types',
         \A f \in Frames(stack) : Owes(f, f.at),
         Arrived(subscribers \o toSubscribe, active), ~isEmitting => Back
  PROVE  /\ \A f \in Frames(stack) : Owes(f, f.at)'
         /\ Arrived(subscribers' \o toSubscribe', active')
         /\ ~isEmitting' => Back'
<1>1. /\ subscribers \in Seq(Nat) /\ toSubscribe \in Seq(Nat) /\ lastId \in Nat
      /\ Known(subscribers, lastId) /\ Known(toSubscribe, lastId)
      /\ Len(subscribers) \in Nat
  BY LenProperties DEF Types, Known
<1>2. active' = active \cup {lastId + 1} /\ isEmitting' = isEmitting /\ lastId + 1 \in Nat
  BY <1>1, SubscribeFacts
<1>3. CASE isEmitting
  <2>1. subscribers' = subscribers /\ toSubscribe' = Append(toSubscribe, lastId + 1)
    BY <1>3, SubscribeFacts
  <2>2. ASSUME NEW f \in Frames(stack)
        PROVE  Owes(f, f.at)'
    <3>1. Owes(f, f.at)
      OBVIOUS
    <3> QED BY <1>2, <2>1, <3>1 DEF Owes
  <2>3. subscribers \o toSubscribe \in Seq(Nat)
    BY <1>1, ConcatFacts
  <2>4. subscribers' \o toSubscribe' = Append(subscribers \o toSubscribe, lastId + 1)
    <3>1. /\ Append(toSubscribe, lastId + 1) = toSubscribe \o << lastId + 1 >>
          /\ Append(subscribers \o toSubscribe, lastId + 1)
                = (subscribers \o toSubscribe) \o << lastId + 1 >>
      BY <1>1, <1>2, <2>3, AppendIsConcat
    <3>2. << lastId + 1 >> \in Seq(Nat)
      BY <1>2
    <3>3. (subscribers \o toSubscribe) \o << lastId + 1 >>
             = subscribers \o (toSubscribe \o << lastId + 1 >>)
      BY <1>1, <3>2, ConcatAssociative
    <3> QED BY <2>1, <3>1, <3>3
  <2>5. Known(subscribers \o toSubscribe, lastId)
    BY <1>1, KnownOfConcat
  <2>6. Arrived(subscribers' \o toSubscribe', active')
    BY <1>1, <1>2, <2>3, <2>4, <2>5, ArrivedOfNew
  <2> QED BY <1>2, <1>3, <2>2, <2>6
<1>4. CASE ~isEmitting
  <2> DEFINE more == Append(subscribers, lastId + 1)
  <2>1. subscribers' = more /\ toSubscribe' = toSubscribe
    BY <1>4, SubscribeFacts
  <2>2. /\ more \in Seq(Nat) /\ Len(more) = Len(subscribers) + 1 /\ more[Len(subscribers) + 1] = lastId + 1
        /\ \A k \in 1..Len(subscribers) : more[k] = subscribers[k]
    BY <1>1, <1>2, AppendFacts
  <2>3. Arrived(more, active \cup {lastId + 1})
    BY <1>1, ArrivedOfPrefix, ArrivedOfNew
  <2> HIDE DEF more
  <2>4. ASSUME NEW f \in Frames(stack)
        PROVE  Owes(f, f.at)'
    <3>1. f \in Frame /\ f.at \in Nat /\ Owes(f, f.at)
      BY FrameFacts
    <3>2. /\ Len(subscribers') \in Nat /\ Len(subscribers) <= Len(subscribers')
          /\ \A k \in 1..Len(subscribers) : subscribers'[k] = subscribers[k]
      BY <1>1, <2>1, <2>2
    <3> QED BY <1>1, <1>2, <3>1, <3>2, OwesOfGrown
  <2>5. \A i \in 1..Len(toSubscribe) : toSubscribe[i] \in active \cup {lastId + 1} =>
            \E j \in 1..Len(more) : more[j] = toSubscribe[i]
    <3> SUFFICES ASSUME NEW i \in 1..Len(toSubscribe), toSubscribe[i] \in active \cup {lastId + 1}
                 PROVE  \E j \in 1..Len(more) : more[j] = toSubscribe[i]
      OBVIOUS
    <3>1. toSubscribe[i] \in Nat /\ toSubscribe[i] <= lastId
      BY <1>1, ElementOfSeq DEF Known
    <3>2. toSubscribe[i] \in active
      BY <1>1, <3>1
    <3>3. PICK j \in 1..Len(subscribers) : subscribers[j] = toSubscribe[i]
      BY <1>4, <3>2 DEF Back
    <3> QED BY <1>1, <2>2, <3>3
  <2>6. Arrived(more \o toSubscribe, active \cup {lastId + 1})
    BY <1>1, <2>2, <2>3, <2>5, ArrivedOfRepeated
  <2>7. Back'
    BY <1>2, <2>1, <2>5 DEF Back
  <2> QED BY <1>2, <2>1, <2>4, <2>6, <2>7
<1> QED BY <1>3, <1>4

LEMMA UnsubscribeOwes ==
  ASSUME Types, NEW id \in active, Unsubscribe(id), stack = << >>, toUnsubscribe' = << >>,
         Arrived(subscribers \o toSubscribe, active), ~isEmitting => Back
  PROVE  /\ stack' = << >>
         /\ Arrived(subscribers' \o toSubscribe', active')
         /\ ~isEmitting' => Back'
<1>1. subscribers \in Seq(Nat) /\ toSubscribe \in Seq(Nat) /\ Len(subscribers) \in Nat
  BY LenProperties DEF Types
<1>2. /\ active' = active \ {id} /\ UNCHANGED << toSubscribe, isEmitting >> /\ stack' = << >>
  BY UnsubscribeFacts
<1>3. CASE subscribers' = subscribers
  <2>1. Arrived(subscribers \o toSubscribe, active \ {id})
    <3>1. active \ {id} \subseteq active
      OBVIOUS
    <3> QED BY <3>1, ArrivedOfFewer
  <2>2. ~isEmitting' => Back'
    BY <1>2, <1>3 DEF Back
  <2> QED BY <1>2, <1>3, <2>1, <2>2
<1>4. ASSUME ~isEmitting, NEW p \in 1..Len(subscribers),
             subscribers[p] = id, subscribers' = RemoveAt(subscribers, p)
      PROVE  Arrived(subscribers' \o toSubscribe', active') /\ Back'
  <2> DEFINE all == subscribers \o toSubscribe
  <2>1. /\ all \in Seq(Nat) /\ p \in 1..Len(all) /\ all[p] = id
        /\ RemoveAt(subscribers, p) \o toSubscribe = RemoveAt(all, p)
    BY <1>1, <1>4, ConcatFacts, RemovedOfConcat
  <2>2. Arrived(all, active)
    OBVIOUS
  <2> HIDE DEF all
  <2>3. Arrived(RemoveAt(all, p), active \ {id})
    BY <2>1, <2>2, ArrivedOfRemoved
  <2>4. Arrived(subscribers' \o toSubscribe', active')
    BY <1>2, <1>4, <2>1, <2>3
  <2>5. /\ Len(subscribers') = Len(subscribers) - 1
        /\ \A j \in 1 .. Len(subscribers) - 1 :
              subscribers'[j] = IF j < p THEN subscribers[j] ELSE subscribers[j + 1]
    BY <1>1, <1>4, RemoveAtFacts
  <2>6. ASSUME NEW i \in 1..Len(toSubscribe), toSubscribe[i] \in active \ {id}
        PROVE  \E j \in 1..Len(subscribers') : subscribers'[j] = toSubscribe[i]
    <3>1. PICK j \in 1..Len(subscribers) : subscribers[j] = toSubscribe[i]
      BY <1>4, <2>6 DEF Back
    <3>2. j # p
      BY <1>4, <2>6, <3>1
    <3>3. CASE j < p
      <4>1. j \in 1..Len(subscribers')
        BY <1>1, <2>5, <3>3
      <4> QED BY <2>5, <3>1, <3>3, <4>1
    <3>4. CASE ~(j < p)
      <4>1. j - 1 \in 1..Len(subscribers') /\ ~(j - 1 < p) /\ j - 1 + 1 = j
        BY <1>1, <2>5, <3>2, <3>4
      <4> QED BY <2>5, <3>1, <4>1
    <3> QED BY <3>3, <3>4
  <2> QED BY <1>2, <2>4, <2>6 DEF Back
<1>5. CASE isEmitting /\ toUnsubscribe' # << >>
  BY <1>5
<1> QED BY <1>2, <1>3, <1>4, UnsubscribeFacts

LEMMA EndOwes ==
  ASSUME Types, NEW rest, NEW f, Turn(rest, f), Ends(rest, f), toUnsubscribe = << >>,
         \A g \in Frames(stack) : Owes(g, g.at),
         Arrived(subscribers \o toSubscribe, active)
  PROVE  /\ \A g \in Frames(stack') : Owes(g, g.at)'
         /\ Arrived(subscribers' \o toSubscribe', active')
         /\ Back'
         /\ done'.owed \subseteq Range(done'.heard)
         /\ \A id \in Range(done'.heard) : id <= done'.old
         /\ \A id, later \in done'.owed :
               id < later => FirstPlace(done'.heard, id) < FirstPlace(done'.heard, later)
<1>1. subscribers \in Seq(Nat) /\ toSubscribe \in Seq(Nat)
  BY DEF Types
<1>2. /\ stack' = rest /\ toSubscribe' = toSubscribe
      /\ done' = [owed |-> f.owed, old |-> f.old, heard |-> f.heard]
      /\ subscribers' = Erased(subscribers, toUnsubscribe) \o toSubscribe
      /\ InReach(subscribers, toUnsubscribe)
  BY EndFacts
<1>3. active' = active /\ Frames(rest) \subseteq Frames(stack) /\ f.at > f.last
  BY DEF Turn, Ends
<1> DEFINE all == subscribers \o toSubscribe
<1>4. subscribers' = all
  <2>1. Erased(subscribers, toUnsubscribe) = subscribers
    BY <1>2, AddedFacts
  <2> QED BY <1>2, <2>1
<1>5. /\ all \in Seq(Nat) /\ Len(subscribers) \in Nat /\ Len(toSubscribe) \in Nat
      /\ Len(all) = Len(subscribers) + Len(toSubscribe)
      /\ \A i \in 1..Len(subscribers) : all[i] = subscribers[i]
      /\ \A i \in 1..Len(toSubscribe) : all[Len(subscribers) + i] = toSubscribe[i]
  BY <1>1, ConcatFacts
<1>6. Arrived(subscribers, active)
  BY <1>1, ArrivedOfPrefix
<1>7. Arrived(all, active)
  OBVIOUS
<1> HIDE DEF all
<1>8. ASSUME NEW g \in Frames(rest)
      PROVE  Owes(g, g.at)'
  <2>1. g \in Frame /\ g.at \in Nat /\ Owes(g, g.at)
    BY <1>3, FrameFacts
  <2>2. /\ Len(subscribers') \in Nat /\ Len(subscribers) <= Len(subscribers')
        /\ \A i \in 1..Len(subscribers) : subscribers'[i] = subscribers[i]
    BY <1>4, <1>5
  <2> QED BY <1>1, <1>3, <2>1, <2>2, OwesOfGrown
<1>9. ASSUME NEW i \in 1..Len(toSubscribe)
      PROVE  \E j \in 1..Len(all) : all[j] = toSubscribe[i]
  <2>1. Len(subscribers) + i \in 1..Len(all)
    BY <1>5
  <2> QED BY <1>5, <2>1
<1>10. Arrived(all \o toSubscribe, active)
  BY <1>1, <1>5, <1>7, <1>9, ArrivedOfRepeated
<1>11. Back'
  BY <1>2, <1>4, <1>9 DEF Back
<1>12. Owes(f, f.at - 1)
  BY OwesTurn
<1>13. /\ f.owed \subseteq Range(f.heard)
       /\ \A id \in Range(f.heard) : id <= f.old
       /\ \A id, later \in f.owed :
             id < later => FirstPlace(f.heard, id) < FirstPlace(f.heard, later)
  BY <1>3, <1>6, <1>12, OwesEnd
<1>14. done'.owed = f.owed /\ done'.old = f.old /\ done'.heard = f.heard
  BY <1>2
<1> QED BY <1>2, <1>3, <1>4, <1>8, <1>10, <1>11, <1>13, <1>14
LEMMA NextOwing ==
  ASSUME Types, Types', Owing, CallsWhomItOwes, [Next]_vars
  PROVE  Owing' /\ CallsWhomItOwes'
<1> DEFINE Promised(d) ==
              /\ d.owed \subseteq Range(d.heard)
              /\ \A id \in Range(d.heard) : id <= d.old
              /\ \A id, later \in d.owed :
                    id < later => FirstPlace(d.heard, id) < FirstPlace(d.heard, later)
<1> SUFFICES ASSUME "unsubscribe" \notin used', toUnsubscribe' = << >>
             PROVE  /\ \A f \in Frames(stack') : Owes(f, f.at)'
                    /\ Arrived(subscribers' \o toSubscribe', active')
                    /\ ~isEmitting' => Back'
                    /\ done' # << >> => Promised(done')
  <2>1. NoneErased' <=> "unsubscribe" \notin used' /\ toUnsubscribe' = << >>
    BY DEF NoneErased
  <2> QED BY <2>1 DEF Owing, CallsWhomItOwes, Arrived, Frames
<1>1. toUnsubscribe = << >> =>
         /\ \A f \in Frames(stack) : Owes(f, f.at)
         /\ Arrived(subscribers \o toSubscribe, active)
         /\ ~isEmitting => Back
         /\ done # << >> => Promised(done)
  BY NextUsed DEF Owing, CallsWhomItOwes, NoneErased
<1> HIDE DEF Promised
<1>2. CASE Subscribe
  <2>1. UNCHANGED << toUnsubscribe, stack, done >>
    BY <1>2, SubscribeFacts
  <2>2. toUnsubscribe = << >>
    BY <2>1
  <2> QED BY <1>1, <1>2, <2>1, <2>2, SubscribeOwes
<1>3. ASSUME NEW id \in active, Unsubscribe(id)
      PROVE  /\ \A f \in Frames(stack') : Owes(f, f.at)'
             /\ Arrived(subscribers' \o toSubscribe', active')
             /\ ~isEmitting' => Back'
             /\ done' # << >> => Promised(done')
  <2>1. stack = << >> /\ done' = done
    BY <1>3, UnsubscribeFacts
  <2>2. toUnsubscribe = << >>
    BY <1>3, UnsubscribeFacts
  <2>3. /\ stack' = << >> /\ Arrived(subscribers' \o toSubscribe', active')
        /\ ~isEmitting' => Back'
    BY <1>1, <1>3, <2>1, <2>2, UnsubscribeOwes
  <2> QED BY <1>1, <2>1, <2>2, <2>3, NoFrames
<1>4. CASE Throw
  <2>1. /\ Frames(stack') \subseteq Frames(stack)
        /\ UNCHANGED << subscribers, capacity, toSubscribe, toUnsubscribe, isEmitting, active, done >>
    BY <1>4, ThrowFacts DEF listVars
  <2>2. ASSUME NEW f \in Frames(stack')
        PROVE  Owes(f, f.at)'
    <3>1. Owes(f, f.at)
      BY <1>1, <2>1
    <3> QED BY <2>1, <3>1 DEF Owes
  <2>3. ~isEmitting' => Back'
    BY <1>1, <2>1 DEF Back
  <2> QED BY <1>1, <2>1, <2>2, <2>3
<1>5. ASSUME NEW rest, NEW f, Turn(rest, f)
      PROVE  /\ \A g \in Frames(stack') : Owes(g, g.at)'
             /\ Arrived(subscribers' \o toSubscribe', active')
             /\ ~isEmitting' => Back'
             /\ done' # << >> => Promised(done')
  <2>1. /\ rest \in Seq(Frame) /\ f \in Frame /\ Frames(rest) \subseteq Frames(stack)
        /\ active' = active
    BY <1>5 DEF Turn
  <2>2. CASE Calls(rest, f)
    <3>1. PICK g \in Frame : /\ stack' = Append(rest, g)
                             /\ g.at = f.at /\ g.last = f.last
                             /\ g.owed = f.owed /\ g.old = f.old
                             /\ g.heard = Append(f.heard, subscribers[f.at])
      BY <2>2 DEF Calls
    <3>2. Frames(stack') = Frames(rest) \cup {g}
      BY <2>1, <3>1, PushFacts
    <3>3. /\ UNCHANGED << subscribers, toSubscribe, toUnsubscribe, done >>
          /\ ~isEmitting' => ~isEmitting
          /\ f.at <= f.last /\ f.at <= Len(subscribers)
      BY <2>2 DEF Calls, listVars
    <3>4. \A h \in Frames(stack) : Owes(h, h.at)
      BY <1>1, <3>3
    <3>5. Owes(f, f.at - 1)
      BY <1>5, <3>4, OwesTurn
    <3>6. Owes(g, g.at)
      BY <1>5, <3>1, <3>3, <3>5, OwesCall
    <3>7. ASSUME NEW h \in Frames(stack')
          PROVE  Owes(h, h.at)'
      <4>1. Owes(h, h.at)
        BY <2>1, <3>2, <3>4, <3>6
      <4> QED BY <2>1, <3>3, <4>1 DEF Owes
    <3>8. ~isEmitting' => Back'
      BY <1>1, <2>1, <3>3 DEF Back
    <3> QED BY <1>1, <2>1, <3>3, <3>7, <3>8
  <2>3. CASE Breaks(f)
    <3>1. /\ UNCHANGED << stack, subscribers, toSubscribe, toUnsubscribe, done >>
          /\ ~isEmitting' => ~isEmitting
      BY <2>3 DEF Breaks, listVars
    <3>2. ASSUME NEW h \in Frames(stack')
          PROVE  Owes(h, h.at)'
      <4>1. Owes(h, h.at)
        BY <1>1, <3>1
      <4> QED BY <2>1, <3>1, <4>1 DEF Owes
    <3>3. ~isEmitting' => Back'
      BY <1>1, <2>1, <3>1 DEF Back
    <3> QED BY <1>1, <2>1, <3>1, <3>2, <3>3
  <2>4. CASE Ends(rest, f)
    <3>1. toUnsubscribe = << >>
      BY <2>4, EndFacts
    <3>2. /\ \A g \in Frames(stack') : Owes(g, g.at)'
          /\ Arrived(subscribers' \o toSubscribe', active')
          /\ Back' /\ Promised(done')
      BY <1>1, <1>5, <2>4, <3>1, EndOwes DEF Promised
    <3> QED BY <3>2
  <2> QED BY <1>5, <2>2, <2>3, <2>4 DEF Turn
<1>6. CASE UNCHANGED vars
  <2>1. UNCHANGED << stack, subscribers, toSubscribe, toUnsubscribe, isEmitting, active, done >>
    BY <1>6 DEF vars, listVars
  <2>2. ASSUME NEW h \in Frames(stack')
        PROVE  Owes(h, h.at)'
    <3>1. Owes(h, h.at)
      BY <1>1, <2>1
    <3> QED BY <2>1, <3>1 DEF Owes
  <2>3. ~isEmitting' => Back'
    BY <1>1, <2>1 DEF Back
  <2> QED BY <1>1, <2>1, <2>2, <2>3
<1> QED BY <1>2, <1>3, <1>4, <1>5, <1>6, StepKinds

-----------------------------------------------------------------------------
LEMMA InitIInv ==
  ASSUME Init
  PROVE  IInv
<1>1. /\ subscribers = << >> /\ toSubscribe = << >> /\ toUnsubscribe = << >> /\ capacity = 0
      /\ ~isEmitting /\ isEmitting \in BOOLEAN /\ stack = << >> /\ fault = "none"
      /\ lastId = 0 /\ active = {} /\ done = << >>
  BY DEF Init
<1>2. << >> \in Seq(Nat) /\ << >> \in Seq((Nat \ {0}) \X Nat) /\ << >> \in Seq(Frame) /\ Len(<< >>) = 0
  BY EmptySeq
<1>3. Types
  BY <1>1, <1>2, NoFrames DEF Types
<1>4. Owing
  <2>1. Arrived(subscribers \o toSubscribe, active)
    BY <1>1 DEF Arrived
  <2>2. Back
    BY <1>1 DEF Back
  <2> QED BY <1>1, <2>1, <2>2, NoFrames DEF Owing
<1>5. Once
  BY <1>1, <1>2, NoFrames DEF Once, Distinct
<1>6. Nesting
  BY <1>1, NoFrames DEF Nesting
<1> QED BY <1>1, <1>3, <1>4, <1>5, <1>6 DEF IInv, CallsWhomItOwes, OncePerEmit

LEMMA NextIInv == IInv /\ [Next]_vars => IInv'
<1> SUFFICES ASSUME IInv, [Next]_vars PROVE IInv'
  OBVIOUS
<1> QED BY NextTypes, NextOwing, NextOnce, NextNesting DEF IInv

LEMMA AlwaysIInv == Spec => []IInv
BY InitIInv, NextIInv, PTL DEF Spec

-----------------------------------------------------------------------------
(***************************************************************************)
(* What emit promises.                                                     *)
(***************************************************************************)
\* As long as nobody unsubscribes in a callback, an emit calls everyone who was
\* subscribed as it began, in the order of subscription, and no later subscriber,
\* whatever the callbacks subscribe, emit and throw.
THEOREM EmitCallsWhomItOwes == Spec => []CallsWhomItOwes
<1>1. IInv => CallsWhomItOwes
  BY DEF IInv
<1> QED BY <1>1, AlwaysIInv, PTL

\* As long as callbacks neither subscribe nor throw, an emit calls nobody twice,
\* whatever they unsubscribe, and wherever those erasures strike.
THEOREM EmitCallsOnce == Spec => []OncePerEmit
<1>1. IInv => OncePerEmit
  BY DEF IInv
<1> QED BY <1>1, AlwaysIInv, PTL

\* Emits nested to any depth leave the iterators of the emits around them valid.
THEOREM NestedEmitsAreSafe == Spec => []NestingIsSafe
<1>1. IInv => NestingIsSafe
  BY DEF IInv, Nesting, NestingIsSafe
<1> QED BY <1>1, AlwaysIInv, PTL
=============================================================================
