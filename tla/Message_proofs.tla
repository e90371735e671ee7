--------------------------- MODULE Message_proofs ---------------------------
(***************************************************************************)
(* Proofs about RequestParser and ResponseHeaders, for requests and        *)
(* responses of any length, whatever the client sends and the handlers     *)
(* put: what is read fits into its memory, all fields sent are found, a    *)
(* request that is handed on without an error has got the body it          *)
(* announces, the fields of a response fill the buffer for them, and the   *)
(* length among them is that of the body.                                  *)
(***************************************************************************)
EXTENDS RequestParser, ResponseHeaders, FiniteSetTheorems, WellFoundedInduction, TLAPS

Texts == Seq(Pieces) \ {<<>>}
Fields == [name : HdrNames, value : Texts]
Values == Texts \cup Nat \cup {"gzip", "deflate"}
Heads == [name : HdrNames, value : Values, size : Nat]
Sets == [buckets : [0 .. HdrBuckets - 1 -> Seq(Heads)], count : Nat, size : Nat]

-----------------------------------------------------------------------------
(* Sets of header fields.                                                  *)

\* Every set of positions has a least one.
LEMMA LeastPosition ==
    ASSUME NEW T, T \subseteq Nat, T # {}
    PROVE  \E m \in T : \A n \in T : m <= n
<1> DEFINE U == {0 .. n : n \in T}
<1>1. \A n \in T : 0 .. n \in SUBSET Nat /\ IsFiniteSet(0 .. n)
  <2> TAKE n \in T
  <2>1. n \in Int /\ 0 .. n \in SUBSET Nat
    OBVIOUS
  <2> QED
    BY <2>1, FS_Interval
<1>2. U \subseteq FiniteSubsetsOf(Nat) /\ U # {}
  BY <1>1 DEF FiniteSubsetsOf
<1>3. PICK x \in U : \A y \in U : ~(<<y, x>> \in StrictSubsetOrdering(Nat))
  <2> HIDE DEF U
  <2> QED
    BY <1>2, FS_StrictSubsetOrderingWellFounded, WFMin
<1>4. PICK m \in T : x = 0 .. m
  OBVIOUS
<1>5. ASSUME NEW n \in T, n < m
      PROVE  FALSE
  <2>1. <<0 .. n, 0 .. m>> \in StrictSubsetOrdering(Nat)
    BY <1>5, m \in Nat, n \in Nat DEF StrictSubsetOrdering
  <2> QED
    BY <2>1, <1>3, <1>4
<1> QED
  BY <1>5

Bucket(hs, n) == hs.buckets[HdrHash[n]]

\* The list a name hashes to is a list of fields.
LEMMA BucketIs ==
    ASSUME NEW hs \in Sets, NEW n \in HdrNames
    PROVE  Bucket(hs, n) \in Seq(Heads) /\ HdrHash[n] \in 0 .. HdrBuckets - 1
BY HeaderAssumption DEF Sets, Bucket

\* HeaderSet_first() returns the first entry of the list with the name, if there is one.
LEMMA FirstIs ==
    ASSUME NEW hs \in Sets, NEW n \in HdrNames
    PROVE  /\ Found(hs, n) = {p \in 1 .. Len(Bucket(hs, n)) : Bucket(hs, n)[p].name = n}
           /\ Found(hs, n) = {} => HeaderSet_first(hs, n) = NoHeader
           /\ Found(hs, n) # {} =>
                \E p \in Found(hs, n) : /\ \A q \in Found(hs, n) : p <= q
                                        /\ HeaderSet_first(hs, n) = Bucket(hs, n)[p]
<1> DEFINE b == Bucket(hs, n)
           F == Found(hs, n)
<1>1. b \in Seq(Heads)
  BY BucketIs
<1>2. F = {p \in 1 .. Len(b) : b[p].name = n}
  BY <1>1 DEF Found, Bucket
<1>3. F = {} => HeaderSet_first(hs, n) = NoHeader
  BY DEF HeaderSet_first
<1>4. ASSUME F # {}
      PROVE  \E p \in F : (\A q \in F : p <= q) /\ HeaderSet_first(hs, n) = b[p]
  <2>1. F \subseteq Nat
    BY <1>1, <1>2
  <2>2. HeaderSet_first(hs, n) = b[CHOOSE p \in F : \A q \in F : p <= q]
    BY <1>4 DEF HeaderSet_first, Bucket
  <2> HIDE DEF F
  <2>3. \E p \in F : \A q \in F : p <= q
    BY <2>1, <1>4, LeastPosition
  <2> QED
    BY <2>2, <2>3
<1> QED
  BY <1>2, <1>3, <1>4

\* HeaderSet_add() appends to the list of the field's name, and to no other.
LEMMA AddIs ==
    ASSUME NEW hs \in Sets, NEW h \in Heads, NEW n \in HdrNames
    PROVE  /\ HeaderSet_add(hs, h) \in Sets
           /\ Bucket(HeaderSet_add(hs, h), n) =
                IF HdrHash[n] = HdrHash[h.name] THEN Append(Bucket(hs, n), h) ELSE Bucket(hs, n)
<1> DEFINE bs == hs.buckets
           k == HdrHash[h.name]
           new == [bs EXCEPT ![k] = Append(@, h)]
           sum == (hs.size + h.size) % 65536
           add == HeaderSet_add(hs, h)
<1>1. bs \in [0 .. HdrBuckets - 1 -> Seq(Heads)] /\ k \in 0 .. HdrBuckets - 1 /\ HdrHash[n] \in 0 .. HdrBuckets - 1
  BY HeaderAssumption DEF Sets, Heads
<1>2. new \in [0 .. HdrBuckets - 1 -> Seq(Heads)]
      /\ new[HdrHash[n]] = IF HdrHash[n] = k THEN Append(bs[HdrHash[n]], h) ELSE bs[HdrHash[n]]
  <2> DEFINE l == Append(bs[k], h)
  <2>1. l \in Seq(Heads)
    <3>1. bs[k] \in Seq(Heads)
      BY <1>1
    <3> QED
      BY <3>1
  <2>2. new = [bs EXCEPT ![k] = l]
    OBVIOUS
  <2> HIDE DEF l, new, bs, k
  <2>3. new \in [0 .. HdrBuckets - 1 -> Seq(Heads)]
        /\ new[HdrHash[n]] = IF HdrHash[n] = k THEN l ELSE bs[HdrHash[n]]
    BY <1>1, <2>1, <2>2
  <2> QED
    BY <2>3 DEF l
<1>3. sum \in Nat /\ hs.count + 1 \in Nat
  <2>1. hs.size \in Nat /\ h.size \in Nat /\ hs.count \in Nat
    BY DEF Sets, Heads
  <2> QED
    BY <2>1
<1>4. add = [[[hs EXCEPT !.buckets = new] EXCEPT !.count = @ + 1] EXCEPT !.size = sum]
  BY DEF HeaderSet_add, Sets
<1> HIDE DEF new, sum, add
<1>5. add \in Sets /\ add.buckets = new
  BY <1>2, <1>3, <1>4 DEF Sets
<1> QED
  BY <1>2, <1>5 DEF Bucket, add

\* What the first m fields of ss are to a set: every name that occurs is found, no other,
\* and the first field of a name is the one HeaderSet_first() finds.
FirstOf(ss, m, n, i) == i \in 1 .. m /\ ss[i].name = n /\ \A j \in 1 .. m : ss[j].name = n => i <= j

Mirrors(hs, ss, m) ==
    \A n \in HdrNames :
        /\ Found(hs, n) = {} => \A i \in 1 .. m : ss[i].name # n
        /\ Found(hs, n) # {} => \E i \in 1 .. m : ss[i].name = n
        /\ \A i \in 1 .. m : FirstOf(ss, m, n, i) =>
              HeaderSet_first(hs, n).name = n /\ HeaderSet_first(hs, n).value = ss[i].value

\* A set mirrors one field more once that is added.
LEMMA AddMirrors ==
    ASSUME NEW hs \in Sets, NEW h \in Heads, NEW ss \in Seq(Fields), NEW m \in Nat,
           m + 1 = Len(ss), Mirrors(hs, ss, m),
           ss[m + 1].name = h.name, ss[m + 1].value = h.value
    PROVE  Mirrors(HeaderSet_add(hs, h), ss, m + 1)
<1> DEFINE hs2 == HeaderSet_add(hs, h)
<1> SUFFICES ASSUME NEW n \in HdrNames
             PROVE  /\ Found(hs2, n) = {} => \A i \in 1 .. m + 1 : ss[i].name # n
                    /\ Found(hs2, n) # {} => \E i \in 1 .. m + 1 : ss[i].name = n
                    /\ \A i \in 1 .. m + 1 : FirstOf(ss, m + 1, n, i) =>
                          HeaderSet_first(hs2, n).name = n /\ HeaderSet_first(hs2, n).value = ss[i].value
  BY DEF Mirrors
<1> DEFINE b == Bucket(hs, n)
           b2 == Bucket(hs2, n)
           F == Found(hs, n)
           F2 == Found(hs2, n)
           L == Len(b)
           mine == h.name = n
<1>1. b \in Seq(Heads) /\ b2 \in Seq(Heads) /\ L \in Nat /\ hs2 \in Sets
      /\ b2 = IF HdrHash[n] = HdrHash[h.name] THEN Append(b, h) ELSE b
  BY BucketIs, AddIs
<1>2. F = {p \in 1 .. L : b[p].name = n} /\ F2 = {p \in 1 .. Len(b2) : b2[p].name = n}
  BY <1>1, FirstIs
<1>3. F2 = (IF mine THEN F \cup {L + 1} ELSE F)
      /\ (mine => b2[L + 1] = h) /\ \A p \in 1 .. L : b2[p] = b[p]
  <2>1. CASE HdrHash[n] = HdrHash[h.name]
    <3>1. b2 = Append(b, h)
      BY <1>1, <2>1
    <3>2. Len(b2) = L + 1 /\ b2[L + 1] = h /\ \A p \in 1 .. L : b2[p] = b[p]
      BY <1>1, <3>1
    <3> HIDE DEF b, b2, L, F, F2
    <3> QED
      BY <1>1, <1>2, <3>2
  <2>2. CASE HdrHash[n] # HdrHash[h.name]
    <3>1. b2 = b /\ ~mine
      BY <1>1, <2>2
    <3> QED
      BY <1>2, <3>1
  <2> QED
    BY <2>1, <2>2
<1>m. /\ F = {} => \A i \in 1 .. m : ss[i].name # n
      /\ F # {} => \E i \in 1 .. m : ss[i].name = n
      /\ \A i \in 1 .. m : FirstOf(ss, m, n, i) =>
            HeaderSet_first(hs, n).name = n /\ HeaderSet_first(hs, n).value = ss[i].value
  BY DEF Mirrors
<1>f. /\ F # {} => \E p \in F : (\A q \in F : p <= q) /\ HeaderSet_first(hs, n) = b[p]
      /\ F2 # {} => \E p \in F2 : (\A q \in F2 : p <= q) /\ HeaderSet_first(hs2, n) = b2[p]
  BY <1>1, FirstIs
<1>s. ss[m + 1].name = n <=> mine
  OBVIOUS
<1>i. \A i \in 1 .. m + 1 : i # m + 1 => i \in 1 .. m
  OBVIOUS
<1> HIDE DEF b, b2, F, F2, L, mine, hs2
<1>4. F2 = {} => \A i \in 1 .. m + 1 : ss[i].name # n
  BY <1>3, <1>m, <1>s, <1>i
<1>5. F2 # {} => \E i \in 1 .. m + 1 : ss[i].name = n
  <2>1. CASE mine
    BY <2>1, <1>s
  <2>2. CASE ~mine
    BY <2>2, <1>3, <1>m
  <2> QED
    BY <2>1, <2>2
<1>6. F # {} => HeaderSet_first(hs2, n) = HeaderSet_first(hs, n)
  <2> SUFFICES ASSUME F # {} PROVE HeaderSet_first(hs2, n) = HeaderSet_first(hs, n)
    OBVIOUS
  <2>1. PICK p \in F : (\A q \in F : p <= q) /\ HeaderSet_first(hs, n) = b[p]
    BY <1>f
  <2>2. F2 # {}
    BY <1>3
  <2>3. PICK r \in F2 : (\A q \in F2 : r <= q) /\ HeaderSet_first(hs2, n) = b2[r]
    BY <1>f, <2>2
  <2>4. p \in 1 .. L /\ F \subseteq 1 .. L
    BY <1>2
  <2>5. r <= p
    BY <2>3, <1>3
  <2>6. r \in F
    BY <2>4, <2>5, <1>1, <1>3
  <2>7. r = p
    <3>1. p <= r
      BY <2>1, <2>6
    <3>2. p \in Nat /\ r \in Nat
      BY <2>4, <2>6
    <3> QED
      BY <2>5, <3>1, <3>2
  <2> QED
    BY <2>1, <2>3, <2>4, <2>7, <1>3
<1>7. F = {} /\ mine => HeaderSet_first(hs2, n) = h
  <2> SUFFICES ASSUME F = {}, mine PROVE HeaderSet_first(hs2, n) = h
    OBVIOUS
  <2>1. F2 = {L + 1}
    BY <1>3
  <2> QED
    BY <2>1, <1>3, <1>f
<1>8. ASSUME NEW i \in 1 .. m + 1, FirstOf(ss, m + 1, n, i)
      PROVE  HeaderSet_first(hs2, n).name = n /\ HeaderSet_first(hs2, n).value = ss[i].value
  <2>1. ss[i].name = n /\ \A j \in 1 .. m + 1 : ss[j].name = n => i <= j
    BY <1>8 DEF FirstOf
  <2>2. CASE F # {}
    <3>1. PICK k \in 1 .. m : ss[k].name = n
      BY <1>m, <2>2
    <3>2. k \in 1 .. m + 1
      OBVIOUS
    <3>3. i <= k
      BY <2>1, <3>1, <3>2
    <3>4. i \in 1 .. m
      BY <3>3
    <3>5. FirstOf(ss, m, n, i)
      BY <2>1, <3>4 DEF FirstOf
    <3> QED
      BY <1>m, <1>6, <2>2, <3>4, <3>5
  <2>3. CASE F = {}
    <3>1. i = m + 1 /\ mine
      BY <1>m, <1>s, <1>i, <2>1, <2>3
    <3> QED
      BY <1>7, <2>3, <3>1 DEF mine
  <2> QED
    BY <2>2, <2>3
<1> QED
  BY <1>4, <1>5, <1>8 DEF F2, hs2

\* Only what is after the first m fields may change.
LEMMA MirrorsSame ==
    ASSUME NEW hs, NEW ss, NEW tt, NEW m, Mirrors(hs, ss, m), \A i \in 1 .. m : ss[i] = tt[i]
    PROVE  Mirrors(hs, tt, m)
BY DEF Mirrors, FirstOf

-----------------------------------------------------------------------------
(* Walking the fields of a name.                                           *)

\* The field at place[i] of its list is the i-th one of ss; the fields of a list stand
\* in the order in which they were sent, and a list holds nothing else.
Placing(place, hs, ss, m) ==
    /\ hs.count = m
    /\ \A n \in HdrNames : Len(Bucket(hs, n)) <= m
    /\ \A i \in 1 .. m :
          LET b == Bucket(hs, ss[i].name) IN
          /\ place[i] \in 1 .. Len(b)
          /\ b[place[i]].name = ss[i].name /\ b[place[i]].value = ss[i].value
    /\ \A i, j \in 1 .. m :
          i < j /\ HdrHash[ss[i].name] = HdrHash[ss[j].name] => place[i] < place[j]
    /\ \A n \in HdrNames : \A p \in 1 .. Len(Bucket(hs, n)) :
          \E i \in 1 .. m : HdrHash[ss[i].name] = HdrHash[n] /\ place[i] = p

Placed(hs, ss, m) == \E place \in [1 .. m -> Nat] : Placing(place, hs, ss, m)

\* A field that is added stands behind all others of its list.
LEMMA AddPlaced ==
    ASSUME NEW hs \in Sets, NEW h \in Heads, NEW ss \in Seq(Fields), NEW m \in Nat,
           m + 1 = Len(ss), Placed(hs, ss, m),
           ss[m + 1].name = h.name, ss[m + 1].value = h.value
    PROVE  Placed(HeaderSet_add(hs, h), ss, m + 1)
<1> DEFINE hs2 == HeaderSet_add(hs, h)
           L == Len(Bucket(hs, h.name))
<1>1. PICK place \in [1 .. m -> Nat] : Placing(place, hs, ss, m)
  BY DEF Placed
<1> DEFINE place2 == [i \in 1 .. m + 1 |-> IF i \in 1 .. m THEN place[i] ELSE L + 1]
<1>2. h.name \in HdrNames /\ L \in Nat
  <2>1. h.name \in HdrNames
    BY DEF Heads
  <2> QED
    BY <2>1, BucketIs
<1>3. place2 \in [1 .. m + 1 -> Nat]
  BY <1>2
<1>4. \A i \in 1 .. m + 1 : i # m + 1 => i \in 1 .. m
  OBVIOUS
<1>5. place2[m + 1] = L + 1 /\ \A i \in 1 .. m : place2[i] = place[i]
  OBVIOUS
<1>n. \A i \in 1 .. m + 1 : ss[i].name \in HdrNames
  <2>1. \A i \in 1 .. m + 1 : ss[i] \in Fields
    OBVIOUS
  <2> QED
    BY <2>1 DEF Fields
<1>b. \A n \in HdrNames :
        /\ Bucket(hs, n) \in Seq(Heads) /\ Len(Bucket(hs, n)) \in Nat
        /\ HdrHash[n] = HdrHash[h.name] =>
              /\ Bucket(hs2, n) = Append(Bucket(hs, n), h)
              /\ Len(Bucket(hs2, n)) = Len(Bucket(hs, n)) + 1
              /\ Len(Bucket(hs, n)) = L
              /\ Bucket(hs2, n)[L + 1] = h
        /\ HdrHash[n] # HdrHash[h.name] => Bucket(hs2, n) = Bucket(hs, n)
        /\ \A p \in 1 .. Len(Bucket(hs, n)) : Bucket(hs2, n)[p] = Bucket(hs, n)[p]
  <2> TAKE n \in HdrNames
  <2> DEFINE b == Bucket(hs, n)
             b2 == Bucket(hs2, n)
  <2>1. b \in Seq(Heads) /\ Len(b) \in Nat
    BY BucketIs
  <2>2. b2 = IF HdrHash[n] = HdrHash[h.name] THEN Append(b, h) ELSE b
    BY AddIs
  <2>3. HdrHash[n] = HdrHash[h.name] => Len(b) = L
    BY <1>2 DEF Bucket
  <2> HIDE DEF b, b2, hs2, L
  <2>4. CASE HdrHash[n] = HdrHash[h.name]
    <3>1. b2 = Append(b, h)
      BY <2>2, <2>4
    <3>2. Len(b2) = Len(b) + 1 /\ b2[Len(b) + 1] = h /\ \A p \in 1 .. Len(b) : b2[p] = b[p]
      BY <2>1, <3>1
    <3> QED
      BY <2>1, <2>3, <2>4, <3>1, <3>2 DEF b, b2
  <2>5. CASE HdrHash[n] # HdrHash[h.name]
    BY <2>1, <2>2, <2>5 DEF b, b2
  <2> QED
    BY <2>4, <2>5
<1>c. hs2.count = m + 1
  <2>1. hs.count = m
    BY <1>1 DEF Placing
  <2> QED
    BY <2>1 DEF HeaderSet_add, Sets
<1> HIDE DEF hs2, L, place2
<1>p1. \A n \in HdrNames : Len(Bucket(hs, n)) <= m
  BY <1>1 DEF Placing
<1>p2. \A i \in 1 .. m :
          /\ place[i] \in 1 .. Len(Bucket(hs, ss[i].name))
          /\ Bucket(hs, ss[i].name)[place[i]].name = ss[i].name
          /\ Bucket(hs, ss[i].name)[place[i]].value = ss[i].value
  BY <1>1 DEF Placing
<1>p3. \A i, j \in 1 .. m :
          i < j /\ HdrHash[ss[i].name] = HdrHash[ss[j].name] => place[i] < place[j]
  BY <1>1 DEF Placing
<1>p4. \A n \in HdrNames : \A p \in 1 .. Len(Bucket(hs, n)) :
          \E i \in 1 .. m : HdrHash[ss[i].name] = HdrHash[n] /\ place[i] = p
  BY <1>1 DEF Placing
<1>6. \A n \in HdrNames : Len(Bucket(hs2, n)) <= m + 1
  <2> TAKE n \in HdrNames
  <2>1. Len(Bucket(hs2, n)) = Len(Bucket(hs, n)) + 1 \/ Len(Bucket(hs2, n)) = Len(Bucket(hs, n))
    BY <1>b
  <2>2. Len(Bucket(hs, n)) <= m /\ Len(Bucket(hs, n)) \in Nat
    BY <1>b, <1>p1
  <2> QED
    BY <2>1, <2>2
<1>7. ASSUME NEW i \in 1 .. m + 1
      PROVE  /\ place2[i] \in 1 .. Len(Bucket(hs2, ss[i].name))
             /\ Bucket(hs2, ss[i].name)[place2[i]].name = ss[i].name
             /\ Bucket(hs2, ss[i].name)[place2[i]].value = ss[i].value
  <2>1. CASE i = m + 1
    <3>1. ss[i].name = h.name /\ ss[i].value = h.value
      BY <2>1
    <3>2. Bucket(hs2, h.name)[L + 1] = h /\ Len(Bucket(hs2, h.name)) = L + 1
      BY <1>2, <1>b
    <3>3. place2[i] = L + 1 /\ L + 1 \in 1 .. L + 1
      BY <1>2, <1>5, <2>1
    <3> QED
      BY <3>1, <3>2, <3>3
  <2>2. CASE i # m + 1
    <3>1. i \in 1 .. m /\ ss[i].name \in HdrNames
      BY <1>4, <1>n, <2>2
    <3> DEFINE b == Bucket(hs, ss[i].name)
               b2 == Bucket(hs2, ss[i].name)
    <3>2. place[i] \in 1 .. Len(b) /\ b[place[i]].name = ss[i].name /\ b[place[i]].value = ss[i].value
      BY <3>1, <1>p2
    <3>3. b2[place[i]] = b[place[i]]
      BY <3>1, <3>2, <1>b
    <3>4. Len(b) \in Nat /\ (Len(b2) = Len(b) + 1 \/ Len(b2) = Len(b))
      BY <3>1, <1>b
    <3> HIDE DEF b, b2
    <3>5. place[i] \in 1 .. Len(b2)
      BY <3>2, <3>4
    <3>6. place2[i] = place[i]
      BY <3>1, <1>5
    <3> QED
      BY <3>2, <3>3, <3>5, <3>6 DEF b, b2
  <2> QED
    BY <2>1, <2>2
<1>8. ASSUME NEW i \in 1 .. m + 1, NEW j \in 1 .. m + 1, i < j, HdrHash[ss[i].name] = HdrHash[ss[j].name]
      PROVE  place2[i] < place2[j]
  <2>1. i \in 1 .. m
    BY <1>8
  <2>2. CASE j = m + 1
    <3>1. ss[i].name \in HdrNames /\ HdrHash[ss[i].name] = HdrHash[h.name]
      BY <1>8, <1>n, <2>2
    <3>2. Len(Bucket(hs, ss[i].name)) = L
      BY <3>1, <1>b
    <3>3. place[i] \in 1 .. L
      BY <2>1, <3>2, <1>p2
    <3>4. place2[i] = place[i] /\ place2[j] = L + 1
      BY <2>1, <2>2, <1>5
    <3> QED
      BY <3>3, <3>4, <1>2
  <2>3. CASE j # m + 1
    <3>1. j \in 1 .. m
      BY <1>4, <2>3
    <3>2. place[i] < place[j]
      BY <1>8, <2>1, <3>1, <1>p3
    <3> QED
      BY <2>1, <3>1, <3>2, <1>5
  <2> QED
    BY <2>2, <2>3
<1>9. ASSUME NEW n \in HdrNames, NEW p \in 1 .. Len(Bucket(hs2, n))
      PROVE  \E i \in 1 .. m + 1 : HdrHash[ss[i].name] = HdrHash[n] /\ place2[i] = p
  <2>1. CASE p \in 1 .. Len(Bucket(hs, n))
    <3>1. PICK i \in 1 .. m : HdrHash[ss[i].name] = HdrHash[n] /\ place[i] = p
      BY <2>1, <1>p4
    <3>2. i \in 1 .. m + 1 /\ place2[i] = place[i]
      BY <1>5
    <3> QED
      BY <3>1, <3>2
  <2>2. CASE p \notin 1 .. Len(Bucket(hs, n))
    <3>1. HdrHash[n] = HdrHash[h.name] /\ Len(Bucket(hs, n)) = L /\ Len(Bucket(hs2, n)) = L + 1
      BY <2>2, <1>b
    <3>2. p = L + 1
      BY <2>2, <3>1, <1>2
    <3>3. m + 1 \in 1 .. m + 1
      OBVIOUS
    <3> QED
      BY <3>1, <3>2, <3>3, <1>5
  <2> QED
    BY <2>1, <2>2
<1>10. Placing(place2, hs2, ss, m + 1)
  <2>1. \A i \in 1 .. m + 1 :
          LET b == Bucket(hs2, ss[i].name) IN
          /\ place2[i] \in 1 .. Len(b)
          /\ b[place2[i]].name = ss[i].name /\ b[place2[i]].value = ss[i].value
    BY <1>7
  <2>2. \A i, j \in 1 .. m + 1 :
          i < j /\ HdrHash[ss[i].name] = HdrHash[ss[j].name] => place2[i] < place2[j]
    BY <1>8
  <2>3. \A n \in HdrNames : \A p \in 1 .. Len(Bucket(hs2, n)) :
          \E i \in 1 .. m + 1 : HdrHash[ss[i].name] = HdrHash[n] /\ place2[i] = p
    BY <1>9
  <2> QED
    BY <1>c, <1>6, <2>1, <2>2, <2>3 DEF Placing
<1> QED
  BY <1>3, <1>10 DEF Placed, hs2

\* Only what is after the first m fields may change.
LEMMA PlacedSame ==
    ASSUME NEW hs, NEW ss, NEW tt, NEW m, Placed(hs, ss, m), \A i \in 1 .. m : ss[i] = tt[i]
    PROVE  Placed(hs, tt, m)
<1>1. PICK place \in [1 .. m -> Nat] : Placing(place, hs, ss, m)
  BY DEF Placed
<1>2. /\ hs.count = m
      /\ \A n \in HdrNames : Len(Bucket(hs, n)) <= m
      /\ \A i \in 1 .. m :
            /\ place[i] \in 1 .. Len(Bucket(hs, tt[i].name))
            /\ Bucket(hs, tt[i].name)[place[i]].name = tt[i].name
            /\ Bucket(hs, tt[i].name)[place[i]].value = tt[i].value
  BY <1>1 DEF Placing
<1>3. \A i, j \in 1 .. m :
          i < j /\ HdrHash[tt[i].name] = HdrHash[tt[j].name] => place[i] < place[j]
  BY <1>1 DEF Placing
<1>4. \A n \in HdrNames : \A p \in 1 .. Len(Bucket(hs, n)) :
          \E i \in 1 .. m : HdrHash[tt[i].name] = HdrHash[n] /\ place[i] = p
  <2> TAKE n \in HdrNames
  <2> TAKE p \in 1 .. Len(Bucket(hs, n))
  <2>1. PICK i \in 1 .. m : HdrHash[ss[i].name] = HdrHash[n] /\ place[i] = p
    BY <1>1 DEF Placing
  <2> QED
    BY <2>1
<1>5. Placing(place, hs, tt, m)
  BY <1>2, <1>3, <1>4 DEF Placing
<1> QED
  BY <1>5 DEF Placed

\* An iterator for the name n at place p of its list.
At(n, p) == [key |-> n, bucket |-> HdrHash[n], pos |-> p]

\* It moves to the next place of the list with the name, if there is one.
LEMMA MoveNextIs ==
    ASSUME NEW hs \in Sets, NEW n \in HdrNames, NEW p \in Nat, Len(Bucket(hs, n)) <= hs.count
    PROVE  LET A == {q \in Found(hs, n) : q > p} IN
           /\ A = {} => HeaderIterator_moveNext(hs, At(n, p)) = At(n, 0)
           /\ \A q \in A : (\A r \in A : q <= r) => HeaderIterator_moveNext(hs, At(n, p)) = At(n, q)
<1> DEFINE b == Bucket(hs, n)
           k == HdrHash[n]
           it == At(n, p)
           A == {q \in Found(hs, n) : q > p}
           X == Ahead(hs, it)
           All == (0 .. HdrBuckets - 1) \X (1 .. hs.count)
<1>1. /\ b \in Seq(Heads) /\ Len(b) \in Nat /\ hs.count \in Nat
      /\ k \in 0 .. HdrBuckets - 1 /\ HdrBuckets \in Nat
      /\ b = hs.buckets[k] /\ n # NoKey
  BY BucketIs, HeaderAssumption DEF Sets, Bucket
<1>2. Found(hs, n) = {q \in 1 .. Len(b) : b[q].name = n}
  BY FirstIs
<1>3. it.key = n /\ it.bucket = k /\ it.pos = p
  BY DEF At
<1>4. X = {x \in All :
            /\ x[2] <= Len(hs.buckets[x[1]])
            /\ x[1] > k \/ (x[1] = k /\ x[2] > p)
            /\ x[1] = k /\ hs.buckets[x[1]][x[2]].name = n}
  BY <1>1, <1>3 DEF Ahead
<1>5. ASSUME NEW x \in X PROVE x[1] = k /\ x[2] \in A /\ x = <<k, x[2]>>
  <2>1. x \in All /\ x[1] = k /\ x[2] <= Len(b) /\ b[x[2]].name = n
    BY <1>1, <1>4
  <2>2. x[2] \in 1 .. hs.count /\ x = <<x[1], x[2]>>
    BY <2>1
  <2>3. x[2] > p
    <3>1. k \in Nat
      BY <1>1
    <3>2. ~(k > k)
      BY <3>1
    <3> QED
      BY <3>2, <1>4, <2>1
  <2>4. x[2] \in 1 .. Len(b)
    BY <1>1, <2>1, <2>2
  <2> QED
    BY <1>2, <2>1, <2>2, <2>3, <2>4
<1>6. ASSUME NEW q \in A PROVE <<k, q>> \in X
  <2>1. q \in 1 .. Len(b) /\ b[q].name = n /\ q > p
    BY <1>2
  <2>2. q \in 1 .. hs.count
    BY <1>1, <2>1
  <2>3. <<k, q>> \in All /\ <<k, q>>[1] = k /\ <<k, q>>[2] = q
    BY <1>1, <2>2
  <2>4. q <= Len(b)
    BY <2>1
  <2> HIDE DEF All
  <2> QED
    BY <1>1, <1>4, <2>1, <2>3, <2>4
<1>7. A \subseteq Nat
  BY <1>1, <1>2
<1>m. HeaderIterator_moveNext(hs, it) =
        IF X = {} THEN [it EXCEPT !.bucket = IF it.key = NoKey THEN 0 ELSE @, !.pos = 0]
        ELSE LET x == CHOOSE x \in X : \A y \in X : x[1] < y[1] \/ (x[1] = y[1] /\ x[2] <= y[2])
             IN [it EXCEPT !.bucket = x[1], !.pos = x[2]]
  BY DEF HeaderIterator_moveNext
<1> HIDE DEF X, A, b
<1>8. CASE A = {}
  <2>1. X = {}
    BY <1>5, <1>8
  <2>2. HeaderIterator_moveNext(hs, it) = [it EXCEPT !.bucket = IF it.key = NoKey THEN 0 ELSE @, !.pos = 0]
    BY <1>m, <2>1
  <2>3. HeaderIterator_moveNext(hs, it) = At(n, 0)
    BY <2>2, <1>1, <1>3 DEF At
  <2> QED
    BY <1>8, <2>3 DEF A
<1>9. CASE A # {}
  <2> SUFFICES ASSUME NEW q \in A, \A r \in A : q <= r
               PROVE  HeaderIterator_moveNext(hs, it) = At(n, q)
    BY <1>9 DEF A
  <2> DEFINE x == CHOOSE x \in X : \A y \in X : x[1] < y[1] \/ (x[1] = y[1] /\ x[2] <= y[2])
  <2>1. <<k, q>> \in X
    BY <1>6
  <2>2. \A y \in X : <<k, q>>[1] = y[1] /\ <<k, q>>[2] <= y[2]
    <3> TAKE y \in X
    <3>1. y[1] = k /\ q <= y[2]
      BY <1>5
    <3> QED
      BY <3>1
  <2>3. x \in X /\ \A y \in X : x[1] < y[1] \/ (x[1] = y[1] /\ x[2] <= y[2])
    BY <2>1, <2>2
  <2> HIDE DEF x
  <2>4. x[1] = k /\ x[2] = q
    <3>1. x[1] = k /\ x[2] \in A
      BY <1>5, <2>3
    <3>2. x[1] < k \/ (x[1] = k /\ x[2] <= q)
      BY <2>1, <2>3
    <3>k. k \in Nat
      BY <1>1
    <3>3. q \in Nat /\ x[2] \in Nat
      BY <1>7, <3>1
    <3> HIDE DEF k
    <3>4. x[2] <= q
      BY <3>1, <3>2, <3>k, <3>3
    <3>5. q <= x[2]
      BY <3>1
    <3>6. x[2] = q
      BY <3>3, <3>4, <3>5
    <3> QED
      BY <3>1, <3>6
  <2>5. HeaderIterator_moveNext(hs, it) = [it EXCEPT !.bucket = x[1], !.pos = x[2]]
    BY <1>m, <2>1 DEF x
  <2> QED
    BY <2>4, <2>5 DEF At
<1> QED
  BY <1>8, <1>9

\* A walk of n steps from x can be taken, the k-th of which f does.
Walks(S, f, x, n) == {h \in [0 .. n -> S] : h[0] = x /\ \A k \in 1 .. n : h[k] = f[<<k, h[k-1]>>]}

LEMMA Iterate ==
    ASSUME NEW S, NEW n \in Nat, NEW f \in [(1 .. n) \X S -> S], NEW x \in S
    PROVE  Walks(S, f, x, n) # {}
<1> USE DEF Walks
<1> DEFINE Good(k) == Walks(S, f, x, k)
           Bad == {k \in Nat : k <= n /\ Good(k) = {}}
<1>1. SUFFICES ASSUME Bad # {} PROVE FALSE
  <2>1. n \in Nat /\ n <= n
    OBVIOUS
  <2>2. Good(n) = {} => n \in Bad
    BY <2>1
  <2> HIDE DEF Bad
  <2> QED
    BY <2>2
<1>2. PICK m \in Bad : \A k \in Bad : m <= k
  <2>1. Bad \subseteq Nat
    OBVIOUS
  <2> HIDE DEF Bad
  <2> QED
    BY <1>1, <2>1, LeastPosition
<1>3. m # 0
  <2>1. [k \in 0 .. 0 |-> x] \in Good(0)
    OBVIOUS
  <2> QED
    BY <2>1
<1>4. PICK h \in Good(m - 1) : TRUE
  <2>1. m - 1 \in Nat /\ m - 1 <= n /\ ~(m <= m - 1)
    BY <1>3
  <2>2. m - 1 \notin Bad
    BY <1>2, <2>1
  <2> QED
    BY <2>1, <2>2
<1> DEFINE y == f[<<m, h[m-1]>>]
           g == [k \in 0 .. m |-> IF k < m THEN h[k] ELSE y]
<1>5. m \in 1 .. n /\ m - 1 \in 0 .. m - 1 /\ h[m-1] \in S /\ y \in S
  <2>1. m \in 1 .. n /\ m - 1 \in 0 .. m - 1
    BY <1>3
  <2>2. h[m-1] \in S
    BY <2>1, <1>4
  <2> QED
    BY <2>1, <2>2
<1>6. g \in [0 .. m -> S] /\ g[0] = x
  <2> HIDE DEF y
  <2> QED
    BY <1>4, <1>5
<1>7. ASSUME NEW i \in 1 .. m PROVE g[i] = f[<<i, g[i-1]>>]
  <2>1. CASE i = m
    <3>1. g[m-1] = h[m-1] /\ g[m] = y
      BY <1>5
    <3> HIDE DEF g
    <3> QED
      BY <2>1, <3>1
  <2>2. CASE i < m
    <3>1. i \in 1 .. m - 1 /\ g[i] = h[i] /\ g[i-1] = h[i-1]
      BY <2>2, <1>5
    <3> QED
      BY <3>1, <1>4
  <2> QED
    BY <2>1, <2>2, <1>5
<1> HIDE DEF g
<1>8. g \in Good(m)
  BY <1>6, <1>7
<1> QED
  BY <1>8

\* What the steps of Walk are.
LEMMA WalkIs ==
    ASSUME NEW hs \in Sets, NEW n \in HdrNames, Len(Bucket(hs, n)) <= hs.count
    PROVE  /\ Walk(hs, n)[0] = At(n, 0)
           /\ \A k \in 1 .. hs.count + 1 : Walk(hs, n)[k] = HeaderIterator_moveNext(hs, Walk(hs, n)[k-1])
<1> DEFINE Its == {At(n, p) : p \in Nat}
           c == hs.count + 1
           move == [x \in (1 .. c) \X Its |-> HeaderIterator_moveNext(hs, x[2])]
           Def(h) == [k \in 0 .. hs.count + 1 |->
                        IF k = 0 THEN HeaderSet_any(n) ELSE HeaderIterator_moveNext(hs, h[k-1])]
<1>1. c \in Nat
  BY DEF Sets
<1>2. \A it \in Its : HeaderIterator_moveNext(hs, it) \in Its
  <2> SUFFICES ASSUME NEW p \in Nat PROVE HeaderIterator_moveNext(hs, At(n, p)) \in Its
    OBVIOUS
  <2> DEFINE A == {q \in Found(hs, n) : q > p}
  <2>1. A \subseteq Nat
    BY FirstIs, BucketIs
  <2>2. CASE A = {}
    BY <2>2, MoveNextIs
  <2>3. CASE A # {}
    <3>1. PICK q \in A : \A r \in A : q <= r
      <4> HIDE DEF A
      <4> QED
        BY <2>1, <2>3, LeastPosition
    <3>2. HeaderIterator_moveNext(hs, At(n, p)) = At(n, q)
      BY <3>1, MoveNextIs
    <3> QED
      BY <2>1, <3>1, <3>2
  <2> QED
    BY <2>2, <2>3
<1>3. move \in [(1 .. c) \X Its -> Its] /\ At(n, 0) \in Its
  <2>1. At(n, 0) \in Its
    OBVIOUS
  <2> HIDE DEF Its
  <2> QED
    BY <1>2, <2>1
<1>4. PICK h \in [0 .. c -> Its] : h[0] = At(n, 0) /\ \A k \in 1 .. c : h[k] = move[<<k, h[k-1]>>]
  <2> HIDE DEF move, Its, c
  <2>1. Walks(Its, move, At(n, 0), c) # {}
    BY <1>1, <1>3, Iterate
  <2> QED
    BY <2>1 DEF Walks
<1>5. h = Def(h)
  <2>1. h = [k \in 0 .. hs.count + 1 |-> h[k]]
    OBVIOUS
  <2>2. \A k \in 0 .. hs.count + 1 : h[k] = IF k = 0 THEN HeaderSet_any(n) ELSE HeaderIterator_moveNext(hs, h[k-1])
    <3> TAKE k \in 0 .. hs.count + 1
    <3>1. CASE k = 0
      BY <3>1, <1>4 DEF HeaderSet_any, At
    <3>2. CASE k # 0
      <4>1. k \in 1 .. c /\ k - 1 \in 0 .. c
        BY <3>2, <1>1
      <4>2. h[k-1] \in Its
        BY <4>1
      <4>3. h[k] = move[<<k, h[k-1]>>]
        BY <4>1, <1>4
      <4>4. <<k, h[k-1]>> \in (1 .. c) \X Its
        BY <4>1, <4>2
      <4>5. move[<<k, h[k-1]>>] = HeaderIterator_moveNext(hs, h[k-1])
        <5> HIDE DEF Its, c
        <5> QED
          BY <4>4
      <4> QED
        BY <3>2, <4>3, <4>5
    <3> QED
      BY <3>1, <3>2
  <2> QED
    BY <2>1, <2>2
<1>6. Walk(hs, n) = CHOOSE at : at = Def(at)
  BY DEF Walk
<1> HIDE DEF Def
<1>7. Walk(hs, n) = Def(Walk(hs, n))
  BY <1>5, <1>6, Zenon
<1>8. Walk(hs, n) = [k \in 0 .. c |-> IF k = 0 THEN HeaderSet_any(n)
                                      ELSE HeaderIterator_moveNext(hs, Walk(hs, n)[k-1])]
  BY <1>7 DEF Def
<1> DEFINE w == Walk(hs, n)
<1> HIDE DEF w, c
<1>9. w = [k \in 0 .. c |-> IF k = 0 THEN HeaderSet_any(n) ELSE HeaderIterator_moveNext(hs, w[k-1])]
  BY <1>8 DEF w
<1>10. w[0] = At(n, 0) /\ \A k \in 1 .. c : w[k] = HeaderIterator_moveNext(hs, w[k-1])
  BY <1>1, <1>9 DEF HeaderSet_any, At
<1> QED
  BY <1>10 DEF w, c

\* The places of a name's fields are where its fields were put.
LEMMA FoundIs ==
    ASSUME NEW hs \in Sets, NEW ss \in Seq(Fields), NEW place, Placing(place, hs, ss, Len(ss)),
           NEW n \in HdrNames
    PROVE  /\ \A i \in 1 .. Len(ss) : ss[i].name = n => place[i] \in Found(hs, n)
           /\ \A p \in Found(hs, n) : \E i \in 1 .. Len(ss) : ss[i].name = n /\ place[i] = p
<1>1. Found(hs, n) = {p \in 1 .. Len(Bucket(hs, n)) : Bucket(hs, n)[p].name = n}
  BY FirstIs
<1>2. \A i \in 1 .. Len(ss) :
        /\ place[i] \in 1 .. Len(Bucket(hs, ss[i].name))
        /\ Bucket(hs, ss[i].name)[place[i]].name = ss[i].name
  BY DEF Placing
<1>3. \A p \in 1 .. Len(Bucket(hs, n)) :
        \E i \in 1 .. Len(ss) : HdrHash[ss[i].name] = HdrHash[n] /\ place[i] = p
  BY DEF Placing
<1>4. ASSUME NEW p \in Found(hs, n)
      PROVE  \E i \in 1 .. Len(ss) : ss[i].name = n /\ place[i] = p
  <2>1. PICK i \in 1 .. Len(ss) : HdrHash[ss[i].name] = HdrHash[n] /\ place[i] = p
    BY <1>1, <1>3, <1>4
  <2>2. Bucket(hs, ss[i].name) = Bucket(hs, n)
    BY <2>1 DEF Bucket
  <2>3. ss[i].name = n
    BY <1>1, <1>2, <1>4, <2>1, <2>2
  <2> QED
    BY <2>1, <2>3
<1> QED
  BY <1>1, <1>2, <1>4

\* The fields sent with the name n before the i-th one.
SentBefore(n, i) == {j \in SentAt(n) : j < i}

\* Each of them counts once.
LEMMA BeforeCount ==
    ASSUME sent \in Seq(Fields), NEW n
    PROVE  /\ \A i \in Nat : /\ IsFiniteSet(SentBefore(n, i))
                              /\ Cardinality(SentBefore(n, i)) \in Nat
                              /\ Cardinality(SentBefore(n, i)) <= Len(sent)
           /\ \A i \in SentAt(n) : UpToSent(n, i) = Cardinality(SentBefore(n, i)) + 1
           /\ SentBefore(n, Len(sent) + 1) = SentAt(n)
           /\ \A i \in SentAt(n) : \A k \in Nat :
                i < k /\ (\A j \in SentBefore(n, k) : j <= i) =>
                  Cardinality(SentBefore(n, k)) = UpToSent(n, i)
<1> DEFINE m == Len(sent)
           S == SentAt(n)
           B(i) == {j \in S : j < i}
<1>1. S \subseteq 1 .. m /\ m \in Nat
  BY DEF SentAt
<1>2. IsFiniteSet(1 .. m) /\ Cardinality(1 .. m) = m
  <2>1. 1 \in Int /\ m \in Int /\ 1 <= m + 1 /\ m - 1 + 1 = m
    BY <1>1
  <2>2. IsFiniteSet(1 .. m) /\ Cardinality(1 .. m) = IF 1 > m THEN 0 ELSE m - 1 + 1
    BY <2>1, FS_Interval
  <2> HIDE DEF m
  <2> QED
    BY <1>1, <2>1, <2>2
<1> HIDE DEF S, m
<1>3. ASSUME NEW T, T \subseteq S
      PROVE  IsFiniteSet(T) /\ Cardinality(T) \in Nat /\ Cardinality(T) <= m
  <2>1. T \subseteq 1 .. m
    BY <1>1, <1>3
  <2>2. IsFiniteSet(T) /\ Cardinality(T) <= Cardinality(1 .. m)
    BY <2>1, <1>2, FS_Subset
  <2> QED
    BY <2>2, <1>2, FS_CardinalityType
<1>4. ASSUME NEW i \in S
      PROVE  UpToSent(n, i) = Cardinality(B(i)) + 1
  <2>1. {j \in S : j <= i} = B(i) \cup {i} /\ i \notin B(i)
    <3>1. \A j \in S : j \in Nat
      BY <1>1
    <3>2. \A j \in S : j <= i <=> j < i \/ j = i
      BY <3>1
    <3>3. ~(i < i)
      BY <3>1
    <3> QED
      BY <3>2, <3>3
  <2>2. B(i) \subseteq S
    OBVIOUS
  <2>3. IsFiniteSet(B(i))
    BY <2>2, <1>3
  <2> HIDE DEF B
  <2>4. Cardinality(B(i) \cup {i}) = Cardinality(B(i)) + 1
    BY <2>1, <2>3, FS_AddElement
  <2> QED
    BY <2>1, <2>4 DEF UpToSent, S
<1>5. B(m + 1) = S
  <2>1. \A j \in S : j \in 1 .. m
    BY <1>1
  <2>2. \A j \in S : j < m + 1
    BY <1>1, <2>1
  <2> QED
    BY <2>2
<1>6. ASSUME NEW i \in S, NEW k \in Nat, i < k, \A j \in B(k) : j <= i
      PROVE  Cardinality(B(k)) = UpToSent(n, i)
  <2>1. B(k) = {j \in S : j <= i}
    <3>1. \A j \in S : j \in Nat
      BY <1>1
    <3>2. \A j \in S : j <= i => j < k
      BY <3>1, <1>6
    <3>3. \A j \in S : j < k => j <= i
      BY <1>6
    <3> QED
      BY <3>2, <3>3
  <2> HIDE DEF B
  <2> QED
    BY <2>1 DEF UpToSent, S
<1>7. \A i \in Nat : B(i) \subseteq S
  OBVIOUS
<1>8. \A i : SentBefore(n, i) = B(i)
  BY DEF SentBefore, S
<1> HIDE DEF B
<1> QED
  BY <1>3, <1>4, <1>5, <1>6, <1>7, <1>8 DEF S, m

\* Every set of numbers below a bound has a greatest one.
LEMMA GreatestPosition ==
    ASSUME NEW T, NEW k \in Nat, T \subseteq Nat, T # {}, \A i \in T : i < k
    PROVE  \E g \in T : \A i \in T : i <= g
<1> DEFINE U == {k - i : i \in T}
<1>1. U \subseteq Nat /\ U # {}
  <2>1. \A i \in T : k - i \in Nat
    OBVIOUS
  <2> QED
    BY <2>1
<1>2. PICK u \in U : \A w \in U : u <= w
  <2> HIDE DEF U
  <2> QED
    BY <1>1, LeastPosition
<1>3. PICK g \in T : u = k - g
  OBVIOUS
<1>4. ASSUME NEW i \in T PROVE i <= g
  <2>1. k - g <= k - i
    BY <1>2, <1>3
  <2>2. i \in Nat /\ g \in Nat
    OBVIOUS
  <2> QED
    BY <2>1, <2>2
<1> QED
  BY <1>4

\* With every field put in its place, the walk finds the fields of a name as they were
\* sent, and then ends.
LEMMA WalkFindsAll ==
    ASSUME NEW hs \in Sets, sent \in Seq(Fields), Placed(hs, sent, Len(sent)), NEW n \in HdrNames
    PROVE  LET at == Walk(hs, n) IN
           /\ \A i \in SentAt(n) :
                LET it == at[UpToSent(n, i)] IN
                it.pos # 0 /\ HeaderIterator_current(hs, it).value = sent[i].value
           /\ at[Cardinality(SentAt(n)) + 1].pos = 0
<1> DEFINE m == Len(sent)
           S == SentAt(n)
           at == Walk(hs, n)
           F == Found(hs, n)
           B(i) == SentBefore(n, i)
<1>1. PICK place \in [1 .. m -> Nat] : Placing(place, hs, sent, m)
  BY DEF Placed
<1>2. S = {i \in 1 .. m : sent[i].name = n} /\ S \subseteq Nat /\ m \in Nat
  BY DEF SentAt
<1>3. hs.count = m /\ Len(Bucket(hs, n)) <= hs.count
  BY <1>1 DEF Placing
<1>4. at[0] = At(n, 0) /\ \A k \in 1 .. m + 1 : at[k] = HeaderIterator_moveNext(hs, at[k-1])
  BY <1>3, WalkIs
<1>5. /\ \A i \in S : place[i] \in F
      /\ \A p \in F : \E i \in S : place[i] = p
  BY <1>1, <1>2, FoundIs
<1>6. \A i, j \in S : i < j => place[i] < place[j]
  BY <1>1, <1>2 DEF Placing
<1>7. F \subseteq 1 .. Len(Bucket(hs, n))
  BY FirstIs
<1>8. ASSUME NEW i \in S
      PROVE  /\ place[i] \in Nat /\ place[i] # 0
             /\ HeaderIterator_current(hs, At(n, place[i])).value = sent[i].value
  <2>1. i \in 1 .. m /\ sent[i].name = n
    BY <1>2
  <2>2. place[i] \in 1 .. Len(Bucket(hs, n)) /\ Bucket(hs, n)[place[i]].value = sent[i].value
    BY <1>1, <2>1 DEF Placing
  <2>3. HeaderIterator_current(hs, At(n, place[i])) = Bucket(hs, n)[place[i]]
    BY DEF HeaderIterator_current, At, Bucket
  <2> QED
    BY <2>2, <2>3
<1>b. /\ \A i \in Nat : Cardinality(B(i)) \in Nat /\ Cardinality(B(i)) <= m
      /\ \A i \in S : UpToSent(n, i) = Cardinality(B(i)) + 1
      /\ B(m + 1) = S
      /\ \A i \in S : \A k \in Nat :
            i < k /\ (\A j \in B(k) : j <= i) => Cardinality(B(k)) = UpToSent(n, i)
      /\ \A i \in Nat : B(i) = {} => Cardinality(B(i)) = 0
  BY BeforeCount, FS_EmptySet
<1>t. \A k : B(k) = {j \in S : j < k}
  BY DEF SentBefore
<1> HIDE DEF m, S, at, F, B
\* The walk is at a field once those before it are passed, and at its place.
<1>9. ASSUME NEW k \in Nat, \A i \in S : i < k => at[UpToSent(n, i)] = At(n, place[i])
      PROVE  \E p \in Nat : /\ at[Cardinality(B(k))] = At(n, p)
                           /\ \A i \in S : place[i] > p <=> i >= k
  <2>1. CASE B(k) = {}
    <3>1. Cardinality(B(k)) = 0
      BY <1>b, <2>1
    <3>2. \A i \in S : place[i] > 0
      BY <1>8
    <3>3. \A i \in S : i >= k
      <4>1. \A i \in S : ~(i < k) /\ i \in Nat
        BY <1>t, <1>2, <2>1
      <4> QED
        BY <4>1
    <3> QED
      BY <3>1, <3>2, <3>3, <1>4
  <2>2. CASE B(k) # {}
    <3>1. PICK g \in B(k) : \A i \in B(k) : i <= g
      <4>1. B(k) \subseteq Nat /\ \A i \in B(k) : i < k
        BY <1>t, <1>2
      <4> QED
        BY <2>2, <4>1, GreatestPosition
    <3>2. g \in S /\ g < k
      BY <1>t
    <3>3. Cardinality(B(k)) = UpToSent(n, g)
      BY <3>1, <3>2, <1>b
    <3>4. at[Cardinality(B(k))] = At(n, place[g])
      BY <3>2, <3>3, <1>9
    <3>5. ASSUME NEW i \in S PROVE place[i] > place[g] <=> i >= k
      <4>1. i \in Nat /\ g \in Nat /\ place[i] \in Nat /\ place[g] \in Nat
        BY <1>2, <1>8, <3>2
      <4>2. CASE i < k
        <5>1. i \in B(k)
          BY <4>2, <1>t
        <5>2. i <= g
          BY <5>1, <3>1
        <5>3. place[i] <= place[g]
          <6>1. CASE i = g
            BY <6>1, <4>1
          <6>2. CASE i # g
            <7>1. i < g
              BY <6>2, <5>2, <4>1
            <7>2. place[i] < place[g]
              BY <7>1, <3>2, <1>6
            <7> QED
              BY <7>2, <4>1
          <6> QED
            BY <6>1, <6>2
        <5> QED
          BY <4>1, <4>2, <5>3
      <4>3. CASE ~(i < k)
        <5>1. g < i
          BY <4>1, <4>3, <3>2
        <5>2. place[g] < place[i]
          BY <5>1, <3>2, <1>6
        <5> QED
          BY <4>1, <4>3, <5>2
      <4> QED
        BY <4>2, <4>3
    <3>6. place[g] \in Nat
      BY <3>2, <1>8
    <3> QED
      BY <3>4, <3>5, <3>6
  <2> QED
    BY <2>1, <2>2
<1>10. \A i \in S : at[UpToSent(n, i)] = At(n, place[i])
  <2> DEFINE Bad == {i \in S : at[UpToSent(n, i)] # At(n, place[i])}
  <2> SUFFICES ASSUME Bad # {} PROVE FALSE
    OBVIOUS
  <2>1. PICK k \in Bad : \A i \in Bad : k <= i
    <3>1. Bad \subseteq Nat
      BY <1>2
    <3> HIDE DEF Bad
    <3> QED
      BY <3>1, LeastPosition
  <2>2. k \in S /\ k \in Nat /\ at[UpToSent(n, k)] # At(n, place[k])
    BY <1>2
  <2>3. \A i \in S : i < k => at[UpToSent(n, i)] = At(n, place[i])
    <3> TAKE i \in S
    <3>1. i \in Nat
      BY <1>2
    <3>2. i < k => i \notin Bad
      BY <2>1, <2>2, <3>1
    <3> QED
      BY <3>2
  <2> HIDE DEF Bad
  <2>4. PICK p \in Nat : /\ at[Cardinality(B(k))] = At(n, p)
                        /\ \A i \in S : place[i] > p <=> i >= k
    BY <2>2, <2>3, <1>9
  <2>5. at[UpToSent(n, k)] = HeaderIterator_moveNext(hs, At(n, p))
    <3> DEFINE c == Cardinality(B(k))
    <3>1. c \in Nat /\ c <= m /\ UpToSent(n, k) = c + 1
      BY <1>b, <2>2
    <3>2. at[c] = At(n, p)
      BY <2>4
    <3> HIDE DEF c
    <3>3. c + 1 \in 1 .. m + 1 /\ (c + 1) - 1 = c
      BY <3>1, <1>2
    <3> QED
      BY <3>1, <3>2, <3>3, <1>4
  <2>6. place[k] \in F /\ place[k] > p /\ \A r \in F : r > p => place[k] <= r
    <3>1. place[k] \in F
      BY <2>2, <1>5
    <3>2. place[k] > p
      BY <2>2, <2>4
    <3>3. ASSUME NEW r \in F, r > p PROVE place[k] <= r
      <4>1. PICK i \in S : place[i] = r
        BY <1>5
      <4>2. i >= k
        BY <4>1, <2>4, <3>3
      <4>3. i \in Nat /\ place[i] \in Nat /\ place[k] \in Nat
        BY <1>2, <1>8, <2>2
      <4>4. CASE i = k
        BY <4>1, <4>3, <4>4
      <4>5. CASE i # k
        <5>1. k < i
          BY <4>2, <4>3, <4>5, <2>2
        <5>2. place[k] < place[i]
          BY <5>1, <1>6, <2>2
        <5> QED
          BY <4>1, <4>3, <5>2
      <4> QED
        BY <4>4, <4>5
    <3> QED
      BY <3>1, <3>2, <3>3
  <2>7. HeaderIterator_moveNext(hs, At(n, p)) = At(n, place[k])
    BY <2>6, <1>3, MoveNextIs DEF F
  <2> QED
    BY <2>2, <2>5, <2>7
<1>11. at[Cardinality(S) + 1].pos = 0
  <2>1. m + 1 \in Nat
    BY <1>2
  <2>2. \A i \in S : i < m + 1
    BY <1>2
  <2>3. PICK p \in Nat : /\ at[Cardinality(B(m + 1))] = At(n, p)
                        /\ \A i \in S : place[i] > p <=> i >= m + 1
    BY <2>1, <1>9, <1>10
  <2>4. {q \in F : q > p} = {}
    <3> SUFFICES ASSUME NEW q \in F, q > p PROVE FALSE
      OBVIOUS
    <3>1. PICK i \in S : place[i] = q
      BY <1>5
    <3>2. i >= m + 1
      BY <3>1, <2>3
    <3>3. i < m + 1 /\ i \in Nat
      BY <2>2, <1>2
    <3> QED
      BY <3>2, <3>3, <2>1
  <2>5. HeaderIterator_moveNext(hs, At(n, p)) = At(n, 0)
    BY <2>4, <1>3, MoveNextIs DEF F
  <2>6. at[Cardinality(S) + 1] = HeaderIterator_moveNext(hs, At(n, p))
    <3> DEFINE c == Cardinality(S)
    <3>1. c \in Nat /\ c <= m
      BY <1>b, <2>1
    <3>2. at[c] = At(n, p)
      BY <2>3, <1>b
    <3> HIDE DEF c
    <3>3. c + 1 \in 1 .. m + 1 /\ (c + 1) - 1 = c
      BY <3>1, <1>2
    <3> QED
      BY <3>1, <3>2, <3>3, <1>4 DEF c
  <2> QED
    BY <2>5, <2>6 DEF At
<1>12. \A i \in S : at[UpToSent(n, i)].pos # 0 /\ HeaderIterator_current(hs, at[UpToSent(n, i)]).value = sent[i].value
  <2> TAKE i \in S
  <2>1. at[UpToSent(n, i)] = At(n, place[i])
    BY <1>10
  <2>2. At(n, place[i]).pos = place[i]
    BY DEF At
  <2> QED
    BY <2>1, <2>2, <1>8
<1> QED
  BY <1>11, <1>12 DEF S, at

\* HeaderSet_single() answers if and only if one field of the name was sent.
LEMMA SingleIsOne ==
    ASSUME NEW hs \in Sets, sent \in Seq(Fields), Placed(hs, sent, Len(sent)), NEW n \in HdrNames
    PROVE  HeaderSet_single(hs, n) # NoHeader <=> Cardinality(SentAt(n)) = 1
<1> DEFINE m == Len(sent)
           S == SentAt(n)
           F == Found(hs, n)
<1>1. PICK place \in [1 .. m -> Nat] : Placing(place, hs, sent, m)
  BY DEF Placed
<1>2. S = {i \in 1 .. m : sent[i].name = n} /\ m \in Nat
  BY DEF SentAt
<1>3. /\ \A i \in S : place[i] \in F
      /\ \A p \in F : \E i \in S : place[i] = p
  BY <1>1, <1>2, FoundIs
<1>4. \A i, j \in S : place[i] = place[j] => i = j
  <2> TAKE i, j \in S
  <2>1. i \in 1 .. m /\ j \in 1 .. m /\ HdrHash[sent[i].name] = HdrHash[sent[j].name]
    BY <1>2
  <2>2. (i < j => place[i] < place[j]) /\ (j < i => place[j] < place[i])
    BY <1>1, <2>1 DEF Placing
  <2>3. place[i] \in Nat /\ place[j] \in Nat /\ i \in Nat /\ j \in Nat
    BY <2>1
  <2> QED
    BY <2>2, <2>3
<1>5. IsFiniteSet(S)
  <2>1. S = SentBefore(n, m + 1)
    BY BeforeCount
  <2>2. m + 1 \in Nat
    BY <1>2
  <2> HIDE DEF S, m
  <2> QED
    BY <2>1, <2>2, BeforeCount DEF m
<1>6. F \subseteq 1 .. Len(Bucket(hs, n)) /\ IsFiniteSet(F)
  <2>1. F \subseteq 1 .. Len(Bucket(hs, n)) /\ Len(Bucket(hs, n)) \in Int /\ 1 \in Int
    BY FirstIs, BucketIs
  <2> HIDE DEF F
  <2> QED
    BY <2>1, FS_Interval, FS_Subset
<1>7. Cardinality(F) = 1 => HeaderSet_first(hs, n) # NoHeader
  <2> SUFFICES ASSUME Cardinality(F) = 1 PROVE HeaderSet_first(hs, n) # NoHeader
    OBVIOUS
  <2>0. Cardinality({}) = 0
    BY FS_EmptySet
  <2>1. F # {}
    <3> HIDE DEF F
    <3> QED
      BY <2>0
  <2>2. PICK p \in F : HeaderSet_first(hs, n) = Bucket(hs, n)[p]
    BY <2>1, FirstIs
  <2>3. Bucket(hs, n)[p].name = n
    BY <2>2, FirstIs
  <2>4. NoHeader.name = NoKey /\ n # NoKey
    BY HeaderAssumption DEF NoHeader, Header
  <2> QED
    BY <2>2, <2>3, <2>4
<1>8. HeaderSet_single(hs, n) # NoHeader <=> Cardinality(F) = 1
  BY <1>7 DEF HeaderSet_single
<1> HIDE DEF S, F, m
<1>9. Cardinality(F) = 1 <=> \E p : F = {p}
  BY <1>6, FS_Singleton
<1>10. Cardinality(S) = 1 <=> \E i : S = {i}
  BY <1>5, FS_Singleton
<1>11. (\E p : F = {p}) => \E i : S = {i}
  <2> SUFFICES ASSUME NEW p, F = {p} PROVE \E i : S = {i}
    OBVIOUS
  <2>1. PICK i \in S : place[i] = p
    BY <1>3
  <2>2. S = {i}
    BY <1>3, <1>4, <2>1
  <2> QED
    BY <2>2
<1>12. (\E i : S = {i}) => \E p : F = {p}
  <2> SUFFICES ASSUME NEW i, S = {i} PROVE \E p : F = {p}
    OBVIOUS
  <2>1. F = {place[i]}
    BY <1>3
  <2> QED
    BY <2>1
<1> QED
  BY <1>8, <1>9, <1>10, <1>11, <1>12 DEF S

-----------------------------------------------------------------------------
(* The inductive invariant.                                                *)

\* The field that is being read is the last one the client sent so far; hdrvalpos is
\* zero as long as there was nothing but blanks in it.
FieldIsLast ==
    hdrnm # NoKey =>
        /\ hdrval \in Texts /\ sent # <<>>
        /\ sent[Len(sent)].name = hdrnm /\ sent[Len(sent)].value = hdrval
        /\ hdrvalpos = 0 => hdrval = <<Blank>>
        /\ hdrval = <<Blank>> => hdrvalpos = 0

Stored == IF hdrnm = NoKey THEN Len(sent) ELSE Len(sent) - 1

HeadersRead ==
    recvState \in {"method", "headers"} =>
        /\ status = "ok" /\ bodySize = 0 /\ bodypos = 0 /\ chunks = 0
        /\ FieldIsLast /\ Mirrors(headers, sent, Stored)

BodyRead ==
    recvState = "body" =>
        /\ status = "ok" /\ bodySize > 0 /\ bodypos < bodySize
        /\ chunks = 0 => bodypos = 0
        /\ FirstSent("content-length", <<bodySize>>)

Received ==
    /\ ParserTypeOK /\ sent \in Seq(Fields) /\ headers \in Sets /\ chunks \in Nat
    /\ HeadersRead /\ BodyRead /\ BodyAsAnnounced

\* It holds of a new request.
LEMMA ReceivedInit == ParserInit => Received
<1> SUFFICES ASSUME ParserInit PROVE Received
  OBVIOUS
<1>0. /\ recvState = "method" /\ meth = "" /\ status = "ok" /\ hdrnm = NoKey /\ hdrval = <<>>
      /\ hdrvalpos = 0 /\ headers = EmptySet /\ bodySize = 0 /\ bodypos = 0 /\ body = <<>>
      /\ sent = <<>> /\ chunks = 0
  BY DEF ParserInit
<1>1. ParserTypeOK
  <2>1. 0 \in 0 .. MaxVal /\ 0 \in 0 .. MaxBody /\ 0 \in 0 .. 0
    BY ParserAssumption
  <2>2. <<>> \in [1 .. 0 -> 1 .. MaxBody \cup {Unset}]
    OBVIOUS
  <2>3. bodypos \in 0 .. bodySize /\ body \in [1 .. bodySize -> 1 .. MaxBody \cup {Unset}]
    BY <1>0, <2>1, <2>2
  <2>4. hdrval \in Seq(Pieces)
    <3>1. <<>> \in Seq(Pieces)
      OBVIOUS
    <3> QED
      BY <3>1, <1>0
  <2> QED
    BY <1>0, <2>1, <2>3, <2>4 DEF ParserTypeOK
<1> DEFINE none == [b \in 0 .. HdrBuckets - 1 |-> <<>>]
<1>b. headers = [buckets |-> none, count |-> 0, size |-> 0]
  BY <1>0 DEF EmptySet
<1>c. none \in [0 .. HdrBuckets - 1 -> Seq(Heads)] /\ \A n \in HdrNames : none[HdrHash[n]] = <<>>
  BY HeaderAssumption
<1> HIDE DEF none
<1>2. headers \in Sets
  BY <1>b, <1>c DEF Sets
<1>3. \A n \in HdrNames : Found(headers, n) = {}
  BY <1>b, <1>c DEF Found
<1>4. Mirrors(headers, sent, Stored)
  <2>1. Stored = 0
    BY <1>0 DEF Stored
  <2> QED
    BY <2>1, <1>3 DEF Mirrors
<1>5. HeadersRead /\ BodyRead /\ BodyAsAnnounced
  BY <1>0, <1>4 DEF HeadersRead, FieldIsLast, BodyRead, BodyAsAnnounced
<1>6. sent \in Seq(Fields) /\ chunks \in Nat
  <2>1. <<>> \in Seq(Fields) /\ 0 \in Nat
    OBVIOUS
  <2> QED
    BY <2>1, <1>0
<1> QED
  BY <1>1, <1>2, <1>5, <1>6 DEF Received

\* Adding the field that was being read makes the set complete.
LEMMA CommittedIsAll ==
    ASSUME Received, recvState = "headers"
    PROVE  Committed \in Sets /\ Mirrors(Committed, sent, Len(sent))
<1>1. CASE hdrnm = NoKey
  BY <1>1 DEF Committed, Received, HeadersRead, Stored
<1>2. CASE hdrnm # NoKey
  <2> DEFINE h == Header(hdrnm, hdrval, hdrvalpos)
             m == Len(sent) - 1
  <2>1. h \in Heads /\ h.name = hdrnm /\ h.value = hdrval
    <3>1. hdrnm \in HdrNames /\ hdrval \in Texts /\ hdrvalpos \in 0 .. MaxVal /\ MaxVal \in Nat /\ NameLen \in Nat
      BY <1>2, ParserAssumption, HeaderAssumption DEF Received, ParserTypeOK, HeadersRead, FieldIsLast
    <3>2. NameLen + hdrvalpos + 4 \in Nat
      BY <3>1
    <3> QED
      BY <3>1, <3>2 DEF Header, Heads, Values
  <2>2. sent \in Seq(Fields) /\ sent # <<>> /\ m \in Nat /\ m + 1 = Len(sent)
        /\ sent[m + 1].name = h.name /\ sent[m + 1].value = h.value
    <3>1. sent \in Seq(Fields) /\ sent # <<>>
      BY <1>2 DEF Received, HeadersRead, FieldIsLast
    <3>2. Len(sent) \in Nat /\ Len(sent) > 0
      BY <3>1
    <3>3. m + 1 = Len(sent) /\ m \in Nat
      BY <3>2
    <3> HIDE DEF m
    <3>4. sent[Len(sent)].name = hdrnm /\ sent[Len(sent)].value = hdrval
      BY <1>2 DEF Received, HeadersRead, FieldIsLast
    <3> QED
      BY <2>1, <3>1, <3>3, <3>4
  <2>3. headers \in Sets /\ Mirrors(headers, sent, m)
    BY <1>2 DEF Received, HeadersRead, Stored
  <2>4. Committed = HeaderSet_add(headers, h)
    BY <1>2 DEF Committed
  <2> HIDE DEF h, m
  <2>5. Committed \in Sets
    <3>1. "content-length" \in HdrNames
      BY ParserAssumption
    <3>2. HeaderSet_add(headers, h) \in Sets
      BY <2>1, <2>3, <3>1, AddIs
    <3> QED
      BY <3>2, <2>4
  <2>6. Mirrors(HeaderSet_add(headers, h), sent, m + 1)
    BY <2>1, <2>2, <2>3, AddMirrors
  <2> QED
    BY <2>2, <2>4, <2>5, <2>6
<1> QED
  BY <1>1, <1>2

\* What HeaderSet_first() finds is what the client sent first.
LEMMA FirstIsSent ==
    ASSUME NEW hs \in Sets, sent \in Seq(Fields), Mirrors(hs, sent, Len(sent)), NEW n \in HdrNames
    PROVE  LET cl == HeaderSet_first(hs, n)
           IN /\ cl = NoHeader => SentAt(n) = {}
              /\ cl # NoHeader => cl.value \in Texts /\ FirstSent(n, cl.value)
<1> DEFINE cl == HeaderSet_first(hs, n)
           m == Len(sent)
           F == Found(hs, n)
<1>1. SentAt(n) = {i \in 1 .. m : sent[i].name = n} /\ m \in Nat
  BY DEF SentAt
<1>2. CASE F = {}
  <2>1. SentAt(n) = {}
    BY <1>1, <1>2 DEF Mirrors
  <2>2. cl = NoHeader
    BY <1>2, FirstIs
  <2> QED
    BY <2>1, <2>2
<1>3. CASE F # {}
  <2>1. PICK p \in F : cl = Bucket(hs, n)[p]
    BY <1>3, FirstIs
  <2>2. cl \in Heads /\ cl.name = n
    <3>1. p \in 1 .. Len(Bucket(hs, n)) /\ Bucket(hs, n)[p].name = n /\ Bucket(hs, n) \in Seq(Heads)
      BY <2>1, FirstIs, BucketIs
    <3> QED
      BY <3>1, <2>1
  <2>3. cl # NoHeader
    <3>1. NoHeader.name = NoKey
      BY DEF NoHeader, Header
    <3> QED
      BY <3>1, <2>2, HeaderAssumption
  <2> DEFINE S == SentAt(n)
  <2>4. S # {} /\ S \subseteq Nat
    BY <1>1, <1>3 DEF Mirrors
  <2> HIDE DEF S
  <2>5. PICK i \in S : \A j \in S : i <= j
    BY <2>4, LeastPosition
  <2>6. i \in 1 .. m /\ FirstOf(sent, m, n, i)
    BY <1>1, <2>5 DEF S, FirstOf
  <2> HIDE DEF m, cl
  <2>7. cl.value = sent[i].value
    BY <2>6 DEF Mirrors, m, cl
  <2>8. FirstSent(n, cl.value)
    BY <2>5, <2>7 DEF FirstSent, S
  <2>9. cl.value \in Texts
    <3>1. sent[i] \in Fields
      BY <2>6 DEF m
    <3> QED
      BY <3>1, <2>7 DEF Fields
  <2> QED
    BY <2>3, <2>8, <2>9 DEF cl
<1> QED
  BY <1>2, <1>3

-----------------------------------------------------------------------------
(* Every action preserves it.                                              *)

\* The request line leaves the fields alone.
LEMMA LineRead ==
    ASSUME Received, NEW m \in Methods, RequestLine(m)
    PROVE  Received'
<1>1. /\ recvState = "method" /\ recvState' = "headers" /\ meth' = m
      /\ UNCHANGED <<hdrnm, hdrval, hdrvalpos, headers, status, bodySize, bodypos, body, chunks, sent>>
  BY DEF RequestLine, fieldVars, bodyVars
<1>2. ParserTypeOK' /\ sent' \in Seq(Fields) /\ headers' \in Sets /\ chunks' \in Nat
  BY <1>1 DEF Received, ParserTypeOK
<1>3. FieldIsLast' /\ Mirrors(headers', sent', Stored')
  <2>1. FieldIsLast /\ Mirrors(headers, sent, Stored)
    BY <1>1 DEF Received, HeadersRead
  <2>2. Stored' = Stored
    BY <1>1 DEF Stored
  <2> QED
    BY <2>1, <2>2, <1>1 DEF FieldIsLast
<1>4. HeadersRead' /\ BodyRead' /\ BodyAsAnnounced'
  BY <1>1, <1>3 DEF Received, HeadersRead, BodyRead, BodyAsAnnounced
<1> QED
  BY <1>2, <1>4 DEF Received

\* After a bad line nothing is handed on.
LEMMA LineRefused ==
    ASSUME Received, BadLine
    PROVE  Received'
<1>1. /\ recvState' = "error"
      /\ UNCHANGED <<meth, hdrnm, hdrval, hdrvalpos, headers, status, bodySize, bodypos, body, chunks, sent>>
  BY DEF BadLine, fieldVars, bodyVars
<1>2. ParserTypeOK' /\ sent' \in Seq(Fields) /\ headers' \in Sets /\ chunks' \in Nat
  BY <1>1 DEF Received, ParserTypeOK
<1>3. HeadersRead' /\ BodyRead' /\ BodyAsAnnounced'
  BY <1>1 DEF HeadersRead, BodyRead, BodyAsAnnounced
<1> QED
  BY <1>2, <1>3 DEF Received

\* A new field line completes the field before it, which is what makes the set mirror
\* all but the field that is being read.
LEMMA FieldBegun ==
    ASSUME Received, NEW n \in HdrNames, NEW p \in Pieces, FieldLine(n, p)
    PROVE  Received'
<1> DEFINE f == [name |-> n, value |-> <<p>>]
           L == Len(sent)
<1>1. /\ recvState = "headers" /\ headers' = Committed
      /\ hdrnm' = n /\ hdrval' = <<p>> /\ hdrvalpos' = PieceLen(p) /\ sent' = Append(sent, f)
      /\ UNCHANGED <<recvState, meth, status, bodySize, bodypos, body, chunks>>
  BY DEF FieldLine, bodyVars
<1>2. <<p>> \in Texts
  BY DEF Texts
<1>3. f \in Fields /\ f.name = n /\ f.value = <<p>>
  BY <1>2 DEF Fields
<1>4. sent \in Seq(Fields)
  BY DEF Received
<1> HIDE DEF f
<1>5. /\ sent' \in Seq(Fields) /\ sent' # <<>> /\ L \in Nat /\ Len(sent') = L + 1 /\ sent'[L + 1] = f
      /\ \A i \in 1 .. L : sent[i] = sent'[i]
  BY <1>1, <1>3, <1>4
<1>6. Committed \in Sets /\ Mirrors(Committed, sent, L)
  BY <1>1, CommittedIsAll
<1> HIDE DEF L
<1>7. n # NoKey
  BY HeaderAssumption
<1>8. Mirrors(headers', sent', Stored')
  <2>1. Stored' = L
    BY <1>1, <1>5, <1>7 DEF Stored
  <2>2. Mirrors(Committed, sent', L)
    BY <1>5, <1>6, MirrorsSame
  <2> QED
    BY <2>1, <2>2, <1>1
<1>9. FieldIsLast'
  <2>1. PieceLen(p) = 0 <=> <<p>> = <<Blank>>
    BY DEF PieceLen
  <2>2. sent'[Len(sent')] = f
    BY <1>5
  <2> QED
    BY <2>1, <2>2, <1>1, <1>2, <1>3, <1>5 DEF FieldIsLast
<1>10. ParserTypeOK'
  <2>1. PieceLen(p) \in 0 .. MaxVal
    BY ParserAssumption DEF PieceLen
  <2>2. hdrval' \in Seq(Pieces)
    BY <1>1, <1>2 DEF Texts
  <2> QED
    BY <2>1, <2>2, <1>1 DEF Received, ParserTypeOK
<1>11. HeadersRead' /\ BodyRead' /\ BodyAsAnnounced'
  BY <1>1, <1>8, <1>9 DEF Received, HeadersRead, BodyRead, BodyAsAnnounced
<1> QED
  BY <1>1, <1>5, <1>6, <1>10, <1>11 DEF Received

\* What is longer than one piece is neither one piece nor nothing.
LEMMA LongerDiffers ==
    ASSUME NEW S, NEW s \in Seq(S), NEW x \in S, NEW y, s # <<>>
    PROVE  Append(s, x) # <<y>> /\ Append(s, x) # <<>>
<1>1. Len(Append(s, x)) = Len(s) + 1 /\ Len(s) \in Nat /\ Len(s) # 0
  OBVIOUS
<1>2. Len(<<y>>) = 1 /\ Len(<<>>) = 0
  OBVIOUS
<1>3. Len(Append(s, x)) # 1 /\ Len(Append(s, x)) # 0
  <2> DEFINE l == Len(s)
             k == Len(Append(s, x))
  <2>1. k = l + 1 /\ l \in Nat /\ l # 0
    BY <1>1
  <2> HIDE DEF k, l
  <2>2. k # 1 /\ k # 0
    BY <2>1
  <2> QED
    BY <2>2 DEF k
<1> QED
  BY <1>2, <1>3, Zenon

\* A folded line changes the field that is being read, in hdrval as in what was sent; the
\* room test keeps it in bounds, and a line that does not fit ends the request.
LEMMA FieldFolded ==
    ASSUME Received, NEW p \in Pieces, FoldedLine(p)
    PROVE  Received'
<1> DEFINE gap == IF hdrvalpos > 0 THEN 1 ELSE 0
           room == hdrvalpos + gap + PieceLen(p) <= MaxVal
           L == Len(sent)
           v == IF hdrvalpos > 0 THEN Append(hdrval, p) ELSE <<p>>
<1>1. /\ recvState = "headers" /\ hdrnm # NoKey
      /\ UNCHANGED <<meth, hdrnm, headers, status, bodySize, bodypos, body, chunks>>
      /\ room => /\ hdrval' = v /\ hdrvalpos' = hdrvalpos + gap + PieceLen(p)
                 /\ sent' = [sent EXCEPT ![Len(sent)].value = Folded(@, p)]
                 /\ UNCHANGED recvState
      /\ ~room => recvState' = "error" /\ UNCHANGED <<hdrval, hdrvalpos, sent>>
  BY DEF FoldedLine, Fold, bodyVars
<1>2. CASE ~room
  <2>1. ParserTypeOK' /\ sent' \in Seq(Fields) /\ headers' \in Sets /\ chunks' \in Nat
    BY <1>1, <1>2 DEF Received, ParserTypeOK
  <2>2. HeadersRead' /\ BodyRead' /\ BodyAsAnnounced'
    BY <1>1, <1>2 DEF HeadersRead, BodyRead, BodyAsAnnounced
  <2> QED
    BY <2>1, <2>2 DEF Received
<1>3. CASE room
  <2>1. /\ hdrval \in Texts /\ sent # <<>> /\ sent \in Seq(Fields)
        /\ sent[L].name = hdrnm /\ sent[L].value = hdrval
        /\ (hdrvalpos = 0 <=> hdrval = <<Blank>>) /\ hdrvalpos \in 0 .. MaxVal /\ MaxVal \in Nat
    BY <1>1, ParserAssumption DEF Received, HeadersRead, FieldIsLast, ParserTypeOK
  <2>2. L \in Nat /\ L > 0 /\ L \in 1 .. L /\ L \in DOMAIN sent
    BY <2>1
  <2>3. v \in Texts /\ (hdrvalpos > 0 => v # <<Blank>>)
    <3>1. hdrval \in Seq(Pieces) /\ hdrval # <<>>
      BY <2>1 DEF Texts
    <3>2. Append(hdrval, p) \in Seq(Pieces) /\ Len(Append(hdrval, p)) = Len(hdrval) + 1 /\ Len(hdrval) > 0
      BY <3>1
    <3>3. Append(hdrval, p) # <<Blank>> /\ Append(hdrval, p) # <<>>
      BY <3>1, LongerDiffers
    <3>4. <<p>> \in Texts
      BY DEF Texts
    <3> QED
      BY <3>2, <3>3, <3>4 DEF Texts
  <2>4. Folded(sent[L].value, p) = v
    BY <2>1 DEF Folded
  <2>5. sent' = [sent EXCEPT ![L] = [sent[L] EXCEPT !.value = v]]
    <3>1. sent' = [sent EXCEPT ![L] = [sent[L] EXCEPT !.value = Folded(sent[L].value, p)]]
      BY <1>1, <1>3
    <3> QED
      BY <3>1, <2>4
  <2> DEFINE f == [sent[L] EXCEPT !.value = v]
  <2>6. f \in Fields /\ f.name = hdrnm /\ f.value = v
    <3>1. sent[L] \in Fields
      BY <2>1, <2>2
    <3> HIDE DEF v
    <3> QED
      BY <3>1, <2>1, <2>3 DEF Fields
  <2>7. /\ sent' \in Seq(Fields) /\ Len(sent') = L /\ sent'[L] = f /\ sent' # <<>>
        /\ \A i \in 1 .. L - 1 : sent[i] = sent'[i]
    <3> HIDE DEF f
    <3>1. sent' = [sent EXCEPT ![L] = f]
      BY <2>5 DEF f
    <3> HIDE DEF L
    <3>2. sent' \in Seq(Fields) /\ Len(sent') = Len(sent) /\ sent'[L] = f
          /\ \A i \in 1 .. Len(sent) - 1 : i # L => sent'[i] = sent[i]
      BY <3>1, <2>1, <2>2, <2>6
    <3> QED
      BY <3>2, <2>2 DEF L
  <2>8. Mirrors(headers', sent', Stored')
    <3>1. Stored = L - 1 /\ Stored' = L - 1
      BY <1>1, <2>7 DEF Stored
    <3>2. Mirrors(headers, sent, L - 1)
      BY <1>1, <3>1 DEF Received, HeadersRead
    <3> HIDE DEF L, f
    <3>3. Mirrors(headers, sent', L - 1)
      BY <3>2, <2>7, MirrorsSame
    <3> QED
      BY <3>1, <3>3, <1>1
  <2>9. PieceLen(p) \in 0 .. 1 /\ (PieceLen(p) = 0 <=> p = Blank)
    BY DEF PieceLen
  <2>10. hdrvalpos' \in 0 .. MaxVal /\ (hdrvalpos' = 0 <=> hdrvalpos = 0 /\ p = Blank)
    <3>1. hdrvalpos' = hdrvalpos + gap + PieceLen(p) /\ hdrvalpos + gap + PieceLen(p) <= MaxVal
      BY <1>1, <1>3
    <3>2. gap \in 0 .. 1
      OBVIOUS
    <3> DEFINE q == hdrvalpos'
               c == PieceLen(p)
    <3>3. q = hdrvalpos + gap + c /\ q <= MaxVal /\ hdrvalpos \in Nat /\ MaxVal \in Nat
      BY <3>1, <2>1
    <3>4. c \in 0 .. 1 /\ (c = 0 <=> p = Blank) /\ (hdrvalpos = 0 => gap = 0)
      BY <2>9
    <3> HIDE DEF gap, q, c
    <3>5. q \in 0 .. MaxVal /\ (q = 0 <=> hdrvalpos = 0 /\ p = Blank)
      BY <3>2, <3>3, <3>4
    <3> QED
      BY <3>5 DEF q
  <2>11. FieldIsLast'
    <3>1. hdrval' = v /\ hdrnm' = hdrnm
      BY <1>1, <1>3
    <3>2. hdrvalpos' = 0 <=> v = <<Blank>>
      <4>1. CASE hdrvalpos > 0
        BY <4>1, <2>3, <2>10
      <4>2. CASE hdrvalpos = 0
        <5>1. v = <<p>>
          BY <4>2
        <5>2. v = <<Blank>> <=> p = Blank
          BY <5>1
        <5> QED
          BY <4>2, <5>2, <2>10
      <4> QED
        BY <4>1, <4>2, <2>1
    <3>3. sent'[Len(sent')].name = hdrnm /\ sent'[Len(sent')].value = v
      BY <2>6, <2>7
    <3> HIDE DEF v
    <3> QED
      BY <3>1, <3>2, <3>3, <2>3, <2>7 DEF FieldIsLast
  <2>12. ParserTypeOK'
    BY <1>1, <1>3, <2>3, <2>10 DEF Received, ParserTypeOK, Texts
  <2>13. HeadersRead' /\ BodyRead' /\ BodyAsAnnounced'
    BY <1>1, <1>3, <2>8, <2>11 DEF Received, HeadersRead, BodyRead, BodyAsAnnounced
  <2> QED
    BY <1>1, <2>7, <2>12, <2>13 DEF Received
<1> QED
  BY <1>2, <1>3

Statuses == {"ok", "bad request", "too large", "length required"}

\* A request may only be fine without a body when it announces none and needs none.
Bodyless(st) == st = "ok" => SentAt("content-length") = {} /\ meth \notin WithBody

\* A request that is handed on without a body.
LEMMA ReceivedBodyless ==
    ASSUME Received, recvState = "headers", NEW st \in Statuses,
           Receive(st), headers' \in Sets, hdrnm' = NoKey, hdrvalpos' = 0,
           UNCHANGED <<meth, hdrval, sent>>, Bodyless(st)
    PROVE  Received'
<1>1. /\ recvState' = "received" /\ status' = Checked(meth, st, bodySize)
      /\ bodySize' = bodySize /\ bodypos' = bodypos /\ body' = body /\ chunks' = chunks
      /\ meth' = meth /\ hdrval' = hdrval /\ sent' = sent
  BY DEF Receive, bodyVars
<1>2. bodySize = 0 /\ bodypos = 0 /\ chunks = 0
  BY DEF Received, HeadersRead
<1>3. status' \in Statuses /\ (status' = "ok" => Bodyless("ok"))
  BY <1>1 DEF Checked, Statuses
<1>4. ParserTypeOK'
  <2>1. MaxVal \in Nat
    BY ParserAssumption
  <2>2. 0 \in 0 .. MaxVal
    BY <2>1
  <2> QED
    BY <2>2, <1>1, <1>3 DEF Received, ParserTypeOK, Statuses
<1>5. BodyAsAnnounced'
  <2> SUFFICES ASSUME recvState' = "received", status' = "ok" PROVE BodyAsAnnounced'
    BY DEF BodyAsAnnounced
  <2>1. SentAt("content-length")' = {} /\ meth' \notin WithBody
    BY <1>1, <1>3 DEF SentAt, Bodyless
  <2>2. bodypos' = bodySize' /\ chunks' # 1
    BY <1>1, <1>2
  <2> QED
    BY <2>1, <2>2 DEF BodyAsAnnounced
<1>6. HeadersRead' /\ BodyRead'
  BY <1>1 DEF HeadersRead, BodyRead
<1>7. sent' \in Seq(Fields) /\ chunks' \in Nat
  BY <1>1 DEF Received
<1> QED
  BY <1>4, <1>5, <1>6, <1>7 DEF Received

\* A sequence that is neither empty nor longer than one has one element.
LEMMA OnlyOne ==
    ASSUME NEW S, NEW s \in Seq(S), s # <<>>, ~(Len(s) > 1)
    PROVE  s = <<s[1]>>
<1>1. Len(s) = 1
  <2> DEFINE l == Len(s)
  <2>1. l \in Nat /\ l # 0 /\ ~(l > 1)
    OBVIOUS
  <2> HIDE DEF l
  <2>2. l = 1
    BY <2>1
  <2> QED
    BY <2>2 DEF l
<1> QED
  BY <1>1

\* The empty line completes the set; the Content-Length that HeaderSet_first() finds then
\* is the first one sent, and the size of the body.
LEMMA HeadersEnd ==
    ASSUME Received, EmptyLine
    PROVE  Received'
<1> DEFINE hs == Committed
           cl == HeaderSet_first(hs, "content-length")
           v == cl.value
           length == Number(v)
           announced == length <= MaxBody /\ ~Rest(v) /\ length # 0
<1>1. recvState = "headers" /\ hdrnm' = NoKey /\ hdrvalpos' = 0 /\ UNCHANGED <<meth, hdrval, sent>> /\ EndOfHeaders(hs)
  BY DEF EmptyLine
<1>2. hs \in Sets /\ Mirrors(hs, sent, Len(sent))
  BY <1>1, CommittedIsAll
<1>3. /\ cl = NoHeader => SentAt("content-length") = {}
      /\ cl # NoHeader => v \in Texts /\ FirstSent("content-length", v)
  <2>1. "content-length" \in HdrNames /\ sent \in Seq(Fields)
    BY ParserAssumption DEF Received
  <2> QED
    BY <2>1, <1>2, FirstIsSent
<1>4. headers' = hs
  BY <1>1 DEF EndOfHeaders
<1>5. cl # NoHeader => length \in 0 .. MaxBody + 1
  BY <1>3, ParserAssumption DEF Number, Numbers
<1>6. CASE cl = NoHeader
  <2> DEFINE st == IF meth \in WithBody THEN "length required" ELSE "ok"
  <2>1. Receive(st)
    BY <1>1, <1>6 DEF EndOfHeaders
  <2>2. st \in Statuses /\ Bodyless(st)
    BY <1>3, <1>6 DEF Statuses, Bodyless
  <2> HIDE DEF st
  <2> QED
    BY <1>1, <1>2, <1>3, <1>4, <1>6, <2>1, <2>2, ReceivedBodyless
<1>7. CASE cl # NoHeader /\ ~announced
  <2>1. PICK st \in {"bad request", "too large"} : Receive(st)
    <3>1. CASE length > MaxBody
      BY <1>1, <1>7, <3>1 DEF EndOfHeaders
    <3>2. CASE ~(length > MaxBody)
      <4>1. length <= MaxBody /\ (Rest(v) \/ length = 0)
        BY <1>5, <1>7, <3>2, ParserAssumption
      <4> QED
        BY <1>1, <1>7, <3>2, <4>1 DEF EndOfHeaders
    <3> QED
      BY <3>1, <3>2
  <2>2. st \in Statuses /\ Bodyless(st)
    BY DEF Statuses, Bodyless
  <2> QED
    BY <1>1, <1>2, <1>4, <2>1, <2>2, ReceivedBodyless
<1>8. CASE cl # NoHeader /\ announced
  <2>1. length \in 1 .. MaxBody
    BY <1>5, <1>8
  <2>2. /\ recvState' = "body" /\ bodySize' = length /\ body' = [i \in 1 .. length |-> Unset]
        /\ UNCHANGED <<status, bodypos, chunks>>
    <3>1. ~(length > MaxBody)
      BY <2>1, ParserAssumption
    <3> QED
      BY <1>1, <1>8, <3>1 DEF EndOfHeaders
  <2>3. v = <<length>>
    <3>1. v \in Seq(Pieces) /\ v # <<>> /\ ~(Len(v) > 1)
      BY <1>3, <1>8 DEF Texts, Rest
    <3>2. v = <<v[1]>>
      BY <3>1, OnlyOne
    <3>3. length = v[1]
      BY <2>1 DEF Number
    <3> QED
      BY <3>2, <3>3
  <2>4. FirstSent("content-length", <<length>>)
    BY <1>3, <1>8, <2>3
  <2> HIDE DEF length
  <2>5. FirstSent("content-length", <<bodySize>>)'
    BY <1>1, <2>2, <2>4 DEF FirstSent, SentAt
  <2>6. status = "ok" /\ bodypos = 0 /\ chunks = 0
    BY <1>1 DEF Received, HeadersRead
  <2>7. BodyRead'
    BY <2>1, <2>2, <2>5, <2>6 DEF BodyRead
  <2>8. ParserTypeOK'
    <3>1. 0 \in 0 .. MaxVal /\ length \in 0 .. MaxBody /\ 0 \in 0 .. length
      BY <2>1, ParserAssumption
    <3>2. body' \in [1 .. bodySize' -> 1 .. MaxBody \cup {Unset}] /\ bodypos' \in 0 .. bodySize' /\ bodySize' \in 0 .. MaxBody
      BY <2>2, <2>6, <3>1
    <3> QED
      BY <1>1, <2>2, <3>1, <3>2 DEF Received, ParserTypeOK
  <2>9. HeadersRead' /\ BodyAsAnnounced' /\ sent' \in Seq(Fields) /\ chunks' \in Nat
    BY <1>1, <2>2 DEF Received, HeadersRead, BodyAsAnnounced
  <2> QED
    BY <1>2, <1>4, <2>7, <2>8, <2>9 DEF Received
<1> QED
  BY <1>6, <1>7, <1>8

\* A chunk fills the body no further than its size, and the last one ends it exactly.
LEMMA ChunkRead ==
    ASSUME Received, NEW k \in 1 .. MaxBody + 1, BodyChunk(k)
    PROVE  Received'
<1> DEFINE t == Taken(k)
<1>1. /\ recvState = "body"
      /\ body' = [i \in 1 .. bodySize |-> IF i <= t THEN bodypos + i ELSE body[i]]
      /\ bodypos' = bodypos + t /\ chunks' = chunks + 1
      /\ bodypos' < bodySize => recvState' = recvState /\ status' = status
      /\ ~(bodypos' < bodySize) => recvState' = "received" /\ status' = Checked(meth, status, bodySize)
      /\ UNCHANGED <<meth, hdrnm, hdrval, hdrvalpos, headers, bodySize, sent>>
  BY DEF BodyChunk, BodyData, fieldVars
<1>2. /\ status = "ok" /\ bodySize \in 1 .. MaxBody /\ bodypos \in 0 .. bodySize - 1
      /\ chunks \in Nat /\ (chunks = 0 => bodypos = 0)
      /\ FirstSent("content-length", <<bodySize>>) /\ MaxBody \in Nat
  <2>1. /\ status = "ok" /\ bodySize > 0 /\ bodypos < bodySize /\ (chunks = 0 => bodypos = 0)
        /\ FirstSent("content-length", <<bodySize>>)
    BY <1>1 DEF Received, BodyRead
  <2>2. bodySize \in 0 .. MaxBody /\ bodypos \in 0 .. bodySize /\ chunks \in Nat
    BY DEF Received, ParserTypeOK
  <2>3. MaxBody \in Nat
    BY ParserAssumption
  <2>4. bodySize \in 1 .. MaxBody /\ bodypos \in 0 .. bodySize - 1
    BY <2>1, <2>2, <2>3
  <2> QED
    BY <2>1, <2>2, <2>3, <2>4
<1>3. t \in 1 .. bodySize - bodypos
  BY <1>2 DEF Taken
<1> HIDE DEF t
<1>4. bodypos' \in 1 .. bodySize /\ chunks' \in Nat /\ chunks' # 0 /\ (chunks' = 1 => bodypos = 0)
  BY <1>1, <1>2, <1>3
<1>5. ParserTypeOK'
  <2>1. \A i \in 1 .. bodySize : i <= t => bodypos + i \in 1 .. MaxBody
    BY <1>2, <1>3
  <2>2. body' \in [1 .. bodySize -> 1 .. MaxBody \cup {Unset}]
    BY <1>1, <2>1 DEF Received, ParserTypeOK
  <2>3. status' \in {"ok", "bad request"}
    BY <1>1, <1>2 DEF Checked
  <2>4. recvState' \in {"body", "received"} /\ bodypos' \in 0 .. bodySize
    BY <1>1, <1>4
  <2> QED
    BY <1>1, <2>2, <2>3, <2>4 DEF Received, ParserTypeOK
<1>6. FirstSent("content-length", <<bodySize>>)'
  BY <1>1, <1>2 DEF FirstSent, SentAt
<1>7. BodyRead'
  BY <1>1, <1>2, <1>4, <1>6 DEF BodyRead
<1>8. BodyAsAnnounced'
  <2> SUFFICES ASSUME recvState' = "received", status' = "ok" PROVE BodyAsAnnounced'
    BY DEF BodyAsAnnounced
  <2>1. bodypos' = bodySize'
    BY <1>1, <1>2, <1>4
  <2>2. meth \notin NoBody
    BY <1>1, <1>2, <2>1 DEF Checked
  <2>3. ASSUME chunks' = 1, NEW i \in 1 .. bodySize PROVE body'[i] = i
    <3>1. bodypos = 0 /\ i <= t
      BY <1>1, <1>2, <1>3, <1>4, <2>1, <2>3
    <3> QED
      BY <1>1, <3>1
  <2> QED
    BY <1>1, <1>6, <2>1, <2>2, <2>3 DEF BodyAsAnnounced
<1>9. HeadersRead' /\ sent' \in Seq(Fields) /\ headers' \in Sets
  BY <1>1 DEF Received, HeadersRead
<1> QED
  BY <1>4, <1>5, <1>7, <1>8, <1>9 DEF Received

\* No step breaks it.
LEMMA ReceivedKept ==
    ASSUME Received, [ParserNext]_parserVars
    PROVE  Received'
<1>1. CASE UNCHANGED parserVars
  <2>1. UNCHANGED <<recvState, meth, hdrnm, hdrval, hdrvalpos, headers, status, bodySize, bodypos, body, chunks, sent>>
    BY <1>1 DEF parserVars, fieldVars, bodyVars
  <2>2. Stored' = Stored
    BY <2>1 DEF Stored
  <2> QED
    BY <2>1, <2>2 DEF Received, ParserTypeOK, HeadersRead, FieldIsLast, BodyRead, BodyAsAnnounced, SentAt, FirstSent
<1>2. ASSUME NEW m \in Methods, RequestLine(m) PROVE Received'
  BY <1>2, LineRead
<1>3. CASE BadLine
  BY <1>3, LineRefused
<1>4. ASSUME NEW p \in Pieces, FoldedLine(p) PROVE Received'
  BY <1>4, FieldFolded
<1>5. ASSUME NEW p \in Pieces, NEW n \in HdrNames, FieldLine(n, p) PROVE Received'
  BY <1>5, FieldBegun
<1>6. CASE EmptyLine
  BY <1>6, HeadersEnd
<1>7. ASSUME NEW k \in 1 .. MaxBody + 1, BodyChunk(k) PROVE Received'
  BY <1>7, ChunkRead
<1> QED
  BY <1>1, <1>2, <1>3, <1>4, <1>5, <1>6, <1>7 DEF ParserNext

\* dataReceived() writes no more into hdrval and into the body than they have room
\* for, whatever lines and chunks the connection delivers.
THEOREM ParserTypeCorrect == ParserSpec => []ParserTypeOK
<1>1. Received => ParserTypeOK
  BY DEF Received
<1> QED
  BY <1>1, ReceivedInit, ReceivedKept, PTL DEF ParserSpec

\* A request that dataReceived() hands on without an error has got exactly the body
\* that the first Content-Length among the fields the client sent announces, and one
\* if and only if its method asks for it.
THEOREM BodyAsAnnouncedCorrect == ParserSpec => []BodyAsAnnounced
<1>1. Received => BodyAsAnnounced
  BY DEF Received
<1> QED
  BY <1>1, ReceivedInit, ReceivedKept, PTL DEF ParserSpec

-----------------------------------------------------------------------------
(* Every field in its place.                                                *)

\* As long as fields are read, all that are complete are in their places, and then all.
FieldsPlaced ==
    /\ recvState \in {"method", "headers"} => Placed(headers, sent, Stored)
    /\ recvState \in {"body", "received"} => Placed(headers, sent, Len(sent))

\* The set of a new request is empty.
LEMMA PlacedInit == ParserInit => FieldsPlaced
<1> SUFFICES ASSUME ParserInit PROVE FieldsPlaced
  OBVIOUS
<1> DEFINE none == [b \in 0 .. HdrBuckets - 1 |-> <<>>]
<1>1. recvState = "method" /\ Stored = 0 /\ headers = [buckets |-> none, count |-> 0, size |-> 0]
  <2>1. Len(<<>>) = 0
    OBVIOUS
  <2> QED
    BY <2>1 DEF ParserInit, Stored, EmptySet
<1>2. \A n \in HdrNames : none[HdrHash[n]] = <<>>
  BY HeaderAssumption
<1> HIDE DEF none
<1>3. headers.count = 0 /\ \A n \in HdrNames : Bucket(headers, n) = <<>>
  BY <1>1, <1>2 DEF Bucket
<1>4. Len(<<>>) = 0 /\ 1 .. 0 = {}
  OBVIOUS
<1> DEFINE place == [i \in 1 .. 0 |-> 0]
<1>5. place \in [1 .. 0 -> Nat]
  OBVIOUS
<1> HIDE DEF place
<1>6. Placing(place, headers, sent, 0)
  BY <1>3, <1>4 DEF Placing
<1>7. Placed(headers, sent, Stored)
  BY <1>1, <1>5, <1>6 DEF Placed
<1> QED
  BY <1>1, <1>7 DEF FieldsPlaced

\* Adding the field that was being read puts it in its place.
LEMMA CommittedPlaced ==
    ASSUME Received, FieldsPlaced, recvState = "headers"
    PROVE  Placed(Committed, sent, Len(sent))
<1>1. CASE hdrnm = NoKey
  BY <1>1 DEF Committed, FieldsPlaced, Stored
<1>2. CASE hdrnm # NoKey
  <2> DEFINE h == Header(hdrnm, hdrval, hdrvalpos)
             m == Len(sent) - 1
  <2>1. h \in Heads /\ h.name = hdrnm /\ h.value = hdrval
    <3>1. hdrnm \in HdrNames /\ hdrval \in Texts /\ hdrvalpos \in 0 .. MaxVal /\ MaxVal \in Nat /\ NameLen \in Nat
      BY <1>2, ParserAssumption, HeaderAssumption DEF Received, ParserTypeOK, HeadersRead, FieldIsLast
    <3>2. NameLen + hdrvalpos + 4 \in Nat
      BY <3>1
    <3> QED
      BY <3>1, <3>2 DEF Header, Heads, Values
  <2>2. sent \in Seq(Fields) /\ sent # <<>> /\ m \in Nat /\ m + 1 = Len(sent)
        /\ sent[m + 1].name = h.name /\ sent[m + 1].value = h.value
    <3>1. sent \in Seq(Fields) /\ sent # <<>>
      BY <1>2 DEF Received, HeadersRead, FieldIsLast
    <3>2. Len(sent) \in Nat /\ Len(sent) > 0
      BY <3>1
    <3>3. m + 1 = Len(sent) /\ m \in Nat
      BY <3>2
    <3> HIDE DEF m
    <3>4. sent[Len(sent)].name = hdrnm /\ sent[Len(sent)].value = hdrval
      BY <1>2 DEF Received, HeadersRead, FieldIsLast
    <3> QED
      BY <2>1, <3>1, <3>3, <3>4
  <2>3. headers \in Sets /\ Placed(headers, sent, m)
    BY <1>2 DEF Received, FieldsPlaced, Stored
  <2>4. Committed = HeaderSet_add(headers, h)
    BY <1>2 DEF Committed
  <2> HIDE DEF h, m
  <2>5. Placed(HeaderSet_add(headers, h), sent, m + 1)
    BY <2>1, <2>2, <2>3, AddPlaced
  <2> QED
    BY <2>2, <2>4, <2>5
<1> QED
  BY <1>1, <1>2

\* No step moves a field.
LEMMA PlacedKept ==
    ASSUME Received, FieldsPlaced, [ParserNext]_parserVars
    PROVE  FieldsPlaced'
<1>0. sent \in Seq(Fields) /\ Len(sent) \in Nat
  BY DEF Received
<1>1. CASE UNCHANGED parserVars
  <2>1. UNCHANGED <<recvState, hdrnm, headers, sent>>
    BY <1>1 DEF parserVars, fieldVars
  <2>2. Stored' = Stored
    BY <2>1 DEF Stored
  <2> QED
    BY <2>1, <2>2 DEF FieldsPlaced
<1>2. ASSUME NEW m \in Methods, RequestLine(m) PROVE FieldsPlaced'
  <2>1. recvState = "method" /\ recvState' = "headers" /\ UNCHANGED <<hdrnm, headers, sent>>
    BY <1>2 DEF RequestLine, fieldVars
  <2>2. Stored' = Stored
    BY <2>1 DEF Stored
  <2> QED
    BY <2>1, <2>2 DEF FieldsPlaced
<1>3. CASE BadLine
  BY <1>3 DEF BadLine, FieldsPlaced
<1>4. ASSUME NEW p \in Pieces, FoldedLine(p) PROVE FieldsPlaced'
  <2>1. recvState = "headers" /\ hdrnm # NoKey /\ UNCHANGED <<hdrnm, headers>>
    BY <1>4 DEF FoldedLine, Fold
  <2>2. CASE recvState' = "error"
    BY <2>2 DEF FieldsPlaced
  <2>3. CASE recvState' # "error"
    <3>1. recvState' = "headers" /\ sent' = [sent EXCEPT ![Len(sent)].value = Folded(@, p)]
      BY <1>4, <2>1, <2>3 DEF FoldedLine, Fold
    <3>2. Len(sent') = Len(sent) /\ \A i \in 1 .. Len(sent) - 1 : sent'[i] = sent[i]
      <4> DEFINE L == Len(sent)
                 x == [sent[L] EXCEPT !.value = Folded(@, p)]
      <4>1. sent' = [sent EXCEPT ![L] = x]
        BY <3>1
      <4> HIDE DEF x
      <4>2. DOMAIN sent' = DOMAIN sent /\ \A i \in DOMAIN sent : i # L => sent'[i] = sent[i]
        BY <4>1
      <4>3. sent' \in Seq(Fields)
        BY ReceivedKept DEF Received
      <4>4. Len(sent') = L
        BY <1>0, <4>2, <4>3
      <4>5. \A i \in 1 .. L - 1 : i \in DOMAIN sent /\ i # L
        BY <1>0
      <4> QED
        BY <4>2, <4>4, <4>5
    <3>3. Stored = Len(sent) - 1 /\ Stored' = Len(sent) - 1
      BY <2>1, <3>2 DEF Stored
    <3>4. Placed(headers, sent, Len(sent) - 1)
      BY <2>1, <3>3 DEF FieldsPlaced
    <3>5. Placed(headers, sent', Len(sent) - 1)
      BY <3>2, <3>4, PlacedSame
    <3> QED
      BY <2>1, <3>1, <3>3, <3>5 DEF FieldsPlaced
  <2> QED
    BY <2>2, <2>3
<1>5. ASSUME NEW p \in Pieces, NEW n \in HdrNames, FieldLine(n, p) PROVE FieldsPlaced'
  <2>1. /\ recvState = "headers" /\ recvState' = recvState /\ headers' = Committed /\ hdrnm' = n
        /\ sent' = Append(sent, [name |-> n, value |-> <<p>>])
    BY <1>5 DEF FieldLine
  <2>2. Len(sent') = Len(sent) + 1 /\ \A i \in 1 .. Len(sent) : sent[i] = sent'[i]
    BY <1>0, <2>1
  <2>3. Stored' = Len(sent)
    <3>1. n # NoKey
      BY HeaderAssumption
    <3> QED
      BY <1>0, <2>1, <2>2, <3>1 DEF Stored
  <2>4. Placed(Committed, sent, Len(sent))
    BY <2>1, CommittedPlaced
  <2>5. Placed(Committed, sent', Len(sent))
    BY <2>2, <2>4, PlacedSame
  <2> QED
    BY <2>1, <2>3, <2>5 DEF FieldsPlaced
<1>6. CASE EmptyLine
  <2>1. recvState = "headers" /\ sent' = sent /\ EndOfHeaders(Committed)
    BY <1>6 DEF EmptyLine
  <2>2. headers' = Committed /\ recvState' \notin {"method", "headers"}
    BY <2>1 DEF EndOfHeaders, Receive
  <2>3. Placed(Committed, sent, Len(sent))
    BY <2>1, CommittedPlaced
  <2> QED
    BY <2>1, <2>2, <2>3 DEF FieldsPlaced
<1>7. ASSUME NEW k \in 1 .. MaxBody + 1, BodyChunk(k) PROVE FieldsPlaced'
  <2>1. recvState = "body" /\ recvState' \in {"body", "received"} /\ UNCHANGED <<headers, sent>>
    BY <1>7 DEF BodyChunk, BodyData
  <2> QED
    BY <2>1 DEF FieldsPlaced
<1> QED
  BY <1>1, <1>2, <1>3, <1>4, <1>5, <1>6, <1>7 DEF ParserNext

\* Who walks the fields of a name in a request finds all that the client sent, in
\* order and with their values, and no other, however many there are and however
\* they are folded.
THEOREM HeadersWholeCorrect == ParserSpec => []HeadersWhole
<1>1. Received /\ FieldsPlaced => HeadersWhole
  <2> SUFFICES ASSUME Received, FieldsPlaced, recvState \in {"body", "received"}, NEW n \in HdrNames
               PROVE  LET at == Walk(headers, n) IN
                      /\ \A i \in SentAt(n) :
                           LET it == at[UpToSent(n, i)] IN
                           it.pos # 0 /\ HeaderIterator_current(headers, it).value = sent[i].value
                      /\ at[Cardinality(SentAt(n)) + 1].pos = 0
                      /\ HeaderSet_single(headers, n) # NoHeader <=> Cardinality(SentAt(n)) = 1
    BY DEF HeadersWhole
  <2>1. headers \in Sets /\ sent \in Seq(Fields) /\ Placed(headers, sent, Len(sent))
    BY DEF Received, FieldsPlaced
  <2> QED
    BY <2>1, WalkFindsAll, SingleIsOne
<1> QED
  BY <1>1, ReceivedInit, ReceivedKept, PlacedInit, PlacedKept, PTL DEF ParserSpec


-----------------------------------------------------------------------------
(* Lists of fields: their bytes, and what is left of them.                 *)

\* The bytes of the first fields of s, one by one.
Adding(s, f) == /\ f \in [0 .. Len(s) -> Nat] /\ f[0] = 0
                /\ \A k \in 1 .. Len(s) : f[k] = f[k-1] + s[k].size

LEMMA AddingIs ==
    ASSUME NEW s \in Seq(Heads)
    PROVE  /\ \E f : Adding(s, f)
           /\ \A f : Adding(s, f) => Bytes(s) = f[Len(s)]
<1> DEFINE L == Len(s)
           Def(f) == [i \in 0 .. Len(s) |-> IF i = 0 THEN 0 ELSE f[i-1] + s[i].size]
           add == [x \in (1 .. L) \X Nat |-> x[2] + s[x[1]].size]
<1>1. L \in Nat /\ \A i \in 1 .. L : s[i].size \in Nat
  <2>1. \A i \in 1 .. L : s[i] \in Heads
    OBVIOUS
  <2> QED
    BY <2>1 DEF Heads
<1>2. add \in [(1 .. L) \X Nat -> Nat]
  BY <1>1
<1>3. PICK f : Adding(s, f)
  <2>1. PICK f \in [0 .. L -> Nat] : f[0] = 0 /\ \A k \in 1 .. L : f[k] = add[<<k, f[k-1]>>]
    <3> HIDE DEF add, L
    <3>1. Walks(Nat, add, 0, L) # {}
      BY <1>1, <1>2, Iterate
    <3> QED
      BY <3>1 DEF Walks
  <2>2. \A k \in 1 .. L : f[k] = f[k-1] + s[k].size
    <3> TAKE k \in 1 .. L
    <3>1. f[k-1] \in Nat
      BY <1>1, <2>1
    <3> QED
      BY <2>1, <3>1
  <2> QED
    BY <2>1, <2>2 DEF Adding
<1>4. f = Def(f)
  <2>1. f = [i \in 0 .. Len(s) |-> f[i]]
    BY <1>3 DEF Adding
  <2>2. \A i \in 0 .. Len(s) : f[i] = IF i = 0 THEN 0 ELSE f[i-1] + s[i].size
    <3> TAKE i \in 0 .. Len(s)
    <3>1. i # 0 => i \in 1 .. Len(s)
      OBVIOUS
    <3> QED
      BY <1>3, <3>1 DEF Adding
  <2> QED
    BY <2>1, <2>2
<1> DEFINE sum == CHOOSE x : x = Def(x)
<1>5. Bytes(s) = sum[Len(s)]
  BY DEF Bytes
<1> HIDE DEF Def
<1>6. sum = Def(sum)
  BY <1>4, Zenon
<1> HIDE DEF sum
<1>7. sum = [i \in 0 .. Len(s) |-> IF i = 0 THEN 0 ELSE sum[i-1] + s[i].size]
  BY <1>6 DEF Def
<1>8. sum[0] = 0 /\ \A i \in 1 .. L : sum[i] = sum[i-1] + s[i].size
  <2>1. 0 \in 0 .. L /\ \A i \in 1 .. L : i \in 0 .. L /\ i # 0
    BY <1>1
  <2> QED
    BY <1>7, <2>1
<1>9. ASSUME NEW e, Adding(s, e) PROVE Bytes(s) = e[L]
  <2> DEFINE Off == {k \in Nat : k <= L /\ sum[k] # e[k]}
  <2>1. Off = {}
    <3> SUFFICES ASSUME Off # {} PROVE FALSE
      OBVIOUS
    <3>1. PICK m \in Off : \A k \in Off : m <= k
      <4>1. Off \subseteq Nat
        OBVIOUS
      <4> HIDE DEF Off
      <4> QED
        BY <4>1, LeastPosition
    <3>2. m # 0
      BY <1>8, <1>9 DEF Adding
    <3>3. m \in 1 .. L /\ m - 1 \in Nat /\ m - 1 <= L /\ ~(m <= m - 1)
      BY <3>2, <1>1
    <3>4. sum[m-1] = e[m-1]
      BY <3>1, <3>3
    <3>5. sum[m] = e[m]
      BY <3>3, <3>4, <1>8, <1>9 DEF Adding
    <3> QED
      BY <3>5
  <2>2. L \notin Off
    BY <2>1
  <2>3. sum[L] = e[L]
    BY <1>1, <2>2
  <2> QED
    BY <1>5, <2>3
<1> QED
  BY <1>3, <1>9

\* A field more brings its bytes.
LEMMA BytesIs ==
    ASSUME NEW s \in Seq(Heads)
    PROVE  /\ Bytes(s) \in Nat /\ Bytes(<<>>) = 0
           /\ \A h \in Heads : Bytes(Append(s, h)) = Bytes(s) + h.size
<1>0. Len(s) \in Nat
  OBVIOUS
<1>1. PICK f : Adding(s, f)
  BY AddingIs
<1>2. Bytes(s) = f[Len(s)] /\ f[Len(s)] \in Nat
  <2>1. f \in [0 .. Len(s) -> Nat] /\ Len(s) \in 0 .. Len(s)
    BY <1>0, <1>1 DEF Adding
  <2>2. Bytes(s) = f[Len(s)]
    BY <1>1, AddingIs
  <2> QED
    BY <2>1, <2>2
<1>3. Bytes(<<>>) = 0
  <2> DEFINE z == [k \in 0 .. 0 |-> 0]
  <2>1. <<>> \in Seq(Heads) /\ Len(<<>>) = 0 /\ 1 .. 0 = {}
    OBVIOUS
  <2>2. z \in [0 .. 0 -> Nat] /\ z[0] = 0
    OBVIOUS
  <2> HIDE DEF z
  <2>3. Adding(<<>>, z)
    BY <2>1, <2>2 DEF Adding
  <2>4. Bytes(<<>>) = z[Len(<<>>)]
    BY <2>1, <2>3, AddingIs
  <2> QED
    BY <2>1, <2>2, <2>4
<1>4. ASSUME NEW h \in Heads PROVE Bytes(Append(s, h)) = Bytes(s) + h.size
  <2> DEFINE t == Append(s, h)
             L == Len(s)
             g == [k \in 0 .. L + 1 |-> IF k <= L THEN f[k] ELSE f[L] + h.size]
  <2>1. t \in Seq(Heads) /\ Len(t) = L + 1 /\ t[L + 1] = h /\ \A k \in 1 .. L : t[k] = s[k]
    OBVIOUS
  <2>2. f \in [0 .. L -> Nat] /\ f[0] = 0 /\ \A k \in 1 .. L : f[k] = f[k-1] + s[k].size
    BY <1>1 DEF Adding
  <2>3. h.size \in Nat
    BY DEF Heads
  <2> HIDE DEF t, L
  <2>4. L \in Nat
    BY <1>0 DEF L
  <2>5. g \in [0 .. L + 1 -> Nat] /\ g[0] = 0 /\ g[L + 1] = f[L] + h.size
    BY <2>2, <2>3, <2>4
  <2>6. \A k \in 1 .. L + 1 : g[k] = g[k-1] + t[k].size
    <3> TAKE k \in 1 .. L + 1
    <3>1. CASE k = L + 1
      <4>1. g[k-1] = f[L]
        BY <3>1, <2>4
      <4> QED
        BY <3>1, <4>1, <2>1, <2>5
    <3>2. CASE k # L + 1
      <4>1. k \in 1 .. L /\ k - 1 \in 0 .. L + 1 /\ k - 1 <= L
        BY <3>2, <2>4
      <4>2. g[k] = f[k] /\ g[k-1] = f[k-1]
        BY <4>1, <2>4
      <4> QED
        BY <4>1, <4>2, <2>1, <2>2
    <3> QED
      BY <3>1, <3>2
  <2> HIDE DEF g
  <2>7. Adding(t, g)
    BY <2>1, <2>5, <2>6 DEF Adding
  <2>8. Bytes(t) = g[L + 1]
    BY <2>1, <2>7, AddingIs
  <2> QED
    BY <1>2, <2>5, <2>8 DEF t, L
<1> QED
  BY <1>2, <1>3, <1>4

\* K is made of the fields among the first k of s that are not named n: the p-th of them
\* is the one at from[p].
Leaves(from, s, n, k, K) ==
    /\ \A p \in 1 .. Len(K) : K[p] = s[from[p]] /\ K[p].name # n
    /\ \A p, q \in 1 .. Len(K) : from[p] = from[q] => p = q
    /\ \A q \in 1 .. k : s[q].name # n => \E p \in 1 .. Len(K) : from[p] = q

Left(s, n, k, K) ==
    /\ K \in Seq(Heads) /\ Len(K) <= k
    /\ \E from \in [1 .. Len(K) -> 1 .. k] : Leaves(from, s, n, k, K)

LEMMA LeftOut ==
    ASSUME NEW s \in Seq(Heads), NEW n, NEW k \in Nat, NEW K, Left(s, n, k, K), s[k + 1].name = n
    PROVE  Left(s, n, k + 1, K)
<1>1. K \in Seq(Heads) /\ Len(K) <= k /\ Len(K) \in Nat
  BY DEF Left
<1>2. PICK from \in [1 .. Len(K) -> 1 .. k] : Leaves(from, s, n, k, K)
  BY DEF Left
<1>3. from \in [1 .. Len(K) -> 1 .. k + 1] /\ Len(K) <= k + 1
  BY <1>1
<1>4. \A q \in 1 .. k + 1 : q \in 1 .. k \/ q = k + 1
  OBVIOUS
<1>5. Leaves(from, s, n, k + 1, K)
  BY <1>2, <1>4 DEF Leaves
<1> QED
  BY <1>1, <1>3, <1>5 DEF Left

LEMMA LeftIn ==
    ASSUME NEW s \in Seq(Heads), NEW n, NEW k \in Nat, NEW K, Left(s, n, k, K),
           s[k + 1].name # n, k + 1 <= Len(s)
    PROVE  Left(s, n, k + 1, Append(K, s[k + 1]))
<1>1. K \in Seq(Heads) /\ Len(K) <= k /\ Len(K) \in Nat
  BY DEF Left
<1>2. PICK from \in [1 .. Len(K) -> 1 .. k] : Leaves(from, s, n, k, K)
  BY DEF Left
<1> DEFINE h == s[k + 1]
           M == Len(K)
           K2 == Append(K, h)
           from2 == [p \in 1 .. M + 1 |-> IF p <= M THEN from[p] ELSE k + 1]
<1>3. h \in Heads
  BY <1>1
<1>4. K2 \in Seq(Heads) /\ Len(K2) = M + 1 /\ K2[M + 1] = h /\ \A p \in 1 .. M : K2[p] = K[p]
  <2> HIDE DEF h
  <2> QED
    BY <1>1, <1>3
<1>5. from2 \in [1 .. M + 1 -> 1 .. k + 1] /\ from2[M + 1] = k + 1 /\ \A p \in 1 .. M : from2[p] = from[p]
  BY <1>1
<1>6. \A p \in 1 .. M : K[p] = s[from[p]] /\ K[p].name # n
  BY <1>2 DEF Leaves
<1>7. \A p, q \in 1 .. M : from[p] = from[q] => p = q
  BY <1>2 DEF Leaves
<1>8. \A q \in 1 .. k : s[q].name # n => \E p \in 1 .. M : from[p] = q
  BY <1>2 DEF Leaves
<1> HIDE DEF K2, from2, M
<1>m. M \in Nat /\ \A p \in 1 .. M + 1 : p # M + 1 => p \in 1 .. M
  BY <1>1 DEF M
<1>9. \A p \in 1 .. M + 1 : K2[p] = s[from2[p]] /\ K2[p].name # n
  BY <1>4, <1>5, <1>6, <1>m
<1>10. \A p \in 1 .. M : from2[p] # k + 1
  <2> TAKE p \in 1 .. M
  <2>1. from[p] \in 1 .. k
    BY DEF M
  <2>2. from[p] # k + 1
    BY <2>1
  <2> QED
    BY <2>2, <1>5
<1>11. \A p, q \in 1 .. M + 1 : from2[p] = from2[q] => p = q
  BY <1>5, <1>7, <1>10, <1>m
<1>12. \A q \in 1 .. k + 1 : s[q].name # n => \E p \in 1 .. M + 1 : from2[p] = q
  <2> TAKE q \in 1 .. k + 1
  <2>1. CASE q = k + 1
    <3>1. M + 1 \in 1 .. M + 1
      BY <1>m
    <3> QED
      BY <2>1, <3>1, <1>5
  <2>2. CASE q # k + 1
    <3>1. q \in 1 .. k
      BY <2>2
    <3>2. \A p \in 1 .. M : p \in 1 .. M + 1
      BY <1>m
    <3> QED
      BY <3>1, <3>2, <1>5, <1>8
  <2> QED
    BY <2>1, <2>2
<1>13. Leaves(from2, s, n, k + 1, K2)
  BY <1>4, <1>9, <1>11, <1>12 DEF Leaves
<1>14. Len(K2) <= k + 1
  BY <1>1, <1>4 DEF M
<1> QED
  BY <1>4, <1>5, <1>13, <1>14 DEF Left, K2

\* Without(s, n) is made of the fields of s that are not named n.
LEMMA WithoutIs ==
    ASSUME NEW s \in Seq(Heads), NEW n
    PROVE  Left(s, n, Len(s), Without(s, n)) /\ Bytes(Without(s, n)) <= Bytes(s)
<1> DEFINE L == Len(s)
           Next1(k, K) == IF s[k].name = n THEN K ELSE Append(K, s[k])
           take == [x \in (1 .. L) \X Seq(Heads) |-> Next1(x[1], x[2])]
           Def(f) == [i \in 0 .. Len(s) |-> IF i = 0 THEN <<>>
                        ELSE IF s[i].name = n THEN f[i-1] ELSE Append(f[i-1], s[i])]
<1>1. L \in Nat /\ \A i \in 1 .. L : s[i] \in Heads
  OBVIOUS
<1>2. take \in [(1 .. L) \X Seq(Heads) -> Seq(Heads)]
  <2>1. \A k \in 1 .. L, K \in Seq(Heads) : Next1(k, K) \in Seq(Heads)
    BY <1>1
  <2> HIDE DEF Next1
  <2> QED
    BY <2>1
<1>3. PICK f \in [0 .. L -> Seq(Heads)] : f[0] = <<>> /\ \A k \in 1 .. L : f[k] = take[<<k, f[k-1]>>]
  <2> HIDE DEF take, L
  <2>1. <<>> \in Seq(Heads)
    OBVIOUS
  <2>2. Walks(Seq(Heads), take, <<>>, L) # {}
    BY <1>1, <1>2, <2>1, Iterate
  <2> QED
    BY <2>2 DEF Walks
<1>4. \A k \in 1 .. L : f[k-1] \in Seq(Heads) /\ f[k] = Next1(k, f[k-1])
  <2> TAKE k \in 1 .. L
  <2>1. f[k-1] \in Seq(Heads)
    BY <1>1, <1>3
  <2>2. <<k, f[k-1]>> \in (1 .. L) \X Seq(Heads)
    BY <2>1
  <2> HIDE DEF Next1
  <2> QED
    BY <2>1, <2>2, <1>3
<1>5. f = Def(f)
  <2>1. f = [i \in 0 .. Len(s) |-> f[i]]
    BY <1>3
  <2>2. \A i \in 0 .. Len(s) : f[i] = IF i = 0 THEN <<>>
                        ELSE IF s[i].name = n THEN f[i-1] ELSE Append(f[i-1], s[i])
    <3> TAKE i \in 0 .. Len(s)
    <3>1. i # 0 => i \in 1 .. L
      OBVIOUS
    <3> QED
      BY <1>3, <1>4, <3>1
  <2> QED
    BY <2>1, <2>2
<1> DEFINE kept == CHOOSE x : x = Def(x)
<1>6. Without(s, n) = kept[Len(s)]
  BY DEF Without
<1> HIDE DEF Def
<1>7. kept = Def(kept)
  BY <1>5, Zenon
<1> HIDE DEF kept
<1>8. kept = [i \in 0 .. Len(s) |-> IF i = 0 THEN <<>>
                        ELSE IF s[i].name = n THEN kept[i-1] ELSE Append(kept[i-1], s[i])]
  BY <1>7 DEF Def
<1>9. kept[0] = <<>> /\ \A i \in 1 .. L : kept[i] = Next1(i, kept[i-1])
  <2>1. 0 \in 0 .. L /\ \A i \in 1 .. L : i \in 0 .. L /\ i # 0
    BY <1>1
  <2> QED
    BY <1>8, <2>1
<1>10. PICK sum : Adding(s, sum)
  BY AddingIs
<1>11. sum \in [0 .. L -> Nat] /\ sum[0] = 0 /\ \A k \in 1 .. L : sum[k] = sum[k-1] + s[k].size
  BY <1>10 DEF Adding
<1> DEFINE Fine(k) == Left(s, n, k, kept[k]) /\ Bytes(kept[k]) <= sum[k]
           Bad == {k \in Nat : k <= L /\ ~Fine(k)}
<1> HIDE DEF Next1
<1>12. Fine(0)
  <2>1. <<>> \in Seq(Heads) /\ Len(<<>>) = 0 /\ 1 .. 0 = {}
    OBVIOUS
  <2> DEFINE none == [p \in 1 .. 0 |-> 0]
  <2>2. none \in [1 .. 0 -> 1 .. 0]
    OBVIOUS
  <2> HIDE DEF none
  <2>3. Leaves(none, s, n, 0, <<>>)
    BY <2>1 DEF Leaves
  <2>4. Left(s, n, 0, <<>>)
    BY <2>1, <2>2, <2>3 DEF Left
  <2>5. Bytes(<<>>) = 0
    BY BytesIs
  <2> QED
    BY <1>9, <1>11, <2>4, <2>5
<1>13. ASSUME NEW m \in Nat, m + 1 <= L, Fine(m) PROVE Fine(m + 1)
  <2>1. m + 1 \in 1 .. L /\ (m + 1) - 1 = m
    BY <1>1, <1>13
  <2>2. kept[m + 1] = Next1(m + 1, kept[m]) /\ sum[m + 1] = sum[m] + s[m + 1].size
    BY <2>1, <1>9, <1>11
  <2>3. kept[m] \in Seq(Heads) /\ s[m + 1] \in Heads /\ sum[m] \in Nat
    <3>1. kept[m] \in Seq(Heads)
      BY <1>13 DEF Left
    <3>2. s[m + 1] \in Heads
      BY <1>1, <2>1
    <3>3. m \in 0 .. L
      BY <1>1, <1>13
    <3> QED
      BY <1>11, <3>1, <3>2, <3>3
  <2>4. Bytes(kept[m]) \in Nat /\ s[m + 1].size \in Nat /\ Bytes(kept[m]) <= sum[m]
    BY <1>13, <2>3, BytesIs DEF Heads
  <2> DEFINE h == s[m + 1]
             K == kept[m]
             K2 == kept[m + 1]
  <2>5. CASE h.name = n
    <3>1. K2 = K
      BY <2>2, <2>5 DEF Next1
    <3>2. Left(s, n, m + 1, K2)
      BY <3>1, <1>13, <2>5, LeftOut
    <3>3. Bytes(K2) <= sum[m + 1]
      BY <3>1, <2>2, <2>3, <2>4
    <3> QED
      BY <3>2, <3>3
  <2>6. CASE h.name # n
    <3>1. K2 = Append(K, h)
      BY <2>2, <2>6 DEF Next1
    <3>2. Left(s, n, m + 1, K2)
      BY <3>1, <1>13, <2>6, LeftIn
    <3>3. Bytes(K2) = Bytes(K) + h.size
      BY <3>1, <2>3, BytesIs
    <3>4. Bytes(K2) <= sum[m + 1]
      BY <3>3, <2>2, <2>3, <2>4
    <3> QED
      BY <3>2, <3>4
  <2> QED
    BY <2>5, <2>6
<1> HIDE DEF Fine
<1>14. Bad = {}
  <2> SUFFICES ASSUME Bad # {} PROVE FALSE
    OBVIOUS
  <2>1. PICK m \in Bad : \A k \in Bad : m <= k
    <3>1. Bad \subseteq Nat
      OBVIOUS
    <3> HIDE DEF Bad
    <3> QED
      BY <3>1, LeastPosition
  <2>2. m \in Nat /\ m <= L /\ ~Fine(m) /\ m # 0
    BY <1>12
  <2>3. m - 1 \in Nat /\ m - 1 <= L /\ ~(m <= m - 1) /\ (m - 1) + 1 = m
    BY <1>1, <2>2
  <2>4. Fine(m - 1)
    BY <2>1, <2>3
  <2>5. Fine((m - 1) + 1)
    BY <2>2, <2>3, <2>4, <1>13
  <2> QED
    BY <2>2, <2>3, <2>5
<1>15. Fine(L)
  <2>1. L \notin Bad
    BY <1>14
  <2> QED
    BY <1>1, <2>1
<1>16. Bytes(s) = sum[L]
  BY <1>10, AddingIs
<1> QED
  BY <1>6, <1>15, <1>16 DEF Fine

-----------------------------------------------------------------------------
(* Sums over the lists of a set.                                           *)

Lists == 0 .. HdrBuckets - 1

\* t[b] is what the lists before b have of w together.
Tally(t, w) == /\ t \in [0 .. HdrBuckets -> Nat] /\ t[0] = 0
               /\ \A b \in Lists : t[b + 1] = t[b] + w[b]

\* It grows, and stands still where there is nothing.
LEMMA TallyGrows ==
    ASSUME NEW w \in [Lists -> Nat], NEW t, Tally(t, w), NEW a \in 0 .. HdrBuckets, NEW b \in 0 .. HdrBuckets,
           a <= b
    PROVE  /\ t[a] \in Nat /\ t[b] \in Nat /\ t[a] <= t[b]
           /\ (\A c \in Lists : a <= c /\ c < b => w[c] = 0) => t[a] = t[b]
<1>0. HdrBuckets \in Nat
  BY HeaderAssumption
<1>1. t \in [0 .. HdrBuckets -> Nat] /\ \A c \in Lists : t[c + 1] = t[c] + w[c]
  BY DEF Tally
<1> DEFINE Good(k) == t[a] <= t[k] /\ ((\A c \in Lists : a <= c /\ c < k => w[c] = 0) => t[a] = t[k])
           Bad == {k \in a .. b : ~Good(k)}
<1>2. Bad = {}
  <2> SUFFICES ASSUME Bad # {} PROVE FALSE
    OBVIOUS
  <2>1. PICK k \in Bad : \A j \in Bad : k <= j
    <3>1. Bad \subseteq Nat
      BY <1>0
    <3> HIDE DEF Bad
    <3> QED
      BY <3>1, LeastPosition
  <2>2. k \in a .. b /\ ~Good(k)
    OBVIOUS
  <2>3. a \in Nat /\ b \in Nat /\ b <= HdrBuckets /\ k \in Nat
    BY <1>0, <2>2
  <2>4. k # a
    <3>1. t[a] \in Nat
      BY <1>1
    <3>2. Good(a)
      BY <3>1
    <3> HIDE DEF Good
    <3> QED
      BY <2>2, <3>2
  <2>5. k - 1 \in a .. b /\ ~(k <= k - 1) /\ k - 1 \in Lists /\ (k - 1) + 1 = k
    BY <1>0, <2>2, <2>3, <2>4 DEF Lists
  <2>6. Good(k - 1)
    BY <2>1, <2>5
  <2> DEFINE j == k - 1
  <2>7. t[k] = t[j] + w[j] /\ w[j] \in Nat /\ t[j] \in Nat /\ t[a] \in Nat
    <3>1. t[j + 1] = t[j] + w[j] /\ w[j] \in Nat
      BY <1>1, <2>5
    <3>2. j \in 0 .. HdrBuckets
      BY <1>0, <2>5 DEF Lists
    <3> HIDE DEF j
    <3> QED
      BY <1>1, <2>5, <3>1, <3>2 DEF j
  <2>8. t[a] <= t[k]
    <3>1. t[a] <= t[j]
      BY <2>6
    <3> HIDE DEF j
    <3> QED
      BY <2>7, <3>1
  <2>9. (\A c \in Lists : a <= c /\ c < k => w[c] = 0) => t[a] = t[k]
    <3> SUFFICES ASSUME \A c \in Lists : a <= c /\ c < k => w[c] = 0 PROVE t[a] = t[k]
      OBVIOUS
    <3>1. w[j] = 0
      BY <2>3, <2>5
    <3>2. \A c \in Lists : a <= c /\ c < j => w[c] = 0
      BY <1>0, <2>3 DEF Lists
    <3>3. t[a] = t[j]
      BY <2>6, <3>2
    <3> HIDE DEF j
    <3> QED
      BY <2>7, <3>1, <3>3
  <2> QED
    BY <2>2, <2>8, <2>9
<1>3. b \in a .. b
  BY <1>0
<1>4. Good(b)
  BY <1>2, <1>3
<1> QED
  BY <1>1, <1>4

\* What one list gains or loses, the sum does.
LEMMA TallyChanged ==
    ASSUME NEW w \in [Lists -> Nat], NEW v \in [Lists -> Nat], NEW t, Tally(t, w), NEW k \in Lists,
           \A b \in Lists : b # k => v[b] = w[b]
    PROVE  \E u : Tally(u, v) /\ u[HdrBuckets] = (t[HdrBuckets] - w[k]) + v[k]
<1>0. HdrBuckets \in Nat /\ k \in 0 .. HdrBuckets /\ k + 1 \in 0 .. HdrBuckets /\ k < HdrBuckets
  BY HeaderAssumption DEF Lists
<1>1. t \in [0 .. HdrBuckets -> Nat] /\ t[0] = 0 /\ \A c \in Lists : t[c + 1] = t[c] + w[c]
  BY DEF Tally
<1>2. w[k] \in Nat /\ v[k] \in Nat /\ t[k] \in Nat /\ t[k + 1] = t[k] + w[k]
  BY <1>0, <1>1
<1>3. ASSUME NEW b \in 0 .. HdrBuckets, k < b PROVE w[k] <= t[b]
  <2>1. k + 1 <= b
    BY <1>0, <1>3
  <2>2. t[k + 1] <= t[b] /\ t[b] \in Nat
    BY <1>0, <2>1, TallyGrows
  <2> QED
    BY <1>2, <2>2
<1> DEFINE u == [b \in 0 .. HdrBuckets |-> IF k < b THEN (t[b] - w[k]) + v[k] ELSE t[b]]
<1>4. u \in [0 .. HdrBuckets -> Nat]
  <2>1. ASSUME NEW b \in 0 .. HdrBuckets PROVE (IF k < b THEN (t[b] - w[k]) + v[k] ELSE t[b]) \in Nat
    <3>1. t[b] \in Nat
      BY <1>1
    <3> QED
      BY <3>1, <1>2, <1>3
  <2> QED
    BY <2>1
<1>5. u[0] = 0
  BY <1>0, <1>1
<1>6. ASSUME NEW c \in Lists PROVE u[c + 1] = u[c] + v[c]
  <2>1. c \in 0 .. HdrBuckets /\ c + 1 \in 0 .. HdrBuckets /\ t[c + 1] = t[c] + w[c] /\ c \in Nat /\ k \in Nat
    BY <1>0, <1>1 DEF Lists
  <2>2. t[c] \in Nat /\ w[c] \in Nat /\ v[c] \in Nat
    BY <2>1, <1>1
  <2>3. CASE c = k
    <3>1. u[c + 1] = (t[c + 1] - w[k]) + v[k] /\ u[c] = t[c]
      BY <2>1, <2>3
    <3> QED
      BY <2>1, <2>2, <2>3, <3>1
  <2>4. CASE c # k /\ k < c
    <3>1. u[c + 1] = (t[c + 1] - w[k]) + v[k] /\ u[c] = (t[c] - w[k]) + v[k]
      BY <2>1, <2>4
    <3>2. v[c] = w[c]
      BY <2>4
    <3> QED
      BY <1>2, <2>1, <2>2, <3>1, <3>2
  <2>5. CASE c # k /\ ~(k < c)
    <3>1. ~(k < c + 1)
      BY <2>1, <2>5
    <3>2. u[c + 1] = t[c + 1] /\ u[c] = t[c]
      BY <2>1, <2>5, <3>1
    <3>3. v[c] = w[c]
      BY <2>5
    <3> QED
      BY <2>1, <2>2, <3>2, <3>3
  <2> QED
    BY <2>3, <2>4, <2>5
<1>7. u[HdrBuckets] = (t[HdrBuckets] - w[k]) + v[k]
  BY <1>0
<1> HIDE DEF u
<1>9. Tally(u, v)
  BY <1>4, <1>5, <1>6 DEF Tally
<1> QED
  BY <1>7, <1>9

\* No list has more than all together.
LEMMA TallyShare ==
    ASSUME NEW w \in [Lists -> Nat], NEW t, Tally(t, w), NEW k \in Lists
    PROVE  t[k + 1] = t[k] + w[k] /\ w[k] <= t[HdrBuckets]
<1>0. HdrBuckets \in Nat /\ HdrBuckets \in 0 .. HdrBuckets /\ k \in 0 .. HdrBuckets
      /\ k + 1 \in 0 .. HdrBuckets /\ k + 1 <= HdrBuckets
  BY HeaderAssumption DEF Lists
<1>1. t[k + 1] = t[k] + w[k] /\ t[k] \in Nat /\ w[k] \in Nat
  BY <1>0 DEF Tally
<1>2. t[k + 1] <= t[HdrBuckets] /\ t[HdrBuckets] \in Nat
  BY <1>0, TallyGrows
<1> QED
  BY <1>1, <1>2

-----------------------------------------------------------------------------
(* Sets of fields with the number and the bytes of what is in them.         *)

ListBytes(hs) == [b \in Lists |-> Bytes(hs.buckets[b])]
ListLens(hs) == [b \in Lists |-> Len(hs.buckets[b])]

Measured(hs) ==
    /\ hs \in Sets
    /\ \E t : Tally(t, ListBytes(hs)) /\ t[HdrBuckets] = hs.size
    /\ \E t : Tally(t, ListLens(hs)) /\ t[HdrBuckets] = hs.count

LEMMA ListsAre ==
    ASSUME NEW hs \in Sets
    PROVE  /\ ListBytes(hs) \in [Lists -> Nat] /\ ListLens(hs) \in [Lists -> Nat]
           /\ \A b \in Lists : hs.buckets[b] \in Seq(Heads)
<1>1. \A b \in Lists : hs.buckets[b] \in Seq(Heads)
  BY DEF Sets, Lists
<1>2. \A b \in Lists : Bytes(hs.buckets[b]) \in Nat /\ Len(hs.buckets[b]) \in Nat
  BY <1>1, BytesIs
<1> QED
  BY <1>1, <1>2 DEF ListBytes, ListLens

\* An empty set has nothing.
LEMMA EmptyMeasured == Measured(EmptySet) /\ EmptySet.size = 0
<1> DEFINE none == [b \in Lists |-> <<>>]
           z == [b \in 0 .. HdrBuckets |-> 0]
<1>0. HdrBuckets \in Nat /\ \A b \in Lists : b \in 0 .. HdrBuckets /\ b + 1 \in 0 .. HdrBuckets
  BY HeaderAssumption DEF Lists
<1>1. EmptySet = [buckets |-> none, count |-> 0, size |-> 0]
  BY DEF EmptySet, Lists
<1>2. none \in [Lists -> Seq(Heads)] /\ \A b \in Lists : none[b] = <<>>
  OBVIOUS
<1>3. Bytes(<<>>) = 0 /\ Len(<<>>) = 0
  <2>1. <<>> \in Seq(Heads)
    OBVIOUS
  <2> QED
    BY <2>1, BytesIs
<1>4. z \in [0 .. HdrBuckets -> Nat] /\ z[0] = 0 /\ z[HdrBuckets] = 0 /\ \A b \in Lists : z[b + 1] = 0 /\ z[b] = 0
  BY <1>0
<1> HIDE DEF none, z
<1>5. EmptySet \in Sets /\ EmptySet.size = 0 /\ EmptySet.count = 0 /\ EmptySet.buckets = none
  BY <1>1, <1>2 DEF Sets, Lists
<1>6. \A b \in Lists : ListBytes(EmptySet)[b] = 0 /\ ListLens(EmptySet)[b] = 0
  BY <1>2, <1>3, <1>5 DEF ListBytes, ListLens
<1>7. Tally(z, ListBytes(EmptySet))
  <2>1. ASSUME NEW b \in Lists PROVE z[b + 1] = z[b] + ListBytes(EmptySet)[b]
    <3>1. z[b + 1] = 0 /\ z[b] = 0
      BY <1>4
    <3>2. ListBytes(EmptySet)[b] = 0
      BY <1>6
    <3> QED
      BY <3>1, <3>2
  <2> QED
    BY <2>1, <1>4 DEF Tally
<1>8. Tally(z, ListLens(EmptySet))
  <2>1. ASSUME NEW b \in Lists PROVE z[b + 1] = z[b] + ListLens(EmptySet)[b]
    <3>1. z[b + 1] = 0 /\ z[b] = 0
      BY <1>4
    <3>2. ListLens(EmptySet)[b] = 0
      BY <1>6
    <3> QED
      BY <3>1, <3>2
  <2> QED
    BY <2>1, <1>4 DEF Tally
<1> QED
  BY <1>4, <1>5, <1>7, <1>8 DEF Measured

\* A list has no more than its set.
LEMMA MeasuredShare ==
    ASSUME NEW hs, Measured(hs), NEW k \in Lists
    PROVE  /\ hs.buckets[k] \in Seq(Heads) /\ Bytes(hs.buckets[k]) \in Nat /\ Bytes(hs.buckets[k]) <= hs.size
           /\ Len(hs.buckets[k]) \in Nat /\ Len(hs.buckets[k]) <= hs.count
           /\ hs.size \in Nat /\ hs.count \in Nat
<1> DEFINE w == ListBytes(hs)
           l == ListLens(hs)
<1>1. hs \in Sets /\ hs.size \in Nat /\ hs.count \in Nat
  BY DEF Measured, Sets
<1>2. w \in [Lists -> Nat] /\ l \in [Lists -> Nat] /\ hs.buckets[k] \in Seq(Heads)
  BY <1>1, ListsAre
<1>3. w[k] = Bytes(hs.buckets[k]) /\ l[k] = Len(hs.buckets[k])
  BY DEF ListBytes, ListLens
<1>4. PICK t : Tally(t, w) /\ t[HdrBuckets] = hs.size
  BY DEF Measured
<1>5. PICK c : Tally(c, l) /\ c[HdrBuckets] = hs.count
  BY DEF Measured
<1> HIDE DEF w, l
<1>6. w[k] <= t[HdrBuckets]
  BY <1>2, <1>4, TallyShare
<1>7. l[k] <= c[HdrBuckets]
  BY <1>2, <1>5, TallyShare
<1> QED
  BY <1>1, <1>2, <1>3, <1>4, <1>5, <1>6, <1>7

\* A set whose size and number change with one of its lists stays measured.
LEMMA MeasuredChange ==
    ASSUME NEW hs, Measured(hs), NEW hs2 \in Sets, NEW k \in Lists,
           \A b \in Lists : b # k => hs2.buckets[b] = hs.buckets[b],
           hs2.size = (hs.size - Bytes(hs.buckets[k])) + Bytes(hs2.buckets[k]),
           hs2.count = (hs.count - Len(hs.buckets[k])) + Len(hs2.buckets[k])
    PROVE  Measured(hs2)
<1> DEFINE w == ListBytes(hs)
           l == ListLens(hs)
           w2 == ListBytes(hs2)
           l2 == ListLens(hs2)
<1>1. hs \in Sets
  BY DEF Measured
<1>2. w \in [Lists -> Nat] /\ l \in [Lists -> Nat] /\ w2 \in [Lists -> Nat] /\ l2 \in [Lists -> Nat]
  BY <1>1, ListsAre
<1>3. /\ \A b \in Lists : b # k => w2[b] = w[b] /\ l2[b] = l[b]
      /\ w[k] = Bytes(hs.buckets[k]) /\ w2[k] = Bytes(hs2.buckets[k])
      /\ l[k] = Len(hs.buckets[k]) /\ l2[k] = Len(hs2.buckets[k])
  BY DEF ListBytes, ListLens
<1>4. PICK t : Tally(t, w) /\ t[HdrBuckets] = hs.size
  BY DEF Measured
<1>5. PICK c : Tally(c, l) /\ c[HdrBuckets] = hs.count
  BY DEF Measured
<1> HIDE DEF w, l, w2, l2
<1>6. \E u : Tally(u, w2) /\ u[HdrBuckets] = (t[HdrBuckets] - w[k]) + w2[k]
  <2>1. \A b \in Lists : b # k => w2[b] = w[b]
    BY <1>3
  <2> QED
    BY <1>2, <1>4, <2>1, TallyChanged, ZenonT(30)
<1>7. \E u : Tally(u, l2) /\ u[HdrBuckets] = (c[HdrBuckets] - l[k]) + l2[k]
  <2>1. \A b \in Lists : b # k => l2[b] = l[b]
    BY <1>3
  <2> QED
    BY <1>2, <1>5, <2>1, TallyChanged, ZenonT(30)
<1>8. \E u : Tally(u, w2) /\ u[HdrBuckets] = hs2.size
  BY <1>3, <1>4, <1>6
<1>9. \E u : Tally(u, l2) /\ u[HdrBuckets] = hs2.count
  BY <1>3, <1>5, <1>7
<1> QED
  BY <1>8, <1>9 DEF Measured, w2, l2

\* HeaderSet_add() counts a field and its bytes, if there are less than 65536.
LEMMA AddMeasured ==
    ASSUME NEW hs, Measured(hs), NEW h \in Heads, hs.size + h.size < 65536
    PROVE  LET hs2 == HeaderSet_add(hs, h) IN
           /\ Measured(hs2) /\ hs2.size = hs.size + h.size
           /\ hs2.buckets = [hs.buckets EXCEPT ![HdrHash[h.name]] = Append(@, h)]
<1> DEFINE k == HdrHash[h.name]
           hs2 == HeaderSet_add(hs, h)
           x == hs.buckets[k]
           l == Append(x, h)
<1>1. hs \in Sets /\ h.size \in Nat /\ h.name \in HdrNames
  BY DEF Measured, Heads
<1>2. k \in Lists
  BY <1>1, HeaderAssumption DEF Lists
<1>3. hs2 \in Sets
  BY <1>1, AddIs
<1>4. /\ x \in Seq(Heads) /\ Bytes(x) \in Nat /\ Len(x) \in Nat /\ hs.size \in Nat /\ hs.count \in Nat
  <2> HIDE DEF k
  <2> QED
    BY <1>2, MeasuredShare
<1>5. Len(l) = Len(x) + 1 /\ Bytes(l) = Bytes(x) + h.size
  <2> HIDE DEF x
  <2> QED
    BY <1>4, BytesIs
<1>6. hs2 = [hs EXCEPT !.buckets[k] = l, !.count = @ + 1, !.size = (@ + h.size) % 65536]
  BY DEF HeaderSet_add
<1>7. hs.buckets \in [Lists -> Seq(Heads)]
  BY <1>1 DEF Sets, Lists
<1> HIDE DEF l, x, k
<1>8. hs2.buckets = [hs.buckets EXCEPT ![k] = l] /\ hs2.count = hs.count + 1
      /\ hs2.size = (hs.size + h.size) % 65536
  BY <1>1, <1>6 DEF Sets
<1>9. (hs.size + h.size) % 65536 = hs.size + h.size
  BY SMTT(30), <1>1, <1>4
<1>10. hs2.buckets[k] = l /\ \A b \in Lists : b # k => hs2.buckets[b] = hs.buckets[b]
  BY <1>2, <1>7, <1>8
<1> HIDE DEF hs2
<1>11. /\ hs2.size = (hs.size - Bytes(hs.buckets[k])) + Bytes(hs2.buckets[k])
       /\ hs2.count = (hs.count - Len(hs.buckets[k])) + Len(hs2.buckets[k])
  <2>1. hs.size + h.size = (hs.size - Bytes(x)) + Bytes(l)
    BY <1>1, <1>4, <1>5
  <2>2. hs.count + 1 = (hs.count - Len(x)) + Len(l)
    BY <1>4, <1>5
  <2> QED
    BY <1>8, <1>9, <1>10, <2>1, <2>2 DEF x
<1>12. Measured(hs2)
  BY <1>2, <1>3, <1>10, <1>11, MeasuredChange
<1> QED
  BY <1>8, <1>9, <1>12 DEF hs2, k, l, x

\* Counting in 16 bits.
LEMMA Wraps == ASSUME NEW m \in Nat, m < 65536 PROVE (m + 65536) % 65536 = m
OBVIOUS

Changed(hs, nb, y, z) == [hs EXCEPT !.buckets = nb, !.count = y, !.size = z]

LEMMA SetIs ==
    ASSUME NEW hs \in Sets, NEW nb \in [0 .. HdrBuckets - 1 -> Seq(Heads)], NEW y \in Nat, NEW z \in Nat
    PROVE  Changed(hs, nb, y, z) \in Sets
BY DEF Sets, Changed

\* HeaderSet_removeAll() takes away what it removes.
LEMMA RemoveMeasured ==
    ASSUME NEW hs, Measured(hs), NEW n \in HdrNames, hs.size < 65536
    PROVE  LET hs2 == HeaderSet_removeAll(hs, n) IN
           /\ Measured(hs2) /\ hs2.size <= hs.size
           /\ hs2.buckets = [hs.buckets EXCEPT ![HdrHash[n]] = Without(@, n)]
<1> DEFINE k == HdrHash[n]
           hs2 == HeaderSet_removeAll(hs, n)
           x == hs.buckets[k]
           l == Without(x, n)
           removed == Bytes(x) - Bytes(l)
           y == hs.count - (Len(x) - Len(l))
           z == ((hs.size + 65536) - (removed % 65536)) % 65536
           nb == [hs.buckets EXCEPT ![k] = l]
<1>1. hs \in Sets
  BY DEF Measured
<1>2. k \in Lists
  BY HeaderAssumption DEF Lists
<1>3. x \in Seq(Heads) /\ Bytes(x) \in Nat /\ Len(x) \in Nat /\ hs.size \in Nat /\ hs.count \in Nat
      /\ Bytes(x) <= hs.size /\ Len(x) <= hs.count
  <2> HIDE DEF k
  <2> QED
    BY <1>2, MeasuredShare
<1>4. l \in Seq(Heads) /\ Len(l) <= Len(x) /\ Bytes(l) <= Bytes(x) /\ Bytes(l) \in Nat /\ Len(l) \in Nat
  <2> HIDE DEF x
  <2>1. l \in Seq(Heads) /\ Len(l) <= Len(x) /\ Bytes(l) <= Bytes(x)
    BY <1>3, WithoutIs DEF Left
  <2> HIDE DEF l
  <2> QED
    BY <2>1, BytesIs
<1>5. hs2 = [hs EXCEPT !.buckets[k] = l, !.count = @ - (Len(x) - Len(l)),
                       !.size = ((@ + 65536) - (removed % 65536)) % 65536]
  BY DEF HeaderSet_removeAll
<1>6. hs.buckets \in [Lists -> Seq(Heads)]
  BY <1>1 DEF Sets, Lists
<1> HIDE DEF l, x, k
<1>7. hs2 = [hs EXCEPT !.buckets = nb, !.count = y, !.size = z]
  BY <1>1, <1>5 DEF Sets
<1>8. removed \in Nat /\ removed <= hs.size /\ y \in Nat
  BY SMTT(30), <1>3, <1>4
<1>9. z = hs.size - removed
  <2> HIDE DEF removed
  <2>1. removed % 65536 = removed
    BY <1>3, <1>8
  <2>2. ((hs.size + 65536) - removed) % 65536 = hs.size - removed
    <3> DEFINE m == hs.size - removed
    <3>1. m \in Nat /\ m < 65536 /\ (hs.size + 65536) - removed = m + 65536
      <4>1. hs.size \in Nat /\ hs.size < 65536 /\ removed \in Nat /\ removed <= hs.size
        BY <1>3, <1>8
      <4> QED
        BY <4>1
    <3> HIDE DEF m
    <3>2. (m + 65536) % 65536 = m
      BY <3>1, Wraps
    <3> QED
      BY <3>1, <3>2 DEF m
  <2> QED
    BY <2>1, <2>2
<1>10. z \in Nat /\ z <= hs.size
  <2> HIDE DEF removed, z
  <2> QED
    BY <1>3, <1>8, <1>9
<1>11. nb \in [Lists -> Seq(Heads)] /\ nb[k] = l /\ \A b \in Lists : b # k => nb[b] = hs.buckets[b]
  BY <1>2, <1>4, <1>6
<1>12. z = (hs.size - Bytes(x)) + Bytes(l) /\ y = (hs.count - Len(x)) + Len(l)
  <2> HIDE DEF z
  <2> QED
    BY <1>3, <1>4, <1>9
<1> HIDE DEF hs2, nb, y, z, removed
<1>13. hs2.buckets = nb /\ hs2.count = y /\ hs2.size = z
  BY <1>1, <1>7 DEF Sets
<1>14. hs2 \in Sets
  <2>1. hs2 = Changed(hs, nb, y, z)
    BY <1>7 DEF Changed
  <2>2. nb \in [0 .. HdrBuckets - 1 -> Seq(Heads)]
    BY <1>11 DEF Lists
  <2> QED
    <3>1. y \in Nat /\ z \in Nat
      BY <1>8, <1>10
    <3>2. Changed(hs, nb, y, z) \in Sets
      BY <1>1, <2>2, <3>1, SetIs
    <3> QED
      BY <2>1, <3>2
<1>15. Measured(hs2)
  <2>1. \A b \in Lists : b # k => hs2.buckets[b] = hs.buckets[b]
    BY <1>11, <1>13
  <2>2. /\ hs2.size = (hs.size - Bytes(hs.buckets[k])) + Bytes(hs2.buckets[k])
        /\ hs2.count = (hs.count - Len(hs.buckets[k])) + Len(hs2.buckets[k])
    BY <1>11, <1>12, <1>13 DEF x
  <2> QED
    BY <1>2, <1>14, <2>1, <2>2, MeasuredChange
<1> QED
  BY <1>10, <1>13, <1>15 DEF hs2, nb, k, l, x

-----------------------------------------------------------------------------
(* What a set has of a name.                                               *)

Among(s, n) == {p \in 1 .. Len(s) : s[p].name = n}
Once(s, n) == \A p, q \in Among(s, n) : p = q
Says(s, n, v) == \A p \in Among(s, n) : s[p].value = v
Has(s, n) == Among(s, n) # {}

\* t has of n what s has.
Kept(s, t, n) == /\ Once(s, n) => Once(t, n)
                 /\ \A v : Says(s, n, v) => Says(t, n, v)
                 /\ Has(s, n) => Has(t, n)

\* What is left out of a list does not change what it has of another name.
LEMMA WithoutKeeps ==
    ASSUME NEW s \in Seq(Heads), NEW m
    PROVE  LET t == Without(s, m) IN
           /\ t \in Seq(Heads)
           /\ \A n : n # m => Kept(s, t, n)
           /\ Among(t, m) = {}
<1> DEFINE t == Without(s, m)
           L == Len(s)
<1>1. L \in Nat /\ Left(s, m, L, t)
  BY WithoutIs
<1> HIDE DEF t
<1>2. t \in Seq(Heads) /\ Len(t) \in Nat
  BY <1>1 DEF Left
<1>3. PICK from \in [1 .. Len(t) -> 1 .. L] : Leaves(from, s, m, L, t)
  BY <1>1 DEF Left
<1>4. /\ \A p \in 1 .. Len(t) : from[p] \in 1 .. L /\ t[p] = s[from[p]] /\ t[p].name # m
      /\ \A p, q \in 1 .. Len(t) : from[p] = from[q] => p = q
      /\ \A q \in 1 .. L : s[q].name # m => \E p \in 1 .. Len(t) : from[p] = q
  BY <1>3 DEF Leaves
<1>5. Among(t, m) = {}
  BY <1>4 DEF Among
<1>6. \A n : \A p \in Among(t, n) : from[p] \in Among(s, n) /\ t[p] = s[from[p]]
  BY <1>4 DEF Among
<1>7. \A n : Once(s, n) => Once(t, n)
  <2> SUFFICES ASSUME NEW n, Once(s, n), NEW p \in Among(t, n), NEW q \in Among(t, n) PROVE p = q
    BY DEF Once
  <2>1. from[p] = from[q]
    BY <1>6 DEF Once
  <2>2. p \in 1 .. Len(t) /\ q \in 1 .. Len(t)
    BY DEF Among
  <2> QED
    BY <1>4, <2>1, <2>2
<1>8. \A n, v : Says(s, n, v) => Says(t, n, v)
  BY <1>6 DEF Says
<1>9. ASSUME NEW n, n # m, Has(s, n) PROVE Has(t, n)
  <2>1. PICK q \in 1 .. L : s[q].name = n
    BY <1>9 DEF Has, Among
  <2>2. PICK p \in 1 .. Len(t) : from[p] = q
    BY <1>4, <1>9, <2>1
  <2>3. t[p].name = n
    BY <1>4, <2>1, <2>2
  <2> QED
    BY <2>2, <2>3 DEF Has, Among
<1> QED
  BY <1>2, <1>5, <1>7, <1>8, <1>9 DEF t, Kept

\* Neither does a field that is appended; the only one of its name is alone.
LEMMA AppendKeeps ==
    ASSUME NEW s \in Seq(Heads), NEW h \in Heads
    PROVE  LET t == Append(s, h) IN
           /\ t \in Seq(Heads)
           /\ \A n : n # h.name => Kept(s, t, n)
           /\ Among(s, h.name) = {} =>
                Once(t, h.name) /\ Says(t, h.name, h.value) /\ Has(t, h.name)
<1> DEFINE t == Append(s, h)
           L == Len(s)
<1>1. t \in Seq(Heads) /\ L \in Nat /\ Len(t) = L + 1 /\ t[L + 1] = h /\ \A p \in 1 .. L : t[p] = s[p]
  OBVIOUS
<1> HIDE DEF t
<1>2. \A p \in 1 .. Len(t) : p \in 1 .. L \/ p = L + 1
  BY <1>1
<1>3. \A p \in 1 .. L : p \in 1 .. Len(t)
  BY <1>1
<1>4. ASSUME NEW n, n # h.name PROVE Among(t, n) = Among(s, n)
  BY <1>1, <1>2, <1>3, <1>4 DEF Among
<1>5. ASSUME NEW n, n # h.name, NEW v, Says(s, n, v) PROVE Says(t, n, v)
  BY <1>1, <1>4, <1>5 DEF Says, Among
<1>6. ASSUME Among(s, h.name) = {} PROVE Among(t, h.name) = {L + 1}
  <2>1. L + 1 \in 1 .. Len(t)
    BY <1>1
  <2>2. L + 1 \in Among(t, h.name)
    BY <1>1, <2>1 DEF Among
  <2>3. ASSUME NEW p \in Among(t, h.name) PROVE p = L + 1
    <3>1. p \in 1 .. Len(t) /\ t[p].name = h.name
      BY DEF Among
    <3>2. p \in 1 .. L => p \in Among(s, h.name)
      BY <1>1, <3>1 DEF Among
    <3> QED
      BY <1>2, <1>6, <3>1, <3>2
  <2> QED
    BY <2>2, <2>3
<1>7. Among(s, h.name) = {} => Once(t, h.name) /\ Says(t, h.name, h.value) /\ Has(t, h.name)
  BY <1>1, <1>6 DEF Once, Says, Has
<1>8. \A n : n # h.name => (Once(s, n) => Once(t, n)) /\ (Has(s, n) => Has(t, n))
  BY <1>4 DEF Once, Has
<1> QED
  BY <1>1, <1>5, <1>7, <1>8 DEF t, Kept

-----------------------------------------------------------------------------
(* Sets whose fields stand in their lists.                                 *)

Hashed(hs) == \A b \in Lists : \A p \in 1 .. Len(hs.buckets[b]) : HdrHash[hs.buckets[b][p].name] = b

Sound(hs) == Measured(hs) /\ Hashed(hs)

LEMMA EmptySound == Sound(EmptySet) /\ EmptySet.size = 0 /\ \A n \in HdrNames : Bucket(EmptySet, n) = <<>>
<1>1. \A b \in Lists : EmptySet.buckets[b] = <<>>
  BY DEF EmptySet, Lists
<1>2. Hashed(EmptySet)
  BY <1>1 DEF Hashed
<1>3. \A n \in HdrNames : Bucket(EmptySet, n) = <<>>
  BY <1>1, HeaderAssumption DEF Bucket, Lists
<1> QED
  BY <1>2, <1>3, EmptyMeasured DEF Sound

\* HeaderSet_add()
LEMMA AddSound ==
    ASSUME NEW hs, Sound(hs), NEW h \in Heads, hs.size + h.size < 65536
    PROVE  LET hs2 == HeaderSet_add(hs, h) IN
           /\ Sound(hs2) /\ hs2.size = hs.size + h.size
           /\ \A n \in HdrNames : Bucket(hs2, n) =
                IF HdrHash[n] = HdrHash[h.name] THEN Append(Bucket(hs, n), h) ELSE Bucket(hs, n)
<1> DEFINE hs2 == HeaderSet_add(hs, h)
           k == HdrHash[h.name]
           l == Append(hs.buckets[k], h)
<1>1. Measured(hs2) /\ hs2.size = hs.size + h.size /\ hs2.buckets = [hs.buckets EXCEPT ![k] = l]
  BY AddMeasured DEF Sound
<1>2. h.name \in HdrNames
  BY DEF Heads
<1>3. k \in Lists /\ \A n \in HdrNames : HdrHash[n] \in Lists
  BY <1>2, HeaderAssumption DEF Lists
<1>4. hs.buckets \in [Lists -> Seq(Heads)]
  BY DEF Sound, Measured, Sets, Lists
<1> HIDE DEF hs2
<1>5. \A b \in Lists : hs2.buckets[b] = IF b = k THEN l ELSE hs.buckets[b]
  <2> HIDE DEF k, l
  <2> QED
    BY <1>1, <1>3, <1>4
<1>6. Hashed(hs2)
  <2> SUFFICES ASSUME NEW b \in Lists, NEW p \in 1 .. Len(hs2.buckets[b])
               PROVE  HdrHash[hs2.buckets[b][p].name] = b
    BY DEF Hashed
  <2>1. CASE b # k
    BY <1>5, <2>1 DEF Sound, Hashed
  <2>2. CASE b = k
    <3> DEFINE x == hs.buckets[k]
    <3>1. x \in Seq(Heads) /\ hs2.buckets[b] = Append(x, h)
      <4>1. x \in Seq(Heads)
        BY <1>3, <1>4
      <4>2. hs2.buckets[b] = l
        <5> HIDE DEF l
        <5> QED
          BY <1>5, <2>2
      <4> QED
        BY <4>1, <4>2
    <3>2. \A q \in 1 .. Len(x) : HdrHash[x[q].name] = b
      BY <1>3, <2>2 DEF Sound, Hashed
    <3> HIDE DEF x
    <3>3. CASE p = Len(x) + 1
      <4>1. Append(x, h)[p] = h
        BY <3>1, <3>3
      <4> QED
        BY <2>2, <3>1, <4>1
    <3>4. CASE p # Len(x) + 1
      <4>1. p \in 1 .. Len(x) /\ Append(x, h)[p] = x[p]
        BY <3>1, <3>4
      <4> QED
        BY <3>1, <3>2, <4>1
    <3> QED
      BY <3>3, <3>4
  <2> QED
    BY <2>1, <2>2
<1>7. \A n \in HdrNames : Bucket(hs2, n) =
        IF HdrHash[n] = HdrHash[h.name] THEN Append(Bucket(hs, n), h) ELSE Bucket(hs, n)
  BY <1>3, <1>5 DEF Bucket
<1> QED
  BY <1>1, <1>6, <1>7 DEF Sound, hs2

\* HeaderSet_removeAll()
LEMMA RemoveSound ==
    ASSUME NEW hs, Sound(hs), NEW m \in HdrNames, hs.size < 65536
    PROVE  LET hs2 == HeaderSet_removeAll(hs, m) IN
           /\ Sound(hs2) /\ hs2.size <= hs.size
           /\ \A n \in HdrNames : Bucket(hs2, n) =
                IF HdrHash[n] = HdrHash[m] THEN Without(Bucket(hs, n), m) ELSE Bucket(hs, n)
<1> DEFINE hs2 == HeaderSet_removeAll(hs, m)
           k == HdrHash[m]
           l == Without(hs.buckets[k], m)
<1>1. Measured(hs2) /\ hs2.size <= hs.size /\ hs2.buckets = [hs.buckets EXCEPT ![k] = l]
  BY RemoveMeasured DEF Sound
<1>3. k \in Lists /\ \A n \in HdrNames : HdrHash[n] \in Lists
  BY HeaderAssumption DEF Lists
<1>4. hs.buckets \in [Lists -> Seq(Heads)]
  BY DEF Sound, Measured, Sets, Lists
<1> HIDE DEF hs2
<1>5. \A b \in Lists : hs2.buckets[b] = IF b = k THEN l ELSE hs.buckets[b]
  <2> HIDE DEF k, l
  <2> QED
    BY <1>1, <1>3, <1>4
<1>6. Hashed(hs2)
  <2> SUFFICES ASSUME NEW b \in Lists, NEW p \in 1 .. Len(hs2.buckets[b])
               PROVE  HdrHash[hs2.buckets[b][p].name] = b
    BY DEF Hashed
  <2>1. CASE b # k
    BY <1>5, <2>1 DEF Sound, Hashed
  <2>2. CASE b = k
    <3> DEFINE x == hs.buckets[k]
    <3>1. x \in Seq(Heads) /\ hs2.buckets[b] = Without(x, m)
      BY <1>3, <1>4, <1>5, <2>2
    <3>2. \A q \in 1 .. Len(x) : HdrHash[x[q].name] = b
      BY <1>3, <2>2 DEF Sound, Hashed
    <3> HIDE DEF x
    <3>3. Left(x, m, Len(x), Without(x, m))
      BY <3>1, WithoutIs
    <3>4. PICK from \in [1 .. Len(Without(x, m)) -> 1 .. Len(x)] : Leaves(from, x, m, Len(x), Without(x, m))
      BY <3>3 DEF Left
    <3>5. from[p] \in 1 .. Len(x) /\ Without(x, m)[p] = x[from[p]]
      BY <3>1, <3>4 DEF Leaves
    <3> QED
      BY <3>1, <3>2, <3>5
  <2> QED
    BY <2>1, <2>2
<1>7. \A n \in HdrNames : Bucket(hs2, n) =
        IF HdrHash[n] = HdrHash[m] THEN Without(Bucket(hs, n), m) ELSE Bucket(hs, n)
  BY <1>3, <1>5 DEF Bucket
<1> QED
  BY <1>1, <1>6, <1>7 DEF Sound, hs2

\* HeaderSet_set() leaves one field of the name, and the other names as they are.
LEMMA SetSound ==
    ASSUME NEW hs, Sound(hs), NEW h \in Heads, hs.size + h.size < 65536
    PROVE  LET hs2 == HeaderSet_set(hs, h) IN
           /\ Sound(hs2) /\ hs2.size <= hs.size + h.size
           /\ \A n \in HdrNames : Bucket(hs2, n) =
                IF HdrHash[n] = HdrHash[h.name] THEN Append(Without(Bucket(hs, n), h.name), h)
                ELSE Bucket(hs, n)
<1> DEFINE hs1 == HeaderSet_removeAll(hs, h.name)
           hs2 == HeaderSet_add(hs1, h)
<1>1. h.name \in HdrNames /\ h.size \in Nat /\ hs.size \in Nat /\ hs.size < 65536
  BY DEF Heads, Sound, Measured, Sets
<1>2. /\ Sound(hs1) /\ hs1.size <= hs.size
      /\ \A n \in HdrNames : Bucket(hs1, n) =
           IF HdrHash[n] = HdrHash[h.name] THEN Without(Bucket(hs, n), h.name) ELSE Bucket(hs, n)
  BY <1>1, RemoveSound
<1> HIDE DEF hs1
<1>3. hs1.size \in Nat /\ hs1.size + h.size < 65536 /\ hs1.size + h.size <= hs.size + h.size
  BY <1>1, <1>2 DEF Sound, Measured, Sets
<1>4. /\ Sound(hs2) /\ hs2.size = hs1.size + h.size
      /\ \A n \in HdrNames : Bucket(hs2, n) =
           IF HdrHash[n] = HdrHash[h.name] THEN Append(Bucket(hs1, n), h) ELSE Bucket(hs1, n)
  BY <1>2, <1>3, AddSound
<1>5. HeaderSet_set(hs, h) = hs2
  BY DEF HeaderSet_set, hs1
<1> HIDE DEF hs2
<1> QED
  BY <1>2, <1>3, <1>4, <1>5

\* A field that is added or set leaves what the set has of the other names.
Keeps(hs, hs2, n) == Kept(Bucket(hs, n), Bucket(hs2, n), n)

LEMMA AddKeeps ==
    ASSUME NEW hs, Sound(hs), NEW h \in Heads, hs.size + h.size < 65536, NEW n \in HdrNames, n # h.name
    PROVE  Keeps(hs, HeaderSet_add(hs, h), n)
<1> DEFINE hs2 == HeaderSet_add(hs, h)
           s == Bucket(hs, n)
<1>1. s \in Seq(Heads)
  BY BucketIs DEF Sound, Measured
<1>2. Bucket(hs2, n) = IF HdrHash[n] = HdrHash[h.name] THEN Append(s, h) ELSE s
  BY AddSound
<1> HIDE DEF hs2, s
<1>3. Kept(s, Append(s, h), n) /\ Kept(s, s, n)
  BY <1>1, AppendKeeps DEF Kept
<1> QED
  BY <1>2, <1>3 DEF Keeps, hs2, s

LEMMA SetKeeps ==
    ASSUME NEW hs, Sound(hs), NEW h \in Heads, hs.size + h.size < 65536, NEW n \in HdrNames
    PROVE  LET hs2 == HeaderSet_set(hs, h)
               t == Bucket(hs2, n)
           IN /\ n # h.name => Keeps(hs, hs2, n)
              /\ n = h.name => Once(t, n) /\ Says(t, n, h.value) /\ Has(t, n)
<1> DEFINE hs2 == HeaderSet_set(hs, h)
           s == Bucket(hs, n)
           m == h.name
           w == Without(s, m)
           t == Append(w, h)
<1>1. s \in Seq(Heads)
  BY BucketIs DEF Sound, Measured
<1>2. Bucket(hs2, n) = IF HdrHash[n] = HdrHash[h.name] THEN t ELSE s
  BY SetSound
<1> HIDE DEF hs2, s
<1>3. w \in Seq(Heads) /\ Among(w, m) = {} /\ (n # m => Kept(s, w, n))
  <2> HIDE DEF m
  <2> QED
    BY <1>1, WithoutKeeps
<1> HIDE DEF w
<1>4. /\ n # m => Kept(w, t, n)
      /\ Once(t, m) /\ Says(t, m, h.value) /\ Has(t, m)
  BY <1>3, AppendKeeps
<1> HIDE DEF t
<1>5. n # m => Kept(s, t, n) /\ Kept(s, s, n)
  BY <1>3, <1>4 DEF Kept
<1> QED
  BY <1>2, <1>4, <1>5 DEF Keeps, hs2, s

-----------------------------------------------------------------------------
(* What a set announces of the body.                                       *)

Announced(hs, size) ==
    LET l == Bucket(hs, "content-length")
        e == Bucket(hs, "content-encoding")
    IN /\ Once(l, "content-length") /\ Says(l, "content-length", size)
       /\ size > 0 => Has(l, "content-length")
       /\ Once(e, "content-encoding")

AboutBody == {"content-length", "content-encoding"}

\* What the server says about the connection and about caches.
AboutServer == {"connection", "keep-alive", "cache-control"}

LEMMA NamesAre == AboutBody \subseteq HdrNames /\ AboutServer \subseteq HdrNames \ AboutBody
BY RespAssumption DEF AboutBody, AboutServer

\* Fields handlers put are not about the body.
LEMMA OtherField ==
    ASSUME NEW hs, Sound(hs), NEW h \in Heads, hs.size + h.size < 65536, h.name \notin AboutBody,
           NEW size \in Nat, Announced(hs, size)
    PROVE  Announced(HeaderSet_add(hs, h), size) /\ Announced(HeaderSet_set(hs, h), size)
<1>1. \A n \in AboutBody : n \in HdrNames /\ n # h.name
  BY NamesAre
<1>2. \A n \in AboutBody : Keeps(hs, HeaderSet_add(hs, h), n)
  BY <1>1, AddKeeps
<1>3. \A n \in AboutBody : Keeps(hs, HeaderSet_set(hs, h), n)
  <2> TAKE n \in AboutBody
  <2> QED
    BY <1>1, SetKeeps
<1>4. ASSUME NEW hs2, \A n \in AboutBody : Keeps(hs, hs2, n) PROVE Announced(hs2, size)
  <2>1. Keeps(hs, hs2, "content-length") /\ Keeps(hs, hs2, "content-encoding")
    BY <1>4 DEF AboutBody
  <2> QED
    BY <2>1 DEF Keeps, Kept, Announced
<1> QED
  BY <1>2, <1>3, <1>4

\* HttpResponse_passBody()
LEMMA BodyField ==
    ASSUME NEW hs, Sound(hs), NEW h \in Heads, hs.size + h.size < 65536, h.name = "content-length",
           h.value \in Nat, NEW size, Announced(hs, size)
    PROVE  Announced(HeaderSet_set(hs, h), h.value)
<1> DEFINE hs2 == HeaderSet_set(hs, h)
           l == Bucket(hs2, "content-length")
<1>1. "content-length" \in HdrNames /\ "content-encoding" \in HdrNames
  BY NamesAre DEF AboutBody
<1>2. Once(l, "content-length") /\ Says(l, "content-length", h.value) /\ Has(l, "content-length")
  BY <1>1, SetKeeps
<1>3. Keeps(hs, hs2, "content-encoding")
  <2>1. "content-encoding" # h.name
    OBVIOUS
  <2> QED
    BY <1>1, <2>1, SetKeeps
<1> HIDE DEF hs2
<1> QED
  BY <1>2, <1>3 DEF Keeps, Kept, Announced, hs2

\* MW_Compress()
LEMMA EncodingField ==
    ASSUME NEW hs, Sound(hs), NEW h \in Heads, hs.size + h.size < 65536, h.name = "content-encoding",
           NEW size \in Nat, Announced(hs, size)
    PROVE  Announced(HeaderSet_set(hs, h), size)
<1> DEFINE hs2 == HeaderSet_set(hs, h)
           e == Bucket(hs2, "content-encoding")
<1>1. "content-length" \in HdrNames /\ "content-encoding" \in HdrNames
  BY NamesAre DEF AboutBody
<1>2. Once(e, "content-encoding")
  BY <1>1, SetKeeps
<1>3. Keeps(hs, hs2, "content-length")
  <2>1. "content-length" # h.name
    OBVIOUS
  <2> QED
    BY <1>1, <2>1, SetKeeps
<1> HIDE DEF hs2
<1> QED
  BY <1>2, <1>3 DEF Keeps, Kept, Announced, hs2

LEMMA EmptyAnnounced == Announced(EmptySet, 0)
<1>1. \A n \in AboutBody : Bucket(EmptySet, n) = <<>>
  BY NamesAre, EmptySound
<1>2. \A n : Among(<<>>, n) = {}
  <2>1. Len(<<>>) = 0 /\ 1 .. 0 = {}
    OBVIOUS
  <2> QED
    BY <2>1 DEF Among
<1> QED
  BY <1>1, <1>2 DEF Announced, Once, Says, AboutBody

-----------------------------------------------------------------------------
(* Walking all fields of a set.                                            *)

Spot(b, p) == [key |-> NoKey, bucket |-> b, pos |-> p]

Least(x, A) == x \in A /\ \A y \in A : x[1] < y[1] \/ (x[1] = y[1] /\ x[2] <= y[2])

LEMMA LeastOne ==
    ASSUME NEW A, A \subseteq Nat \X Nat, NEW x, Least(x, A), NEW y, Least(y, A)
    PROVE  x = y
<1>1. x \in Nat \X Nat /\ y \in Nat \X Nat
  BY DEF Least
<1>2. x[1] = y[1] /\ x[2] = y[2]
  BY <1>1 DEF Least
<1> QED
  BY <1>1, <1>2

\* The next field of the list, or the first one of the next list that has one.
LEMMA NextPlace ==
    ASSUME NEW hs, Measured(hs), NEW b \in Lists, NEW p \in 0 .. Len(hs.buckets[b])
    PROVE  LET next == HeaderIterator_moveNext(hs, Spot(b, p))
               L(c) == Len(hs.buckets[c])
           IN /\ p < L(b) => next = Spot(b, p + 1)
              /\ p = L(b) =>
                   \/ next = Spot(0, 0) /\ \A c \in Lists : b < c => L(c) = 0
                   \/ \E c \in Lists : /\ b < c /\ 0 < L(c) /\ next = Spot(c, 1)
                                       /\ \A d \in Lists : b < d /\ d < c => L(d) = 0
<1> DEFINE it == Spot(b, p)
           next == HeaderIterator_moveNext(hs, it)
           L(c) == Len(hs.buckets[c])
           A == {x \in Lists \X (1 .. hs.count) :
                   x[2] <= L(x[1]) /\ (x[1] > b \/ (x[1] = b /\ x[2] > p))}
<1>1. it.key = NoKey /\ it.bucket = b /\ it.pos = p
  BY DEF Spot
<1>2. \A c \in Lists : L(c) \in Nat /\ L(c) <= hs.count /\ c \in Nat
  <2>1. \A c \in Lists : L(c) \in Nat /\ L(c) <= hs.count
    BY MeasuredShare
  <2>2. \A c \in Lists : c \in Nat
    BY HeaderAssumption DEF Lists
  <2> QED
    BY <2>1, <2>2
<1>3. hs.count \in Nat /\ p \in Nat
  BY <1>2 DEF Measured, Sets
<1>4. Ahead(hs, it) = A
  BY <1>1 DEF Ahead, Lists
<1>5. A \subseteq Nat \X Nat
  BY <1>2, <1>3
<1>6. \A x : x \in A <=> /\ x \in Lists \X (1 .. hs.count) /\ x[2] <= L(x[1])
                         /\ x[1] > b \/ (x[1] = b /\ x[2] > p)
  OBVIOUS
<1>7. ASSUME NEW c \in Lists, NEW q \in Nat, 0 < q, q <= L(c), c > b \/ (c = b /\ q > p)
      PROVE  <<c, q>> \in A
  <2>1. q \in 1 .. hs.count
    BY <1>2, <1>3, <1>7
  <2>2. <<c, q>> \in Lists \X (1 .. hs.count) /\ <<c, q>>[1] = c /\ <<c, q>>[2] = q
    BY <2>1
  <2> HIDE DEF A, L
  <2> QED
    BY <1>6, <1>7, <2>2
<1> HIDE DEF A
<1>8. ASSUME NEW c \in Lists, NEW q \in Nat, Least(<<c, q>>, A) PROVE next = Spot(c, q)
  <2> DEFINE x == CHOOSE x \in A : \A y \in A : x[1] < y[1] \/ (x[1] = y[1] /\ x[2] <= y[2])
  <2>1. <<c, q>> \in A /\ A # {}
    BY <1>8 DEF Least
  <2>2. next = [it EXCEPT !.bucket = x[1], !.pos = x[2]]
    BY <1>4, <2>1 DEF HeaderIterator_moveNext
  <2>3. Least(x, A)
    BY <1>8 DEF Least
  <2> HIDE DEF x
  <2>4. x = <<c, q>>
    BY <1>5, <1>8, <2>3, LeastOne
  <2> QED
    BY <2>2, <2>4 DEF Spot
<1>9. ASSUME p < L(b) PROVE next = Spot(b, p + 1)
  <2>1. p + 1 \in Nat /\ 0 < p + 1 /\ p + 1 <= L(b) /\ p + 1 > p
    BY <1>2, <1>3, <1>9
  <2>2. <<b, p + 1>> \in A
    BY <1>7, <2>1
  <2>3. ASSUME NEW y \in A PROVE b < y[1] \/ (b = y[1] /\ p + 1 <= y[2])
    <3>1. y[1] \in Nat /\ y[2] \in Nat /\ b \in Nat
      BY <1>2, <1>5
    <3>2. y[1] > b \/ (y[1] = b /\ y[2] > p)
      BY <1>6
    <3> QED
      BY <1>3, <3>1, <3>2
  <2>4. Least(<<b, p + 1>>, A)
    BY <2>2, <2>3 DEF Least
  <2> QED
    BY <1>8, <2>1, <2>4
<1>10. ASSUME p = L(b), \A c \in Lists : b < c => L(c) = 0 PROVE next = Spot(0, 0)
  <2>1. A = {}
    <3> SUFFICES ASSUME NEW y \in A PROVE FALSE
      OBVIOUS
    <3>1. y \in Lists \X (1 .. hs.count) /\ y[2] <= L(y[1])
      BY <1>6
    <3>1a. y[1] > b \/ (y[1] = b /\ y[2] > p)
      BY <1>6
    <3>2. y[1] \in Lists /\ y[2] \in Nat /\ 0 < y[2] /\ y[1] \in Nat /\ b \in Nat /\ L(y[1]) \in Nat
      BY <1>2, <1>3, <3>1
    <3>3. CASE y[1] > b
      <4>1. L(y[1]) = 0
        BY <1>10, <3>2, <3>3
      <4> QED
        BY <3>1, <3>2, <4>1
    <3>4. CASE y[1] = b /\ y[2] > p
      BY <1>10, <3>1, <3>2, <3>4
    <3> QED
      BY <3>1a, <3>3, <3>4
  <2>2. next = [it EXCEPT !.bucket = 0, !.pos = 0]
    BY <1>1, <1>4, <2>1 DEF HeaderIterator_moveNext
  <2> QED
    BY <2>2 DEF Spot
<1>11. ASSUME p = L(b), NEW e \in Lists, b < e, L(e) # 0
       PROVE  \E c \in Lists : /\ b < c /\ 0 < L(c) /\ next = Spot(c, 1)
                               /\ \A d \in Lists : b < d /\ d < c => L(d) = 0
  <2> DEFINE E == {c \in Lists : b < c /\ L(c) # 0}
  <2>1. E \subseteq Nat /\ E # {}
    BY <1>2, <1>11
  <2>2. PICK c \in E : \A d \in E : c <= d
    <3> HIDE DEF E
    <3> QED
      BY <2>1, LeastPosition
  <2>3. c \in Lists /\ b < c /\ 0 < L(c) /\ c \in Nat /\ L(c) \in Nat /\ b \in Nat
    BY <1>2, <2>2
  <2>4. ASSUME NEW d \in Lists, b < d, d < c PROVE L(d) = 0
    <3>1. d \in Nat /\ ~(c <= d)
      BY <1>2, <2>3, <2>4
    <3> QED
      BY <2>2, <2>4, <3>1
  <2>5. <<c, 1>> \in A
    <3>1. 1 \in Nat /\ 0 < 1 /\ 1 <= L(c) /\ c > b
      BY <2>3
    <3> QED
      BY <1>7, <2>3, <3>1
  <2>6. ASSUME NEW y \in A PROVE c < y[1] \/ (c = y[1] /\ 1 <= y[2])
    <3>1. y \in Lists \X (1 .. hs.count) /\ y[2] <= L(y[1])
      BY <1>6
    <3>1a. y[1] > b \/ (y[1] = b /\ y[2] > p)
      BY <1>6
    <3>2. y[1] \in Lists /\ y[2] \in Nat /\ 0 < y[2] /\ y[1] \in Nat /\ L(y[1]) \in Nat
      BY <1>2, <1>3, <3>1
    <3>3. y[1] # b
      BY <1>11, <3>1, <3>1a, <3>2
    <3>4. b < y[1] /\ L(y[1]) # 0
      BY <2>3, <3>1, <3>1a, <3>2, <3>3
    <3>5. c <= y[1]
      BY <2>2, <3>2, <3>4
    <3> QED
      BY <2>3, <3>2, <3>5
  <2>7. Least(<<c, 1>>, A)
    BY <2>5, <2>6 DEF Least
  <2>8. next = Spot(c, 1)
    BY <1>8, <2>3, <2>7
  <2> QED
    BY <2>3, <2>4, <2>8
<1> QED
  <2> HIDE DEF next, L
  <2>1. p = L(b) => (\/ next = Spot(0, 0) /\ \A c \in Lists : b < c => L(c) = 0
                     \/ \E c \in Lists : /\ b < c /\ 0 < L(c) /\ next = Spot(c, 1)
                                         /\ \A d \in Lists : b < d /\ d < c => L(d) = 0)
    BY <1>10, <1>11
  <2> QED
    BY <1>9, <2>1 DEF next, L

-----------------------------------------------------------------------------
(* The fields written so far.                                              *)

\* The places up to the p-th one of list b.
Reach(hs, b, p) ==
    {x \in Lists \X Nat : /\ x[2] \in 1 .. Len(hs.buckets[x[1]])
                          /\ x[1] < b \/ (x[1] = b /\ x[2] <= p)}

\* w has the fields of these places, each once: the i-th one is the one at at[i].
TakenAt(at, w, hs, b, p) ==
    /\ \A i \in 1 .. Len(w) : at[i] \in Reach(hs, b, p) /\ w[i] = hs.buckets[at[i][1]][at[i][2]]
    /\ \A i, j \in 1 .. Len(w) : at[i] = at[j] => i = j
    /\ \A x \in Reach(hs, b, p) : \E i \in 1 .. Len(w) : at[i] = x

TakenUpTo(w, hs, b, p) == \E at \in [1 .. Len(w) -> Lists \X Nat] : TakenAt(at, w, hs, b, p)

\* Moving over places that are not there takes nothing.
LEMMA TakenSame ==
    ASSUME NEW w, NEW hs, NEW b, NEW p, NEW c, NEW q, TakenUpTo(w, hs, b, p), Reach(hs, b, p) = Reach(hs, c, q)
    PROVE  TakenUpTo(w, hs, c, q)
BY DEF TakenUpTo, TakenAt

\* A field more.
LEMMA TakenMore ==
    ASSUME NEW w \in Seq(Heads), NEW hs, NEW b, NEW p, NEW c, NEW q, TakenUpTo(w, hs, b, p),
           NEW y \in Lists \X Nat, y \notin Reach(hs, b, p), Reach(hs, c, q) = Reach(hs, b, p) \cup {y},
           hs.buckets[y[1]][y[2]] \in Heads
    PROVE  TakenUpTo(Append(w, hs.buckets[y[1]][y[2]]), hs, c, q)
<1> DEFINE R == Reach(hs, b, p)
           h == hs.buckets[y[1]][y[2]]
           v == Append(w, h)
           n == Len(w)
<1>1. PICK at \in [1 .. n -> Lists \X Nat] : TakenAt(at, w, hs, b, p)
  BY DEF TakenUpTo
<1>2. /\ \A i \in 1 .. n : at[i] \in R /\ w[i] = hs.buckets[at[i][1]][at[i][2]]
      /\ \A i, j \in 1 .. n : at[i] = at[j] => i = j
      /\ \A x \in R : \E i \in 1 .. n : at[i] = x
  BY <1>1 DEF TakenAt
<1>3. n \in Nat /\ Len(v) = n + 1 /\ v[n + 1] = h /\ \A i \in 1 .. n : v[i] = w[i]
  <2> HIDE DEF h
  <2> QED
    OBVIOUS
<1> DEFINE bt == [i \in 1 .. n + 1 |-> IF i <= n THEN at[i] ELSE y]
<1> HIDE DEF R, h, v, n
<1>4. bt \in [1 .. n + 1 -> Lists \X Nat]
  BY <1>1, <1>3
<1>5. bt[n + 1] = y /\ \A i \in 1 .. n : bt[i] = at[i] /\ i \in 1 .. n + 1
  BY <1>3
<1> HIDE DEF bt
<1>6. \A i \in 1 .. n + 1 : i \in 1 .. n \/ i = n + 1
  BY <1>3
<1>6a. n + 1 \in 1 .. n + 1
  BY <1>3
<1>7. Reach(hs, c, q) = R \cup {y} /\ y \notin R
  BY DEF R
<1>8. \A i \in 1 .. n + 1 : bt[i] \in Reach(hs, c, q) /\ v[i] = hs.buckets[bt[i][1]][bt[i][2]]
  <2> TAKE i \in 1 .. n + 1
  <2>1. CASE i \in 1 .. n
    <3>1. at[i] \in R /\ w[i] = hs.buckets[at[i][1]][at[i][2]] /\ bt[i] = at[i] /\ v[i] = w[i]
      BY <1>2, <1>3, <1>5, <2>1
    <3> QED
      BY <1>7, <3>1
  <2>2. CASE i = n + 1
    <3>1. bt[i] = y /\ v[i] = h
      BY <1>3, <1>5, <2>2
    <3> QED
      BY <1>7, <3>1 DEF h
  <2> QED
    BY <1>6, <2>1, <2>2
<1>9. \A i, j \in 1 .. n + 1 : bt[i] = bt[j] => i = j
  <2>1. \A i \in 1 .. n : bt[i] # y
    BY <1>2, <1>5, <1>7
  <2> QED
    BY <1>2, <1>5, <1>6, <2>1
<1>10. \A x \in Reach(hs, c, q) : \E i \in 1 .. n + 1 : bt[i] = x
  <2> TAKE x \in Reach(hs, c, q)
  <2>1. CASE x \in R
    BY <1>2, <1>5, <2>1
  <2>2. CASE x = y
    BY <1>5, <1>6a, <2>2
  <2> QED
    BY <1>7, <2>1, <2>2
<1>11. TakenAt(bt, v, hs, c, q)
  BY <1>3, <1>8, <1>9, <1>10 DEF TakenAt
<1>12. TakenUpTo(v, hs, c, q)
  BY <1>3, <1>4, <1>11 DEF TakenUpTo
<1> QED
  BY <1>12 DEF v, h

\* The bytes of the first fields of a list grow with their number.
LEMMA AddingGrows ==
    ASSUME NEW s \in Seq(Heads), NEW f, Adding(s, f), NEW p \in 0 .. Len(s)
    PROVE  /\ f[p] \in Nat /\ Bytes(s) \in Nat /\ f[p] <= Bytes(s)
           /\ p = Len(s) => f[p] = Bytes(s)
           /\ Len(s) = 0 => Bytes(s) = 0
<1> DEFINE L == Len(s)
<1>1. L \in Nat /\ f \in [0 .. L -> Nat] /\ f[0] = 0 /\ Bytes(s) = f[L]
  BY SMTT(30), AddingIs DEF Adding
<1>2. \A k \in 1 .. L : f[k] = f[k-1] + s[k].size /\ s[k].size \in Nat
  <2>1. \A k \in 1 .. L : s[k] \in Heads
    OBVIOUS
  <2> QED
    BY <2>1 DEF Adding, Heads
<1> HIDE DEF L
<1> DEFINE Bad == {k \in Nat : k <= L /\ p <= k /\ ~(f[p] <= f[k])}
<1>3. Bad = {}
  <2> SUFFICES ASSUME Bad # {} PROVE FALSE
    OBVIOUS
  <2>1. PICK k \in Bad : \A j \in Bad : k <= j
    <3>1. Bad \subseteq Nat
      OBVIOUS
    <3> HIDE DEF Bad
    <3> QED
      BY <3>1, LeastPosition
  <2>2. k \in Nat /\ k <= L /\ p <= k /\ ~(f[p] <= f[k]) /\ p \in Nat /\ f[p] \in Nat
    BY <1>1 DEF L
  <2>3. k # p
    BY <2>2
  <2>4. k \in 1 .. L /\ k - 1 \in Nat /\ k - 1 <= L /\ p <= k - 1 /\ ~(k <= k - 1)
    BY <1>1, <2>2, <2>3
  <2>5. f[p] <= f[k-1]
    BY <2>1, <2>4
  <2>6. f[k-1] \in Nat
    BY <1>1, <2>4
  <2>7. f[k] = f[k-1] + s[k].size /\ s[k].size \in Nat
    BY <1>2, <2>4
  <2>8. f[p] \in Nat
    BY <2>2
  <2>9. f[p] <= f[k]
    BY <2>5, <2>6, <2>7, <2>8
  <2> QED
    BY <2>2, <2>9
<1>4. f[L] \in Nat /\ f[p] \in Nat /\ p <= L
  BY <1>1 DEF L
<1>5. f[p] <= f[L]
  BY <1>1, <1>3, <1>4
<1> QED
  BY <1>1, <1>4, <1>5 DEF L

-----------------------------------------------------------------------------

\* w has the bytes and the number of the fields up to the p-th one of list b.
BytesUpTo(w, hs, b, p) ==
    \E t, f : /\ Tally(t, ListBytes(hs)) /\ t[HdrBuckets] = hs.size
              /\ Adding(hs.buckets[b], f) /\ Bytes(w) = t[b] + f[p]

CountUpTo(w, hs, b, p) ==
    \E t : Tally(t, ListLens(hs)) /\ t[HdrBuckets] = hs.count /\ Len(w) = t[b] + p

Sums(w, hs, b, p) == BytesUpTo(w, hs, b, p) /\ CountUpTo(w, hs, b, p)

LEMMA ListsMeasured ==
    ASSUME NEW hs, Measured(hs)
    PROVE  /\ ListBytes(hs) \in [Lists -> Nat] /\ ListLens(hs) \in [Lists -> Nat]
           /\ \A b \in Lists : /\ ListBytes(hs)[b] = Bytes(hs.buckets[b]) /\ ListLens(hs)[b] = Len(hs.buckets[b])
                               /\ hs.buckets[b] \in Seq(Heads)
           /\ 0 \in Lists /\ Lists \subseteq Nat /\ HdrBuckets \in Nat
           /\ \A b \in Lists : b \in 0 .. HdrBuckets /\ b + 1 \in 0 .. HdrBuckets /\ b < HdrBuckets
           /\ hs.size \in Nat /\ hs.count \in Nat
<1>1. hs \in Sets
  BY DEF Measured
<1>2. ListBytes(hs) \in [Lists -> Nat] /\ ListLens(hs) \in [Lists -> Nat]
      /\ \A b \in Lists : hs.buckets[b] \in Seq(Heads)
  BY <1>1, ListsAre
<1>3. \A b \in Lists : ListBytes(hs)[b] = Bytes(hs.buckets[b]) /\ ListLens(hs)[b] = Len(hs.buckets[b])
  BY DEF ListBytes, ListLens
<1>4. 0 \in Lists /\ Lists \subseteq Nat /\ HdrBuckets \in Nat
      /\ \A b \in Lists : b \in 0 .. HdrBuckets /\ b + 1 \in 0 .. HdrBuckets /\ b < HdrBuckets
  BY HeaderAssumption DEF Lists
<1>5. hs.size \in Nat /\ hs.count \in Nat
  BY <1>1 DEF Sets
<1> QED
  BY <1>2, <1>3, <1>4, <1>5

LEMMA SumsStart == ASSUME NEW hs, Measured(hs) PROVE Sums(<<>>, hs, 0, 0)
<1>1. 0 \in Lists /\ hs.buckets[0] \in Seq(Heads)
  BY ListsMeasured
<1>2. PICK f : Adding(hs.buckets[0], f)
  BY <1>1, AddingIs
<1>3. f[0] = 0
  BY <1>2 DEF Adding
<1>4. PICK t : Tally(t, ListBytes(hs)) /\ t[HdrBuckets] = hs.size
  BY DEF Measured
<1>5. PICK c : Tally(c, ListLens(hs)) /\ c[HdrBuckets] = hs.count
  BY DEF Measured
<1>6. t[0] = 0 /\ c[0] = 0
  BY <1>4, <1>5 DEF Tally
<1>7. Bytes(<<>>) = 0 /\ Len(<<>>) = 0
  <2>1. <<>> \in Seq(Heads)
    OBVIOUS
  <2> QED
    BY <2>1, BytesIs
<1>8. Bytes(<<>>) = t[0] + f[0] /\ Len(<<>>) = c[0] + 0
  BY <1>3, <1>6, <1>7
<1>9. BytesUpTo(<<>>, hs, 0, 0)
  BY <1>2, <1>4, <1>8 DEF BytesUpTo
<1>10. CountUpTo(<<>>, hs, 0, 0)
  BY <1>5, <1>8 DEF CountUpTo
<1> QED
  BY <1>9, <1>10 DEF Sums

LEMMA SumsMore ==
    ASSUME NEW hs, Measured(hs), NEW b \in Lists, NEW p \in Nat, p < Len(hs.buckets[b]),
           NEW w \in Seq(Heads), Sums(w, hs, b, p)
    PROVE  Sums(Append(w, hs.buckets[b][p + 1]), hs, b, p + 1)
<1> DEFINE s == hs.buckets[b]
           h == s[p + 1]
           v == Append(w, h)
<1>1. s \in Seq(Heads) /\ Len(s) \in Nat /\ b \in 0 .. HdrBuckets
  BY SMTT(30), ListsMeasured
<1>2. p + 1 \in 1 .. Len(s) /\ (p + 1) - 1 = p /\ p \in 0 .. Len(s)
  BY <1>1
<1>3. h \in Heads /\ h.size \in Nat
  <2> HIDE DEF s
  <2>1. h \in Heads
    BY <1>1, <1>2
  <2> QED
    BY <2>1 DEF Heads
<1>4. PICK t, f : /\ Tally(t, ListBytes(hs)) /\ t[HdrBuckets] = hs.size
                  /\ Adding(s, f) /\ Bytes(w) = t[b] + f[p]
  BY DEF Sums, BytesUpTo
<1>5. PICK c : Tally(c, ListLens(hs)) /\ c[HdrBuckets] = hs.count /\ Len(w) = c[b] + p
  BY DEF Sums, CountUpTo
<1>6. f[p + 1] = f[p] + h.size
  BY <1>2, <1>4 DEF Adding
<1> HIDE DEF h
<1>7. Bytes(v) = Bytes(w) + h.size /\ Len(v) = Len(w) + 1
  BY <1>3, BytesIs
<1> HIDE DEF v, s
<1>8. t[b] \in Nat /\ c[b] \in Nat
  BY <1>1, <1>4, <1>5 DEF Tally
<1>9. f[p] \in Nat
  BY <1>1, <1>2, <1>4, AddingGrows
<1>10. Bytes(v) = t[b] + f[p + 1] /\ Len(v) = c[b] + (p + 1)
  <2>1. Bytes(v) = (t[b] + f[p]) + h.size
    BY <1>4, <1>7
  <2>2. Bytes(v) = t[b] + f[p + 1]
    BY <1>3, <1>6, <1>8, <1>9, <2>1
  <2>3. Len(v) = (c[b] + p) + 1
    BY <1>5, <1>7
  <2>4. (c[b] + p) + 1 = c[b] + (p + 1)
    BY <1>8
  <2> QED
    BY <2>2, <2>3, <2>4
<1>11. BytesUpTo(v, hs, b, p + 1)
  BY <1>4, <1>10 DEF BytesUpTo, s
<1>12. CountUpTo(v, hs, b, p + 1)
  BY <1>5, <1>10 DEF CountUpTo
<1> QED
  BY <1>11, <1>12 DEF Sums, v, h, s

\* What the sums are before list c (or at the end) when the lists between have nothing.
LEMMA SumsBefore ==
    ASSUME NEW hs, Measured(hs), NEW b \in Lists, NEW c \in 0 .. HdrBuckets, b < c,
           \A d \in Lists : b < d /\ d < c => Len(hs.buckets[d]) = 0,
           NEW w \in Seq(Heads), Sums(w, hs, b, Len(hs.buckets[b]))
    PROVE  /\ \E t : Tally(t, ListBytes(hs)) /\ t[HdrBuckets] = hs.size /\ Bytes(w) = t[c]
           /\ \E t : Tally(t, ListLens(hs)) /\ t[HdrBuckets] = hs.count /\ Len(w) = t[c]
<1> DEFINE s == hs.buckets[b]
           lb == ListBytes(hs)
           ll == ListLens(hs)
<1>1. /\ s \in Seq(Heads) /\ Len(s) \in Nat /\ Len(s) \in 0 .. Len(s)
      /\ lb[b] = Bytes(s) /\ ll[b] = Len(s)
      /\ lb \in [Lists -> Nat] /\ ll \in [Lists -> Nat]
      /\ HdrBuckets \in Nat /\ Lists \subseteq Nat /\ b + 1 \in 0 .. HdrBuckets /\ b \in 0 .. HdrBuckets
      /\ b \in Nat
  <2>1. s \in Seq(Heads)
    BY ListsMeasured
  <2>2. Len(s) \in Nat /\ Len(s) \in 0 .. Len(s)
    <3> HIDE DEF s
    <3> QED
      BY <2>1
  <2> QED
    BY <2>1, <2>2, ListsMeasured
<1>2. \A d \in Lists : b + 1 <= d /\ d < c => lb[d] = 0 /\ ll[d] = 0
  <2> SUFFICES ASSUME NEW d \in Lists, b + 1 <= d, d < c PROVE lb[d] = 0 /\ ll[d] = 0
    OBVIOUS
  <2>1. b < d
    BY <1>1
  <2>2. Len(hs.buckets[d]) = 0
    BY <2>1
  <2> DEFINE x == hs.buckets[d]
  <2>3. x \in Seq(Heads) /\ lb[d] = Bytes(x) /\ ll[d] = Len(x)
    BY ListsMeasured
  <2> HIDE DEF x
  <2>4. Len(x) = 0
    BY <2>2 DEF x
  <2>5. PICK g : Adding(x, g)
    BY <2>3, AddingIs
  <2>6. 0 \in 0 .. Len(x)
    BY <2>4
  <2>7. Bytes(x) = 0
    BY <2>3, <2>4, <2>5, <2>6, AddingGrows
  <2> QED
    BY <2>3, <2>4, <2>7
<1>3. PICK t, f : /\ Tally(t, lb) /\ t[HdrBuckets] = hs.size
                  /\ Adding(s, f) /\ Bytes(w) = t[b] + f[Len(s)]
  BY DEF Sums, BytesUpTo
<1>4. PICK u : Tally(u, ll) /\ u[HdrBuckets] = hs.count /\ Len(w) = u[b] + Len(s)
  BY DEF Sums, CountUpTo
<1> HIDE DEF s, lb, ll
<1>5. f[Len(s)] = Bytes(s)
  BY <1>1, <1>3, AddingGrows
<1>6. t[b + 1] = t[b] + lb[b] /\ u[b + 1] = u[b] + ll[b]
  BY <1>3, <1>4 DEF Tally
<1>7. b + 1 <= c
  BY <1>1
<1>8. t[b + 1] = t[c]
  <2>1. \A d \in Lists : b + 1 <= d /\ d < c => lb[d] = 0
    BY <1>2
  <2> DEFINE a == b + 1
  <2>2. a \in 0 .. HdrBuckets /\ a <= c /\ \A d \in Lists : a <= d /\ d < c => lb[d] = 0
    BY <1>1, <1>7, <2>1
  <2> HIDE DEF a
  <2>3. t[a] = t[c]
    BY SMTT(30), <1>1, <1>3, <2>2, TallyGrows
  <2> QED
    BY <2>3 DEF a
<1>9. u[b + 1] = u[c]
  <2>1. \A d \in Lists : b + 1 <= d /\ d < c => ll[d] = 0
    BY <1>2
  <2> DEFINE a == b + 1
  <2>2. a \in 0 .. HdrBuckets /\ a <= c /\ \A d \in Lists : a <= d /\ d < c => ll[d] = 0
    BY <1>1, <1>7, <2>1
  <2> HIDE DEF a
  <2>3. u[a] = u[c]
    BY <1>1, <1>4, <2>2, TallyGrows
  <2> QED
    BY <2>3 DEF a
<1>10. Bytes(w) = t[c] /\ Len(w) = u[c]
  BY <1>1, <1>3, <1>4, <1>5, <1>6, <1>8, <1>9
<1> QED
  BY <1>3, <1>4, <1>10 DEF lb, ll

LEMMA SumsSkip ==
    ASSUME NEW hs, Measured(hs), NEW b \in Lists, NEW c \in Lists, b < c,
           \A d \in Lists : b < d /\ d < c => Len(hs.buckets[d]) = 0,
           NEW w \in Seq(Heads), Sums(w, hs, b, Len(hs.buckets[b]))
    PROVE  Sums(w, hs, c, 0)
<1>1. c \in 0 .. HdrBuckets /\ hs.buckets[c] \in Seq(Heads)
  BY ListsMeasured
<1>2. PICK t : Tally(t, ListBytes(hs)) /\ t[HdrBuckets] = hs.size /\ Bytes(w) = t[c]
  BY <1>1, SumsBefore
<1>3. PICK u : Tally(u, ListLens(hs)) /\ u[HdrBuckets] = hs.count /\ Len(w) = u[c]
  BY <1>1, SumsBefore
<1>4. PICK f : Adding(hs.buckets[c], f)
  BY <1>1, AddingIs
<1>5. f[0] = 0 /\ t[c] \in Nat /\ u[c] \in Nat
  BY <1>1, <1>2, <1>3, <1>4 DEF Adding, Tally
<1>6. Bytes(w) = t[c] + f[0] /\ Len(w) = u[c] + 0
  BY <1>2, <1>3, <1>5
<1>7. BytesUpTo(w, hs, c, 0)
  BY <1>2, <1>4, <1>6 DEF BytesUpTo
<1>8. CountUpTo(w, hs, c, 0)
  BY <1>3, <1>6 DEF CountUpTo
<1> QED
  BY <1>7, <1>8 DEF Sums

LEMMA SumsEnd ==
    ASSUME NEW hs, Measured(hs), NEW b \in Lists, \A d \in Lists : b < d => Len(hs.buckets[d]) = 0,
           NEW w \in Seq(Heads), Sums(w, hs, b, Len(hs.buckets[b]))
    PROVE  Bytes(w) = hs.size /\ Len(w) = hs.count
<1>1. HdrBuckets \in 0 .. HdrBuckets /\ b < HdrBuckets
  <2>1. HdrBuckets \in Nat /\ b < HdrBuckets
    BY ListsMeasured
  <2> QED
    BY <2>1
<1>2. \A d \in Lists : b < d /\ d < HdrBuckets => Len(hs.buckets[d]) = 0
  OBVIOUS
<1> QED
  BY <1>1, <1>2, SumsBefore

\* Never more bytes than the set says it has.
LEMMA SumsBound ==
    ASSUME NEW hs, Measured(hs), NEW b \in Lists, NEW p \in 0 .. Len(hs.buckets[b]),
           NEW w, Sums(w, hs, b, p)
    PROVE  Bytes(w) <= hs.size
<1> DEFINE s == hs.buckets[b]
           lb == ListBytes(hs)
<1>1. /\ s \in Seq(Heads) /\ lb[b] = Bytes(s) /\ lb \in [Lists -> Nat] /\ HdrBuckets \in Nat
      /\ b + 1 \in 0 .. HdrBuckets /\ b \in 0 .. HdrBuckets
  BY ListsMeasured
<1>2. PICK t, f : /\ Tally(t, lb) /\ t[HdrBuckets] = hs.size /\ Adding(s, f) /\ Bytes(w) = t[b] + f[p]
  BY DEF Sums, BytesUpTo
<1> HIDE DEF s, lb
<1>3. p \in 0 .. Len(s)
  BY DEF s
<1>4. f[p] <= Bytes(s) /\ f[p] \in Nat /\ Bytes(s) \in Nat
  BY <1>1, <1>2, <1>3, AddingGrows
<1>5. t[b + 1] = t[b] + lb[b]
  BY <1>2 DEF Tally
<1>6. t[b + 1] <= t[HdrBuckets] /\ t[b] \in Nat /\ t[HdrBuckets] \in Nat
  <2> DEFINE a == b + 1
  <2>1. a \in 0 .. HdrBuckets /\ a <= HdrBuckets /\ HdrBuckets \in 0 .. HdrBuckets
    BY <1>1
  <2> HIDE DEF a
  <2>2. t[a] <= t[HdrBuckets]
    BY <1>1, <1>2, <2>1, TallyGrows
  <2> QED
    BY <1>1, <1>2, <2>1, <2>2 DEF a, Tally
<1> QED
  BY <1>1, <1>2, <1>4, <1>5, <1>6

-----------------------------------------------------------------------------
(* Writing all fields.                                                     *)

Writing(w, hs, b, p) ==
    /\ w \in Seq(Heads) /\ b \in Lists /\ p \in 0 .. Len(hs.buckets[b])
    /\ TakenUpTo(w, hs, b, p) /\ Sums(w, hs, b, p)

AllWritten(w, hs) ==
    /\ w \in Seq(Heads) /\ Bytes(w) = hs.size /\ Len(w) = hs.count
    /\ TakenUpTo(w, hs, HdrBuckets, 0)

LEMMA WritingStart == ASSUME NEW hs, Measured(hs) PROVE Writing(<<>>, hs, 0, 0)
<1>1. 0 \in Lists /\ hs.buckets[0] \in Seq(Heads) /\ Lists \subseteq Nat
  BY ListsMeasured
<1> DEFINE s == hs.buckets[0]
<1>2. 0 \in 0 .. Len(s)
  <2>1. s \in Seq(Heads)
    BY <1>1
  <2> HIDE DEF s
  <2> QED
    BY <2>1
<1>3. Reach(hs, 0, 0) = {}
  <2> SUFFICES ASSUME NEW x \in Reach(hs, 0, 0) PROVE FALSE
    OBVIOUS
  <2>1. /\ x \in Lists \X Nat /\ x[2] \in 1 .. Len(hs.buckets[x[1]])
        /\ x[1] < 0 \/ (x[1] = 0 /\ x[2] <= 0)
    BY DEF Reach
  <2>2. x[1] \in Nat /\ x[2] \in Nat
    BY <1>1, <2>1
  <2>3. 1 <= x[2]
    BY <2>1, <2>2
  <2> QED
    BY <2>1, <2>2, <2>3
<1>4. TakenUpTo(<<>>, hs, 0, 0)
  <2> DEFINE at == [i \in {} |-> 0]
  <2>1. Len(<<>>) = 0 /\ 1 .. 0 = {}
    OBVIOUS
  <2>2. at \in [1 .. Len(<<>>) -> Lists \X Nat]
    BY <2>1
  <2> HIDE DEF at
  <2>3. TakenAt(at, <<>>, hs, 0, 0)
    BY <1>3, <2>1 DEF TakenAt
  <2> QED
    BY <2>2, <2>3 DEF TakenUpTo
<1>5. <<>> \in Seq(Heads)
  OBVIOUS
<1> QED
  BY <1>1, <1>2, <1>4, <1>5, SumsStart DEF Writing

\* A field of the list follows.
LEMMA WritingMore ==
    ASSUME NEW hs, Measured(hs), NEW b \in Lists, NEW p \in Nat, p < Len(hs.buckets[b]),
           NEW w, Writing(w, hs, b, p)
    PROVE  Writing(Append(w, hs.buckets[b][p + 1]), hs, b, p + 1)
<1> DEFINE s == hs.buckets[b]
           y == <<b, p + 1>>
           R == Reach(hs, b, p)
           Q == Reach(hs, b, p + 1)
<1>1. w \in Seq(Heads) /\ s \in Seq(Heads) /\ Lists \subseteq Nat /\ b \in Nat
  BY ListsMeasured DEF Writing
<1>2. Len(s) \in Nat /\ p + 1 \in 1 .. Len(s) /\ p + 1 \in 0 .. Len(s) /\ p + 1 \in Nat
  <2>1. p < Len(s)
    OBVIOUS
  <2> HIDE DEF s
  <2> QED
    BY <1>1, <2>1
<1>3. s[p + 1] \in Heads
  <2> HIDE DEF s
  <2> QED
    BY <1>1, <1>2
<1>4. y \in Lists \X Nat /\ y[1] = b /\ y[2] = p + 1
  BY <1>2
<1>5. \A x : x \in R <=> /\ x \in Lists \X Nat /\ x[2] \in 1 .. Len(hs.buckets[x[1]])
                         /\ x[1] < b \/ (x[1] = b /\ x[2] <= p)
  BY DEF Reach
<1>6. \A x : x \in Q <=> /\ x \in Lists \X Nat /\ x[2] \in 1 .. Len(hs.buckets[x[1]])
                         /\ x[1] < b \/ (x[1] = b /\ x[2] <= p + 1)
  BY DEF Reach
<1> HIDE DEF R, Q, y
<1>7. y \notin R
  BY <1>1, <1>2, <1>4, <1>5
<1>8. Q = R \cup {y}
  <2>1. ASSUME NEW x \in R PROVE x \in Q
    <3>1. x[2] \in Nat
      BY <1>5
    <3>2. x[2] <= p => x[2] <= p + 1
      BY <3>1
    <3> QED
      BY <1>5, <1>6, <3>2
  <2>2. y \in Q
    BY <1>2, <1>4, <1>6
  <2>3. ASSUME NEW x \in Q, x \notin R PROVE x = y
    <3>1. /\ x \in Lists \X Nat /\ x[2] \in Nat
          /\ x[1] = b /\ x[2] <= p + 1 /\ ~(x[2] <= p)
      BY <1>5, <1>6, <2>3
    <3>2. x[2] = p + 1
      BY <3>1
    <3> QED
      BY <1>4, <3>1, <3>2
  <2> QED
    BY <2>1, <2>2, <2>3
<1>9. TakenUpTo(Append(w, hs.buckets[y[1]][y[2]]), hs, b, p + 1)
  <2>1. TakenUpTo(w, hs, b, p) /\ y \notin Reach(hs, b, p) /\ Reach(hs, b, p + 1) = Reach(hs, b, p) \cup {y}
    BY <1>7, <1>8 DEF Writing, R, Q
  <2>2. hs.buckets[y[1]][y[2]] \in Heads
    BY <1>3, <1>4
  <2> QED
    BY <1>1, <1>4, <2>1, <2>2, TakenMore
<1>10. Sums(Append(w, s[p + 1]), hs, b, p + 1)
  BY <1>1, SumsMore DEF Writing
<1>11. Append(w, s[p + 1]) \in Seq(Heads)
  <2> DEFINE h == s[p + 1]
  <2> HIDE DEF h
  <2>1. h \in Heads
    BY <1>3 DEF h
  <2>2. Append(w, h) \in Seq(Heads)
    BY <1>1, <2>1
  <2> QED
    BY <2>2 DEF h
<1>12. TakenUpTo(Append(w, s[p + 1]), hs, b, p + 1)
  BY <1>4, <1>9
<1> QED
  BY <1>2, <1>10, <1>11, <1>12 DEF Writing

\* The lists up to c have nothing more.
LEMMA ReachSkip ==
    ASSUME NEW hs, Measured(hs), NEW b \in Lists, NEW c \in 0 .. HdrBuckets, b < c,
           \A d \in Lists : b < d /\ d < c => Len(hs.buckets[d]) = 0
    PROVE  Reach(hs, b, Len(hs.buckets[b])) = Reach(hs, c, 0)
<1> DEFINE R == Reach(hs, b, Len(hs.buckets[b]))
           Q == Reach(hs, c, 0)
<1>1. Lists \subseteq Nat /\ b \in Nat /\ c \in Nat /\ HdrBuckets \in Nat
      /\ \A d \in Lists : d < HdrBuckets
  <2>1. Lists \subseteq Nat /\ b \in Nat /\ HdrBuckets \in Nat /\ \A d \in Lists : d < HdrBuckets
    BY ListsMeasured
  <2> QED
    BY <2>1
<1>2. \A d \in Lists : Len(hs.buckets[d]) \in Nat
  <2> TAKE d \in Lists
  <2> DEFINE s == hs.buckets[d]
  <2>1. s \in Seq(Heads)
    BY ListsMeasured
  <2> HIDE DEF s
  <2>2. Len(s) \in Nat
    BY <2>1
  <2> QED
    BY <2>2 DEF s
<1>3. \A x : x \in R <=> /\ x \in Lists \X Nat /\ x[2] \in 1 .. Len(hs.buckets[x[1]])
                         /\ x[1] < b \/ (x[1] = b /\ x[2] <= Len(hs.buckets[b]))
  BY DEF Reach
<1>4. \A x : x \in Q <=> /\ x \in Lists \X Nat /\ x[2] \in 1 .. Len(hs.buckets[x[1]])
                         /\ x[1] < c \/ (x[1] = c /\ x[2] <= 0)
  BY DEF Reach
<1> HIDE DEF R, Q
<1>5. ASSUME NEW x \in R PROVE x \in Q
  <2>1. x \in Lists \X Nat /\ x[1] \in Nat
    BY <1>1, <1>3
  <2>2. x[1] < c
    BY <1>1, <1>3, <2>1
  <2> QED
    BY <1>3, <1>4, <2>2
<1>6. ASSUME NEW x \in Q PROVE x \in R
  <2>1. x \in Lists \X Nat /\ x[1] \in Lists /\ x[1] \in Nat /\ x[2] \in Nat
        /\ x[2] \in 1 .. Len(hs.buckets[x[1]])
    <3>1. x \in Lists \X Nat /\ x[2] \in 1 .. Len(hs.buckets[x[1]])
      BY <1>4
    <3>2. x[1] \in Lists /\ x[2] \in Nat
      BY <3>1
    <3> QED
      BY <1>1, <3>1, <3>2
  <2>2. 1 <= x[2] /\ x[2] <= Len(hs.buckets[x[1]])
    BY <1>2, <2>1
  <2>3. x[1] < c
    BY <1>1, <1>4, <2>1, <2>2
  <2>4. ~(b < x[1])
    <3> SUFFICES ASSUME b < x[1] PROVE FALSE
      OBVIOUS
    <3>1. Len(hs.buckets[x[1]]) = 0
      BY <2>1, <2>3
    <3> QED
      BY <2>1, <2>2, <3>1
  <2>5. x[1] < b \/ x[1] = b
    BY <1>1, <2>1, <2>4
  <2> QED
    BY <1>3, <2>1, <2>2, <2>5
<1>7. R = Q
  BY <1>5, <1>6
<1> QED
  BY <1>7 DEF R, Q

\* One step of the loop of HttpResponse_send().
LEMMA WritingNext ==
    ASSUME NEW hs, Measured(hs), NEW b, NEW p, NEW w, Writing(w, hs, b, p)
    PROVE  LET it == HeaderIterator_moveNext(hs, Spot(b, p)) IN
           \/ it.pos = 0 /\ it = Spot(0, 0) /\ AllWritten(w, hs)
           \/ \E c \in Lists, q \in Nat : /\ it = Spot(c, q) /\ it.pos # 0
                                          /\ Writing(Append(w, HeaderIterator_current(hs, it)), hs, c, q)
<1> DEFINE it == HeaderIterator_moveNext(hs, Spot(b, p))
           l == Len(hs.buckets[b])
<1>1. b \in Lists /\ p \in 0 .. Len(hs.buckets[b]) /\ w \in Seq(Heads)
      /\ TakenUpTo(w, hs, b, p) /\ Sums(w, hs, b, p)
  BY DEF Writing
<1>2. /\ p < l => it = Spot(b, p + 1)
      /\ p = l => \/ it = Spot(0, 0) /\ \A c \in Lists : b < c => Len(hs.buckets[c]) = 0
                  \/ \E c \in Lists : /\ b < c /\ 0 < Len(hs.buckets[c]) /\ it = Spot(c, 1)
                                      /\ \A d \in Lists : b < d /\ d < c => Len(hs.buckets[d]) = 0
  BY <1>1, NextPlace
<1>3. l \in Nat
  <2> DEFINE s == hs.buckets[b]
  <2>1. s \in Seq(Heads)
    BY <1>1, ListsMeasured
  <2> HIDE DEF s
  <2>2. Len(s) \in Nat
    BY <2>1
  <2> QED
    BY <2>2 DEF s
<1>4. p \in Nat /\ (p < l \/ p = l)
  <2>1. p \in 0 .. l
    BY <1>1
  <2> HIDE DEF l
  <2> QED
    BY <1>3, <2>1
<1>5. \A c, q : Spot(c, q).pos = q /\ HeaderIterator_current(hs, Spot(c, q)) = hs.buckets[c][q]
  BY DEF Spot, HeaderIterator_current
<1>6. HdrBuckets \in 0 .. HdrBuckets /\ \A c \in Lists : c \in 0 .. HdrBuckets /\ c < HdrBuckets
  <2>1. HdrBuckets \in Nat
    BY ListsMeasured
  <2> QED
    BY <2>1, ListsMeasured
<1> HIDE DEF it
<1>7. CASE p < l
  <2>1. it = Spot(b, p + 1)
    BY <1>2, <1>7
  <2>2. Writing(Append(w, hs.buckets[b][p + 1]), hs, b, p + 1)
    BY <1>1, <1>4, <1>7, WritingMore
  <2>3. p + 1 \in Nat /\ p + 1 # 0
    BY <1>4
  <2>4. it.pos # 0 /\ Writing(Append(w, HeaderIterator_current(hs, it)), hs, b, p + 1)
    BY <1>5, <2>1, <2>2, <2>3
  <2> QED
    BY <1>1, <2>1, <2>3, <2>4 DEF it
<1>8. CASE p = l /\ it = Spot(0, 0) /\ \A c \in Lists : b < c => Len(hs.buckets[c]) = 0
  <2>1. Sums(w, hs, b, Len(hs.buckets[b]))
    BY <1>1, <1>8
  <2>2. Bytes(w) = hs.size /\ Len(w) = hs.count
    BY <1>1, <1>8, <2>1, SumsEnd
  <2>3. Reach(hs, b, p) = Reach(hs, HdrBuckets, 0)
    <3>1. b < HdrBuckets /\ \A d \in Lists : b < d /\ d < HdrBuckets => Len(hs.buckets[d]) = 0
      BY <1>1, <1>6, <1>8
    <3>2. Reach(hs, b, Len(hs.buckets[b])) = Reach(hs, HdrBuckets, 0)
      BY <1>1, <1>6, <3>1, ReachSkip
    <3> QED
      BY <1>8, <3>2
  <2>4. TakenUpTo(w, hs, HdrBuckets, 0)
    BY <1>1, <2>3, TakenSame
  <2>5. it.pos = 0
    BY <1>5, <1>8
  <2> QED
    BY <1>1, <1>8, <2>2, <2>4, <2>5 DEF AllWritten, it
<1>9. ASSUME p = l, NEW c \in Lists, b < c, 0 < Len(hs.buckets[c]), it = Spot(c, 1),
             \A d \in Lists : b < d /\ d < c => Len(hs.buckets[d]) = 0
      PROVE  it.pos # 0 /\ Writing(Append(w, HeaderIterator_current(hs, it)), hs, c, 1)
  <2>1. Sums(w, hs, b, Len(hs.buckets[b]))
    BY <1>1, <1>9
  <2>2. Sums(w, hs, c, 0)
    BY <1>1, <1>9, <2>1, SumsSkip
  <2>3. Reach(hs, b, p) = Reach(hs, c, 0)
    <3>1. Reach(hs, b, Len(hs.buckets[b])) = Reach(hs, c, 0)
      BY <1>1, <1>6, <1>9, ReachSkip
    <3> QED
      BY <1>9, <3>1
  <2>4. TakenUpTo(w, hs, c, 0)
    BY <1>1, <2>3, TakenSame
  <2>5. 0 \in 0 .. Len(hs.buckets[c])
    <3> DEFINE s == hs.buckets[c]
    <3>1. s \in Seq(Heads)
      BY ListsMeasured
    <3> HIDE DEF s
    <3>2. 0 \in 0 .. Len(s)
      BY <3>1
    <3> QED
      BY <3>2 DEF s
  <2>6. Writing(w, hs, c, 0)
    BY <1>1, <2>2, <2>4, <2>5 DEF Writing
  <2>7. Writing(Append(w, hs.buckets[c][0 + 1]), hs, c, 0 + 1)
    BY <1>9, <2>6, WritingMore
  <2>8. 0 + 1 = 1
    OBVIOUS
  <2>9. Writing(Append(w, hs.buckets[c][1]), hs, c, 1)
    BY <2>7, <2>8
  <2> QED
    BY <1>5, <1>9, <2>9
<1>10. CASE p = l /\ \E c \in Lists : /\ b < c /\ 0 < Len(hs.buckets[c]) /\ it = Spot(c, 1)
                                      /\ \A d \in Lists : b < d /\ d < c => Len(hs.buckets[d]) = 0
  <2>1. PICK c \in Lists : /\ b < c /\ 0 < Len(hs.buckets[c]) /\ it = Spot(c, 1)
                           /\ \A d \in Lists : b < d /\ d < c => Len(hs.buckets[d]) = 0
    BY <1>10
  <2>2. it.pos # 0 /\ Writing(Append(w, HeaderIterator_current(hs, it)), hs, c, 1)
    BY <1>9, <1>10, <2>1
  <2> QED
    BY <2>1, <2>2 DEF it
<1> QED
  BY <1>2, <1>4, <1>7, <1>8, <1>10

\* Every field that is written is one of the set, and every one of the set is written, once.
Matched(at, w, hs) ==
    /\ \A i \in 1 .. Len(w) : /\ at[i][1] \in Lists /\ at[i][2] \in 1 .. Len(hs.buckets[at[i][1]])
                              /\ w[i] = hs.buckets[at[i][1]][at[i][2]]
                              /\ w[i].name \in HdrNames /\ at[i][1] = HdrHash[w[i].name]
    /\ \A i, j \in 1 .. Len(w) : at[i] = at[j] => i = j
    /\ \A b \in Lists : \A p \in 1 .. Len(hs.buckets[b]) : \E i \in 1 .. Len(w) : at[i] = <<b, p>>

LEMMA WrittenPlaces ==
    ASSUME NEW hs, Sound(hs), NEW w, AllWritten(w, hs)
    PROVE  \E at \in [1 .. Len(w) -> Lists \X Nat] : Matched(at, w, hs)
<1> DEFINE R == Reach(hs, HdrBuckets, 0)
<1>1. Measured(hs) /\ w \in Seq(Heads)
  BY DEF Sound, AllWritten
<1>2. PICK at \in [1 .. Len(w) -> Lists \X Nat] : TakenAt(at, w, hs, HdrBuckets, 0)
  BY DEF AllWritten, TakenUpTo
<1>3. /\ \A i \in 1 .. Len(w) : at[i] \in R /\ w[i] = hs.buckets[at[i][1]][at[i][2]]
      /\ \A i, j \in 1 .. Len(w) : at[i] = at[j] => i = j
      /\ \A x \in R : \E i \in 1 .. Len(w) : at[i] = x
  BY <1>2 DEF TakenAt
<1>4. \A x \in R : x[1] \in Lists /\ x[2] \in 1 .. Len(hs.buckets[x[1]])
  BY DEF Reach
<1>5. ASSUME NEW b \in Lists, NEW p \in 1 .. Len(hs.buckets[b]) PROVE <<b, p>> \in R
  <2> DEFINE s == hs.buckets[b]
  <2>1. s \in Seq(Heads) /\ b < HdrBuckets
    BY <1>1, ListsMeasured
  <2>2. p \in Nat
    <3>1. p \in 1 .. Len(s)
      OBVIOUS
    <3> HIDE DEF s
    <3> QED
      BY <2>1, <3>1
  <2>3. <<b, p>> \in Lists \X Nat /\ <<b, p>>[1] = b /\ <<b, p>>[2] = p
    BY <2>2
  <2> QED
    BY <2>1, <2>3 DEF Reach
<1> HIDE DEF R
<1>6. ASSUME NEW i \in 1 .. Len(w) PROVE w[i].name \in HdrNames
  <2>1. w[i] \in Heads
    BY <1>1
  <2> QED
    BY <2>1 DEF Heads
<1>7. ASSUME NEW i \in 1 .. Len(w) PROVE at[i][1] = HdrHash[w[i].name]
  <2>1. at[i][1] \in Lists /\ at[i][2] \in 1 .. Len(hs.buckets[at[i][1]]) /\ w[i] = hs.buckets[at[i][1]][at[i][2]]
    BY <1>3, <1>4
  <2> QED
    BY <2>1 DEF Sound, Hashed
<1>8. Matched(at, w, hs)
  BY <1>3, <1>4, <1>5, <1>6, <1>7 DEF Matched
<1> QED
  BY <1>8

LEMMA AtMostOne ==
    ASSUME NEW T, \A i, j \in T : i = j
    PROVE  Cardinality(T) <= 1
<1>0. Cardinality({}) = 0 /\ \A x : Cardinality({x}) = 1
  BY FS_EmptySet, FS_Singleton
<1>1. CASE T = {}
  BY <1>0, <1>1
<1>2. CASE T # {}
  <2>1. PICK x : x \in T
    BY <1>2
  <2>2. T = {x}
    BY <2>1
  <2>3. Cardinality(T) = 1
    BY <1>0, <2>2
  <2> QED
    BY <2>3
<1> QED
  BY <1>1, <1>2

\* A field occurs as often as the set has it.
LEMMA WrittenOnce ==
    ASSUME NEW hs, Sound(hs), NEW w, AllWritten(w, hs), NEW e \in DOMAIN w
    PROVE  Occurs(w, w[e]) = Occurs(hs.buckets[HdrHash[w[e].name]], w[e])
<1> DEFINE h == w[e]
           k == HdrHash[h.name]
           s == hs.buckets[k]
           I == {i \in DOMAIN w : w[i] = h}
           P == {p \in DOMAIN s : s[p] = h}
<1>1m. PICK at \in [1 .. Len(w) -> Lists \X Nat] : Matched(at, w, hs)
  BY WrittenPlaces
<1>1. /\ \A i \in 1 .. Len(w) : /\ at[i][1] \in Lists /\ at[i][2] \in 1 .. Len(hs.buckets[at[i][1]])
                                /\ w[i] = hs.buckets[at[i][1]][at[i][2]]
                                /\ w[i].name \in HdrNames /\ at[i][1] = HdrHash[w[i].name]
      /\ \A i, j \in 1 .. Len(w) : at[i] = at[j] => i = j
      /\ \A b \in Lists : \A p \in 1 .. Len(hs.buckets[b]) : \E i \in 1 .. Len(w) : at[i] = <<b, p>>
  BY <1>1m DEF Matched
<1>2. w \in Seq(Heads) /\ Measured(hs)
  BY DEF Sound, AllWritten
<1>3. Len(w) \in Nat /\ DOMAIN w = 1 .. Len(w)
  BY <1>2
<1>4. k \in Lists
  BY <1>1, <1>3
<1>5. s \in Seq(Heads)
  <2> HIDE DEF k
  <2> QED
    BY <1>2, <1>4, ListsMeasured
<1> HIDE DEF k
<1>6. DOMAIN s = 1 .. Len(s) /\ Len(s) \in Nat
  <2> HIDE DEF s
  <2> QED
    BY <1>5
<1>7. \A i \in I : i \in 1 .. Len(w) /\ w[i] = h
  BY <1>3
<1>8. \A p \in P : p \in 1 .. Len(s) /\ s[p] = h
  BY <1>6
<1>9. \A i \in I : at[i] \in Lists \X Nat /\ at[i][1] = k /\ at[i][2] \in P
  <2> TAKE i \in I
  <2>1. i \in 1 .. Len(w) /\ w[i] = h
    BY <1>7
  <2>2. at[i][1] = k /\ at[i][2] \in 1 .. Len(s) /\ h = s[at[i][2]]
    BY <1>1, <2>1 DEF k
  <2> QED
    BY <1>6, <2>1, <2>2
<1> DEFINE f == [i \in I |-> at[i][2]]
<1>10. \A i, j \in I : at[i][2] = at[j][2] => i = j
  <2> SUFFICES ASSUME NEW i \in I, NEW j \in I, at[i][2] = at[j][2] PROVE i = j
    OBVIOUS
  <2>1. at[i] = at[j]
    BY <1>9
  <2> QED
    BY <1>1, <1>7, <2>1
<1>11. \A p \in P : \E i \in I : at[i][2] = p
  <2> TAKE p \in P
  <2>1. p \in 1 .. Len(s) /\ s[p] = h
    BY <1>8
  <2>2. PICK i \in 1 .. Len(w) : at[i] = <<k, p>>
    BY <1>1, <1>4, <2>1
  <2>3. w[i] = h
    BY <1>1, <2>1, <2>2
  <2>4. i \in I
    BY <1>3, <2>3
  <2> QED
    BY <2>2, <2>4
<1>12. IsFiniteSet(I)
  <2>1. I \subseteq 1 .. Len(w)
    BY <1>7
  <2>2. IsFiniteSet(1 .. Len(w))
    BY <1>3, FS_Interval
  <2> QED
    BY <2>1, <2>2, FS_Subset
<1> HIDE DEF I, P
<1>13. f \in Bijection(I, P)
  <2>1. f \in [I -> P]
    BY <1>9
  <2>2. \A i, j \in I : f[i] = f[j] => i = j
    BY <1>10
  <2>3. \A p \in P : \E i \in I : f[i] = p
    BY <1>11
  <2> HIDE DEF f
  <2>4. f \in Injection(I, P)
    BY <2>1, <2>2 DEF Injection, IsInjective
  <2>5. f \in Surjection(I, P)
    BY <2>1, <2>3 DEF Surjection
  <2> QED
    BY <2>4, <2>5 DEF Bijection
<1>14. Cardinality(I) = Cardinality(P)
  <2>1. ExistsBijection(I, P)
    BY <1>13 DEF ExistsBijection
  <2> QED
    BY <1>12, <2>1, FS_Bijection
<1> QED
  BY <1>14 DEF Occurs, I, P, s, k

\* What the fields in w say of a body of that size.
Announces(w, size) ==
    LET W(n) == {i \in DOMAIN w : w[i].name = n} IN
    /\ Cardinality(W("content-encoding")) <= 1
    /\ \A i \in W("content-length") : w[i].value = size
    /\ Cardinality(W("content-length")) <= 1
    /\ size > 0 => W("content-length") # {}

\* The fields that are written announce what the set announces.
LEMMA WrittenAnnounces ==
    ASSUME NEW hs, Sound(hs), NEW w, AllWritten(w, hs), NEW size \in Nat, Announced(hs, size)
    PROVE  Announces(w, size)
<1> DEFINE W(n) == {i \in DOMAIN w : w[i].name = n}
<1>1. PICK at \in [1 .. Len(w) -> Lists \X Nat] : Matched(at, w, hs)
  BY WrittenPlaces
<1>2. w \in Seq(Heads) /\ DOMAIN w = 1 .. Len(w)
  BY DEF AllWritten
<1>3. ASSUME NEW n \in AboutBody, NEW i \in W(n)
      PROVE  at[i] \in Lists \X Nat /\ at[i][1] = HdrHash[n] /\ at[i][2] \in Among(Bucket(hs, n), n)
             /\ w[i] = Bucket(hs, n)[at[i][2]]
  <2>1. i \in 1 .. Len(w) /\ w[i].name = n
    BY <1>2
  <2>2. at[i][1] = HdrHash[n] /\ at[i][2] \in 1 .. Len(hs.buckets[at[i][1]])
        /\ w[i] = hs.buckets[at[i][1]][at[i][2]]
    BY <1>1, <2>1 DEF Matched
  <2>3. Bucket(hs, n) = hs.buckets[at[i][1]]
    BY <2>2 DEF Bucket
  <2> QED
    BY <1>1, <2>1, <2>2, <2>3 DEF Among
<1>4. ASSUME NEW n \in AboutBody, Once(Bucket(hs, n), n) PROVE Cardinality(W(n)) <= 1
  <2>1. ASSUME NEW i \in W(n), NEW j \in W(n) PROVE i = j
    <3>1. at[i][2] = at[j][2]
      BY <1>3, <1>4 DEF Once
    <3>2. at[i] = at[j]
      BY <1>3, <3>1
    <3>3. i \in 1 .. Len(w) /\ j \in 1 .. Len(w)
      BY <1>2
    <3> QED
      BY <1>1, <3>2, <3>3 DEF Matched
  <2> HIDE DEF W
  <2> QED
    BY <2>1, AtMostOne
<1>5. "content-length" \in AboutBody /\ "content-encoding" \in AboutBody /\ AboutBody \subseteq HdrNames
  BY NamesAre DEF AboutBody
<1>6. \A i \in W("content-length") : w[i].value = size
  <2> TAKE i \in W("content-length")
  <2>1. at[i][2] \in Among(Bucket(hs, "content-length"), "content-length")
        /\ w[i] = Bucket(hs, "content-length")[at[i][2]]
    BY <1>3, <1>5
  <2>2. Says(Bucket(hs, "content-length"), "content-length", size)
    BY DEF Announced
  <2> QED
    BY <2>1, <2>2 DEF Says
<1>7. size > 0 => W("content-length") # {}
  <2> SUFFICES ASSUME size > 0 PROVE W("content-length") # {}
    OBVIOUS
  <2>1. Has(Bucket(hs, "content-length"), "content-length")
    BY DEF Announced
  <2>2. PICK p \in 1 .. Len(Bucket(hs, "content-length")) :
            Bucket(hs, "content-length")[p].name = "content-length"
    BY <2>1 DEF Has, Among
  <2> DEFINE k == HdrHash["content-length"]
  <2>3. k \in Lists
    BY <1>5, HeaderAssumption DEF Lists
  <2>4. Bucket(hs, "content-length") = hs.buckets[k]
    BY DEF Bucket
  <2> HIDE DEF k
  <2>5. PICK i \in 1 .. Len(w) : at[i] = <<k, p>>
    BY <1>1, <2>2, <2>3, <2>4 DEF Matched
  <2>6. w[i] = hs.buckets[at[i][1]][at[i][2]]
    BY <1>1 DEF Matched
  <2>7. w[i].name = "content-length"
    BY <2>2, <2>4, <2>5, <2>6
  <2>8. i \in W("content-length")
    BY <1>2, <2>7
  <2> QED
    BY <2>8
<1>8. Once(Bucket(hs, "content-length"), "content-length") /\ Once(Bucket(hs, "content-encoding"), "content-encoding")
  BY DEF Announced
<1>9. Cardinality(W("content-length")) <= 1 /\ Cardinality(W("content-encoding")) <= 1
  <2> HIDE DEF W
  <2> QED
    BY <1>4, <1>5, <1>8
<1> QED
  BY <1>6, <1>7, <1>9 DEF Announces

-----------------------------------------------------------------------------
(* Room for the fields.                                                    *)

\* No field takes more than s bytes.
FieldsTake(s) == /\ \A f \in RespFields : NameLen + f.len + 4 <= s
                 /\ NameLen + 39 <= s

\* All that handlers put, and the five fields the server puts, take less than 65536.
Fits(s) == FieldsTake(s) /\ s * (MaxPuts + 5) < 65536

HeadFits == \E s \in Nat : Fits(s)

LEMMA RoomGrows ==
    ASSUME NEW s \in Nat, NEW n \in Nat, NEW m \in Nat, n <= m
    PROVE  s * n \in Nat /\ s * m \in Nat /\ s * (n + 1) = s * n + s /\ s * n <= s * m
<1>1. s * n \in Nat /\ s * m \in Nat
  OBVIOUS
<1>2. s * (n + 1) = s * n + s
  OBVIOUS
<1>3. s * n <= s * m
  <2> DEFINE k == m - n
  <2>1. k \in Nat /\ m = n + k
    OBVIOUS
  <2> HIDE DEF k
  <2>2. s * m = s * n + s * k /\ s * k \in Nat
    BY <2>1
  <2> QED
    BY <1>1, <2>2
<1> QED
  BY <1>1, <1>2, <1>3

\* The bytes of n fields.
Room(s, n) == s * n

\* With five fields more at most.
LEMMA RoomMore ==
    ASSUME NEW s \in Nat, NEW n \in Nat
    PROVE  /\ Room(s, n) \in Nat
           /\ Room(s, n + 1) = Room(s, n) + s
           /\ Room(s, n + 2) = Room(s, n) + s + s
           /\ Room(s, n + 5) = Room(s, n) + s + s + s + s + s
BY DEF Room

\* The bytes that are free.
Fitting(n) == n < 65536

LEMMA RoomForFive ==
    ASSUME NEW s \in Nat, Fits(s), NEW n \in Nat, n <= MaxPuts
    PROVE  Fitting(Room(s, n + 5))
<1>1. n + 5 \in Nat /\ MaxPuts + 5 \in Nat /\ n + 5 <= MaxPuts + 5
  BY RespAssumption
<1>2. Room(s, MaxPuts + 5) < 65536
  BY DEF Fits, Room
<1>3. Room(s, n + 5) <= Room(s, MaxPuts + 5) /\ Room(s, n + 5) \in Nat /\ Room(s, MaxPuts + 5) \in Nat
  BY <1>1, RoomGrows DEF Room
<1> QED
  BY <1>2, <1>3 DEF Fitting

LEMMA RoomForOne ==
    ASSUME NEW s \in Nat, Fits(s), NEW n \in Nat, n <= MaxPuts
    PROVE  Fitting(Room(s, n + 1))
<1> DEFINE a == Room(s, n + 1)
           b == Room(s, n + 5)
<1>1. b < 65536
  BY RoomForFive DEF Fitting
<1>2. a \in Nat /\ b \in Nat /\ a <= b
  <2>1. n + 1 \in Nat /\ n + 5 \in Nat /\ n + 1 <= n + 4
    OBVIOUS
  <2> QED
    BY <2>1, RoomGrows DEF Room
<1> HIDE DEF a, b
<1>3. a < 65536
  BY <1>1, <1>2
<1> QED
  BY <1>3 DEF a, Fitting

\* The fields that are put.
LEMMA FieldIs ==
    ASSUME NEW s \in Nat, FieldsTake(s)
    PROVE  /\ \A f \in RespFields : LET h == Header(f.name, f.len, f.len) IN
                h \in Heads /\ h.size <= s /\ h.name \notin AboutBody
           /\ \A size \in BodySizes : LET h == ContentLength(size) IN
                h \in Heads /\ h.size <= s /\ h.name = "content-length" /\ h.value = size
           /\ \A n \in AboutServer, len \in 0 .. 35 : LET h == Header(n, len, len) IN
                h \in Heads /\ h.size <= s /\ h.name \notin AboutBody
           /\ \A h \in {Header("content-encoding", "gzip", 4), Header("content-encoding", "deflate", 7)} :
                h \in Heads /\ h.size <= s /\ h.name = "content-encoding"
<1>1. NameLen \in Nat /\ AboutBody \subseteq HdrNames /\ AboutServer \subseteq HdrNames \ AboutBody
      /\ "content-length" \in HdrNames /\ "content-encoding" \in HdrNames
  BY NamesAre, HeaderAssumption DEF AboutBody
<1>2. \A f \in RespFields : f.name \in HdrNames /\ f.name \notin AboutBody /\ f.len \in Nat /\ NameLen + f.len + 4 <= s
  BY RespAssumption DEF FieldsTake, AboutBody
<1>3. NameLen + 39 <= s
  BY DEF FieldsTake
<1>4. ASSUME NEW n \in HdrNames, NEW v \in Values, NEW len \in Nat
      PROVE  Header(n, v, len) \in Heads /\ Header(n, v, len).size = NameLen + len + 4
             /\ Header(n, v, len).name = n /\ Header(n, v, len).value = v
  BY <1>1 DEF Header, Heads
<1>5. Nat \subseteq Values /\ "gzip" \in Values /\ "deflate" \in Values
  BY DEF Values
<1>6. ASSUME NEW f \in RespFields
      PROVE  LET h == Header(f.name, f.len, f.len) IN h \in Heads /\ h.size <= s /\ h.name \notin AboutBody
  BY <1>2, <1>4, <1>5
<1>8. ASSUME NEW size \in BodySizes
      PROVE  LET h == ContentLength(size) IN
             h \in Heads /\ h.size <= s /\ h.name = "content-length" /\ h.value = size
  <2> DEFINE len == SizeDigits[size]
  <2>0. len \in 1 .. 20
    BY RespAssumption
  <2>1. len \in Nat /\ NameLen + len + 4 <= s
    BY <2>0, <1>1, <1>3
  <2>2. ContentLength(size) = Header("content-length", size, len)
    BY DEF ContentLength
  <2>3. size \in Values
    BY <1>5, RespAssumption
  <2> HIDE DEF len
  <2> DEFINE h == Header("content-length", size, len)
  <2>4. h \in Heads /\ h.size = NameLen + len + 4 /\ h.name = "content-length" /\ h.value = size
    BY <1>1, <1>4, <2>1, <2>3
  <2> HIDE DEF h
  <2>5. h \in Heads /\ h.size <= s /\ h.name = "content-length" /\ h.value = size
    BY <2>1, <2>4
  <2> QED
    BY <2>2, <2>5 DEF h
<1>0. ASSUME NEW n \in HdrNames, NEW v \in Values, NEW len \in 0 .. 35
      PROVE  Header(n, v, len) \in Heads /\ Header(n, v, len).size <= s /\ Header(n, v, len).name = n
  <2>1. len \in Nat /\ NameLen + len + 4 <= s
    BY <1>1, <1>3
  <2> DEFINE h == Header(n, v, len)
  <2>2. h \in Heads /\ h.size = NameLen + len + 4 /\ h.name = n
    BY <1>4, <2>1
  <2> HIDE DEF h
  <2>3. h \in Heads /\ h.size <= s /\ h.name = n
    BY <2>1, <2>2
  <2> QED
    BY <2>3 DEF h
<1>9. ASSUME NEW n \in AboutServer, NEW len \in 0 .. 35
      PROVE  LET h == Header(n, len, len) IN h \in Heads /\ h.size <= s /\ h.name \notin AboutBody
  <2>1. n \in HdrNames /\ n \notin AboutBody /\ len \in Values
    BY <1>1, <1>5
  <2> DEFINE h == Header(n, len, len)
  <2>2. h \in Heads /\ h.size <= s /\ h.name = n
    BY <1>0, <2>1
  <2> HIDE DEF h
  <2>3. h \in Heads /\ h.size <= s /\ h.name \notin AboutBody
    BY <2>1, <2>2
  <2> QED
    BY <2>3 DEF h
<1>10. \A h \in {Header("content-encoding", "gzip", 4), Header("content-encoding", "deflate", 7)} :
          h \in Heads /\ h.size <= s /\ h.name = "content-encoding"
  <2>1. 4 \in 0 .. 35 /\ 7 \in 0 .. 35
    OBVIOUS
  <2>2. \A v \in {"gzip", "deflate"}, len \in 0 .. 35 :
          LET h == Header("content-encoding", v, len) IN h \in Heads /\ h.size <= s /\ h.name = "content-encoding"
    BY <1>0, <1>1, <1>5
  <2> QED
    BY <2>1, <2>2, Zenon
<1> QED
  BY <1>6, <1>8, <1>9, <1>10

-----------------------------------------------------------------------------
(* The response.                                                           *)

\* What the response has, and what it announces, with room for s bytes a field.
Building(s) ==
    /\ puts \in Nat /\ puts <= MaxPuts /\ respBody \in Nat
    /\ Sound(respHeaders) /\ Announced(respHeaders, respBody)
    /\ respHeaders.size <= Room(s, puts + 5)
    /\ respState = "built" => respHeaders.size <= Room(s, puts + 2)
    /\ respState = "build" => respHeaders.size <= Room(s, puts)

\* What was written and sent of it.
Sending ==
    /\ respState \in {"build", "built"} => written = <<>> /\ bodySent = 0
    /\ respState = "write" =>
         /\ bufSize = respHeaders.size /\ bodySent = 0 /\ sendPos = 0
         /\ \E b \in Lists, p \in Nat : hdrIter = Spot(b, p) /\ Writing(written, respHeaders, b, p)
    /\ respState \in {"body", "sent"} =>
         /\ AllWritten(written, respHeaders) /\ bufSize = respHeaders.size
         /\ sendPos \in Nat /\ sendPos <= respBody /\ bodySent = sendPos
    /\ respState = "sent" => bodySent = respBody

Response(s) == Building(s) /\ Sending

LEMMA ResponseInit == ASSUME NEW s \in Nat, RespInit PROVE Response(s)
<1>1. /\ respState = "build" /\ respHeaders = EmptySet /\ respBody = 0 /\ puts = 0
      /\ written = <<>> /\ bodySent = 0
  BY DEF RespInit
<1>2. Sound(respHeaders) /\ respHeaders.size = 0 /\ Announced(respHeaders, respBody)
  BY <1>1, EmptySound, EmptyAnnounced
<1>3. puts \in Nat /\ puts <= MaxPuts /\ respBody \in Nat
  BY <1>1, RespAssumption
<1>4. Room(s, puts + 5) \in Nat /\ Room(s, puts) \in Nat
  BY <1>3 DEF Room
<1>5. Building(s)
  BY <1>1, <1>2, <1>3, <1>4 DEF Building
<1>6. Sending
  BY <1>1 DEF Sending
<1> QED
  BY <1>5, <1>6 DEF Response

\* A handler puts a field.
LEMMA PutKept ==
    ASSUME NEW s \in Nat, Fits(s), Response(s), NEW hs, Put(hs), Sound(hs),
           respBody' \in Nat, Announced(hs, respBody'), hs.size <= respHeaders.size + s
    PROVE  Response(s)'
<1>1. /\ respState = "build" /\ puts < MaxPuts /\ respHeaders' = hs /\ puts' = puts + 1 /\ respState' = respState
      /\ written' = written /\ bodySent' = bodySent
  BY DEF Put
<1>2. puts \in Nat /\ puts <= MaxPuts /\ respHeaders.size <= Room(s, puts) /\ written = <<>> /\ bodySent = 0
  BY <1>1 DEF Response, Building, Sending
<1>3. puts' \in Nat /\ puts' <= MaxPuts
  BY <1>1, <1>2, RespAssumption
<1>4. hs.size \in Nat /\ respHeaders.size \in Nat
  BY DEF Sound, Measured, Sets, Response, Building
<1>5. Room(s, puts + 1) = Room(s, puts) + s /\ Room(s, puts) \in Nat
  BY <1>2, RoomMore
<1>6. hs.size <= Room(s, puts')
  BY <1>1, <1>2, <1>4, <1>5
<1>7. ASSUME NEW n \in Nat PROVE Room(s, n) <= Room(s, n + 5) /\ Room(s, n) \in Nat /\ Room(s, n + 5) \in Nat
  <2>1. Room(s, n) \in Nat /\ Room(s, n + 5) = Room(s, n) + s + s + s + s + s
    BY RoomMore, Zenon
  <2> QED
    BY <2>1
<1>8. hs.size <= Room(s, puts' + 5)
  <2> DEFINE n == puts'
  <2>1. n \in Nat /\ hs.size <= Room(s, n)
    BY <1>3, <1>6
  <2> HIDE DEF n
  <2>2. hs.size <= Room(s, n + 5)
    BY <1>4, <1>7, <2>1
  <2> QED
    BY <2>2 DEF n
<1>9. Building(s)'
  BY <1>1, <1>3, <1>6, <1>8 DEF Building
<1>10. Sending'
  BY <1>1, <1>2 DEF Sending
<1> QED
  BY <1>9, <1>10 DEF Response

\* HeaderSet_add() and HeaderSet_set() of a field that fits.
LEMMA FieldPut ==
    ASSUME NEW s \in Nat, Fits(s), Response(s), respState = "build", puts < MaxPuts,
           NEW h \in Heads, h.size <= s
    PROVE  /\ respHeaders.size + h.size < 65536
           /\ Sound(respHeaders) /\ Announced(respHeaders, respBody) /\ respBody \in Nat
           /\ Sound(HeaderSet_add(respHeaders, h)) /\ HeaderSet_add(respHeaders, h).size <= respHeaders.size + s
           /\ Sound(HeaderSet_set(respHeaders, h)) /\ HeaderSet_set(respHeaders, h).size <= respHeaders.size + s
<1>1. /\ puts \in Nat /\ respHeaders.size <= Room(s, puts) /\ Sound(respHeaders)
      /\ Announced(respHeaders, respBody) /\ respBody \in Nat
  BY DEF Response, Building
<1>2. respHeaders.size \in Nat /\ h.size \in Nat
  BY <1>1 DEF Sound, Measured, Sets, Heads
<1>3. respHeaders.size + h.size < 65536
  <2>1. Room(s, puts + 1) = Room(s, puts) + s /\ Room(s, puts) \in Nat
    BY <1>1, RoomMore, Zenon
  <2>2. Room(s, puts + 1) < 65536
    <3>1. puts <= MaxPuts
      BY DEF Response, Building
    <3>2. puts \in Nat
      BY <1>1
    <3>3. Fitting(Room(s, puts + 1))
      BY <3>1, <3>2, RoomForOne, Zenon
    <3> QED
      BY <3>3 DEF Fitting
  <2> QED
    BY <1>1, <1>2, <2>1, <2>2
<1>4. Sound(HeaderSet_add(respHeaders, h)) /\ HeaderSet_add(respHeaders, h).size = respHeaders.size + h.size
  BY <1>1, <1>3, AddSound
<1>5. Sound(HeaderSet_set(respHeaders, h)) /\ HeaderSet_set(respHeaders, h).size <= respHeaders.size + h.size
  BY <1>1, <1>3, SetSound
<1>6. HeaderSet_set(respHeaders, h).size \in Nat
  BY <1>5 DEF Sound, Measured, Sets
<1> QED
  BY <1>1, <1>2, <1>3, <1>4, <1>5, <1>6

LEMMA AddFieldKept ==
    ASSUME NEW s \in Nat, Fits(s), Response(s),
           NEW f \in RespFields, AddField(f) \/ SetField(f)
    PROVE  Response(s)'
<1> DEFINE h == Header(f.name, f.len, f.len)
<1>1. h \in Heads /\ h.size <= s /\ h.name \notin AboutBody
  BY FieldIs DEF Fits
<1>2. AddField(f) => Put(HeaderSet_add(respHeaders, h)) /\ respBody' = respBody
  BY DEF AddField
<1>3. SetField(f) => Put(HeaderSet_set(respHeaders, h)) /\ respBody' = respBody
  BY DEF SetField
<1> HIDE DEF h
<1>4. respState = "build" /\ puts < MaxPuts
  BY <1>2, <1>3 DEF Put
<1>5. /\ respHeaders.size + h.size < 65536
      /\ Sound(respHeaders) /\ Announced(respHeaders, respBody) /\ respBody \in Nat
      /\ Sound(HeaderSet_add(respHeaders, h)) /\ HeaderSet_add(respHeaders, h).size <= respHeaders.size + s
      /\ Sound(HeaderSet_set(respHeaders, h)) /\ HeaderSet_set(respHeaders, h).size <= respHeaders.size + s
  BY <1>1, <1>4, FieldPut
<1>6. Announced(HeaderSet_add(respHeaders, h), respBody) /\ Announced(HeaderSet_set(respHeaders, h), respBody)
  BY <1>1, <1>5, OtherField
<1>7. CASE AddField(f)
  BY <1>2, <1>5, <1>6, <1>7, PutKept
<1>8. CASE SetField(f)
  BY <1>3, <1>5, <1>6, <1>8, PutKept
<1> QED
  BY <1>7, <1>8

LEMMA PassBodyKept ==
    ASSUME NEW s \in Nat, Fits(s), Response(s),
           NEW size \in BodySizes, PassBody(size)
    PROVE  Response(s)'
<1> DEFINE h == ContentLength(size)
<1>0. size \in Nat
  BY RespAssumption
<1>1. h \in Heads /\ h.size <= s /\ h.name = "content-length" /\ h.value = size
  BY <1>0, FieldIs DEF Fits
<1>2. Put(HeaderSet_set(respHeaders, h)) /\ respBody' = size
  BY DEF PassBody, PutBody
<1> HIDE DEF h
<1>4. respState = "build" /\ puts < MaxPuts
  BY <1>2 DEF Put
<1>5. /\ respHeaders.size + h.size < 65536
      /\ Sound(respHeaders) /\ Announced(respHeaders, respBody)
      /\ Sound(HeaderSet_set(respHeaders, h)) /\ HeaderSet_set(respHeaders, h).size <= respHeaders.size + s
  BY <1>1, <1>4, FieldPut
<1>6. Announced(HeaderSet_set(respHeaders, h), size)
  <2>1. Announced(HeaderSet_set(respHeaders, h), h.value)
    BY <1>0, <1>1, <1>5, BodyField
  <2> QED
    BY <1>1, <2>1
<1> QED
  BY <1>0, <1>2, <1>5, <1>6, PutKept

\* What is left of the room for five fields when up to four are put.
LEMMA RoomLeft ==
    ASSUME NEW room \in Nat, NEW s \in Nat, Fitting(room + s + s + s + s + s), NEW a \in Nat
    PROVE  /\ a <= room => Fitting(a + s) /\ Fitting(a + s + s)
           /\ a <= room + s => Fitting(a + s)
           /\ a <= room + s + s => Fitting(a + s) /\ Fitting(a + s + s)
           /\ a <= room + s + s + s + s => Fitting(a + s)
BY DEF Fitting

LEMMA SizesAdd ==
    ASSUME NEW room \in Nat, NEW s \in Nat, NEW a \in Nat, NEW b \in Nat, NEW c \in Nat
    PROVE  /\ a <= room /\ b <= a + s => b <= room + s
           /\ b <= room + s /\ c <= b + s => c <= room + s + s
           /\ a <= room + s + s /\ b <= a + (s + s) => b <= room + s + s + s + s
OBVIOUS

LEMMA RoomFacts ==
    ASSUME NEW s \in Nat, Fits(s), Response(s)
    PROVE  /\ Room(s, puts) \in Nat /\ puts \in Nat /\ puts <= MaxPuts
           /\ Room(s, puts + 2) = Room(s, puts) + s + s
           /\ Room(s, puts + 5) = Room(s, puts) + s + s + s + s + s
           /\ Room(s, puts) + s + s + s + s + s < 65536
           /\ respHeaders.size \in Nat /\ respBody \in Nat
<1>1. puts \in Nat /\ puts <= MaxPuts /\ respBody \in Nat /\ Sound(respHeaders)
  BY DEF Response, Building
<1>2. Room(s, puts) \in Nat /\ Room(s, puts + 2) = Room(s, puts) + s + s
      /\ Room(s, puts + 5) = Room(s, puts) + s + s + s + s + s
  BY <1>1, RoomMore, Zenon
<1>3. Fitting(Room(s, puts + 5))
  BY <1>1, RoomForFive, Zenon
<1>4. respHeaders.size \in Nat
  BY <1>1 DEF Sound, Measured, Sets
<1> QED
  BY <1>1, <1>2, <1>3, <1>4 DEF Fitting

\* Setting or adding a field where there is room for it.
LEMMA FieldRoom ==
    ASSUME NEW s \in Nat, NEW hs, Sound(hs), hs.size + s < 65536, NEW h \in Heads, h.size <= s
    PROVE  /\ hs.size + h.size < 65536 /\ hs.size \in Nat
           /\ Sound(HeaderSet_add(hs, h)) /\ HeaderSet_add(hs, h).size <= hs.size + s
           /\ HeaderSet_add(hs, h).size \in Nat
           /\ Sound(HeaderSet_set(hs, h)) /\ HeaderSet_set(hs, h).size <= hs.size + s
           /\ HeaderSet_set(hs, h).size \in Nat
<1>1. hs.size \in Nat /\ h.size \in Nat
  BY DEF Sound, Measured, Sets, Heads
<1>2. hs.size + h.size < 65536 /\ hs.size + h.size <= hs.size + s
  BY <1>1
<1>3. Sound(HeaderSet_add(hs, h)) /\ HeaderSet_add(hs, h).size = hs.size + h.size
  BY <1>2, AddSound
<1>4. Sound(HeaderSet_set(hs, h)) /\ HeaderSet_set(hs, h).size <= hs.size + h.size
  BY <1>2, SetSound
<1>5. HeaderSet_add(hs, h).size \in Nat /\ HeaderSet_set(hs, h).size \in Nat
  BY <1>3, <1>4 DEF Sound, Measured, Sets
<1> QED
  BY <1>1, <1>2, <1>3, <1>4, <1>5

LEMMA CompressKept ==
    ASSUME NEW s \in Nat, Fits(s), Response(s), NEW accepted, NEW comp \in BodySizes, Compress(accepted, comp)
    PROVE  Response(s)'
<1> DEFINE h == ContentLength(comp)
           e == IF "gzip" \in accepted THEN Header("content-encoding", "gzip", 4)
                ELSE Header("content-encoding", "deflate", 7)
           hs1 == HeaderSet_set(respHeaders, h)
           hs2 == HeaderSet_set(hs1, e)
<1>1. /\ respState = "build" /\ respState' = "built" /\ puts' = puts /\ written' = written /\ bodySent' = bodySent
      /\ \/ respHeaders' = hs2 /\ respBody' = comp
         \/ respHeaders' = respHeaders /\ respBody' = respBody
  BY DEF Compress, PutBody
<1>2. comp \in Nat
  BY RespAssumption
<1>3. /\ h \in Heads /\ h.size <= s /\ h.name = "content-length" /\ h.value = comp
      /\ e \in Heads /\ e.size <= s /\ e.name = "content-encoding"
  <2>1. h \in Heads /\ h.size <= s /\ h.name = "content-length" /\ h.value = comp
    BY <1>2, FieldIs DEF Fits
  <2>2. e \in {Header("content-encoding", "gzip", 4), Header("content-encoding", "deflate", 7)}
    OBVIOUS
  <2> HIDE DEF e
  <2>3. e \in Heads /\ e.size <= s /\ e.name = "content-encoding"
    BY <2>2, FieldIs DEF Fits
  <2> QED
    BY <2>1, <2>3
<1> HIDE DEF h, e
<1>4. /\ Room(s, puts) \in Nat /\ puts \in Nat /\ puts <= MaxPuts
      /\ Room(s, puts + 2) = Room(s, puts) + s + s
      /\ Room(s, puts + 5) = Room(s, puts) + s + s + s + s + s
      /\ Room(s, puts) + s + s + s + s + s < 65536
      /\ respHeaders.size \in Nat /\ respBody \in Nat
  BY RoomFacts
<1>5. Sound(respHeaders) /\ Announced(respHeaders, respBody) /\ respHeaders.size <= Room(s, puts)
      /\ written = <<>> /\ bodySent = 0
  BY <1>1 DEF Response, Building, Sending
<1>6. respHeaders.size + s < 65536
  BY SMTT(30), <1>4, <1>5, RoomLeft DEF Fitting
<1>7. Sound(hs1) /\ hs1.size <= respHeaders.size + s /\ hs1.size \in Nat /\ Announced(hs1, comp)
  <2>1. respHeaders.size + h.size < 65536 /\ Sound(hs1) /\ hs1.size <= respHeaders.size + s /\ hs1.size \in Nat
    BY SMTT(30), <1>3, <1>5, <1>6, FieldRoom
  <2>2. Announced(hs1, h.value)
    BY SMTT(30), <1>2, <1>3, <1>4, <1>5, <2>1, BodyField
  <2> QED
    BY <1>3, <2>1, <2>2
<1> HIDE DEF hs1
<1>8. Sound(hs2) /\ hs2.size <= hs1.size + s /\ hs2.size \in Nat /\ Announced(hs2, comp)
  <2>0. hs1.size <= Room(s, puts) + s
    BY SMTT(30), <1>4, <1>5, <1>7, SizesAdd
  <2>1. hs1.size + s < 65536
    BY SMTT(30), <1>4, <1>7, <2>0, RoomLeft DEF Fitting
  <2>2. hs1.size + e.size < 65536 /\ Sound(hs2) /\ hs2.size <= hs1.size + s /\ hs2.size \in Nat
    BY SMTT(30), <1>3, <1>7, <2>1, FieldRoom
  <2>3. Announced(hs2, comp)
    BY SMTT(30), <1>2, <1>3, <1>7, <2>2, EncodingField
  <2> QED
    BY <2>2, <2>3
<1> HIDE DEF hs2
<1>9. respBody' \in Nat /\ Sound(respHeaders') /\ Announced(respHeaders', respBody')
  BY <1>1, <1>2, <1>4, <1>5, <1>8
<1>10. respHeaders'.size <= Room(s, puts + 2) /\ respHeaders'.size <= Room(s, puts + 5)
  <2>1. hs2.size <= Room(s, puts) + s + s
    <3>1. hs1.size <= Room(s, puts) + s
      BY SMTT(30), <1>4, <1>5, <1>7, SizesAdd
    <3> QED
      BY SMTT(30), <1>4, <1>7, <1>8, <3>1, SizesAdd
  <2>2. respHeaders.size <= Room(s, puts) + s + s
    BY SMTT(30), <1>4, <1>5
  <2>3. respHeaders'.size <= Room(s, puts) + s + s /\ respHeaders'.size \in Nat
    BY <1>1, <1>4, <1>8, <2>1, <2>2
  <2> QED
    BY <1>4, <2>3
<1>11. Building(s)'
  BY <1>1, <1>4, <1>9, <1>10 DEF Building
<1>12. Sending'
  BY <1>1, <1>5 DEF Sending
<1> QED
  BY <1>11, <1>12 DEF Response

\* A set with one more field that is not about the body.
Grown(s, hs, new, size) == /\ Sound(new) /\ Announced(new, size)
                           /\ new.size \in Nat /\ new.size <= hs.size + s

LEMMA OtherGrown ==
    ASSUME NEW s \in Nat, NEW hs, NEW size \in Nat, Sound(hs), Announced(hs, size), hs.size + s < 65536,
           NEW h \in Heads, h.size <= s, h.name \notin AboutBody
    PROVE  Grown(s, hs, HeaderSet_set(hs, h), size) /\ Grown(s, hs, HeaderSet_add(hs, h), size)
<1>1. /\ hs.size + h.size < 65536
      /\ Sound(HeaderSet_add(hs, h)) /\ HeaderSet_add(hs, h).size <= hs.size + s
      /\ HeaderSet_add(hs, h).size \in Nat
      /\ Sound(HeaderSet_set(hs, h)) /\ HeaderSet_set(hs, h).size <= hs.size + s
      /\ HeaderSet_set(hs, h).size \in Nat
  BY FieldRoom
<1>2. Announced(HeaderSet_add(hs, h), size) /\ Announced(HeaderSet_set(hs, h), size)
  BY <1>1, OtherField
<1> QED
  BY <1>1, <1>2 DEF Grown

\* A field with room for it that is not about the body, as those of the server are.
Other(s, h) == h \in Heads /\ h.size <= s /\ h.name \notin AboutBody

LEMMA ServerFieldIs ==
    ASSUME NEW s \in Nat, FieldsTake(s)
    PROVE  \A n \in AboutServer, len \in 0 .. 35 : Other(s, Header(n, len, len))
BY FieldIs DEF Other

\* With what becomes of the connection, one field or two.
LEMMA ConnectionGrown ==
    ASSUME NEW s \in Nat, FieldsTake(s), NEW hs, NEW size \in Nat, Sound(hs), Announced(hs, size),
           hs.size \in Nat, hs.size + s + s < 65536, NEW keep
    PROVE  Grown(s + s, hs, SetConnection(hs, keep), size)
<1>1. /\ "connection" \in AboutServer /\ "keep-alive" \in AboutServer
      /\ 5 \in 0 .. 35 /\ 10 \in 0 .. 35 /\ 20 \in 0 .. 35
  BY DEF AboutServer
<1> DEFINE a == Header("connection", 10, 10)
           k == Header("keep-alive", 20, 20)
           z == Header("connection", 5, 5)
           one == HeaderSet_set(hs, a)
           two == HeaderSet_set(one, k)
           other == HeaderSet_set(hs, z)
<1>2. \A n \in AboutServer, len \in 0 .. 35 : Other(s, Header(n, len, len))
  BY ServerFieldIs
<1>3. Other(s, a) /\ Other(s, k) /\ Other(s, z)
  <2> HIDE DEF Other
  <2>1. Other(s, a)
    BY <1>1, <1>2
  <2>2. Other(s, k)
    BY <1>1, <1>2
  <2>3. Other(s, z)
    BY <1>1, <1>2
  <2> QED
    BY <2>1, <2>2, <2>3
<1>6. SetConnection(hs, keep) = two \/ SetConnection(hs, keep) = other
  BY DEF SetConnection
<1> HIDE DEF a, k, z
<1>5. /\ a \in Heads /\ a.size <= s /\ a.name \notin AboutBody
      /\ k \in Heads /\ k.size <= s /\ k.name \notin AboutBody
      /\ z \in Heads /\ z.size <= s /\ z.name \notin AboutBody
  BY <1>3 DEF Other
<1>7. hs.size + s < 65536
  OBVIOUS
<1>8. Grown(s, hs, one, size) /\ Grown(s, hs, other, size)
  BY <1>5, <1>7, OtherGrown
<1> HIDE DEF one, other
<1>9. Sound(one) /\ Announced(one, size) /\ one.size \in Nat /\ one.size <= hs.size + s
  BY <1>8 DEF Grown
<1>10. one.size + s < 65536
  BY <1>9
<1>11. Grown(s, one, two, size)
  BY <1>5, <1>9, <1>10, OtherGrown
<1> HIDE DEF two
<1>12. Grown(s + s, hs, two, size)
  <2>1. Sound(two) /\ Announced(two, size) /\ two.size \in Nat /\ two.size <= one.size + s
    BY <1>11 DEF Grown
  <2>2. two.size <= hs.size + (s + s)
    BY <1>9, <2>1
  <2> QED
    BY <2>1, <2>2 DEF Grown
<1>13. Grown(s + s, hs, other, size)
  <2>1. Sound(other) /\ Announced(other, size) /\ other.size \in Nat /\ other.size <= hs.size + s
    BY <1>8 DEF Grown
  <2>2. other.size <= hs.size + (s + s)
    BY <2>1
  <2> QED
    BY <2>1, <2>2 DEF Grown
<1> QED
  BY <1>6, <1>12, <1>13

LEMMA SendHeadKept ==
    ASSUME NEW s \in Nat, Fits(s), Response(s), SendHead
    PROVE  Response(s)'
<1>1. PICK keep \in BOOLEAN :
        LET c == SetConnection(respHeaders, keep) IN
          respHeaders' = IF HeaderSet_first(c, "cache-control") = NoHeader
                           THEN HeaderSet_add(c, Header("cache-control", 35, 35)) ELSE c
  BY DEF SendHead
<1> DEFINE e == Header("cache-control", 35, 35)
           c == SetConnection(respHeaders, keep)
           d == HeaderSet_add(c, e)
<1>2. /\ respState = "built" /\ respState' = "write" /\ puts' = puts /\ written' = written /\ bodySent' = bodySent
      /\ respBody' = respBody /\ bufSize' = respHeaders'.size /\ hdrIter' = HeaderSet_all /\ sendPos' = 0
  BY DEF SendHead
<1>3. e \in Heads /\ e.size <= s /\ e.name \notin AboutBody
  <2>1. "cache-control" \in AboutServer /\ 35 \in 0 .. 35
    BY DEF AboutServer
  <2>2. \A n \in AboutServer, len \in 0 .. 35 : Other(s, Header(n, len, len))
    BY ServerFieldIs DEF Fits
  <2>3. Other(s, e)
    BY <2>1, <2>2, Zenon
  <2> HIDE DEF e
  <2> QED
    BY <2>3 DEF Other
<1>3a. respHeaders' = c \/ respHeaders' = d
  BY <1>1
<1> HIDE DEF e
<1>4. /\ Room(s, puts) \in Nat /\ puts \in Nat /\ puts <= MaxPuts
      /\ Room(s, puts + 2) = Room(s, puts) + s + s
      /\ Room(s, puts + 5) = Room(s, puts) + s + s + s + s + s
      /\ Room(s, puts) + s + s + s + s + s < 65536
      /\ respHeaders.size \in Nat /\ respBody \in Nat
  BY RoomFacts
<1>5. Sound(respHeaders) /\ Announced(respHeaders, respBody) /\ respHeaders.size <= Room(s, puts) + s + s
      /\ written = <<>> /\ bodySent = 0
  BY SMTT(30), <1>2, <1>4 DEF Response, Building, Sending
<1>6. respHeaders.size + s + s < 65536
  BY SMTT(30), <1>4, <1>5, RoomLeft DEF Fitting
<1>7. Sound(c) /\ c.size <= respHeaders.size + (s + s) /\ c.size \in Nat /\ Announced(c, respBody)
  <2>1. FieldsTake(s)
    BY DEF Fits
  <2>2. Grown(s + s, respHeaders, c, respBody)
    BY <2>1, <1>4, <1>5, <1>6, ConnectionGrown
  <2> QED
    BY <2>2 DEF Grown
<1> HIDE DEF c
<1>8. Sound(d) /\ d.size <= c.size + s /\ d.size \in Nat /\ Announced(d, respBody)
  <2>0. c.size <= Room(s, puts) + s + s + s + s
    BY SMTT(30), <1>4, <1>5, <1>7, SizesAdd
  <2>1. c.size + s < 65536
    BY SMTT(30), <1>4, <1>7, <2>0, RoomLeft DEF Fitting
  <2>2. Grown(s, c, d, respBody)
    BY <1>3, <1>4, <1>7, <2>1, OtherGrown
  <2> QED
    BY <2>2 DEF Grown
<1> HIDE DEF d
<1>9. Sound(respHeaders') /\ Announced(respHeaders', respBody)
  BY <1>3a, <1>7, <1>8
<1>10. respHeaders'.size <= Room(s, puts + 5)
  <2>1. c.size <= Room(s, puts) + s + s + s + s
    BY SMTT(30), <1>4, <1>5, <1>7
  <2>2. d.size <= Room(s, puts) + s + s + s + s + s
    BY SMTT(30), <1>4, <1>7, <1>8, <2>1
  <2>3. c.size <= Room(s, puts) + s + s + s + s + s
    BY SMTT(30), <1>4, <1>7, <2>1
  <2> QED
    BY <1>3a, <1>4, <2>2, <2>3
<1>11. Building(s)'
  BY SMTT(30), <1>2, <1>4, <1>9, <1>10 DEF Building
<1>12. Writing(<<>>, respHeaders', 0, 0)
  <2>1. Measured(respHeaders')
    BY <1>9 DEF Sound
  <2> DEFINE x == respHeaders'
  <2> HIDE DEF x
  <2>2. Writing(<<>>, x, 0, 0)
    BY <2>1, WritingStart DEF x
  <2> QED
    BY <2>2 DEF x
<1>13. hdrIter' = Spot(0, 0) /\ 0 \in Lists /\ 0 \in Nat
  BY <1>2, HeaderAssumption DEF HeaderSet_all, Spot, Lists
<1>14. Sending'
  BY <1>2, <1>5, <1>12, <1>13 DEF Sending
<1> QED
  BY <1>11, <1>14 DEF Response

LEMMA WriteFieldKept ==
    ASSUME NEW s \in Nat, Response(s), WriteField
    PROVE  Response(s)'
<1>1. /\ respState = "write" /\ respHeaders' = respHeaders /\ respBody' = respBody /\ puts' = puts
      /\ bufSize' = bufSize /\ sendPos' = sendPos /\ bodySent' = bodySent
      /\ hdrIter' = HeaderIterator_moveNext(respHeaders, hdrIter)
      /\ hdrIter'.pos = 0 => respState' = "body" /\ written' = written
      /\ hdrIter'.pos # 0 => /\ respState' = respState
                             /\ written' = Append(written, HeaderIterator_current(respHeaders, hdrIter'))
  BY DEF WriteField
<1>2. PICK b \in Lists, p \in Nat : hdrIter = Spot(b, p) /\ Writing(written, respHeaders, b, p)
  BY <1>1 DEF Response, Sending
<1>3. bufSize = respHeaders.size /\ bodySent = 0 /\ sendPos = 0 /\ respBody \in Nat /\ Measured(respHeaders)
  BY <1>1 DEF Response, Sending, Building, Sound
<1>4. \/ hdrIter'.pos = 0 /\ AllWritten(written, respHeaders)
      \/ \E c \in Lists, q \in Nat :
           /\ hdrIter' = Spot(c, q) /\ hdrIter'.pos # 0
           /\ Writing(Append(written, HeaderIterator_current(respHeaders, hdrIter')), respHeaders, c, q)
  BY <1>1, <1>2, <1>3, WritingNext
<1>5. respState' \in {"write", "body"}
  BY <1>1
<1>6. Building(s)'
  BY <1>1, <1>5 DEF Response, Building
<1>7. CASE hdrIter'.pos = 0
  <2>1. respState' = "body" /\ written' = written /\ AllWritten(written, respHeaders)
    BY <1>1, <1>4, <1>7
  <2>2. sendPos \in Nat /\ sendPos <= respBody /\ bodySent = sendPos
    BY <1>3
  <2>3. Sending'
    BY <1>1, <1>3, <2>1, <2>2 DEF Sending
  <2> QED
    BY <1>6, <2>3 DEF Response
<1>8. CASE hdrIter'.pos # 0
  <2>1. PICK c \in Lists, q \in Nat :
           /\ hdrIter' = Spot(c, q)
           /\ Writing(Append(written, HeaderIterator_current(respHeaders, hdrIter')), respHeaders, c, q)
    BY <1>4, <1>8
  <2>2. respState' = "write" /\ Writing(written', respHeaders', c, q)
    BY <1>1, <1>8, <2>1
  <2>3. Sending'
    BY <1>1, <1>3, <2>1, <2>2 DEF Sending
  <2> QED
    BY <1>6, <2>3 DEF Response
<1> QED
  BY <1>7, <1>8

LEMMA SendBodyKept ==
    ASSUME NEW s \in Nat, Response(s), SendBody
    PROVE  Response(s)'
<1> DEFINE remaining == respBody - sendPos
           part == IF remaining > MaxSend THEN MaxSend ELSE remaining
<1>1. /\ respState = "body" /\ respState' = IF remaining = 0 THEN "sent" ELSE "body"
      /\ sendPos' = sendPos + part /\ bodySent' = bodySent + part
      /\ respHeaders' = respHeaders /\ respBody' = respBody /\ puts' = puts /\ bufSize' = bufSize
      /\ written' = written
  BY DEF SendBody
<1>2. /\ respBody \in Nat /\ AllWritten(written, respHeaders) /\ bufSize = respHeaders.size
      /\ sendPos \in Nat /\ sendPos <= respBody /\ bodySent = sendPos
  BY <1>1 DEF Response, Sending, Building
<1>3. remaining \in Nat /\ part \in Nat /\ part <= remaining /\ (remaining = 0 => part = 0)
  BY <1>2, RespAssumption
<1>4. sendPos + remaining = respBody
  BY <1>2
<1> HIDE DEF part, remaining
<1>5. sendPos' \in Nat /\ sendPos' <= respBody /\ bodySent' = sendPos'
  BY <1>1, <1>2, <1>3, <1>4
<1>6. respState' = "sent" => bodySent' = respBody
  BY <1>1, <1>2, <1>3, <1>4
<1>7. respState' \in {"body", "sent"}
  BY <1>1
<1>8. Building(s)'
  BY <1>1, <1>7 DEF Response, Building
<1>9. Sending'
  BY <1>1, <1>2, <1>5, <1>6, <1>7 DEF Sending
<1> QED
  BY <1>8, <1>9 DEF Response

LEMMA AbortKept ==
    ASSUME NEW s \in Nat, Response(s), AbortSending
    PROVE  Response(s)'
<1>1. /\ respState' = "aborted"
      /\ respHeaders' = respHeaders /\ respBody' = respBody /\ puts' = puts
  BY DEF AbortSending
<1>2. Building(s)'
  BY <1>1 DEF Response, Building
<1>3. Sending'
  BY <1>1 DEF Sending
<1> QED
  BY <1>2, <1>3 DEF Response

LEMMA ResponseKept ==
    ASSUME NEW s \in Nat, Fits(s), Response(s), [RespNext]_respVars
    PROVE  Response(s)'
<1>1. CASE UNCHANGED respVars
  <2>1. /\ respState' = respState /\ respHeaders' = respHeaders /\ respBody' = respBody /\ puts' = puts
        /\ hdrIter' = hdrIter /\ bufSize' = bufSize /\ written' = written /\ sendPos' = sendPos
        /\ bodySent' = bodySent
    BY <1>1 DEF respVars
  <2>2. Building(s)'
    BY <2>1 DEF Response, Building
  <2>3. Sending'
    BY <2>1 DEF Response, Sending
  <2> QED
    BY <2>2, <2>3 DEF Response
<1>2. CASE RespNext
  <2>1. ASSUME NEW f \in RespFields, AddField(f) \/ SetField(f) PROVE Response(s)'
    BY <2>1, AddFieldKept
  <2>2. ASSUME NEW size \in BodySizes, PassBody(size) PROVE Response(s)'
    BY <2>2, PassBodyKept
  <2>3. ASSUME NEW accepted \in SUBSET {"gzip", "deflate"}, NEW comp \in BodySizes, Compress(accepted, comp)
        PROVE  Response(s)'
    BY <2>3, CompressKept
  <2> QED
    BY <1>2, <2>1, <2>2, <2>3, SendHeadKept, WriteFieldKept, SendBodyKept, AbortKept DEF RespNext
<1> QED
  BY <1>1, <1>2

\* What HttpResponse_send() writes never exceeds the buffer it allocated, and fills it in
\* the end with every field of the set once, as long as the fields take less than 65536
\* bytes: HeaderSet counts them in 16 bits.
THEOREM BufferExactCorrect == HeadFits => (RespSpec => []BufferExact)
<1> SUFFICES ASSUME HeadFits PROVE RespSpec => []BufferExact
  OBVIOUS
<1>1. PICK s \in Nat : Fits(s)
  BY DEF HeadFits
<1>2. RespInit => Response(s)
  BY ResponseInit
<1>3. Response(s) /\ [RespNext]_respVars => Response(s)'
  BY <1>1, ResponseKept
<1>4. Response(s) => BufferExact
  <2> SUFFICES ASSUME Response(s) PROVE BufferExact
    OBVIOUS
  <2>1. Sound(respHeaders) /\ Measured(respHeaders)
    BY DEF Response, Building, Sound
  <2>2. ASSUME respState = "write" PROVE Bytes(written) <= bufSize
    <3>1. PICK b \in Lists, p \in Nat : Writing(written, respHeaders, b, p)
      BY <2>2 DEF Response, Sending
    <3>2. bufSize = respHeaders.size
      BY <2>2 DEF Response, Sending
    <3>3. p \in 0 .. Len(respHeaders.buckets[b]) /\ Sums(written, respHeaders, b, p)
      BY <3>1 DEF Writing
    <3> QED
      BY <2>1, <3>2, <3>3, SumsBound
  <2>3. ASSUME respState = "body"
        PROVE  /\ Bytes(written) = bufSize /\ Len(written) = respHeaders.count
               /\ \A i \in DOMAIN written :
                    Occurs(written, written[i])
                      = Occurs(respHeaders.buckets[HdrHash[written[i].name]], written[i])
    <3>1. AllWritten(written, respHeaders) /\ bufSize = respHeaders.size
      BY <2>3 DEF Response, Sending
    <3>2. Bytes(written) = bufSize /\ Len(written) = respHeaders.count
      BY <3>1 DEF AllWritten
    <3> QED
      BY <2>1, <3>1, <3>2, WrittenOnce
  <2> QED
    BY <2>2, <2>3 DEF BufferExact
<1> QED
  BY <1>2, <1>3, <1>4, PTL DEF RespSpec

\* A response that was sent announced the size of the body that was sent, once and no other
\* size, and an encoding at most once, whatever handlers and MW_Compress() put, under the
\* same condition.
THEOREM AnnouncedIsSentCorrect == HeadFits => (RespSpec => []AnnouncedIsSent)
<1> SUFFICES ASSUME HeadFits PROVE RespSpec => []AnnouncedIsSent
  OBVIOUS
<1>1. PICK s \in Nat : Fits(s)
  BY DEF HeadFits
<1>2. RespInit => Response(s)
  BY ResponseInit
<1>3. Response(s) /\ [RespNext]_respVars => Response(s)'
  BY <1>1, ResponseKept
<1>4. Response(s) => AnnouncedIsSent
  <2> SUFFICES ASSUME Response(s), respState = "sent"
               PROVE  /\ Cardinality(WrittenAs("content-encoding")) <= 1
                      /\ \A i \in WrittenAs("content-length") : written[i].value = bodySent
                      /\ Cardinality(WrittenAs("content-length")) <= 1
                      /\ bodySent > 0 => WrittenAs("content-length") # {}
    BY DEF AnnouncedIsSent
  <2>1. /\ Sound(respHeaders) /\ Announced(respHeaders, respBody) /\ respBody \in Nat
        /\ AllWritten(written, respHeaders) /\ bodySent = respBody
    BY DEF Response, Building, Sending
  <2>2. Announces(written, respBody)
    BY <2>1, WrittenAnnounces
  <2>3. \A n : WrittenAs(n) = {i \in DOMAIN written : written[i].name = n}
    BY DEF WrittenAs
  <2> HIDE DEF WrittenAs
  <2>4. Announces(written, bodySent)
    BY <2>1, <2>2
  <2> QED
    BY <2>3, <2>4, Zenon DEF Announces
<1> QED
  BY <1>2, <1>3, <1>4, PTL DEF RespSpec

=============================================================================
