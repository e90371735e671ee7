----------------------------- MODULE HeaderSet -----------------------------
(***************************************************************************)
(* Sets of header fields (http/headerset.c): a hash table of lists, with   *)
(* the number of fields and the bytes they take when written, kept in 16   *)
(* bits.  A field is a record of its name, already in lower case, its      *)
(* value and its size.  An iterator is a position in the table and the     *)
(* name it looks for, NoKey for all of them.                               *)
(***************************************************************************)
EXTENDS Naturals, Sequences, FiniteSets

CONSTANTS HdrNames,     \* names of fields
          HdrBuckets,   \* HSHT_SIZE
          HdrHash,      \* the bucket of each name
          NameLen,      \* the length of a name
          NoKey

ASSUME HeaderAssumption == /\ HdrBuckets \in Nat \ {0} /\ NameLen \in Nat
                           /\ HdrHash \in [HdrNames -> 0 .. HdrBuckets - 1]
                           /\ NoKey \notin HdrNames

\* Header_create() and Header_size(), for a value of length len
Header(n, v, len) == [name |-> n, value |-> v, size |-> NameLen + len + 4]

EmptySet == [buckets |-> [b \in 0 .. HdrBuckets - 1 |-> <<>>], count |-> 0, size |-> 0]

HeaderSet_add(hs, h) ==
    [hs EXCEPT !.buckets[HdrHash[h.name]] = Append(@, h),
               !.count = @ + 1,
               !.size = (@ + h.size) % 65536]

\* The bytes of a list.
Bytes(s) == LET sum[i \in 0 .. Len(s)] == IF i = 0 THEN 0 ELSE sum[i-1] + s[i].size
            IN sum[Len(s)]

\* A list without the fields named n.
Without(s, n) == LET kept[i \in 0 .. Len(s)] ==
                       IF i = 0 THEN <<>>
                       ELSE IF s[i].name = n THEN kept[i-1] ELSE Append(kept[i-1], s[i])
                 IN kept[Len(s)]

\* Mutant: the bytes of what is removed still count.
RemoveKeepsSize(hs, n) ==
    LET b == hs.buckets[HdrHash[n]]
    IN [hs EXCEPT !.buckets[HdrHash[n]] = Without(b, n),
                  !.count = @ - (Len(b) - Len(Without(b, n)))]

HeaderSet_removeAll(hs, n) ==
    LET b == hs.buckets[HdrHash[n]]
        removed == Bytes(b) - Bytes(Without(b, n))
    IN [hs EXCEPT !.buckets[HdrHash[n]] = Without(b, n),
                  !.count = @ - (Len(b) - Len(Without(b, n))),
                  !.size = ((@ + 65536) - (removed % 65536)) % 65536]

HeaderSet_set(hs, h) == HeaderSet_add(HeaderSet_removeAll(hs, h.name), h)

\* The answer when there is none.
NoHeader == Header(NoKey, NoKey, 0)

Found(hs, n) == LET b == hs.buckets[HdrHash[n]] IN {p \in DOMAIN b : b[p].name = n}

HeaderSet_first(hs, n) ==
    IF Found(hs, n) = {} THEN NoHeader
    ELSE hs.buckets[HdrHash[n]][CHOOSE p \in Found(hs, n) : \A q \in Found(hs, n) : p <= q]

HeaderSet_single(hs, n) ==
    IF Cardinality(Found(hs, n)) = 1 THEN HeaderSet_first(hs, n) ELSE NoHeader

-----------------------------------------------------------------------------
(* Iterators: pos 0 is an iterator before the first field of its bucket or  *)
(* after the last one.                                                      *)

\* For all fields of a set: HttpResponse_send() is the only one that asks for
\* them, and has put a Cache-Control field into the set by then.  An empty set,
\* where moveNext() looks one bucket past the table (headerset.c:270-275), is
\* therefore never walked and has no transition here.
HeaderSet_all == [key |-> NoKey, bucket |-> 0, pos |-> 0]
HeaderSet_any(n) == [key |-> n, bucket |-> HdrHash[n], pos |-> 0]

\* The fields an iterator stops at after position (b, p) of the table.
Ahead(hs, it) ==
    {x \in (0 .. HdrBuckets - 1) \X (1 .. hs.count) :
        /\ x[2] <= Len(hs.buckets[x[1]])
        /\ x[1] > it.bucket \/ (x[1] = it.bucket /\ x[2] > it.pos)
        /\ it.key # NoKey => x[1] = it.bucket /\ hs.buckets[x[1]][x[2]].name = it.key}

\* The iterator after HeaderIterator_moveNext(); at its end it starts again.
HeaderIterator_moveNext(hs, it) ==
    IF Ahead(hs, it) = {}
      THEN [it EXCEPT !.bucket = IF it.key = NoKey THEN 0 ELSE @, !.pos = 0]
      ELSE LET x == CHOOSE x \in Ahead(hs, it) : \A y \in Ahead(hs, it) :
                        x[1] < y[1] \/ (x[1] = y[1] /\ x[2] <= y[2])
           IN [it EXCEPT !.bucket = x[1], !.pos = x[2]]

HeaderIterator_current(hs, it) == hs.buckets[it.bucket][it.pos]

=============================================================================
