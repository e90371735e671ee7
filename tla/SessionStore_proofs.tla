------------------------- MODULE SessionStore_proofs -------------------------
(***************************************************************************)
(* Proofs about SessionStore, for any threads, records, buckets and times. *)
(* The chains are what the pointers of the live records make: every record *)
(* has at most one predecessor, and a rank that grows along the chain and  *)
(* never changes once it is given out.  That holds for the chains a        *)
(* creation has cut off too, which a sweep may still walk on.  The next    *)
(* part follows the last sweep through the buckets.                        *)
(*                                                                         *)
(* The last part is about SessionProps, for any threads and any number of   *)
(* requests: who owns the properties of one session.                       *)
(***************************************************************************)
EXTENDS SessionStore, SessionProps, NaturalsInduction, FiniteSetTheorems, WellFoundedInduction, TLAPS

Ref == Sessions \cup {NONE}

Types ==
    /\ now \in Nat /\ tnow \in [Threads -> Nat]
    /\ head \in [Buckets -> Ref] /\ next \in [Sessions -> Ref]
    /\ ctime \in [Sessions -> Nat] /\ atime \in [Sessions -> Nat]
    /\ live \subseteq Sessions /\ freed \subseteq Sessions /\ live \cap freed = {}
    /\ lock \in [Buckets -> Threads \cup {NONE}]
    /\ pc \in [Threads -> PCs]
    /\ sid \in [Threads -> Ref] /\ self \in [Threads -> Ref]
    /\ bkt \in [Threads -> Buckets] /\ cur \in [Threads -> Ref] /\ par \in [Threads -> Ref]
    /\ cookies \subseteq Ref

Known == live \cup freed

\* A thread owns the lock of a bucket exactly while it walks there.
Locked == \A b \in Buckets, t \in Threads : lock[b] = t <=> pc[t] = "sweep" /\ bkt[t] = b

\* Chains stay in their bucket and hold nothing that was given back.
Chains ==
    /\ \A b \in Buckets : head[b] # NONE => head[b] \in live /\ Hash[head[b]] = b
    /\ \A q \in live : next[q] # NONE => next[q] \in live /\ Hash[next[q]] = Hash[q]

\* Nothing is linked twice.
Once ==
    /\ \A q, r \in live : next[q] # NONE /\ next[q] = next[r] => q = r
    /\ \A q \in live : next[q] # NONE => head[Hash[q]] # next[q]

Unused == \A s \in Sessions : s \notin Known => next[s] = NONE

ChainRanks(rank) ==
    /\ \A q \in Known : rank[q] \in 1 .. Cardinality(Known)
    /\ \A q \in live : next[q] # NONE => rank[q] < rank[next[q]]

SweepRanks(rank) ==
    \A t \in Threads : pc[t] = "sweep" /\ cur[t] # NONE /\ par[t] # NONE
                          => rank[par[t]] < rank[cur[t]]

Ranked == \E rank \in [Sessions -> Nat] : ChainRanks(rank) /\ SweepRanks(rank)

\* Whatever leads to the record a sweep looks at is what the sweep came by.
Sweepers ==
    \A t \in Threads : pc[t] = "sweep" =>
        /\ par[t] # NONE => par[t] \in live /\ Hash[par[t]] = bkt[t]
        /\ cur[t] # NONE =>
              /\ cur[t] \in live /\ Hash[cur[t]] = bkt[t]
              /\ \A q \in live : next[q] = cur[t] => q = par[t]
              /\ head[bkt[t]] = cur[t] => par[t] = NONE

\* A record that will be appended is still unused, and nobody else's.
Appenders ==
    \A t \in Threads : pc[t] \in Unlocked =>
        /\ self[t] \in Sessions \ Known /\ Hash[self[t]] = bkt[t]
        /\ cur[t] # NONE => cur[t] \in Known /\ Hash[cur[t]] = bkt[t]
        /\ pc[t] = "along" => cur[t] # NONE
        /\ \A u \in Threads : u # t /\ pc[u] \in Unlocked => self[u] # self[t]

-----------------------------------------------------------------------------

\* In a bucket where no creation overlapped a change, nothing is cut off: a
\* creation walks from record to record and writes behind the last one, and a
\* sweep is where it was led.
Attached(b) == \A s \in live : Hash[s] = b => head[b] = s \/ \E q \in live : next[q] = s

OnWay(t, b) ==
    /\ cur[t] # NONE => cur[t] \in live
    /\ pc[t] \in {"tail", "append"} /\ cur[t] = NONE => head[b] = NONE
    /\ pc[t] = "append" /\ cur[t] # NONE => next[cur[t]] = NONE
    /\ pc[t] = "along" => cur[t] # NONE /\ next[cur[t]] # NONE

AtTail(b) ==
    \A t \in Threads : Creating(t, b) =>
        /\ OnWay(t, b)
        /\ \A u \in Threads : Creating(u, b) => u = t

Led(b) ==
    \A t \in Threads : pc[t] = "sweep" /\ bkt[t] = b /\ cur[t] # NONE =>
        IF par[t] = NONE THEN head[b] = cur[t] ELSE next[par[t]] = cur[t]

\* Freed memory is used without the lock only after such an overlap.
StrayedRaced == \A t \in Threads : strayed = t /\ pc[t] \in Unlocked => bkt[t] \in raced

LossInv == \A b \in Buckets : b \notin raced => Attached(b) /\ AtTail(b) /\ Led(b)

Sound ==
    /\ Locked /\ Chains /\ Once /\ Unused /\ Ranked /\ Sweepers /\ Appenders
    /\ LossInv

-----------------------------------------------------------------------------

\* A request does not outlive MaxStall, and what it has touched was touched
\* no longer ago than that.
Recent ==
    /\ \A t \in Threads : tnow[t] <= now
    /\ \A t \in Threads : pc[t] \notin {"idle", "stopped"} => now <= tnow[t] + MaxStall
    /\ \A t \in Threads : pc[t] = "serve" /\ self[t] \in live
                            => tnow[t] <= atime[self[t]] + MaxStall

-----------------------------------------------------------------------------
(* The walk along a chain, a recursive function on numbers.                *)

\* Every set of numbers has a least one.
LEMMA NatMin ==
    ASSUME NEW T, T \subseteq Nat, T # {}
    PROVE  \E m \in T : \A n \in T : m <= n
<1> DEFINE U == {0 .. n : n \in T}
<1>1. \A n \in T : 0 .. n \in SUBSET Nat /\ IsFiniteSet(0 .. n)
  <2> TAKE n \in T
  <2>1. n \in Int /\ 0 .. n \in SUBSET Nat
    OBVIOUS
  <2> QED
    BY <2>1, FS_Interval
<1>2. U \subseteq FiniteSubsetsOf(Nat) /\ U # {}
  BY <1>1 DEF FiniteSubsetsOf
<1>3. PICK x \in U : \A y \in U : ~(<<y, x>> \in StrictSubsetOrdering(Nat))
  <2> HIDE DEF U
  <2> QED
    BY <1>2, FS_StrictSubsetOrderingWellFounded, WFMin
<1>4. PICK m \in T : x = 0 .. m
  OBVIOUS
<1>5. ASSUME NEW n \in T, n < m
      PROVE  FALSE
  <2>1. <<0 .. n, 0 .. m>> \in StrictSubsetOrdering(Nat)
    BY <1>5, m \in Nat, n \in Nat DEF StrictSubsetOrdering
  <2> QED
    BY <2>1, <1>3, <1>4
<1> QED
  BY <1>5

\* The walk of n steps from x along f.
Walks(S, f, x, n) == {h \in [0 .. n -> S] : h[0] = x /\ \A k \in 1 .. n : h[k] = f[h[k-1]]}

LEMMA Iterate ==
    ASSUME NEW S, NEW f \in [S -> S], NEW x \in S, NEW n \in Nat
    PROVE  Walks(S, f, x, n) # {}
<1> USE DEF Walks
<1> DEFINE Good(k) == Walks(S, f, x, k)
           Strays == {k \in Nat : Good(k) = {}}
<1>1. SUFFICES ASSUME Strays # {} PROVE FALSE
  OBVIOUS
<1>2. PICK m \in Strays : \A k \in Strays : m <= k
  BY <1>1, NatMin
<1>3. m # 0
  <2>1. [k \in 0 .. 0 |-> x] \in Good(0)
    OBVIOUS
  <2> QED
    BY <2>1
<1>4. PICK h \in Good(m - 1) : TRUE
  BY <1>2, <1>3
<1> DEFINE g == [k \in 0 .. m |-> IF k < m THEN h[k] ELSE f[h[m-1]]]
<1>5. m \in Nat /\ m - 1 \in 0 .. m - 1 /\ h[m-1] \in S
  BY <1>3, <1>4
<1>6. g \in [0 .. m -> S] /\ g[0] = x
  BY <1>3, <1>4, <1>5
<1>7. ASSUME NEW i \in 1 .. m PROVE g[i] = f[g[i-1]]
  <2>1. CASE i = m
    BY <2>1, <1>5
  <2>2. CASE i < m
    BY <2>2, <1>4, <1>5
  <2> QED
    BY <2>1, <2>2, <1>5
<1> HIDE DEF g
<1>8. g \in Good(m)
  BY <1>6, <1>7
<1> QED
  BY <1>8

N == Cardinality(Sessions)

LEMMA HopFacts ==
    ASSUME Types, NEW b \in Buckets
    PROVE  /\ N \in Nat /\ Hops(b) \in [0 .. N -> Ref] /\ Hops(b)[0] = head[b]
           /\ \A n \in 1 .. N : Hops(b)[n] = IF Hops(b)[n-1] = NONE THEN NONE
                                                                  ELSE next[Hops(b)[n-1]]
<1> DEFINE after == [s \in Ref |-> IF s = NONE THEN NONE ELSE next[s]]
           Def(h) == [n \in 0 .. Cardinality(Sessions) |->
                        IF n = 0 THEN head[b]
                        ELSE IF h[n-1] = NONE THEN NONE ELSE next[h[n-1]]]
<1>1. N \in Nat
  BY TableAssumption, FS_CardinalityType DEF N
<1>2. after \in [Ref -> Ref] /\ head[b] \in Ref
  BY TableAssumption DEF Types, Ref
<1>3. PICK h \in [0 .. N -> Ref] : h[0] = head[b] /\ \A k \in 1 .. N : h[k] = after[h[k-1]]
  <2> HIDE DEF after
  <2>1. Walks(Ref, after, head[b], N) # {}
    BY <1>1, <1>2, Iterate
  <2> QED
    BY <2>1 DEF Walks
<1>4. h = Def(h)
  <2>1. h = [n \in 0 .. N |-> h[n]]
    OBVIOUS
  <2>2. \A n \in 0 .. N : h[n] = IF n = 0 THEN head[b] ELSE IF h[n-1] = NONE THEN NONE ELSE next[h[n-1]]
    <3> TAKE n \in 0 .. N
    <3>1. CASE n = 0
      BY <3>1, <1>3
    <3>2. CASE n # 0
      <4>1. n \in 1 .. N /\ n - 1 \in 0 .. N
        BY <3>2, <1>1
      <4>2. h[n-1] \in Ref
        BY <4>1
      <4> QED
        BY <3>2, <4>1, <4>2, <1>3
    <3> QED
      BY <3>1, <3>2
  <2> QED
    BY <2>1, <2>2 DEF N
<1>5. Hops(b) = CHOOSE hop : hop = Def(hop)
  BY DEF Hops
<1> HIDE DEF Def
<1>6. Hops(b) = Def(Hops(b))
  BY <1>4, <1>5, Zenon
<1>7. Hops(b) = [n \in 0 .. N |-> IF n = 0 THEN head[b]
                                   ELSE IF Hops(b)[n-1] = NONE THEN NONE ELSE next[Hops(b)[n-1]]]
  BY <1>6 DEF Def, N
<1> DEFINE hp == Hops(b)
<1>8. /\ hp[0] = head[b]
      /\ \A n \in 1 .. N : hp[n] = IF hp[n-1] = NONE THEN NONE ELSE next[hp[n-1]]
      /\ DOMAIN hp = 0 .. N /\ hp = [n \in 0 .. N |-> hp[n]]
  <2> HIDE DEF hp
  <2>1. hp = [n \in 0 .. N |-> IF n = 0 THEN head[b]
                                ELSE IF hp[n-1] = NONE THEN NONE ELSE next[hp[n-1]]]
    BY <1>7 DEF hp
  <2> QED
    BY <2>1, <1>1
<1> HIDE DEF hp
<1>9. \A n \in 0 .. N : hp[n] \in Ref
  <2> DEFINE Strays == {n \in Nat : n <= N /\ hp[n] \notin Ref}
  <2>1. SUFFICES ASSUME Strays # {} PROVE FALSE
    BY <1>1
  <2>2. PICK m \in Strays : \A n \in Strays : m <= n
    BY <2>1, NatMin
  <2>3. m # 0
    BY <2>2, <1>2, <1>8
  <2>4. hp[m-1] \in Ref /\ m \in 1 .. N
    BY <2>2, <2>3, <1>1
  <2> QED
    BY <2>2, <2>4, <1>8 DEF Types, Ref
<1> QED
  BY <1>1, <1>8, <1>9 DEF hp

\* There are no more known records than records.
LEMMA KnownCount ==
    ASSUME Types
    PROVE  /\ IsFiniteSet(Known) /\ Known \subseteq Sessions
           /\ Cardinality(Known) \in Nat /\ Cardinality(Known) <= N /\ N \in Nat
<1>1. Known \subseteq Sessions
  BY DEF Types, Known
<1> QED
  BY <1>1, TableAssumption, FS_Subset, FS_CardinalityType DEF N

\* What the pointers say of one step is true of the whole chain: it stays among
\* the live records of the bucket, and it ends, since the ranks do.
LEMMA WholeChain ==
    ASSUME Types, Chains, Ranked, NEW b \in Buckets
    PROVE  /\ Hops(b)[N] = NONE
           /\ \A s \in Linked(b) : s \in live /\ Hash[s] = b
           /\ head[b] # NONE => head[b] \in Linked(b)
           /\ \A s \in Linked(b) : next[s] # NONE => next[s] \in Linked(b)
           /\ \A s \in Linked(b) : head[b] = s \/ \E q \in Linked(b) : next[q] = s
           /\ Linked(b) # {} => \E q \in Linked(b) : next[q] = NONE
<1> DEFINE hp == Hops(b)
<1>1. /\ N \in Nat /\ hp \in [0 .. N -> Ref] /\ hp[0] = head[b]
      /\ \A n \in 1 .. N : hp[n] = IF hp[n-1] = NONE THEN NONE ELSE next[hp[n-1]]
  BY HopFacts
<1>2. Linked(b) = {hp[n] : n \in 0 .. N} \ {NONE}
  BY DEF Linked, N
<1> HIDE DEF hp
<1>3. PICK rank \in [Sessions -> Nat] : ChainRanks(rank)
  BY DEF Ranked
<1>4. \A n \in 0 .. N : hp[n] # NONE => hp[n] \in live /\ Hash[hp[n]] = b /\ rank[hp[n]] > n
  <2> DEFINE Strays == {n \in Nat : n <= N /\ hp[n] # NONE
                                 /\ ~(hp[n] \in live /\ Hash[hp[n]] = b /\ rank[hp[n]] > n)}
  <2>1. SUFFICES ASSUME Strays # {} PROVE FALSE
    BY <1>1
  <2>2. PICK m \in Strays : \A n \in Strays : m <= n
    BY <2>1, NatMin
  <2>3. m # 0
    BY <2>2, <1>1, <1>3, KnownCount DEF Chains, ChainRanks, Known
  <2>4. m - 1 \in Nat /\ m \in 1 .. N /\ m - 1 \notin Strays
    BY <2>2, <2>3, <1>1
  <2>5. hp[m-1] # NONE /\ hp[m] = next[hp[m-1]] /\ hp[m] # NONE
    BY <2>2, <2>4, <1>1
  <2>6. hp[m-1] \in live /\ Hash[hp[m-1]] = b /\ rank[hp[m-1]] > m - 1
    BY <2>4, <2>5, <1>1
  <2>7. hp[m] \in live /\ Hash[hp[m]] = b
    BY <2>5, <2>6 DEF Chains
  <2>8. rank[hp[m-1]] < rank[hp[m]]
    BY <2>5, <2>6, <1>3 DEF ChainRanks
  <2>9. rank[hp[m-1]] \in Nat /\ rank[hp[m]] \in Nat
    BY <2>6, <2>7, <1>3 DEF Types
  <2> QED
    BY <2>2, <2>6, <2>7, <2>8, <2>9
<1>5. hp[N] = NONE
  <2> SUFFICES ASSUME hp[N] # NONE PROVE FALSE
    OBVIOUS
  <2>1. hp[N] \in live /\ rank[hp[N]] > N
    BY <1>1, <1>4
  <2>2. rank[hp[N]] \in 1 .. Cardinality(Known)
    BY <2>1, <1>3 DEF ChainRanks, Known
  <2> QED
    BY <2>1, <2>2, KnownCount
<1>6. \A s \in Linked(b) : s \in live /\ Hash[s] = b
  BY <1>2, <1>4
<1>7. head[b] # NONE => head[b] \in Linked(b)
  BY <1>1, <1>2
<1>8. \A n \in 0 .. N : hp[n] # NONE => n + 1 \in 1 .. N /\ hp[n+1] = next[hp[n]]
  <2> TAKE n \in 0 .. N
  <2> HAVE hp[n] # NONE
  <2>1. n # N
    BY <1>5
  <2> QED
    BY <2>1, <1>1
<1>9. \A s \in Linked(b) : next[s] # NONE => next[s] \in Linked(b)
  BY <1>1, <1>2, <1>8
<1>10. \A s \in Linked(b) : head[b] = s \/ \E q \in Linked(b) : next[q] = s
  <2> TAKE s \in Linked(b)
  <2>1. PICK n \in 0 .. N : s = hp[n] /\ s # NONE
    BY <1>2
  <2>2. CASE n = 0
    BY <2>1, <2>2, <1>1
  <2>3. CASE n # 0
    <3>1. n \in 1 .. N /\ n - 1 \in 0 .. N
      BY <2>3, <1>1
    <3>2. hp[n-1] # NONE /\ next[hp[n-1]] = s
      BY <3>1, <2>1, <1>1
    <3> QED
      BY <3>1, <3>2, <1>2
  <2> QED
    BY <2>2, <2>3
<1>11. ASSUME NEW s \in Linked(b) PROVE \E q \in Linked(b) : next[q] = NONE
  <2>1. PICK n \in 0 .. N : s = hp[n] /\ s # NONE
    BY <1>2
  <2> DEFINE Ends == {k \in Nat : n <= k /\ k <= N /\ hp[k] = NONE}
  <2>2. N \in Ends
    BY <1>1, <1>5
  <2>3. PICK m \in Ends : \A k \in Ends : m <= k
    BY <2>2, NatMin
  <2>4. m # n
    BY <2>1, <2>3
  <2>5. m - 1 \in 0 .. N /\ m \in 1 .. N /\ n <= m - 1
    BY <2>3, <2>4, <1>1
  <2>6. hp[m-1] # NONE
    BY <2>3, <2>5
  <2>7. hp[m-1] \in Linked(b) /\ next[hp[m-1]] = NONE
    BY <2>3, <2>5, <2>6, <1>1, <1>2
  <2> QED
    BY <2>7
<1> QED
  BY <1>5, <1>6, <1>7, <1>9, <1>10, <1>11 DEF hp

LEMMA LinkedType == ASSUME Types, NEW b \in Buckets PROVE Linked(b) \subseteq Sessions
BY HopFacts DEF Linked, Ref, N

-----------------------------------------------------------------------------
(* Types.                                                                  *)

LEMMA TypesStep ==
    ASSUME Types, Appenders, Next
    PROVE  Types'
<1> USE TableAssumption
<1>h. \A q \in Sessions : Hash[q] \in Buckets
  OBVIOUS
<1>1. ASSUME NEW t \in Threads, Arrive(t) PROVE Types'
  BY <1>1 DEF Arrive, Goto, store, walk, Types, PCs, Ref
<1>2. ASSUME NEW t \in Threads, Clean(t) PROVE Types'
  <2> USE DEF Walk, Goto, Types
  <2>b. 0 \in Buckets /\ NONE \in Ref /\ {"find", "bucket", "sweep"} \subseteq PCs
    BY DEF Buckets, Ref, PCs
  <2>1. CASE CleanCheck(t)
    BY <2>1, <2>b DEF CleanCheck, store, walk
  <2>2. CASE SweepBucket(t)
    BY <2>2, <2>b DEF SweepBucket, store
  <2>3. CASE SweepDelete(t)
    BY <2>3 DEF SweepDelete, Unlink, Ref
  <2>4. CASE SweepKeep(t)
    BY <2>4 DEF SweepKeep, store, Ref
  <2>5. CASE SweepUnlock(t)
    <3>1. bkt[t] + 1 < NBuckets => bkt[t] + 1 \in Buckets
      BY DEF Buckets
    <3> QED
      BY <2>5, <2>b, <3>1 DEF SweepUnlock, EndWalk, store
  <2> QED
    BY <1>2, <2>1, <2>2, <2>3, <2>4, <2>5 DEF Clean
<1>3. ASSUME NEW t \in Threads, Find(t) PROVE Types'
  <2> USE DEF FindReturns, Goto, Types
  <2>b. NONE \in Ref /\ {"limit", "touch"} \subseteq PCs
    BY DEF Ref, PCs
  <2>1. CASE NoCookie(t)
    BY <2>1, <2>b DEF NoCookie, store, walk
  <2>2. CASE Found(t)
    BY <2>2, <2>b DEF Found, store, walk
  <2>3. CASE FoundExpired(t)
    <3>1. sid[t] \in Sessions /\ Hash[sid[t]] \in Buckets
      BY <2>3 DEF FoundExpired, Ref
    <3>2. PICK p \in Ref : Unlink(Hash[sid[t]], sid[t], p)
      <4>1. Linked(Hash[sid[t]]) \subseteq Sessions
        BY <3>1, LinkedType
      <4> QED
        BY <2>3, <4>1 DEF FoundExpired, Ref
    <3>3. /\ head' \in [Buckets -> Ref] /\ next' \in [Sessions -> Ref]
          /\ ctime' \in [Sessions -> Nat] /\ atime' \in [Sessions -> Nat]
          /\ live' \subseteq Sessions /\ freed' \subseteq Sessions /\ live' \cap freed' = {}
      BY <3>1, <3>2 DEF Unlink
    <3> QED
      BY <2>3, <2>b, <3>3 DEF FoundExpired, walk
  <2>4. CASE NotFound(t)
    BY <2>4, <2>b DEF NotFound, store, walk
  <2> QED
    BY <1>3, <2>1, <2>2, <2>3, <2>4 DEF Find
<1>4. ASSUME NEW t \in Threads, Touch(t) PROVE Types'
  BY <1>4 DEF Touch, Goto, walk, Types, PCs
<1>5. ASSUME NEW t \in Threads, Create(t) PROVE Types'
  <2> USE DEF Walk, Goto, Types
  <2>b. 0 \in Buckets /\ NONE \in Ref /\ {"serve", "idle"} \cup Unlocked \subseteq PCs
          /\ {"first", "tail", "along", "append"} \subseteq PCs
    BY DEF Buckets, Ref, PCs, Unlocked
  <2>1. CASE Refused(t)
    BY <2>1, <2>b DEF Refused, Leave, store, walk
  <2>2. CASE CreateId(t)
    <3>1. PICK s \in Sessions : self' = [self EXCEPT ![t] = s] /\ Walk(t, Hash[s], NONE, NONE)
      BY <2>2 DEF CreateId
    <3> QED
      BY <2>2, <2>b, <3>1 DEF CreateId, store, Ref
  <2>4. CASE ReadHead(t)
    BY <2>4, <2>b DEF ReadHead, store
  <2>5. CASE TailTest(t)
    BY <2>5, <2>b DEF TailTest, store, walk
  <2>6. CASE TailStep(t)
    <3>1. cur[t] \in Sessions
      BY <2>6 DEF TailStep, Appenders, Unlocked, Ref
    <3> QED
      BY <2>6, <2>b, <3>1 DEF TailStep, store
  <2>3. CASE AppendSession(t)
    <3>1. self[t] \in Sessions \ Known
      BY <2>3 DEF AppendSession, Appenders, Unlocked
    <3>2. /\ head' \in [Buckets -> Ref] /\ next' \in [Sessions -> Ref]
          /\ ctime' \in [Sessions -> Nat] /\ atime' \in [Sessions -> Nat]
          /\ live' \subseteq Sessions /\ freed' \subseteq Sessions /\ live' \cap freed' = {}
      BY <2>3, <3>1 DEF AppendSession, Ref, Known
    <3> QED
      BY <2>3, <2>b, <3>2 DEF AppendSession, EndWalk
  <2> QED
    BY <1>5, <2>1, <2>2, <2>3, <2>4, <2>5, <2>6 DEF Create
<1>6. ASSUME NEW t \in Threads, Served(t) PROVE Types'
  BY <1>6 DEF Served, Leave, Goto, store, walk, Types, PCs, Ref
<1>7. CASE Done
  <2>1. UNION {Linked(b) : b \in Buckets} \subseteq Sessions
    BY LinkedType
  <2> QED
    BY <1>7, <2>1 DEF Done, walk, Types, PCs, Ref
<1>8. CASE Tick
  BY <1>8 DEF Tick, store, walk, Types
<1>9. ASSUME NEW t \in Threads, Misuse(t) PROVE Types'
  BY <1>9 DEF Misuse, store, walk, Types
<1> QED
  BY <1>1, <1>2, <1>3, <1>4, <1>5, <1>6, <1>7, <1>8, <1>9 DEF Next, Work

-----------------------------------------------------------------------------
(* Deleting a record and appending one.                                    *)

\* s is a record of bucket b that nothing but p leads to.
Fits(b, s, p) ==
    /\ b \in Buckets /\ s \in live /\ Hash[s] = b
    /\ p # NONE => p \in live /\ Hash[p] = b /\ p # s
    /\ \A q \in live : next[q] = s => q = p
    /\ head[b] = s => p = NONE

LEMMA UnlinkChains ==
    ASSUME Types, Chains, Once, Unused, NEW b, NEW s, NEW p, Fits(b, s, p), Unlink(b, s, p)
    PROVE  /\ Chains' /\ Once' /\ Unused'
           /\ Known' = Known /\ live' = live \ {s}
<1> USE TableAssumption DEF Fits
<1>1. live' = live \ {s} /\ Known' = Known
  BY DEF Unlink, Known
<1>2. s \in Sessions /\ s # NONE /\ next[s] \in Ref /\ next[s] # s
  BY DEF Types, Chains, Once, Ref
<1>3. CASE p = NONE
  <2>1. head' = [head EXCEPT ![b] = next[s]] /\ next' = next
    BY <1>3 DEF Unlink
  <2>2. Chains'
    BY <1>1, <1>2, <1>3, <2>1 DEF Chains, Types
  <2>3. Once'
    BY <1>1, <1>2, <1>3, <2>1 DEF Chains, Once, Types
  <2> QED
    BY <1>1, <2>1, <2>2, <2>3 DEF Unused
<1>4. CASE p # NONE
  <2>1. /\ head' = head /\ next' = [next EXCEPT ![p] = next[s]] /\ p \in Sessions
        /\ \A q \in Sessions : next'[q] = IF q = p THEN next[s] ELSE next[q]
    BY <1>4 DEF Unlink, Types
  <2>2. Chains'
    BY <1>1, <1>2, <1>4, <2>1 DEF Chains, Types
  <2>3. Once'
    BY <1>1, <1>2, <1>4, <2>1 DEF Chains, Once, Types
  <2>4. Unused'
    BY <1>1, <1>4, <2>1 DEF Unused, Known
  <2> QED
    BY <1>1, <2>2, <2>3, <2>4
<1> QED
  BY <1>3, <1>4

LEMMA UnlinkRanks ==
    ASSUME Types, Chains, NEW b, NEW s, NEW p, Fits(b, s, p), Unlink(b, s, p),
           NEW rank \in [Sessions -> Nat], ChainRanks(rank),
           p # NONE => rank[p] < rank[s]
    PROVE  ChainRanks(rank)'
<1> USE TableAssumption DEF Fits
<1>1. live' = live \ {s} /\ Known' = Known /\ Known \subseteq Sessions
  BY DEF Unlink, Known, Types
<1>2. s \in Sessions /\ (next[s] # NONE => next[s] \in Sessions /\ rank[s] < rank[next[s]])
  BY DEF Types, Chains, ChainRanks
<1>3. \A q \in live' : next'[q] = IF q = p THEN next[s] ELSE next[q]
  BY <1>1 DEF Unlink, Types
<1>4. \A q \in live' : next'[q] # NONE => rank[q] < rank[next'[q]]
  <2> TAKE q \in live'
  <2> HAVE next'[q] # NONE
  <2>1. CASE q = p
    <3>1. p # NONE /\ p \in Sessions /\ rank[p] < rank[s] /\ rank[s] < rank[next[s]]
      BY <1>1, <1>2, <1>3, <2>1 DEF Types
    <3> QED
      BY <1>2, <1>3, <2>1, <3>1
  <2>2. CASE q # p
    BY <1>1, <1>3, <2>2 DEF ChainRanks
  <2> QED
    BY <2>1, <2>2
<1> QED
  BY <1>1, <1>4 DEF ChainRanks

\* Where the sweep was led by p, nothing is cut off.
LEMMA UnlinkAttached ==
    ASSUME Types, Chains, NEW b, NEW s, NEW p, Fits(b, s, p), Unlink(b, s, p),
           b \notin raced' => IF p = NONE THEN head[b] = s ELSE next[p] = s,
           NEW c \in Buckets, c \notin raced', c \notin raced => Attached(c)
    PROVE  Attached(c)'
<1> USE TableAssumption DEF Fits
<1>1. live' = live \ {s} /\ Attached(c)
  BY DEF Unlink
<1>2. SUFFICES ASSUME NEW q \in live', Hash[q] = c
               PROVE  head'[c] = q \/ \E r \in live' : next'[r] = q
  BY DEF Attached
<1>3. \A r \in live' : next'[r] = IF r = p THEN next[s] ELSE next[r]
  BY <1>1 DEF Unlink, Types
<1>4. head'[c] = IF p = NONE /\ c = b THEN next[s] ELSE head[c]
  BY DEF Unlink, Types
<1>5. q \in live /\ q # s /\ q # NONE /\ p # s
  BY <1>1, <1>2 DEF Types
<1>6. CASE head[c] = q
  BY <1>4, <1>5, <1>6
<1>7. CASE \E r \in live : next[r] = q
  <2>1. PICK r \in live : next[r] = q /\ Hash[r] = c
    BY <1>2, <1>5, <1>7 DEF Chains
  <2>2. CASE r = s
    <3>1. c = b /\ next[s] = q
      BY <2>1, <2>2
    <3>2. p # NONE => p \in live' /\ next'[p] = q
      BY <1>1, <1>3, <3>1
    <3> QED
      BY <1>4, <3>1, <3>2
  <2>3. CASE r # s
    <3>1. r # p
      BY <1>5, <2>1 DEF Types
    <3> QED
      BY <1>1, <1>3, <2>1, <2>3, <3>1
  <2> QED
    BY <2>2, <2>3
<1> QED
  BY <1>1, <1>2, <1>5, <1>6, <1>7 DEF Attached

\* Nothing leads to the new record but what it is appended to.
LEMMA AppendChains ==
    ASSUME Types, Chains, Once, Unused, Appenders, NEW t \in Threads, AppendSession(t)
    PROVE  /\ Chains' /\ Once' /\ Unused'
           /\ Known' = Known \cup {self[t]} /\ live' = live \cup {self[t]}
<1> USE TableAssumption
<1> DEFINE s == self[t]
           b == bkt[t]
           c == cur[t]
<1>1. live' = live \cup {s} /\ Known' = Known \cup {s}
  BY DEF AppendSession, Known
<1>2. /\ s \in Sessions /\ s \notin Known /\ s \notin live /\ s # NONE /\ next[s] = NONE /\ Hash[s] = b
      /\ c # NONE => c \in Known /\ c \in Sessions /\ Hash[c] = b /\ c # s
      /\ live \subseteq Sessions /\ b \in Buckets
  BY DEF AppendSession, Appenders, Unused, Known, Types, Unlocked
<1>3. /\ \A q \in live : next[q] # s
      /\ \A d \in Buckets : head[d] # s
  BY <1>2 DEF Chains
<1>4. CASE c = NONE
  <2>1. head' = [head EXCEPT ![b] = s] /\ next' = next
    BY <1>4 DEF AppendSession
  <2>2. \A d \in Buckets : head'[d] = IF d = b THEN s ELSE head[d]
    BY <2>1, <1>2 DEF Types
  <2> HIDE DEF s, b, c
  <2>3. Chains'
    BY <1>1, <1>2, <2>1, <2>2 DEF Chains
  <2>4. Once'
    <3>1. \A q, r \in live' : next'[q] # NONE /\ next'[q] = next'[r] => q = r
      BY <1>1, <1>2, <2>1 DEF Once
    <3>2. \A q \in live' : next'[q] # NONE => head'[Hash[q]] # next'[q]
      BY <1>1, <1>2, <1>3, <2>1, <2>2 DEF Once
    <3> QED
      BY <3>1, <3>2 DEF Once
  <2>5. Unused'
    BY <1>1, <2>1 DEF Unused
  <2> QED
    BY <1>1, <2>3, <2>4, <2>5 DEF s
<1>5. CASE c # NONE
  <2>1. /\ head' = head
        /\ \A q \in Sessions : next'[q] = IF q = c THEN s ELSE next[q]
    BY <1>5 DEF AppendSession, Types
  <2> HIDE DEF s, b, c
  <2>3. Chains'
    BY <1>1, <1>2, <1>5, <2>1 DEF Chains
  <2>4. Once'
    <3>1. \A q, r \in live' : next'[q] # NONE /\ next'[q] = next'[r] => q = r
      BY <1>1, <1>2, <1>3, <1>5, <2>1 DEF Once
    <3>2. \A q \in live' : next'[q] # NONE => head'[Hash[q]] # next'[q]
      BY <1>1, <1>2, <1>3, <1>5, <2>1 DEF Once
    <3> QED
      BY <3>1, <3>2 DEF Once
  <2>5. Unused'
    BY <1>1, <1>2, <1>5, <2>1 DEF Unused
  <2> QED
    BY <1>1, <2>3, <2>4, <2>5 DEF s
<1> QED
  BY <1>4, <1>5

\* The new record gets the highest rank.
LEMMA AppendRanks ==
    ASSUME Types, Chains, Unused, Appenders, NEW t \in Threads, AppendSession(t),
           NEW rank \in [Sessions -> Nat], ChainRanks(rank)
    PROVE  \E high \in [Sessions -> Nat] :
              /\ ChainRanks(high)'
              /\ \A q \in Known : high[q] = rank[q]
<1> USE TableAssumption
<1> DEFINE s == self[t]
           high == [rank EXCEPT ![s] = Cardinality(Known) + 1]
<1>1. live' = live \cup {s} /\ Known' = Known \cup {s}
  BY DEF AppendSession, Known
<1>2. /\ s \in Sessions /\ s \notin Known /\ next[s] = NONE
      /\ cur[t] # NONE => cur[t] \in Known
      /\ live \subseteq Known /\ live \subseteq Sessions
  BY DEF AppendSession, Appenders, Unused, Known, Types, Unlocked
<1>3. /\ IsFiniteSet(Known) /\ Cardinality(Known) \in Nat
      /\ Cardinality(Known') = Cardinality(Known) + 1
  BY <1>1, <1>2, KnownCount, FS_AddElement
<1>4. high \in [Sessions -> Nat] /\ high[s] = Cardinality(Known) + 1
      /\ \A q \in Known : high[q] = rank[q] /\ q \in Sessions
  BY <1>2, <1>3, KnownCount
<1>5. \A q \in live : next'[q] = next[q] \/ (q = cur[t] /\ next'[q] = s)
  BY <1>2 DEF AppendSession, Types
<1>6. next'[s] = NONE
  BY <1>2 DEF AppendSession, Types
<1> HIDE DEF high, s
<1>7. \A q \in Known' : high[q] \in 1 .. Cardinality(Known')
  BY <1>1, <1>3, <1>4 DEF ChainRanks
<1>8. \A q \in live' : next'[q] # NONE => high[q] < high[next'[q]]
  <2> TAKE q \in live'
  <2> HAVE next'[q] # NONE
  <2>1. q \in live
    BY <1>1, <1>6
  <2>2. CASE next'[q] = next[q]
    <3>1. next[q] \in Known /\ rank[q] < rank[next[q]]
      BY <1>2, <2>1, <2>2 DEF Chains, ChainRanks
    <3> QED
      BY <1>2, <1>4, <2>1, <2>2, <3>1
  <2>3. CASE next'[q] = s
    BY <1>2, <1>3, <1>4, <2>1, <2>3 DEF ChainRanks
  <2> QED
    BY <1>5, <2>1, <2>2, <2>3
<1> QED
  BY <1>4, <1>7, <1>8 DEF ChainRanks

\* A creation that writes behind the last record cuts nothing off.
LEMMA AppendAttached ==
    ASSUME Types, Chains, Appenders, NEW t \in Threads, AppendSession(t),
           NEW d \in Buckets, Attached(d), AtTail(d)
    PROVE  Attached(d)'
<1> USE TableAssumption
<1> DEFINE s == self[t]
           c == cur[t]
<1>1. live' = live \cup {s}
  BY DEF AppendSession
<1>2. /\ s \in Sessions /\ s # NONE /\ Hash[s] = bkt[t] /\ live \subseteq Sessions
      /\ s \notin live /\ (c # NONE => c \in Sessions)
      /\ bkt[t] \in Buckets /\ NONE \notin live
  BY DEF AppendSession, Appenders, Known, Types, Ref, Unlocked
<1>3. bkt[t] = d => IF c = NONE THEN head[d] = NONE ELSE c \in live /\ next[c] = NONE
  BY DEF AppendSession, AtTail, OnWay, Creating, Unlocked
<1>4. CASE c = NONE
  <2>1. next' = next /\ head' = [head EXCEPT ![bkt[t]] = s]
    BY <1>4 DEF AppendSession
  <2>2. head'[d] = IF d = bkt[t] THEN s ELSE head[d]
    BY <1>2, <2>1 DEF Types
  <2> HIDE DEF s, c
  <2> QED
    BY <1>1, <1>2, <1>3, <1>4, <2>1, <2>2 DEF Attached
<1>5. CASE c # NONE
  <2>1. /\ head' = head
        /\ \A q \in Sessions : next'[q] = IF q = c THEN s ELSE next[q]
    BY <1>5 DEF AppendSession, Types
  <2> HIDE DEF s, c
  <2>2. SUFFICES ASSUME NEW q \in live', Hash[q] = d
                 PROVE  head'[d] = q \/ \E r \in live' : next'[r] = q
    BY DEF Attached
  <2>3. CASE q = s
    BY <1>1, <1>2, <1>3, <1>5, <2>1, <2>2, <2>3
  <2>4. CASE q \in live /\ head[d] = q
    BY <2>1, <2>4
  <2>5. CASE q \in live /\ \E r \in live : next[r] = q
    <3>1. PICK r \in live : next[r] = q
      BY <2>5
    <3>2. CASE r # c
      BY <1>1, <1>2, <2>1, <3>1, <3>2
    <3>3. CASE r = c
      <4>1. Hash[c] = d
        BY <1>2, <2>2, <2>5, <3>1, <3>3 DEF Chains
      <4>2. bkt[t] = d
        BY <4>1, <1>5 DEF AppendSession, Appenders, Unlocked, c
      <4> QED
        BY <1>2, <1>3, <1>5, <2>5, <3>1, <3>3, <4>2
    <3> QED
      BY <3>2, <3>3
  <2> QED
    BY <1>1, <2>2, <2>3, <2>4, <2>5 DEF Attached
<1> QED
  BY <1>4, <1>5

-----------------------------------------------------------------------------
(* The steps.                                                              *)

\* A thread that neither sweeps nor creates leaves the chains alone.
LEMMA QuietStep ==
    ASSUME Types, Sound, NEW t \in Threads, NEW l \in PCs, pc' = [pc EXCEPT ![t] = l],
           {l, pc[t]} \cap ({"sweep"} \cup Unlocked) = {},
           UNCHANGED <<head, next, live, freed, lock, raced>>,
           \A u \in Threads : u # t => UNCHANGED <<self[u], bkt[u], cur[u], par[u]>>
    PROVE  Sound'
<1>1. /\ pc'[t] = l /\ l \notin {"sweep"} \cup Unlocked /\ pc[t] \notin {"sweep"} \cup Unlocked
      /\ \A u \in Threads : u # t => UNCHANGED <<pc[u], self[u], bkt[u], cur[u], par[u]>>
  BY DEF Types
<1>2. Locked'
  BY <1>1 DEF Sound, Locked
<1>3. Chains' /\ Once' /\ Unused'
  BY DEF Sound, Chains, Once, Unused, Known
<1>4. Ranked'
  <2>1. PICK rank \in [Sessions -> Nat] : ChainRanks(rank) /\ SweepRanks(rank)
    BY DEF Sound, Ranked
  <2>2. ChainRanks(rank)' /\ SweepRanks(rank)'
    BY <1>1, <2>1 DEF ChainRanks, SweepRanks, Known
  <2> QED
    BY <2>2 DEF Ranked
<1>5. Sweepers'
  BY <1>1 DEF Sound, Sweepers
<1>6. Appenders'
  BY <1>1 DEF Sound, Appenders, Known
<1>7. LossInv'
  BY <1>1 DEF Sound, LossInv, Attached, AtTail, OnWay, Led, Creating
<1> QED
  BY <1>2, <1>3, <1>4, <1>5, <1>6, <1>7 DEF Sound

LEMMA SweepBucketStep ==
    ASSUME Types, Sound, NEW t \in Threads, SweepBucket(t)
    PROVE  Sound'
<1> USE TableAssumption
<1> DEFINE b == bkt[t]
<1>1. /\ pc[t] = "bucket" /\ lock[b] = NONE /\ lock' = [lock EXCEPT ![b] = t]
      /\ UNCHANGED <<head, next, live, freed, raced, self>> /\ b \in Buckets
      /\ pc'[t] = "sweep" /\ bkt'[t] = b /\ cur'[t] = head[b] /\ par'[t] = NONE
      /\ \A u \in Threads : u # t => UNCHANGED <<pc[u], self[u], bkt[u], cur[u], par[u]>>
  BY DEF SweepBucket, Walk, Goto, store, Types
<1> HIDE DEF b
<1>2. Locked'
  <2>1. \A d \in Buckets : lock'[d] = IF d = b THEN t ELSE lock[d]
    BY <1>1 DEF Types
  <2> QED
    BY <1>1, <2>1 DEF Sound, Locked
<1>3. Chains' /\ Once' /\ Unused'
  BY <1>1 DEF Sound, Chains, Once, Unused, Known
<1>4. Ranked'
  <2>1. PICK rank \in [Sessions -> Nat] : ChainRanks(rank) /\ SweepRanks(rank)
    BY DEF Sound, Ranked
  <2>2. ChainRanks(rank)' /\ SweepRanks(rank)'
    BY <1>1, <2>1 DEF ChainRanks, SweepRanks, Known
  <2> QED
    BY <2>2 DEF Ranked
<1>5. Sweepers'
  <2>1. head[b] # NONE => head[b] \in live /\ Hash[head[b]] = b /\ \A q \in live : next[q] # head[b]
    BY <1>1 DEF Sound, Chains, Once
  <2> QED
    BY <1>1, <2>1 DEF Sound, Sweepers
<1>6. Appenders'
  BY <1>1 DEF Sound, Appenders, Known, Unlocked
<1>7. LossInv'
  BY <1>1 DEF Sound, LossInv, Attached, AtTail, OnWay, Led, Creating, Unlocked
<1> QED
  BY <1>2, <1>3, <1>4, <1>5, <1>6, <1>7 DEF Sound

LEMMA SweepKeepStep ==
    ASSUME Types, Sound, NEW t \in Threads, SweepKeep(t)
    PROVE  Sound'
<1> USE TableAssumption
<1>1. /\ pc[t] = "sweep" /\ cur[t] # NONE /\ pc' = pc
      /\ UNCHANGED <<head, next, live, freed, raced, self, lock>>
      /\ bkt'[t] = bkt[t] /\ cur'[t] = next[cur[t]] /\ par'[t] = cur[t]
      /\ \A u \in Threads : u # t => UNCHANGED <<pc[u], self[u], bkt[u], cur[u], par[u]>>
  BY DEF SweepKeep, Walk, store, Types
<1>2. cur[t] \in live /\ Hash[cur[t]] = bkt[t] /\ bkt[t] \in Buckets
  BY <1>1 DEF Sound, Sweepers, Types
<1>3. Locked'
  BY <1>1 DEF Sound, Locked
<1>4. Chains' /\ Once' /\ Unused'
  BY <1>1 DEF Sound, Chains, Once, Unused, Known
<1>5. Ranked'
  <2>1. PICK rank \in [Sessions -> Nat] : ChainRanks(rank) /\ SweepRanks(rank)
    BY DEF Sound, Ranked
  <2>2. ChainRanks(rank)'
    BY <1>1, <2>1 DEF ChainRanks, Known
  <2>3. SweepRanks(rank)'
    BY <1>1, <1>2, <2>1 DEF ChainRanks, SweepRanks
  <2> QED
    BY <2>2, <2>3 DEF Ranked
<1>6. Sweepers'
  <2>1. next[cur[t]] # NONE =>
          /\ next[cur[t]] \in live /\ Hash[next[cur[t]]] = bkt[t]
          /\ \A q \in live : next[q] = next[cur[t]] => q = cur[t]
          /\ head[bkt[t]] # next[cur[t]]
    BY <1>2 DEF Sound, Chains, Once
  <2> QED
    BY <1>1, <1>2, <2>1 DEF Sound, Sweepers
<1>7. Appenders'
  BY <1>1 DEF Sound, Appenders, Known, Unlocked
<1>8. LossInv'
  BY <1>1 DEF Sound, LossInv, Attached, AtTail, OnWay, Led, Creating, Unlocked
<1> QED
  BY <1>3, <1>4, <1>5, <1>6, <1>7, <1>8 DEF Sound

LEMMA SweepUnlockStep ==
    ASSUME Types, Sound, NEW t \in Threads, SweepUnlock(t)
    PROVE  Sound'
<1> USE TableAssumption
<1> DEFINE b == bkt[t]
<1>1. /\ pc[t] = "sweep" /\ lock' = [lock EXCEPT ![b] = NONE] /\ b \in Buckets
      /\ UNCHANGED <<head, next, live, freed, raced, self>>
      /\ pc'[t] \in {"bucket", "find"}
      /\ \A u \in Threads : u # t => UNCHANGED <<pc[u], self[u], bkt[u], cur[u], par[u]>>
  BY DEF SweepUnlock, EndWalk, Walk, Goto, store, Types
<1>2. Locked'
  <2>1. \A d \in Buckets : lock'[d] = IF d = b THEN NONE ELSE lock[d]
    BY <1>1 DEF Types
  <2>2. lock[b] = t
    BY <1>1 DEF Sound, Locked
  <2> HIDE DEF b
  <2>3. \A d \in Buckets, u \in Threads : lock[d] = u <=> pc[u] = "sweep" /\ bkt[u] = d
    BY DEF Sound, Locked
  <2>4. bkt[t] = b
    BY DEF b
  <2> QED
    BY <1>1, <2>1, <2>2, <2>3, <2>4 DEF Locked
<1> HIDE DEF b
<1>3. Chains' /\ Once' /\ Unused'
  BY <1>1 DEF Sound, Chains, Once, Unused, Known
<1>4. Ranked'
  <2>1. PICK rank \in [Sessions -> Nat] : ChainRanks(rank) /\ SweepRanks(rank)
    BY DEF Sound, Ranked
  <2>2. ChainRanks(rank)' /\ SweepRanks(rank)'
    BY <1>1, <2>1 DEF ChainRanks, SweepRanks, Known
  <2> QED
    BY <2>2 DEF Ranked
<1>5. Sweepers'
  BY <1>1 DEF Sound, Sweepers
<1>6. Appenders'
  BY <1>1 DEF Sound, Appenders, Known, Unlocked
<1>7. LossInv'
  BY <1>1 DEF Sound, LossInv, Attached, AtTail, OnWay, Led, Creating, Unlocked
<1> QED
  BY <1>2, <1>3, <1>4, <1>5, <1>6, <1>7 DEF Sound

\* t deletes record s of bucket b, whose predecessor is p: on its sweep, or in a
\* bucket where nobody sweeps.
LEMMA DeleteStep ==
    ASSUME Types, Sound, NEW t \in Threads, NEW b, NEW s, NEW p \in Ref,
           Fits(b, s, p), Unlink(b, s, p), UNCHANGED lock,
           \A rank \in [Sessions -> Nat] : ChainRanks(rank) /\ SweepRanks(rank)
                                             => (p # NONE => rank[p] < rank[s]),
           b \notin raced' => IF p = NONE THEN head[b] = s ELSE next[p] = s,
           \A u \in Threads : u # t => UNCHANGED <<pc[u], self[u], bkt[u], cur[u], par[u]>>,
           \A u \in Threads : u # t /\ pc[u] = "sweep" => bkt[u] # b,
           pc[t] \notin Unlocked, pc'[t] \notin Unlocked,
           \/ pc[t] # "sweep" /\ pc'[t] # "sweep"
           \/ /\ pc[t] = "sweep" /\ pc'[t] = "sweep" /\ bkt[t] = b /\ bkt'[t] = b
              /\ par'[t] = p /\ cur'[t] = next[s]
    PROVE  Sound'
<1> USE TableAssumption
<1>1. Chains' /\ Once' /\ Unused' /\ Known' = Known /\ live' = live \ {s}
  BY UnlinkChains DEF Sound
<1>2. Locked'
  BY DEF Sound, Locked
<1>3. /\ s \in live /\ Hash[s] = b /\ b \in Buckets /\ live \subseteq Sessions /\ NONE \notin live
      /\ p # NONE => p \in live /\ Hash[p] = b /\ p # s
  BY DEF Fits, Types
<1>4. /\ \A q \in live : next'[q] = IF q = p THEN next[s] ELSE next[q]
      /\ \A d \in Buckets : head'[d] = IF p = NONE /\ d = b THEN next[s] ELSE head[d]
  BY <1>3 DEF Unlink, Types
<1>5. next[s] # NONE => /\ next[s] \in live /\ next[s] # s /\ Hash[next[s]] = b
                       /\ \A q \in live : next[q] = next[s] => q = s
                       /\ head[b] # next[s]
  <2>1. next[s] # s
    BY <1>3 DEF Fits
  <2> QED
    BY <1>3, <2>1 DEF Sound, Chains, Once
<1>6. Ranked'
  <2>1. PICK rank \in [Sessions -> Nat] : ChainRanks(rank) /\ SweepRanks(rank)
    BY DEF Sound, Ranked
  <2>2. p # NONE => rank[p] < rank[s]
    BY <2>1
  <2>3. ChainRanks(rank)'
    BY <2>1, <2>2, UnlinkRanks DEF Sound
  <2>4. SweepRanks(rank)'
    <3>1. SUFFICES ASSUME NEW u \in Threads, pc'[u] = "sweep", cur'[u] # NONE, par'[u] # NONE
                   PROVE  rank[par'[u]] < rank[cur'[u]]
      BY DEF SweepRanks
    <3>2. CASE u # t
      BY <2>1, <3>1, <3>2 DEF SweepRanks
    <3>3. CASE u = t
      <4>1. par'[u] = p /\ cur'[u] = next[s] /\ p # NONE /\ next[s] # NONE
        BY <3>1, <3>3
      <4>2. rank[p] < rank[s] /\ rank[s] < rank[next[s]]
        BY <2>1, <2>2, <4>1, <1>3 DEF ChainRanks
      <4>3. rank[p] \in Nat /\ rank[s] \in Nat /\ rank[next[s]] \in Nat
        BY <1>3, <1>5, <4>1
      <4> QED
        BY <4>1, <4>2, <4>3
    <3> QED
      BY <3>2, <3>3
  <2> QED
    BY <2>3, <2>4 DEF Ranked
<1>7. Sweepers'
  <2>1. SUFFICES ASSUME NEW u \in Threads, pc'[u] = "sweep"
                 PROVE  /\ par'[u] # NONE => par'[u] \in live' /\ Hash[par'[u]] = bkt'[u]
                        /\ cur'[u] # NONE =>
                              /\ cur'[u] \in live' /\ Hash[cur'[u]] = bkt'[u]
                              /\ \A q \in live' : next'[q] = cur'[u] => q = par'[u]
                              /\ head'[bkt'[u]] = cur'[u] => par'[u] = NONE
    BY DEF Sweepers
  <2>2. CASE u = t
    BY <2>1, <2>2, <1>1, <1>3, <1>4, <1>5
  <2>3. CASE u # t
    <3>1. /\ pc[u] = "sweep" /\ UNCHANGED <<bkt[u], cur[u], par[u]>> /\ bkt[u] # b
          /\ bkt[u] \in Buckets
      BY <2>1, <2>3 DEF Types
    <3>2. /\ par[u] # NONE => par[u] \in live /\ Hash[par[u]] = bkt[u]
          /\ cur[u] # NONE =>
                /\ cur[u] \in live /\ Hash[cur[u]] = bkt[u]
                /\ \A q \in live : next[q] = cur[u] => q = par[u]
                /\ head[bkt[u]] = cur[u] => par[u] = NONE
      BY <3>1 DEF Sound, Sweepers
    <3>3. cur[u] # NONE => \A q \in live' : next'[q] = cur[u] => q = par[u]
      BY <1>1, <1>3, <1>4, <1>5, <3>1, <3>2
    <3> QED
      BY <1>1, <1>3, <1>4, <3>1, <3>2, <3>3
  <2> QED
    BY <2>2, <2>3
<1>8. Appenders'
  BY <1>1 DEF Sound, Appenders
<1>9. LossInv'
  <2>1. SUFFICES ASSUME NEW d \in Buckets, d \notin raced'
                 PROVE  Attached(d)' /\ AtTail(d)' /\ Led(d)'
    BY DEF LossInv
  <2>2. Attached(d) /\ AtTail(d) /\ Led(d)
    BY <2>1 DEF Sound, LossInv, Unlink
  <2>3. Attached(d)'
    BY <2>1, <2>2, UnlinkAttached DEF Sound
  <2>4. AtTail(d)'
    <3>1. \A u \in Threads : Creating(u, d)' <=> Creating(u, d)
      BY DEF Creating
    <3>2. CASE d = b
      BY <2>1, <3>1, <3>2 DEF Unlink, AtTail
    <3>3. CASE d # b
      <4>1. SUFFICES ASSUME NEW u \in Threads, Creating(u, d) PROVE OnWay(u, d)'
        BY <2>2, <3>1 DEF AtTail
      <4>2. u # t /\ cur'[u] = cur[u] /\ pc'[u] = pc[u] /\ (cur[u] # NONE => Hash[cur[u]] = d)
        BY <4>1 DEF Creating, Sound, Appenders
      <4>3. OnWay(u, d)
        BY <2>2, <4>1 DEF AtTail
      <4>4. CASE cur[u] = NONE
        BY <1>4, <3>3, <4>2, <4>3, <4>4 DEF OnWay
      <4>5. CASE cur[u] # NONE
        <5>1. cur[u] \in live /\ cur[u] # s /\ cur[u] # p
          BY <1>3, <3>3, <4>2, <4>3, <4>5 DEF OnWay
        <5> QED
          BY <1>1, <1>4, <4>2, <4>3, <4>5, <5>1 DEF OnWay
      <4> QED
        BY <4>4, <4>5
    <3> QED
      BY <3>2, <3>3
  <2>5. Led(d)'
    <3>1. SUFFICES ASSUME NEW u \in Threads, pc'[u] = "sweep", bkt'[u] = d, cur'[u] # NONE
                   PROVE  IF par'[u] = NONE THEN head'[d] = cur'[u] ELSE next'[par'[u]] = cur'[u]
      BY DEF Led
    <3>2. CASE u = t
      BY <3>1, <3>2, <1>3, <1>4
    <3>3. CASE u # t
      <4>1. pc[u] = "sweep" /\ bkt[u] = d /\ d # b /\ UNCHANGED <<cur[u], par[u]>>
        BY <3>1, <3>3
      <4>2. par[u] # NONE => par[u] \in live /\ Hash[par[u]] = d
        BY <4>1 DEF Sound, Sweepers
      <4> QED
        BY <1>3, <1>4, <2>2, <3>1, <4>1, <4>2 DEF Led
    <3> QED
      BY <3>2, <3>3
  <2> QED
    BY <2>3, <2>4, <2>5
<1> QED
  BY <1>1, <1>2, <1>6, <1>7, <1>8, <1>9 DEF Sound

LEMMA SweepDeleteStep ==
    ASSUME Types, Sound, NEW t \in Threads, SweepDelete(t)
    PROVE  Sound'
<1> USE TableAssumption
<1> DEFINE b == bkt[t]
           s == cur[t]
           p == par[t]
<1>1. /\ pc[t] = "sweep" /\ s # NONE /\ Unlink(b, s, p) /\ UNCHANGED <<lock, pc, self>>
      /\ bkt'[t] = b /\ cur'[t] = next[s] /\ par'[t] = p
      /\ \A u \in Threads : u # t => UNCHANGED <<pc[u], self[u], bkt[u], cur[u], par[u]>>
  BY DEF SweepDelete, Walk, Types
<1>2. b \in Buckets /\ p \in Ref
  BY DEF Types
<1>3. \A rank \in [Sessions -> Nat] : SweepRanks(rank) => (p # NONE => rank[p] < rank[s])
  BY <1>1 DEF SweepRanks
<1>4. p # NONE => p # s
  <2>1. PICK rank \in [Sessions -> Nat] : SweepRanks(rank)
    BY DEF Sound, Ranked
  <2> QED
    BY <1>1, <1>2, <1>3, <2>1 DEF Ref
<1>5. Fits(b, s, p)
  BY <1>1, <1>2, <1>4 DEF Fits, Sound, Sweepers
<1>6. b \notin raced' => IF p = NONE THEN head[b] = s ELSE next[p] = s
  BY <1>1, <1>2 DEF Unlink, Sound, LossInv, Led
<1>7. \A u \in Threads : u # t /\ pc[u] = "sweep" => bkt[u] # b
  BY <1>1, <1>2 DEF Sound, Locked
<1>8. bkt[t] = b /\ pc'[t] = "sweep" /\ pc[t] \notin Unlocked /\ pc'[t] \notin Unlocked
  BY <1>1 DEF Unlocked
<1> HIDE DEF b, s, p
<1> QED
  BY <1>1, <1>2, <1>3, <1>5, <1>6, <1>7, <1>8, DeleteStep

\* Found expired: the predecessor is looked up in the chain, where it is the only
\* one.
LEMMA FoundExpiredFits ==
    ASSUME Types, Sound, NEW t \in Threads, FoundExpired(t)
    PROVE  \E b \in Buckets, s \in Sessions, p \in Ref :
              /\ s = sid[t] /\ Fits(b, s, p) /\ Unlink(b, s, p)
              /\ \A u \in Threads : pc[u] = "sweep" => bkt[u] # b
              /\ IF p = NONE THEN head[b] = s ELSE next[p] = s
<1> USE TableAssumption
<1> DEFINE s == sid[t]
           b == Hash[s]
           before == {q \in Linked(b) : next[q] = s}
           p == IF before = {} THEN NONE ELSE CHOOSE q \in before : TRUE
<1>1. /\ lock[b] = NONE /\ s \in Linked(b) /\ s \in Sessions /\ Unlink(b, s, p)
  BY DEF FoundExpired, Reaches, Types, Ref
<1>2. b \in Buckets
  BY <1>1
<1>3. /\ \A q \in Linked(b) : q \in live /\ Hash[q] = b /\ q # NONE
      /\ head[b] = s \/ before # {}
  BY <1>1, <1>2, WholeChain DEF Sound, Types
<1>4. IF p = NONE THEN head[b] = s /\ before = {} ELSE p \in before
  BY <1>3
<1>5. s \in live /\ (p # NONE => p \in live /\ Hash[p] = b /\ next[p] = s) /\ p \in Ref
  BY <1>1, <1>3, <1>4 DEF Types, Ref
<1> HIDE DEF p, before
<1>6. \A q \in live : next[q] = s => q = p
  BY <1>1, <1>3, <1>4, <1>5 DEF Sound, Once, Chains
<1>7. head[b] = s => p = NONE
  BY <1>1, <1>5 DEF Sound, Once
<1>8. p # NONE => p # s
  <2>1. PICK rank \in [Sessions -> Nat] : ChainRanks(rank)
    BY DEF Sound, Ranked
  <2> QED
    BY <1>1, <1>5, <2>1 DEF ChainRanks
<1>9. Fits(b, s, p)
  BY <1>1, <1>2, <1>5, <1>6, <1>7, <1>8 DEF Fits
<1>10. \A u \in Threads : pc[u] = "sweep" => bkt[u] # b
  BY <1>1, <1>2 DEF Sound, Locked
<1>11. IF p = NONE THEN head[b] = s ELSE next[p] = s
  BY <1>4, <1>5
<1> HIDE DEF b
<1> QED
  BY <1>1, <1>2, <1>5, <1>9, <1>10, <1>11

LEMMA FoundExpiredStep ==
    ASSUME Types, Sound, NEW t \in Threads, FoundExpired(t)
    PROVE  Sound'
<1>1. PICK b \in Buckets, s \in Sessions, p \in Ref :
        /\ Fits(b, s, p) /\ Unlink(b, s, p)
        /\ \A u \in Threads : pc[u] = "sweep" => bkt[u] # b
        /\ IF p = NONE THEN head[b] = s ELSE next[p] = s
  BY FoundExpiredFits
<1>2. /\ pc[t] = "find" /\ UNCHANGED <<lock, bkt, cur, par>> /\ pc'[t] = "limit"
      /\ pc[t] \notin Unlocked /\ pc'[t] \notin Unlocked
      /\ \A u \in Threads : u # t => UNCHANGED <<pc[u], self[u], bkt[u], cur[u], par[u]>>
  BY DEF FoundExpired, FindReturns, Goto, walk, Types, Unlocked
<1>3. \A rank \in [Sessions -> Nat] : ChainRanks(rank) => (p # NONE => rank[p] < rank[s])
  BY <1>1, TableAssumption DEF ChainRanks, Fits
<1> QED
  BY <1>1, <1>2, <1>3, DeleteStep

LEMMA CreateIdStep ==
    ASSUME Types, Sound, NEW t \in Threads, CreateId(t)
    PROVE  Sound'
<1> USE TableAssumption
<1>1. PICK s \in Sessions \ Known :
        /\ \A u \in Threads : self[u] # s
        /\ self' = [self EXCEPT ![t] = s] /\ Walk(t, Hash[s], NONE, NONE)
        /\ raced' = IF \E u \in Threads : Creating(u, Hash[s]) THEN raced \cup {Hash[s]} ELSE raced
  BY DEF CreateId, Known
<1> DEFINE b == Hash[s]
<1>2. b \in Buckets
  OBVIOUS
<1>3. /\ pc[t] = "limit" /\ UNCHANGED <<head, next, live, freed, lock>> /\ Known' = Known
      /\ pc'[t] = "first" /\ self'[t] = s /\ bkt'[t] = b /\ cur'[t] = NONE /\ par'[t] = NONE
      /\ \A u \in Threads : u # t => UNCHANGED <<pc[u], self[u], bkt[u], cur[u], par[u]>>
  BY <1>1 DEF CreateId, Walk, Goto, store, Types, Known
<1>4. Locked'
  BY <1>3 DEF Sound, Locked
<1>5. Chains' /\ Once' /\ Unused'
  BY <1>3 DEF Sound, Chains, Once, Unused
<1>6. Ranked'
  <2>1. PICK rank \in [Sessions -> Nat] : ChainRanks(rank) /\ SweepRanks(rank)
    BY DEF Sound, Ranked
  <2>2. ChainRanks(rank)' /\ SweepRanks(rank)'
    BY <1>3, <2>1 DEF ChainRanks, SweepRanks
  <2> QED
    BY <2>2 DEF Ranked
<1>7. Sweepers'
  BY <1>3 DEF Sound, Sweepers
<1>8. Appenders'
  BY <1>1, <1>2, <1>3 DEF Sound, Appenders, Known
<1>9. LossInv'
  <2>1. SUFFICES ASSUME NEW d \in Buckets, d \notin raced'
                 PROVE  Attached(d)' /\ AtTail(d)' /\ Led(d)'
    BY DEF LossInv
  <2>2. Attached(d) /\ AtTail(d) /\ Led(d)
    BY <1>1, <2>1 DEF Sound, LossInv
  <2>3. Attached(d)' /\ Led(d)'
    BY <1>3, <2>2 DEF Attached, Led
  <2>4. AtTail(d)'
    <3>1. \A u \in Threads : u # t => /\ Creating(u, d)' <=> Creating(u, d)
                                      /\ OnWay(u, d)' <=> OnWay(u, d)
      BY <1>3 DEF Creating, OnWay
    <3>2. CASE d = b
      <4>1. \A u \in Threads : ~Creating(u, d)
        BY <1>1, <2>1, <3>2
      <4>2. OnWay(t, d)'
        BY <1>3 DEF OnWay
      <4> QED
        BY <3>1, <4>1, <4>2 DEF AtTail
    <3>3. CASE d # b
      <4>1. ~Creating(t, d)'
        BY <1>3, <3>3 DEF Creating
      <4> QED
        BY <2>2, <3>1, <4>1 DEF AtTail
    <3> QED
      BY <3>2, <3>3
  <2> QED
    BY <2>3, <2>4
<1> QED
  BY <1>4, <1>5, <1>6, <1>7, <1>8, <1>9 DEF Sound

\* The walk to the end of a chain leaves it alone, and keeps to live records in a
\* bucket where no creation overlapped a change.
LEMMA TailWalkStep ==
    ASSUME Types, Sound, NEW t \in Threads, ReadHead(t) \/ TailTest(t) \/ TailStep(t)
    PROVE  Sound'
<1> USE TableAssumption
<1>1. /\ UNCHANGED <<head, next, live, freed, lock, self, raced>> /\ Known' = Known
      /\ pc[t] \in Unlocked /\ pc'[t] \in Unlocked /\ bkt'[t] = bkt[t]
      /\ \A u \in Threads : u # t => UNCHANGED <<pc[u], bkt[u], cur[u], par[u]>>
  BY DEF ReadHead, TailTest, TailStep, Walk, Goto, store, walk, Types, Known, Unlocked
<1>2. /\ "sweep" \notin Unlocked /\ bkt[t] \in Buckets /\ NONE \notin Known
      /\ live \subseteq Known /\ Known \subseteq Sessions /\ Known = live \cup freed
  BY DEF Unlocked, Types, Known
<1>3. /\ cur[t] # NONE => cur[t] \in Known /\ Hash[cur[t]] = bkt[t]
  BY <1>1 DEF Sound, Appenders
<1>4. cur'[t] # NONE => cur'[t] \in Known /\ Hash[cur'[t]] = bkt[t]
  <2>1. CASE ReadHead(t)
    <3>1. cur'[t] = head[bkt[t]]
      BY <2>1 DEF ReadHead, Walk, Types
    <3> QED
      BY <1>2, <3>1 DEF Sound, Chains
  <2>2. CASE TailTest(t)
    BY <1>3, <2>2 DEF TailTest, walk
  <2>3. CASE TailStep(t)
    <3>1. cur'[t] = next[cur[t]] /\ cur[t] \notin freed /\ cur[t] # NONE
      BY <1>1, <2>3 DEF TailStep, Walk, Types, Sound, Appenders
    <3> QED
      BY <1>2, <1>3, <3>1 DEF Sound, Chains
  <2> QED
    BY <2>1, <2>2, <2>3
<1>5. Locked' /\ Chains' /\ Once' /\ Unused' /\ Sweepers'
  BY <1>1, <1>2 DEF Sound, Locked, Chains, Once, Unused, Sweepers
<1>6. Ranked'
  <2>1. PICK rank \in [Sessions -> Nat] : ChainRanks(rank) /\ SweepRanks(rank)
    BY DEF Sound, Ranked
  <2>2. ChainRanks(rank)'
    BY <1>1, <2>1 DEF ChainRanks
  <2>3. \A u \in Threads : pc'[u] = "sweep" => u # t /\ pc[u] = "sweep"
    BY <1>1, <1>2
  <2>4. SweepRanks(rank)'
    BY <1>1, <2>1, <2>3 DEF SweepRanks
  <2> QED
    BY <2>2, <2>4 DEF Ranked
<1>7. Appenders'
  <2>1. pc'[t] = "along" => cur'[t] # NONE
    BY DEF ReadHead, TailTest, TailStep, Goto, walk, Types
  <2> QED
    BY <1>1, <1>4, <2>1 DEF Sound, Appenders
<1>8. LossInv'
  <2>1. SUFFICES ASSUME NEW d \in Buckets, d \notin raced
                 PROVE  Attached(d)' /\ AtTail(d)' /\ Led(d)'
    BY <1>1 DEF LossInv
  <2>2. Attached(d) /\ AtTail(d) /\ Led(d)
    BY <2>1 DEF Sound, LossInv
  <2>3. Attached(d)' /\ Led(d)'
    BY <1>1, <1>2, <2>2 DEF Attached, Led
  <2>4. \A u \in Threads : /\ Creating(u, d)' <=> Creating(u, d)
                           /\ u # t => (OnWay(u, d)' <=> OnWay(u, d))
    BY <1>1 DEF Creating, OnWay
  <2>5. Creating(t, d) => OnWay(t, d)'
    <3>1. SUFFICES ASSUME Creating(t, d) PROVE OnWay(t, d)'
      OBVIOUS
    <3>2. OnWay(t, d) /\ bkt[t] = d
      BY <2>2, <3>1 DEF AtTail, Creating
    <3>3. CASE ReadHead(t)
      <4>1. cur'[t] = head[d] /\ pc'[t] = "tail"
        BY <3>2, <3>3 DEF ReadHead, Walk, Goto, Types
      <4> QED
        BY <1>1, <4>1 DEF OnWay, Sound, Chains
    <3>4. CASE TailTest(t)
      <4>1. /\ cur'[t] = cur[t] /\ pc[t] = "tail"
            /\ pc'[t] = IF cur[t] = NONE \/ next[cur[t]] = NONE THEN "append" ELSE "along"
        BY <3>4 DEF TailTest, walk, Goto, Types
      <4> QED
        BY <1>1, <3>2, <4>1 DEF OnWay
    <3>5. CASE TailStep(t)
      <4>1. cur'[t] = next[cur[t]] /\ pc[t] = "along" /\ pc'[t] = "tail"
        BY <3>5 DEF TailStep, Walk, Goto, Types
      <4>2. cur[t] \in live /\ next[cur[t]] # NONE
        BY <3>2, <4>1 DEF OnWay
      <4> QED
        BY <1>1, <4>1, <4>2 DEF OnWay, Sound, Chains
    <3> QED
      BY <3>3, <3>4, <3>5
  <2>6. AtTail(d)'
    BY <2>2, <2>4, <2>5 DEF AtTail
  <2> QED
    BY <2>3, <2>6
<1> QED
  BY <1>5, <1>6, <1>7, <1>8 DEF Sound

LEMMA AppendStep ==
    ASSUME Types, Sound, NEW t \in Threads, AppendSession(t)
    PROVE  Sound'
<1> USE TableAssumption
<1> DEFINE s == self[t]
           b == bkt[t]
           c == cur[t]
<1>1. Chains' /\ Once' /\ Unused' /\ Known' = Known \cup {s} /\ live' = live \cup {s}
  BY AppendChains DEF Sound
<1>2. /\ s \in Sessions \ Known /\ s \notin live /\ s # NONE /\ next[s] = NONE /\ Hash[s] = b
      /\ c # NONE => c \in Known /\ c \in Sessions /\ Hash[c] = b /\ c # s
      /\ \A u \in Threads : u # t /\ pc[u] \in Unlocked => self[u] # s
      /\ live \subseteq Sessions /\ NONE \notin live /\ b \in Buckets
  BY DEF AppendSession, Sound, Appenders, Unused, Known, Types, Unlocked
<1>3. /\ pc[t] = "append" /\ pc'[t] = "serve" /\ UNCHANGED <<lock, raced, self>>
      /\ \A u \in Threads : u # t => UNCHANGED <<pc[u], bkt[u], cur[u], par[u]>>
  BY DEF AppendSession, EndWalk, Walk, Goto, Types
<1>4. /\ \A q \in Sessions : next'[q] = IF q = c THEN s ELSE next[q]
      /\ \A d \in Buckets : head'[d] = IF c = NONE /\ d = b THEN s ELSE head[d]
  BY <1>2 DEF AppendSession, Types
<1> HIDE DEF s, b, c
<1>5. Locked'
  BY <1>3 DEF Sound, Locked
<1>6. Ranked'
  <2>1. PICK rank \in [Sessions -> Nat] : ChainRanks(rank) /\ SweepRanks(rank)
    BY DEF Sound, Ranked
  <2>2. PICK high \in [Sessions -> Nat] : ChainRanks(high)' /\ \A q \in Known : high[q] = rank[q]
    BY <2>1, AppendRanks DEF Sound
  <2>3. \A u \in Threads : pc[u] = "sweep" /\ cur[u] # NONE /\ par[u] # NONE
                             => cur[u] \in Known /\ par[u] \in Known
    BY DEF Sound, Sweepers, Known
  <2>4. SweepRanks(high)'
    BY <1>3, <2>1, <2>2, <2>3 DEF SweepRanks
  <2> QED
    BY <2>2, <2>4 DEF Ranked
<1>7. Sweepers'
  <2>1. SUFFICES ASSUME NEW u \in Threads, pc'[u] = "sweep"
                 PROVE  /\ par'[u] # NONE => par'[u] \in live' /\ Hash[par'[u]] = bkt'[u]
                        /\ cur'[u] # NONE =>
                              /\ cur'[u] \in live' /\ Hash[cur'[u]] = bkt'[u]
                              /\ \A q \in live' : next'[q] = cur'[u] => q = par'[u]
                              /\ head'[bkt'[u]] = cur'[u] => par'[u] = NONE
    BY DEF Sweepers
  <2>2. /\ u # t /\ pc[u] = "sweep" /\ UNCHANGED <<bkt[u], cur[u], par[u]>> /\ bkt[u] \in Buckets
    BY <1>3, <2>1 DEF Types
  <2>3. /\ par[u] # NONE => par[u] \in live /\ Hash[par[u]] = bkt[u]
        /\ cur[u] # NONE =>
              /\ cur[u] \in live /\ Hash[cur[u]] = bkt[u]
              /\ \A q \in live : next[q] = cur[u] => q = par[u]
              /\ head[bkt[u]] = cur[u] => par[u] = NONE
    BY <2>2 DEF Sound, Sweepers
  <2>4. cur[u] # NONE => \A q \in live' : next'[q] = cur[u] => q = par[u]
    BY <1>1, <1>2, <1>4, <2>3
  <2> QED
    BY <1>1, <1>2, <1>4, <2>2, <2>3, <2>4
<1>8. Appenders'
  BY <1>1, <1>2, <1>3 DEF Sound, Appenders, Unlocked
<1>9. LossInv'
  <2>1. SUFFICES ASSUME NEW d \in Buckets, d \notin raced'
                 PROVE  Attached(d)' /\ AtTail(d)' /\ Led(d)'
    BY DEF LossInv
  <2>2. Attached(d) /\ AtTail(d) /\ Led(d)
    BY <1>3, <2>1 DEF Sound, LossInv
  <2>3. Attached(d)'
    BY <2>2, AppendAttached DEF Sound
  <2>4. Creating(t, b) /\ ~Creating(t, d)'
    BY <1>3 DEF Creating, Unlocked, b
  <2>5. AtTail(d)'
    <3>1. \A u \in Threads : u # t => (Creating(u, d)' <=> Creating(u, d))
      BY <1>3 DEF Creating
    <3>2. CASE d = b
      <4>1. \A u \in Threads : ~Creating(u, d)'
        BY <2>2, <2>4, <3>1, <3>2 DEF AtTail
      <4> QED
        BY <4>1 DEF AtTail
    <3>3. CASE d # b
      <4>1. SUFFICES ASSUME NEW u \in Threads, Creating(u, d)' PROVE OnWay(u, d)'
        BY <2>2, <2>4, <3>1 DEF AtTail
      <4>2. u # t /\ Creating(u, d)
        BY <2>4, <3>1, <4>1
      <4>3. cur'[u] = cur[u] /\ pc'[u] = pc[u] /\ (cur[u] # NONE => Hash[cur[u]] = d)
        BY <1>3, <4>2 DEF Creating, Sound, Appenders
      <4>4. OnWay(u, d)
        BY <2>2, <4>2 DEF AtTail
      <4>5. CASE cur[u] = NONE
        BY <1>4, <3>3, <4>3, <4>4, <4>5 DEF OnWay
      <4>6. CASE cur[u] # NONE
        <5>1. cur[u] \in live /\ cur[u] # c
          BY <1>2, <3>3, <4>3, <4>4, <4>6 DEF OnWay
        <5> QED
          BY <1>1, <1>2, <1>4, <4>3, <4>4, <4>6, <5>1 DEF OnWay
      <4> QED
        BY <4>5, <4>6
    <3> QED
      BY <3>2, <3>3
  <2>6. Led(d)'
    <3>1. SUFFICES ASSUME NEW u \in Threads, pc'[u] = "sweep", bkt'[u] = d, cur'[u] # NONE
                   PROVE  IF par'[u] = NONE THEN head'[d] = cur'[u] ELSE next'[par'[u]] = cur'[u]
      BY DEF Led
    <3>2. pc[u] = "sweep" /\ bkt[u] = d /\ UNCHANGED <<cur[u], par[u]>>
      BY <1>3, <3>1
    <3>3. IF par[u] = NONE THEN head[d] = cur[u] ELSE next[par[u]] = cur[u]
      BY <2>2, <3>1, <3>2 DEF Led
    <3>4. par[u] # NONE => par[u] \in live
      BY <3>2 DEF Sound, Sweepers
    <3>5. d = b => IF c = NONE THEN head[d] = NONE ELSE next[c] = NONE
      BY <1>3, <2>2, <2>4 DEF AtTail, OnWay, c
    <3>6. c # NONE => par[u] # c
      BY <1>2, <3>1, <3>2, <3>3, <3>5 DEF Sound, Sweepers
    <3> QED
      BY <1>2, <1>4, <3>1, <3>2, <3>3, <3>4, <3>5, <3>6
  <2> QED
    BY <2>3, <2>5, <2>6
<1> QED
  BY <1>1, <1>5, <1>6, <1>7, <1>8, <1>9 DEF Sound

\* At the end the chains are deleted whole: what is left was linked by nothing of
\* theirs.
LEMMA DoneStep ==
    ASSUME Types, Sound, Done
    PROVE  Sound'
<1> USE TableAssumption
<1> DEFINE all == UNION {Linked(b) : b \in Buckets}
<1>1. /\ \A t \in Threads : pc[t] = "idle" /\ pc'[t] = "stopped"
      /\ live' = live \ all /\ freed' = freed \cup all /\ UNCHANGED <<next, lock, raced>>
      /\ \A b \in Buckets : head'[b] = NONE
  BY DEF Done
<1>2. /\ all \subseteq live
      /\ \A b \in Buckets : head[b] # NONE => head[b] \in all
      /\ \A q \in all : next[q] # NONE => next[q] \in all
      /\ \A s \in all : head[Hash[s]] = s \/ \E q \in all : next[q] = s
  BY WholeChain DEF Sound
<1> HIDE DEF all
<1>3. Known' = Known
  BY <1>1, <1>2 DEF Known
<1>4. Locked' /\ Sweepers' /\ Appenders'
  BY <1>1 DEF Sound, Locked, Sweepers, Appenders, Unlocked
<1>5. Chains'
  <2>1. ASSUME NEW q \in live', next[q] # NONE
        PROVE  next[q] \in live' /\ Hash[next[q]] = Hash[q]
    <3>1. q \in live /\ q \notin all /\ next[q] \in live /\ Hash[next[q]] = Hash[q]
      BY <2>1, <1>1 DEF Sound, Chains
    <3>2. head[Hash[next[q]]] # next[q] /\ \A r \in all : next[r] # next[q]
      BY <2>1, <3>1, <1>2 DEF Sound, Once
    <3> QED
      BY <3>1, <3>2, <1>1, <1>2
  <2> QED
    BY <2>1, <1>1 DEF Chains
<1>6. Once' /\ Unused'
  BY <1>1, <1>3 DEF Sound, Once, Unused, Types
<1>7. Ranked'
  <2>1. PICK rank \in [Sessions -> Nat] : ChainRanks(rank)
    BY DEF Sound, Ranked
  <2>2. ChainRanks(rank)' /\ SweepRanks(rank)'
    BY <1>1, <1>3, <2>1 DEF ChainRanks, SweepRanks
  <2> QED
    BY <2>2 DEF Ranked
<1>8. LossInv'
  <2>1. SUFFICES ASSUME NEW d \in Buckets, d \notin raced'
                 PROVE  Attached(d)' /\ AtTail(d)' /\ Led(d)'
    BY DEF LossInv
  <2>2. Attached(d)
    BY <1>1, <2>1 DEF Sound, LossInv
  <2>3. Attached(d)'
    <3>1. SUFFICES ASSUME NEW s \in live', Hash[s] = d PROVE \E q \in live' : next[q] = s
      BY <1>1 DEF Attached
    <3>2. s \in live /\ s \notin all /\ s # NONE
      BY <3>1, <1>1 DEF Types
    <3>3. PICK q \in live : next[q] = s
      BY <2>2, <3>1, <3>2, <1>2 DEF Attached
    <3> QED
      BY <3>2, <3>3, <1>1, <1>2
  <2>4. AtTail(d)' /\ Led(d)'
    BY <1>1 DEF AtTail, Led, Creating, Unlocked
  <2> QED
    BY <2>3, <2>4
<1> QED
  BY <1>4, <1>5, <1>6, <1>7, <1>8 DEF Sound

LEMMA SameStep ==
    ASSUME Types, Sound, UNCHANGED <<head, next, live, freed, lock, raced, pc, self, bkt, cur, par>>
    PROVE  Sound'
<1>1. Known' = Known
  BY DEF Known
<1>2. Locked' /\ Chains' /\ Once' /\ Unused' /\ Sweepers' /\ Appenders'
  BY <1>1 DEF Sound, Locked, Chains, Once, Unused, Sweepers, Appenders
<1>3. Ranked'
  BY <1>1 DEF Sound, Ranked, ChainRanks, SweepRanks
<1>4. LossInv'
  BY DEF Sound, LossInv, Attached, AtTail, OnWay, Led, Creating
<1> QED
  BY <1>2, <1>3, <1>4 DEF Sound

-----------------------------------------------------------------------------
(* The invariant.                                                          *)

LEMMA TypesSame == Types /\ UNCHANGED vars => Types'
BY DEF Types, vars, store, walk

LEMMA SoundStep ==
    ASSUME Types, Sound, [Next]_vars
    PROVE  Sound'
<1> USE TableAssumption
<1>1. ASSUME NEW t \in Threads, Arrive(t) PROVE Sound'
  BY <1>1, QuietStep DEF Arrive, Goto, store, walk, PCs, Unlocked
<1>2. ASSUME NEW t \in Threads, Clean(t) PROVE Sound'
  <2>1. CASE CleanCheck(t)
    <3>1. \A u \in Threads : u # t => UNCHANGED <<self[u], bkt[u], cur[u], par[u]>>
      BY <2>1 DEF CleanCheck, Walk, walk, Types
    <3>2. /\ pc[t] = "clean" /\ (Goto(t, "find") \/ Goto(t, "bucket"))
          /\ UNCHANGED <<head, next, live, freed, lock, raced>>
      BY <2>1 DEF CleanCheck, store
    <3> QED
      BY <3>1, <3>2, QuietStep DEF Goto, PCs, Unlocked
  <2> QED
    BY <1>2, <2>1, SweepBucketStep, SweepDeleteStep, SweepKeepStep, SweepUnlockStep DEF Clean
<1>3. ASSUME NEW t \in Threads, Find(t) PROVE Sound'
  <2>1. CASE NoCookie(t)
    BY <2>1, QuietStep DEF NoCookie, Goto, store, walk, PCs, Unlocked
  <2>2. ASSUME Found(t) \/ NotFound(t) PROVE Sound'
    <3>1. \A u \in Threads : u # t => UNCHANGED <<self[u], bkt[u], cur[u], par[u]>>
      BY <2>2 DEF Found, NotFound, FindReturns, walk, Types
    <3>2. /\ pc[t] = "find" /\ (Goto(t, "touch") \/ Goto(t, "limit"))
          /\ UNCHANGED <<head, next, live, freed, lock, raced>>
      BY <2>2 DEF Found, NotFound, store
    <3> QED
      BY <3>1, <3>2, QuietStep DEF Goto, PCs, Unlocked
  <2> QED
    BY <1>3, <2>1, <2>2, FoundExpiredStep DEF Find
<1>4. ASSUME NEW t \in Threads, Touch(t) PROVE Sound'
  BY <1>4, QuietStep DEF Touch, Goto, walk, PCs, Unlocked
<1>5. ASSUME NEW t \in Threads, Create(t) PROVE Sound'
  <2>1. CASE Refused(t)
    <3>1. \A u \in Threads : u # t => UNCHANGED <<self[u], bkt[u], cur[u], par[u]>>
      BY <2>1 DEF Refused, Leave, walk, Types
    <3> QED
      BY <2>1, <3>1, QuietStep DEF Refused, Leave, Goto, store, PCs, Unlocked
  <2> QED
    BY <1>5, <2>1, CreateIdStep, TailWalkStep, AppendStep DEF Create
<1>6. ASSUME NEW t \in Threads, Served(t) PROVE Sound'
  <2>1. \A u \in Threads : u # t => UNCHANGED <<self[u], bkt[u], cur[u], par[u]>>
    BY <1>6 DEF Served, Leave, walk, Types
  <2> QED
    BY <1>6, <2>1, QuietStep DEF Served, Leave, Goto, store, PCs, Unlocked
<1>7. CASE Tick
  BY <1>7, SameStep DEF Tick, store, walk
<1>8. CASE UNCHANGED vars
  BY <1>8, SameStep DEF vars, store, walk
<1>9. ASSUME NEW t \in Threads, Misuse(t) PROVE Sound'
  BY <1>9, SameStep DEF Misuse, store, walk
<1> QED
  BY <1>1, <1>2, <1>3, <1>4, <1>5, <1>6, <1>7, <1>8, <1>9, DoneStep DEF Next, Work

LEMMA StrayedStep ==
    ASSUME Types, Sound, StrayedRaced, [Next]_vars
    PROVE  StrayedRaced'
<1> USE TableAssumption
<1>1. CASE strayed' = NONE
  BY <1>1 DEF StrayedRaced
<1>2. CASE UNCHANGED vars
  BY <1>2 DEF StrayedRaced, vars, walk
<1>3. ASSUME NEW t \in Threads, Misuse(t) PROVE StrayedRaced'
  <2>1. strayed' = t /\ UNCHANGED <<pc, bkt, raced>>
    BY <1>3 DEF Misuse, walk
  <2>2. ASSUME pc[t] \in Unlocked PROVE bkt[t] \in raced
    <3>1. cur[t] \in freed /\ Creating(t, bkt[t]) /\ bkt[t] \in Buckets
      BY <1>3, <2>2 DEF Misuse, Creating, Unlocked, Types
    <3>2. ~OnWay(t, bkt[t])
      BY <3>1 DEF OnWay, Types
    <3> QED
      BY <3>1, <3>2 DEF Sound, LossInv, AtTail
  <2> QED
    BY <2>1, <2>2 DEF StrayedRaced
<1> QED
  BY <1>1, <1>2, <1>3 DEF Next

LEMMA SoundInit == Init => Types /\ Sound
<1> SUFFICES ASSUME Init PROVE Types /\ Sound
  OBVIOUS
<1> USE TableAssumption
<1>1. 0 \in Buckets
  BY DEF Buckets
<1>2. Types
  BY <1>1 DEF Init, Types, Ref, PCs
<1>3. Locked /\ Chains /\ Once /\ Unused /\ Sweepers /\ Appenders
  BY DEF Init, Locked, Chains, Once, Unused, Sweepers, Appenders, Unlocked
<1>4. Ranked
  <2>1. ChainRanks([s \in Sessions |-> 0]) /\ SweepRanks([s \in Sessions |-> 0])
    BY DEF Init, ChainRanks, SweepRanks, Known
  <2> QED
    BY <2>1 DEF Ranked
<1>5. LossInv
  BY DEF Init, LossInv, Attached, AtTail, OnWay, Led, Creating, Unlocked
<1> QED
  BY <1>2, <1>3, <1>4, <1>5 DEF Sound

LEMMA AlwaysSound == Spec => [](Types /\ Sound)
<1>1. Types /\ Sound /\ [Next]_vars => (Types /\ Sound)'
  <2> SUFFICES ASSUME Types, Sound, [Next]_vars PROVE (Types /\ Sound)'
    OBVIOUS
  <2>1. Types'
    BY TypesStep, TypesSame DEF Sound
  <2> QED
    BY <2>1, SoundStep
<1> QED
  BY <1>1, SoundInit, PTL DEF Spec

-----------------------------------------------------------------------------
(* What it gives.                                                          *)

\* Every chain ends, keeps to its bucket and holds no record that was given back,
\* whatever sweeps, lookups and creations without the lock do at the same time, and
\* the locks say who walks where: no walk under a lock reads freed memory, and the
\* one without only in a bucket where it overlapped another change.
THEOREM ChainsSoundCorrect == Spec => []ChainsSound
<1>1. Types /\ Sound /\ StrayedRaced => ChainsSound
  <2> SUFFICES ASSUME Types, Sound, StrayedRaced PROVE ChainsSound
    OBVIOUS
  <2>1. \A b \in Buckets : /\ Hops(b)[Cardinality(Sessions)] = NONE
                           /\ \A s \in Linked(b) : s \in live /\ Hash[s] = b
    BY WholeChain DEF Sound, N
  <2> QED
    BY <2>1 DEF ChainsSound, Sound, Locked, StrayedRaced
<1>2. Init => StrayedRaced
  BY TableAssumption DEF Init, StrayedRaced
<1>3. Types /\ Sound /\ StrayedRaced /\ [Next]_vars => StrayedRaced'
  BY StrayedStep
<1> QED
  BY <1>1, <1>2, <1>3, AlwaysSound, PTL DEF Spec

\* A live session is found by a walk of its bucket unless a creation there overlapped
\* another change: a lost session that had a predecessor had a lost one of a lower
\* rank.
THEOREM NotLostCorrect == Spec => []NotLost
<1>1. Types /\ Sound => NotLost
  <2> SUFFICES ASSUME Types, Sound PROVE NotLost
    OBVIOUS
  <2> USE TableAssumption
  <2>1. PICK rank \in [Sessions -> Nat] : ChainRanks(rank)
    BY DEF Sound, Ranked
  <2> DEFINE Lost == {s \in live : s \notin Linked(Hash[s]) /\ Hash[s] \notin raced}
             Low == {n \in Nat : \E s \in Lost : rank[s] = n}
  <2>2. SUFFICES ASSUME Lost # {} PROVE FALSE
    BY DEF NotLost
  <2>3. live \subseteq Sessions /\ NONE \notin live
    BY DEF Types
  <2>4. Low # {}
    BY <2>1, <2>2, <2>3
  <2>5. PICK m \in Low : \A n \in Low : m <= n
    BY <2>4, NatMin
  <2>6. PICK s \in Lost : rank[s] = m
    BY <2>5
  <2>7. s \in live /\ s # NONE /\ Hash[s] \in Buckets /\ Hash[s] \notin raced
    BY <2>3, <2>6
  <2>8. head[Hash[s]] # s
    BY <2>6, <2>7, WholeChain DEF Sound
  <2>9. PICK q \in live : next[q] = s
    BY <2>7, <2>8 DEF Sound, LossInv, Attached
  <2>10. Hash[q] = Hash[s] /\ rank[q] < rank[s]
    BY <2>1, <2>7, <2>9 DEF Sound, Chains, ChainRanks
  <2>11. q \notin Linked(Hash[q])
    BY <2>6, <2>7, <2>9, <2>10, WholeChain DEF Sound
  <2>12. q \in Lost /\ rank[q] \in Nat
    BY <2>1, <2>3, <2>7, <2>10, <2>11
  <2>13. rank[q] \in Low
    BY <2>12
  <2> QED
    BY <2>5, <2>6, <2>10, <2>12, <2>13
<1> QED
  BY <1>1, AlwaysSound, PTL

-----------------------------------------------------------------------------
(* The times.                                                              *)

\* All a request in the pipeline can do to the times.
LEMMA RecentStep ==
    ASSUME Types, Appenders, Recent, Next
    PROVE  Recent'
<1> USE TableAssumption, TimeAssumption
<1>t. now \in Nat /\ tnow \in [Threads -> Nat] /\ atime \in [Sessions -> Nat] /\ live \subseteq Sessions
  BY DEF Types
\* A thread that moves on without ending, starting or touching anything.
<1>1. ASSUME NEW t \in Threads, UNCHANGED <<now, tnow, live, atime, self>>,
             \A u \in Threads : u # t => pc'[u] = pc[u], pc[t] \notin {"idle", "stopped"}, pc'[t] # "serve"
      PROVE  Recent'
  BY <1>1 DEF Recent
\* One that gives a session back.
<1>2. ASSUME NEW t \in Threads, NEW s, live' = live \ {s}, atime' = [atime EXCEPT ![s] = 0],
             UNCHANGED <<now, tnow>>, \A u \in Threads : u # t => UNCHANGED <<pc[u], self[u]>>,
             pc[t] \notin {"idle", "stopped"}, pc'[t] # "serve"
      PROVE  Recent'
  <2>1. \A q \in live' : q \in live /\ atime'[q] = atime[q]
    BY <1>2, <1>t
  <2>2. \A u \in Threads : pc'[u] = "serve" => u # t /\ pc[u] = "serve" /\ self'[u] = self[u]
    BY <1>2
  <2>3. \A u \in Threads : pc'[u] = "serve" /\ self'[u] \in live' => tnow'[u] <= atime'[self'[u]] + MaxStall
    BY <2>1, <2>2, <1>2 DEF Recent
  <2> QED
    BY <2>3, <1>2 DEF Recent
\* One that ends.
<1>3. ASSUME NEW t \in Threads, Leave(t), UNCHANGED <<now, live, atime>>
      PROVE  Recent'
  <2>1. /\ tnow'[t] = 0 /\ pc'[t] = "idle"
        /\ \A u \in Threads : u # t => UNCHANGED <<tnow[u], pc[u], self[u]>>
    BY <1>3 DEF Leave, Goto, Types
  <2> QED
    BY <2>1, <1>3, <1>t DEF Recent
\* One that touches its session, or fills it.
<1>4. ASSUME NEW t \in Threads, UNCHANGED <<now, tnow, self>>, live' \in {live, live \cup {self[t]}},
             live' \subseteq Sessions,
             \A q \in live' : atime'[q] = IF q = self[t] THEN tnow[t] ELSE atime[q],
             \A u \in Threads : u # t => pc'[u] = pc[u], pc[t] \notin {"idle", "stopped"}
      PROVE  Recent'
  <2>1. \A u \in Threads : /\ tnow[u] <= now
                           /\ pc'[u] \notin {"idle", "stopped"} => now <= tnow[u] + MaxStall
    BY <1>4 DEF Recent
  <2>2. ASSUME NEW u \in Threads, pc'[u] = "serve", self[u] \in live'
        PROVE  tnow[u] <= atime'[self[u]] + MaxStall
    <3>1. CASE self[u] = self[t]
      <4>1. atime'[self[u]] = tnow[t] /\ tnow[u] <= now /\ now <= tnow[t] + MaxStall
        BY <3>1, <2>2, <1>4 DEF Recent
      <4> QED
        BY <4>1, <1>t
    <3>2. CASE self[u] # self[t]
      <4>1. u # t /\ self[u] \in live /\ atime'[self[u]] = atime[self[u]] /\ pc[u] = "serve"
        BY <3>2, <2>2, <1>4
      <4> QED
        BY <4>1 DEF Recent
    <3> QED
      BY <3>1, <3>2
  <2> QED
    BY <2>1, <2>2, <1>4 DEF Recent
<1>5. ASSUME NEW t \in Threads, Arrive(t) PROVE Recent'
  <2>1. /\ tnow'[t] = now /\ pc'[t] = "clean" /\ UNCHANGED <<now, live, atime, self>>
        /\ \A u \in Threads : u # t => UNCHANGED <<tnow[u], pc[u]>>
    BY <1>5 DEF Arrive, Goto, store, Types
  <2> QED
    BY <2>1, <1>t DEF Recent
<1>6. ASSUME NEW t \in Threads, Clean(t) PROVE Recent'
  <2>1. CASE CleanCheck(t)
    BY <2>1, <1>1 DEF CleanCheck, Goto, store, Types
  <2>2. CASE SweepBucket(t) \/ SweepKeep(t) \/ SweepUnlock(t)
    <3>1. /\ UNCHANGED <<now, tnow, live, atime, self>> /\ \A u \in Threads : u # t => pc'[u] = pc[u]
          /\ pc[t] \notin {"idle", "stopped"} /\ pc'[t] # "serve"
      BY <2>2 DEF SweepBucket, SweepKeep, SweepUnlock, Goto, store, Types
    <3> QED
      BY <3>1, <1>1
  <2>3. CASE SweepDelete(t)
    BY <2>3, <1>2 DEF SweepDelete, Unlink
  <2> QED
    BY <1>6, <2>1, <2>2, <2>3 DEF Clean
<1>7. ASSUME NEW t \in Threads, Find(t) PROVE Recent'
  <2>1. CASE NoCookie(t)
    BY <2>1, <1>1 DEF NoCookie, Goto, store, Types
  <2>2. CASE Found(t) \/ NotFound(t)
    <3>1. /\ UNCHANGED <<now, tnow, live, atime>> /\ pc[t] = "find" /\ pc'[t] \in {"touch", "limit"}
          /\ \A u \in Threads : u # t => UNCHANGED <<pc[u], self[u]>>
      BY <2>2 DEF Found, NotFound, FindReturns, Goto, store, Types
    <3> QED
      BY <3>1, <1>t DEF Recent
  <2>3. CASE FoundExpired(t)
    <3>1. /\ live' = live \ {sid[t]} /\ atime' = [atime EXCEPT ![sid[t]] = 0] /\ UNCHANGED <<now, tnow>>
          /\ pc[t] = "find" /\ pc'[t] = "limit"
          /\ \A u \in Threads : u # t => UNCHANGED <<pc[u], self[u]>>
      BY <2>3 DEF FoundExpired, Unlink, FindReturns, Goto, Types
    <3> QED
      BY <3>1, <1>2
  <2> QED
    BY <1>7, <2>1, <2>2, <2>3 DEF Find
<1>8. ASSUME NEW t \in Threads, Touch(t) PROVE Recent'
  <2>1. /\ UNCHANGED <<now, tnow, self, live>> /\ pc[t] = "touch"
        /\ \A u \in Threads : u # t => pc'[u] = pc[u]
        /\ \A q \in live : atime'[q] = IF q = self[t] THEN tnow[t] ELSE atime[q]
    BY <1>8 DEF Touch, Goto, Types
  <2> QED
    BY <2>1, <1>4, <1>t
<1>9. ASSUME NEW t \in Threads, Create(t) PROVE Recent'
  <2>1. CASE Refused(t)
    BY <2>1, <1>3 DEF Refused, store
  <2>2. CASE CreateId(t)
    <3>1. /\ UNCHANGED <<now, tnow, live, atime>> /\ pc[t] = "limit" /\ pc'[t] = "first"
          /\ \A u \in Threads : u # t => UNCHANGED <<pc[u], self[u]>>
      BY <2>2 DEF CreateId, Goto, store, Types
    <3> QED
      BY <3>1, <1>t DEF Recent
  <2>3. CASE AppendSession(t)
    <3>1. self[t] \in Sessions
      BY <2>3 DEF AppendSession, Appenders, Unlocked
    <3>2. /\ UNCHANGED <<now, tnow, self>> /\ live' = live \cup {self[t]} /\ pc[t] = "append"
          /\ \A u \in Threads : u # t => pc'[u] = pc[u]
          /\ \A q \in Sessions : atime'[q] = IF q = self[t] THEN tnow[t] ELSE atime[q]
      BY <2>3, <3>1 DEF AppendSession, Goto, Types
    <3> QED
      BY <3>1, <3>2, <1>4, <1>t
  <2>4. CASE ReadHead(t) \/ TailTest(t) \/ TailStep(t)
    <3>1. /\ UNCHANGED <<now, tnow, live, atime, self>>
          /\ pc[t] \in {"first", "tail", "along"} /\ pc'[t] \in {"tail", "along", "append"}
          /\ \A u \in Threads : u # t => pc'[u] = pc[u]
      BY <2>4 DEF ReadHead, TailTest, TailStep, Goto, store, Types
    <3> QED
      BY <3>1, <1>1
  <2> QED
    BY <1>9, <2>1, <2>2, <2>3, <2>4 DEF Create
<1>10. ASSUME NEW t \in Threads, Served(t) PROVE Recent'
  BY <1>10, <1>3 DEF Served, store
<1>11. CASE Done
  <2>1. \A t \in Threads : pc'[t] = "stopped"
    BY <1>11 DEF Done
  <2> QED
    BY <1>11, <2>1 DEF Done, Recent
<1>12. CASE Tick
  <2>1. /\ now' = now + 1 /\ UNCHANGED <<tnow, pc, self, live, atime>>
        /\ \A t \in Threads : pc[t] \notin {"idle", "stopped"} => now - tnow[t] < MaxStall
    BY <1>12 DEF Tick, store
  <2> QED
    BY <2>1, <1>t DEF Recent
<1>13. ASSUME NEW t \in Threads, Misuse(t) PROVE Recent'
  BY <1>13 DEF Misuse, Recent, store
<1> QED
  BY <1>5, <1>6, <1>7, <1>8, <1>9, <1>10, <1>11, <1>12, <1>13 DEF Next, Work

\* Nobody takes away a session that a request has touched or created and still uses
\* before MAXAGE, where MAXIDLE is at least twice what a request can take: the one
\* who takes it read its clock at most now, and the session was touched by a request
\* that is no older than that.
THEOREM HeldUntilOldCorrect == MaxIdle >= 2 * MaxStall => (Spec => HeldUntilOld)
<1> SUFFICES ASSUME MaxIdle >= 2 * MaxStall PROVE Spec => HeldUntilOld
  OBVIOUS
<1> USE TableAssumption, TimeAssumption
<1> DEFINE Keeps == \A t \in Threads :
                      pc[t] = "serve" /\ pc'[t] = "serve" /\ self[t] \in live \ live'
                        => now - ctime[self[t]] > MaxAge
<1>1. Init => Recent
  BY DEF Init, Recent
<1>2. Types /\ Sound /\ Recent /\ [Next]_vars => Recent'
  <2> SUFFICES ASSUME Types, Sound, Recent, [Next]_vars PROVE Recent'
    OBVIOUS
  <2>1. CASE UNCHANGED vars
    BY <2>1 DEF Recent, vars, store
  <2> QED
    BY <2>1, RecentStep DEF Sound
<1>3. Types /\ Recent /\ Next => Keeps
  <2> SUFFICES ASSUME Types, Recent, Next, NEW t \in Threads,
                      pc[t] = "serve", pc'[t] = "serve", self[t] \in live \ live'
               PROVE  now - ctime[self[t]] > MaxAge
    OBVIOUS
  <2>1. ~Done
    BY DEF Done
  <2>2. PICK u \in Threads : SweepDelete(u) \/ FoundExpired(u)
    <3>1. ASSUME NEW u \in Threads, CleanCheck(u) \/ SweepBucket(u) \/ SweepKeep(u) \/ SweepUnlock(u)
          PROVE  FALSE
      BY <3>1 DEF CleanCheck, SweepBucket, SweepKeep, SweepUnlock, store
    <3>2. ASSUME NEW u \in Threads, NoCookie(u) \/ Found(u) \/ NotFound(u) PROVE FALSE
      BY <3>2 DEF NoCookie, Found, NotFound, store
    <3>3. ASSUME NEW u \in Threads, Create(u) PROVE FALSE
      BY <3>3 DEF Create, Refused, CreateId, ReadHead, TailTest, TailStep, AppendSession, store
    <3>4. ASSUME NEW u \in Threads, Arrive(u) \/ Touch(u) \/ Served(u) PROVE FALSE
      BY <3>4 DEF Arrive, Touch, Served, store
    <3>5. ~Tick
      BY DEF Tick, store
    <3>6. ASSUME NEW u \in Threads, Misuse(u) PROVE FALSE
      BY <3>6 DEF Misuse, store
    <3> QED
      BY <2>1, <3>1, <3>2, <3>3, <3>4, <3>5, <3>6 DEF Next, Work, Clean, Find
  <2>3. Expired(self[t], tnow[u])
    <3>1. CASE SweepDelete(u)
      <4>1. live' = live \ {cur[u]} /\ Expired(cur[u], tnow[u])
        BY <3>1 DEF SweepDelete, Unlink
      <4> QED
        BY <4>1
    <3>2. CASE FoundExpired(u)
      <4>1. live' = live \ {sid[u]} /\ Expired(sid[u], tnow[u])
        BY <3>2 DEF FoundExpired, Unlink
      <4> QED
        BY <4>1
    <3> QED
      BY <2>2, <3>1, <3>2
  <2>4. /\ tnow[u] <= now /\ now <= tnow[t] + MaxStall /\ tnow[t] <= atime[self[t]] + MaxStall
    BY DEF Recent
  <2>5. /\ now \in Nat /\ tnow[u] \in Nat /\ tnow[t] \in Nat
        /\ atime[self[t]] \in Nat /\ ctime[self[t]] \in Nat
    BY DEF Types
  <2> QED
    BY <2>3, <2>4, <2>5 DEF Expired
<1>4. Types /\ Recent /\ [Next]_vars => [Keeps]_vars
  BY <1>3
<1> QED
  BY <1>1, <1>2, <1>4, AlwaysSound, PTL DEF Spec, HeldUntilOld

-----------------------------------------------------------------------------
(* The sweeps.                                                             *)

Sweeping(t, b) == pc[t] = "sweep" /\ bkt[t] = b

\* The last sweep that began has yet to come to bucket b.
Coming(b) ==
    \E t \in Threads : /\ tnow[t] = cleantime
                       /\ \/ pc[t] = "bucket" /\ bkt[t] <= b
                          \/ pc[t] = "sweep" /\ bkt[t] < b

\* Where the last sweep is in bucket b, if it is there.
Cursor(b) == {cur[t] : t \in {u \in Threads : Sweeping(u, b) /\ tnow[u] = cleantime}}

\* The records G of bucket b have been looked at and kept, or came later; nothing
\* leads from them, or from the head, to any other but by way of the last sweep, and
\* an older sweep that is still there has nothing else to link either.
Clear(b, G) ==
    /\ \A q \in G : q \in live /\ Hash[q] = b /\ cleantime - atime[q] <= MaxIdle
    /\ head[b] \in G \cup Cursor(b) \cup {NONE}
    /\ \A q \in G : next[q] \in G \cup Cursor(b) \cup {NONE}
    /\ \A t \in Threads : Sweeping(t, b) => cur[t] \in G \cup Cursor(b) \cup {NONE}

Cleared(b) == \E G \in SUBSET Sessions : Clear(b, G)

Cleaned ==
    /\ cleantime \in Nat /\ cleantime <= now
    /\ \A t \in Threads :
          /\ pc[t] \in {"bucket", "sweep"} => tnow[t] <= cleantime
          /\ pc[t] \notin {"idle", "clean", "stopped"} => tnow[t] < cleantime + CleanInterval
    /\ \A b \in Buckets : Coming(b) \/ Cleared(b)

LEMMA CursorSame ==
    ASSUME NEW b, cleantime' = cleantime,
           \A u \in Threads : Sweeping(u, b) \/ Sweeping(u, b)' =>
               /\ Sweeping(u, b) /\ Sweeping(u, b)'
               /\ cur'[u] = cur[u] /\ tnow'[u] = tnow[u]
    PROVE  Cursor(b)' = Cursor(b)
<1> DEFINE T == {u \in Threads : Sweeping(u, b) /\ tnow[u] = cleantime}
           U == {u \in Threads : Sweeping(u, b)' /\ tnow'[u] = cleantime'}
<1>1. T = U /\ \A u \in T : cur'[u] = cur[u]
  OBVIOUS
<1>2. Cursor(b) = {cur[u] : u \in T} /\ Cursor(b)' = {cur'[u] : u \in U}
  BY DEF Cursor
<1> HIDE DEF T, U
<1> QED
  BY <1>1, <1>2

LEMMA CursorIs ==
    ASSUME Sound, NEW t \in Threads, NEW b \in Buckets, Sweeping(t, b)
    PROVE  /\ \A u \in Threads : Sweeping(u, b) => u = t
           /\ Cursor(b) = IF tnow[t] = cleantime THEN {cur[t]} ELSE {}
<1>1. \A u \in Threads : Sweeping(u, b) => u = t
  BY DEF Sound, Locked, Sweeping
<1> QED
  BY <1>1 DEF Cursor

LEMMA NobodyThere ==
    ASSUME NEW b, \A u \in Threads : ~Sweeping(u, b)
    PROVE  Cursor(b) = {}
BY DEF Cursor

\* Whoever sweeps in bucket b stays where it is, and the bucket is what it was, but
\* for times of the requests there are.
LEMMA ClearedSame ==
    ASSUME NEW b \in Buckets, Cleared(b), cleantime' = cleantime,
           \A u \in Threads : Sweeping(u, b) \/ Sweeping(u, b)' =>
               /\ Sweeping(u, b) /\ Sweeping(u, b)'
               /\ cur'[u] = cur[u] /\ tnow'[u] = tnow[u],
           head'[b] = head[b],
           \A q \in live : Hash[q] = b =>
               /\ q \in live' /\ next'[q] = next[q]
               /\ atime'[q] = atime[q] \/ cleantime - atime'[q] <= MaxIdle
    PROVE  Cleared(b)'
<1>1. PICK G \in SUBSET Sessions : Clear(b, G)
  BY DEF Cleared
<1>2. Cursor(b)' = Cursor(b)
  BY CursorSame
<1>3. \A q \in G : q \in live /\ Hash[q] = b
  BY <1>1 DEF Clear
<1>4. \A q \in G : q \in live' /\ next'[q] = next[q] /\ cleantime - atime'[q] <= MaxIdle
  BY <1>1 DEF Clear
<1>5. Clear(b, G)'
  BY <1>1, <1>2, <1>3, <1>4 DEF Clear
<1> QED
  BY <1>5 DEF Cleared

\* The last sweep is on its way as before.
LEMMA ComingSame ==
    ASSUME NEW b, Coming(b), cleantime' = cleantime,
           \A u \in Threads : pc[u] \in {"bucket", "sweep"} => UNCHANGED <<pc[u], bkt[u], tnow[u]>>
    PROVE  Coming(b)'
BY DEF Coming

\* No thread that sweeps takes a step.
LEMMA OthersStep ==
    ASSUME NEW b \in Buckets, Coming(b) \/ Cleared(b), cleantime' = cleantime,
           \A u \in Threads : {pc[u], pc'[u]} \cap {"bucket", "sweep"} # {}
                                => UNCHANGED <<pc[u], bkt[u], cur[u], tnow[u]>>,
           head'[b] = head[b],
           \A q \in live : Hash[q] = b =>
               /\ q \in live' /\ next'[q] = next[q]
               /\ atime'[q] = atime[q] \/ cleantime - atime'[q] <= MaxIdle
    PROVE  (Coming(b) \/ Cleared(b))'
<1>1. CASE Coming(b)
  BY <1>1, ComingSame
<1>2. CASE Cleared(b)
  <2>1. \A u \in Threads : Sweeping(u, b) \/ Sweeping(u, b)' =>
               /\ Sweeping(u, b) /\ Sweeping(u, b)'
               /\ cur'[u] = cur[u] /\ tnow'[u] = tnow[u]
    BY DEF Sweeping
  <2> QED
    BY <1>2, <2>1, ClearedSame
<1> QED
  BY <1>1, <1>2

\* A record is taken out of bucket b, by the one who sweeps there or where nobody does.
LEMMA DeleteClears ==
    ASSUME Types, Sound, NEW t \in Threads, NEW b, NEW s, NEW p \in Ref,
           Fits(b, s, p), Unlink(b, s, p), UNCHANGED <<cleantime, tnow>>,
           \A u \in Threads : u # t => UNCHANGED <<pc[u], bkt[u], cur[u]>>,
           \/ /\ \A u \in Threads : ~Sweeping(u, b)
              /\ pc[t] \notin {"bucket", "sweep"} /\ pc'[t] \notin {"bucket", "sweep"}
              /\ IF p = NONE THEN head[b] = s ELSE next[p] = s
           \/ /\ Sweeping(t, b) /\ Sweeping(t, b)'
              /\ cur[t] = s /\ cur'[t] = next[s],
           NEW d \in Buckets, Coming(d) \/ Cleared(d)
    PROVE  (Coming(d) \/ Cleared(d))'
<1> USE TableAssumption
<1>1. CASE Coming(d)
  BY <1>1, ComingSame DEF Sweeping
<1>2. /\ s \in live /\ Hash[s] = b /\ b \in Buckets /\ live \subseteq Sessions /\ s # NONE
      /\ p # NONE => p \in live /\ Hash[p] = b /\ p # s
      /\ \A q \in live : next[q] = s => q = p
      /\ head[b] = s => p = NONE
      /\ next[s] # s
  BY DEF Fits, Types
<1>3. /\ \A q \in live : next'[q] = IF q = p THEN next[s] ELSE next[q]
      /\ \A e \in Buckets : head'[e] = IF p = NONE /\ e = b THEN next[s] ELSE head[e]
      /\ live' = live \ {s}
      /\ \A q \in live' : atime'[q] = atime[q]
  BY <1>2 DEF Unlink, Types
<1>4. CASE Cleared(d) /\ d # b
  <2>1. \A u \in Threads : Sweeping(u, d) \/ Sweeping(u, d)' =>
               /\ Sweeping(u, d) /\ Sweeping(u, d)'
               /\ cur'[u] = cur[u] /\ tnow'[u] = tnow[u]
    BY <1>4 DEF Sweeping
  <2>2. head'[d] = head[d]
    BY <1>3, <1>4
  <2>3. \A q \in live : Hash[q] = d =>
               /\ q \in live' /\ next'[q] = next[q] /\ atime'[q] = atime[q]
    BY <1>2, <1>3, <1>4
  <2> QED
    BY <1>4, <2>1, <2>2, <2>3, ClearedSame
<1>5. CASE Cleared(d) /\ d = b
  <2>1. PICK G \in SUBSET Sessions : Clear(b, G)
    BY <1>5 DEF Cleared
  <2> DEFINE H == G \ {s}
  <2>2. \A q \in H : /\ q \in live' /\ Hash[q] = b /\ cleantime' - atime'[q] <= MaxIdle
                     /\ next'[q] = IF q = p THEN next[s] ELSE next[q]
                     /\ next[q] \in G \cup Cursor(b) \cup {NONE}
                     /\ next[q] = s => q = p
    BY <2>1, <1>2, <1>3 DEF Clear
  <2>3. head[b] \in G \cup Cursor(b) \cup {NONE} /\ (s \in G => next[s] \in G \cup Cursor(b) \cup {NONE})
    BY <2>1 DEF Clear
  <2>4. CASE Sweeping(t, b)
    <3>1. Sweeping(t, b)' /\ cur[t] = s /\ cur'[t] = next[s] /\ tnow'[t] = tnow[t]
      BY <2>4
    <3>2. \A u \in Threads : Sweeping(u, b)' => u = t
      BY <2>4, <1>2, CursorIs DEF Sweeping
    <3>3. Cursor(b) = IF tnow[t] = cleantime THEN {s} ELSE {}
      BY <2>4, <3>1, <1>2, CursorIs
    <3>4. Cursor(b)' = IF tnow[t] = cleantime THEN {next[s]} ELSE {}
      BY <3>1, <3>2 DEF Cursor
    <3>5. s \in G \cup Cursor(b) \cup {NONE}
      BY <2>1, <2>4, <3>1 DEF Clear
    <3>6. next[s] \in H \cup Cursor(b)' \cup {NONE}
      BY <2>3, <3>3, <3>4, <3>5, <1>2
    <3>7. \A q \in H : next'[q] \in H \cup Cursor(b)' \cup {NONE}
      BY <2>2, <3>3, <3>6
    <3>8. head'[b] \in H \cup Cursor(b)' \cup {NONE}
      BY <2>3, <3>3, <3>6, <1>2, <1>3
    <3>9. \A u \in Threads : Sweeping(u, b)' => cur'[u] \in H \cup Cursor(b)' \cup {NONE}
      BY <3>1, <3>2, <3>6
    <3> HIDE DEF H
    <3>10. Clear(b, H)'
      BY <2>2, <3>7, <3>8, <3>9 DEF Clear
    <3> QED
      BY <1>5, <3>10 DEF Cleared, H
  <2>5. CASE ~Sweeping(t, b)
    <3>1. \A u \in Threads : ~Sweeping(u, b) /\ ~Sweeping(u, b)'
      BY <2>5 DEF Sweeping
    <3>2. IF p = NONE THEN head[b] = s ELSE next[p] = s
      BY <2>5
    <3>3. Cursor(b) = {} /\ Cursor(b)' = {}
      BY <3>1 DEF Cursor
    <3>4. p = NONE \/ p \in G => next[s] \in H \cup {NONE}
      <4>1. p \in G => next[p] \in G \cup {NONE}
        BY <2>1, <3>3 DEF Clear
      <4> QED
        BY <2>3, <3>2, <3>3, <4>1, <1>2
    <3>5. \A q \in H : next'[q] \in H \cup {NONE}
      BY <2>2, <3>3, <3>4
    <3>6. head'[b] \in H \cup {NONE}
      BY <2>3, <3>3, <3>4, <1>2, <1>3
    <3> HIDE DEF H
    <3>7. Clear(b, H)'
      BY <2>2, <3>1, <3>3, <3>5, <3>6 DEF Clear
    <3> QED
      BY <1>5, <3>7 DEF Cleared, H
  <2> QED
    BY <2>4, <2>5
<1> QED
  BY <1>1, <1>4, <1>5

LEMMA SweepBucketClears ==
    ASSUME Types, Sound, NEW t \in Threads, SweepBucket(t), NEW b, bkt[t] = b,
           NEW d \in Buckets, Coming(d) \/ Cleared(d)
    PROVE  (Coming(d) \/ Cleared(d))'
<1>1. /\ pc[t] = "bucket" /\ lock[b] = NONE /\ b \in Buckets
      /\ UNCHANGED <<cleantime, head, next, live, atime, tnow>>
      /\ pc'[t] = "sweep" /\ bkt'[t] = b /\ cur'[t] = head[b]
      /\ \A u \in Threads : u # t => UNCHANGED <<pc[u], bkt[u], cur[u]>>
  BY DEF SweepBucket, Walk, Goto, store, Types
<1>2. \A u \in Threads : ~Sweeping(u, b)
  BY <1>1, TableAssumption DEF Sound, Locked, Sweeping
<1>3. \A u \in Threads : Sweeping(u, b)' <=> u = t
  BY <1>1, <1>2 DEF Sweeping
<1>4. ASSUME Coming(d) PROVE (Coming(d) \/ Cleared(d))'
  <2>1. PICK u \in Threads : /\ tnow[u] = cleantime
                             /\ \/ pc[u] = "bucket" /\ bkt[u] <= d
                                \/ pc[u] = "sweep" /\ bkt[u] < d
    BY <1>4 DEF Coming
  <2>2. CASE u = t /\ d = b
    <3>1. Cursor(b)' = {head'[b]}
      BY <2>1, <2>2, <1>1, <1>3 DEF Cursor
    <3>2. Clear(b, {})'
      BY <3>1, <1>1, <1>3 DEF Clear
    <3> QED
      BY <2>2, <3>2 DEF Cleared
  <2>3. CASE u = t /\ d # b
    <3>1. b \in Int /\ d \in Int /\ b <= d /\ b # d
      BY <2>1, <2>3, <1>1, TableAssumption DEF Buckets
    <3>2. b < d
      BY <3>1
    <3> QED
      BY <2>1, <2>3, <3>2, <1>1 DEF Coming
  <2>4. CASE u # t
    BY <2>1, <2>4, <1>1 DEF Coming
  <2> QED
    BY <2>2, <2>3, <2>4
<1>5. ASSUME Cleared(d) PROVE (Coming(d) \/ Cleared(d))'
  <2>1. CASE d # b
    <3>1. \A u \in Threads : Sweeping(u, d) \/ Sweeping(u, d)' =>
               /\ Sweeping(u, d) /\ Sweeping(u, d)'
               /\ cur'[u] = cur[u] /\ tnow'[u] = tnow[u]
      BY <2>1, <1>1 DEF Sweeping
    <3> QED
      BY <1>1, <1>5, <3>1, ClearedSame
  <2>2. CASE d = b
    <3>1. PICK G \in SUBSET Sessions : Clear(b, G)
      BY <1>5, <2>2 DEF Cleared
    <3>2. Cursor(b) = {}
      BY <1>2, NobodyThere
    <3>3. Clear(b, G)'
      BY <3>1, <3>2, <1>1, <1>3 DEF Clear
    <3> QED
      BY <2>2, <3>3 DEF Cleared
  <2> QED
    BY <2>1, <2>2
<1> QED
  BY <1>4, <1>5

\* A record that is kept was not idle for too long, if the sweep is the last one.
LEMMA SweepKeepClears ==
    ASSUME Types, Sound, NEW t \in Threads, SweepKeep(t), cleantime \in Nat,
           NEW b, bkt[t] = b, NEW c, cur[t] = c,
           NEW d \in Buckets, Coming(d) \/ Cleared(d)
    PROVE  (Coming(d) \/ Cleared(d))'
<1> USE TableAssumption, TimeAssumption
<1>1. /\ pc[t] = "sweep" /\ c # NONE /\ b \in Buckets /\ ~Expired(c, tnow[t])
      /\ UNCHANGED <<cleantime, head, next, live, atime, tnow, pc, bkt>>
      /\ cur'[t] = next[c]
      /\ \A u \in Threads : u # t => cur'[u] = cur[u]
  BY DEF SweepKeep, Walk, store, Types
<1>2. Sweeping(t, b) /\ c \in live /\ Hash[c] = b
  BY <1>1 DEF Sound, Sweepers, Sweeping
<1>3. \A u \in Threads : Sweeping(u, b)' <=> u = t
  BY <1>1, <1>2, CursorIs DEF Sweeping
<1>4. CASE Coming(d)
  BY <1>1, <1>4, ComingSame
<1>5. CASE Cleared(d) /\ d # b
  <2>1. \A u \in Threads : Sweeping(u, d) \/ Sweeping(u, d)' =>
               /\ Sweeping(u, d) /\ Sweeping(u, d)'
               /\ cur'[u] = cur[u] /\ tnow'[u] = tnow[u]
    BY <1>1, <1>2, <1>5 DEF Sweeping
  <2> QED
    BY <1>1, <1>5, <2>1, ClearedSame
<1>6. CASE Cleared(d) /\ d = b
  <2>1. PICK G \in SUBSET Sessions : Clear(b, G)
    BY <1>6 DEF Cleared
  <2> DEFINE H == G \cup {c}
  <2>2. Cursor(b) = IF tnow[t] = cleantime THEN {c} ELSE {}
    BY <1>1, <1>2, CursorIs
  <2>3. Cursor(b)' = IF tnow[t] = cleantime THEN {next[c]} ELSE {}
    BY <1>1, <1>3 DEF Cursor
  <2>4. c \in G \cup Cursor(b)
    BY <2>1, <1>1, <1>2 DEF Clear
  <2>5. cleantime - atime[c] <= MaxIdle
    <3>1. CASE c \in G
      BY <2>1, <3>1 DEF Clear
    <3>2. CASE tnow[t] = cleantime
      <4>1. atime[c] \in Nat /\ ~(tnow[t] - atime[c] > MaxIdle)
        BY <1>1, <1>2 DEF Expired, Types
      <4> QED
        BY <3>2, <4>1
    <3> QED
      BY <2>2, <2>4, <3>1, <3>2
  <2>6. next[c] \in H \cup Cursor(b)' \cup {NONE}
    BY <2>1, <2>2, <2>3, <2>4 DEF Clear
  <2>7. \A q \in H : next[q] \in H \cup Cursor(b)' \cup {NONE}
    BY <2>1, <2>2, <2>6 DEF Clear
  <2>8. head[b] \in H \cup Cursor(b)' \cup {NONE}
    BY <2>1, <2>2 DEF Clear
  <2>9. \A q \in H : q \in live /\ Hash[q] = b /\ cleantime - atime[q] <= MaxIdle
    BY <2>1, <2>5, <1>2 DEF Clear
  <2>10. H \in SUBSET Sessions
    BY <1>2 DEF Types
  <2> HIDE DEF H
  <2>11. Clear(b, H)'
    BY <2>6, <2>7, <2>8, <2>9, <1>1, <1>3 DEF Clear
  <2> QED
    BY <1>6, <2>10, <2>11 DEF Cleared
<1> QED
  BY <1>4, <1>5, <1>6

LEMMA SweepUnlockClears ==
    ASSUME Types, Sound, NEW t \in Threads, SweepUnlock(t), NEW b, bkt[t] = b,
           NEW d \in Buckets, Coming(d) \/ Cleared(d)
    PROVE  (Coming(d) \/ Cleared(d))'
<1> USE TableAssumption
<1>1. /\ pc[t] = "sweep" /\ cur[t] = NONE /\ b \in Buckets
      /\ UNCHANGED <<cleantime, head, next, live, atime, tnow>>
      /\ b + 1 < NBuckets => pc'[t] = "bucket" /\ bkt'[t] = b + 1
      /\ pc'[t] # "sweep"
      /\ \A u \in Threads : u # t => UNCHANGED <<pc[u], bkt[u], cur[u]>>
  BY DEF SweepUnlock, EndWalk, Walk, Goto, store, Types
<1>2. Sweeping(t, b)
  BY <1>1 DEF Sweeping
<1>3. CASE Coming(d)
  <2>1. PICK u \in Threads : /\ tnow[u] = cleantime
                             /\ \/ pc[u] = "bucket" /\ bkt[u] <= d
                                \/ pc[u] = "sweep" /\ bkt[u] < d
    BY <1>3 DEF Coming
  <2>2. CASE u = t
    <3>1. b < d /\ b \in Int /\ d \in Int /\ d < NBuckets
      BY <2>1, <2>2, <1>1 DEF Buckets
    <3>2. b + 1 < NBuckets /\ b + 1 <= d
      BY <3>1
    <3> QED
      BY <2>1, <2>2, <3>2, <1>1 DEF Coming
  <2>3. CASE u # t
    BY <2>1, <2>3, <1>1 DEF Coming
  <2> QED
    BY <2>2, <2>3
<1>4. CASE Cleared(d) /\ d # b
  <2>1. \A u \in Threads : Sweeping(u, d) \/ Sweeping(u, d)' =>
               /\ Sweeping(u, d) /\ Sweeping(u, d)'
               /\ cur'[u] = cur[u] /\ tnow'[u] = tnow[u]
    BY <1>1, <1>4 DEF Sweeping
  <2> QED
    BY <1>1, <1>4, <2>1, ClearedSame
<1>5. CASE Cleared(d) /\ d = b
  <2>1. PICK G \in SUBSET Sessions : Clear(b, G)
    BY <1>5 DEF Cleared
  <2>2. \A u \in Threads : ~Sweeping(u, b)'
    BY <1>1, <1>2, CursorIs DEF Sweeping
  <2>3. Cursor(b) \subseteq {NONE} /\ Cursor(b)' = {}
    <3>1. Cursor(b) \subseteq {NONE}
      BY <1>1, <1>2, CursorIs
    <3>2. Cursor(b)' = {}
      BY <2>2 DEF Cursor
    <3> QED
      BY <3>1, <3>2
  <2>4. Clear(b, G)'
    BY <2>1, <2>2, <2>3, <1>1 DEF Clear
  <2> QED
    BY <1>5, <2>4 DEF Cleared
<1> QED
  BY <1>3, <1>4, <1>5

\* A new session is no older than its request.
LEMMA AppendClears ==
    ASSUME Types, Sound, Recent, NEW t \in Threads, AppendSession(t), MaxStall <= MaxIdle,
           cleantime \in Nat, cleantime <= now,
           NEW b, bkt[t] = b, NEW c, cur[t] = c, NEW s, self[t] = s,
           NEW d \in Buckets, Coming(d) \/ Cleared(d)
    PROVE  (Coming(d) \/ Cleared(d))'
<1> USE TableAssumption, TimeAssumption
<1>1. /\ s \in Sessions /\ s \notin live /\ Hash[s] = b /\ b \in Buckets /\ next[s] = NONE /\ c # s
      /\ c # NONE => c \in Sessions /\ Hash[c] = b
  BY DEF AppendSession, Sound, Appenders, Unused, Known, Types, Unlocked
<1>2. /\ pc[t] = "append" /\ pc'[t] = "serve" /\ UNCHANGED <<cleantime, tnow>>
      /\ live' = live \cup {s}
      /\ \A u \in Threads : u # t => UNCHANGED <<pc[u], bkt[u], cur[u]>>
  BY DEF AppendSession, EndWalk, Walk, Goto, Types
<1>3. /\ \A q \in Sessions : next'[q] = IF q = c THEN s ELSE next[q]
      /\ \A q \in Sessions : atime'[q] = IF q = s THEN tnow[t] ELSE atime[q]
      /\ \A e \in Buckets : head'[e] = IF c = NONE /\ e = b THEN s ELSE head[e]
      /\ live \subseteq Sessions
  BY <1>1 DEF AppendSession, Types
<1>4. \A u \in Threads, e \in Buckets : Sweeping(u, e) \/ Sweeping(u, e)' =>
           /\ Sweeping(u, e) /\ Sweeping(u, e)'
           /\ cur'[u] = cur[u] /\ tnow'[u] = tnow[u]
  BY <1>2 DEF Sweeping
<1>5. CASE Coming(d)
  BY <1>2, <1>5, ComingSame
<1>6. CASE Cleared(d) /\ d # b
  <2>1. head'[d] = head[d]
    BY <1>3, <1>6
  <2>2. \A q \in live : Hash[q] = d => q \in live' /\ next'[q] = next[q] /\ atime'[q] = atime[q]
    BY <1>1, <1>2, <1>3, <1>6
  <2> QED
    BY <1>2, <1>4, <1>6, <2>1, <2>2, ClearedSame
<1>7. CASE Cleared(d) /\ d = b
  <2>1. PICK G \in SUBSET Sessions : Clear(b, G)
    BY <1>7 DEF Cleared
  <2>2. Cursor(b)' = Cursor(b)
    BY <1>1, <1>2, <1>4, CursorSame
  <2> DEFINE H == G \cup {s}
  <2>3. cleantime - atime'[s] <= MaxIdle
    <3>1. tnow[t] \in Nat /\ now \in Nat /\ now <= tnow[t] + MaxStall /\ atime'[s] = tnow[t]
      BY <1>1, <1>2, <1>3 DEF Recent, Types
    <3> QED
      BY <3>1
  <2>4. \A q \in H : q \in live' /\ Hash[q] = b /\ cleantime - atime'[q] <= MaxIdle
    BY <2>1, <2>3, <1>1, <1>2, <1>3 DEF Clear
  <2>5. \A q \in H : next'[q] \in H \cup Cursor(b)' \cup {NONE}
    BY <2>1, <2>2, <1>1, <1>3 DEF Clear
  <2>6. head'[b] \in H \cup Cursor(b)' \cup {NONE}
    BY <2>1, <2>2, <1>1, <1>3 DEF Clear
  <2>7. \A u \in Threads : Sweeping(u, b)' => cur'[u] \in H \cup Cursor(b)' \cup {NONE}
    BY <2>1, <2>2, <1>1, <1>4 DEF Clear
  <2>8. H \in SUBSET Sessions
    BY <1>1
  <2> HIDE DEF H
  <2>9. Clear(b, H)'
    BY <2>4, <2>5, <2>6, <2>7, <1>2 DEF Clear
  <2> QED
    BY <1>7, <2>8, <2>9 DEF Cleared
<1> QED
  BY <1>5, <1>6, <1>7

LEMMA BucketsClean ==
    ASSUME Types, Sound, Recent, Cleaned, Next, MaxStall <= MaxIdle, NEW d \in Buckets
    PROVE  (Coming(d) \/ Cleared(d))'
<1> USE TableAssumption, TimeAssumption
<1>0. (Coming(d) \/ Cleared(d)) /\ cleantime \in Nat /\ cleantime <= now
  BY DEF Cleaned
\* A thread that does not sweep leaves the chains alone.
<1>1. ASSUME NEW t \in Threads, UNCHANGED <<cleantime, head, next, live, atime>>,
             {pc[t], pc'[t]} \cap {"bucket", "sweep"} = {},
             \A u \in Threads : u # t => UNCHANGED <<pc[u], bkt[u], cur[u], tnow[u]>>
      PROVE  (Coming(d) \/ Cleared(d))'
  BY <1>0, <1>1, OthersStep
<1>2. ASSUME NEW t \in Threads, Arrive(t) PROVE (Coming(d) \/ Cleared(d))'
  BY <1>1, <1>2 DEF Arrive, Goto, store, walk, Types
<1>3. ASSUME NEW t \in Threads, CleanCheck(t) PROVE (Coming(d) \/ Cleared(d))'
  <2>1. CASE pc' = [pc EXCEPT ![t] = "find"] /\ UNCHANGED <<cleantime, walk>>
    BY <1>1, <1>3, <2>1 DEF CleanCheck, store, walk, Types
  <2>2. CASE cleantime' = tnow[t] /\ Walk(t, 0, NONE, NONE) /\ Goto(t, "bucket")
    <3>1. tnow'[t] = cleantime' /\ pc'[t] = "bucket" /\ bkt'[t] = 0
      BY <2>2, <1>3 DEF CleanCheck, Walk, Goto, Types
    <3>2. 0 <= d
      BY DEF Buckets
    <3> QED
      BY <3>1, <3>2 DEF Coming
  <2> QED
    BY <1>3, <2>1, <2>2 DEF CleanCheck, Goto
<1>4. ASSUME NEW t \in Threads, SweepDelete(t) PROVE (Coming(d) \/ Cleared(d))'
  <2>1. PICK b, s, p : b = bkt[t] /\ s = cur[t] /\ p = par[t]
    OBVIOUS
  <2>2. /\ pc[t] = "sweep" /\ s # NONE /\ Unlink(b, s, p) /\ UNCHANGED <<cleantime, tnow>>
        /\ pc'[t] = "sweep" /\ bkt'[t] = b /\ cur'[t] = next[s]
        /\ \A u \in Threads : u # t => UNCHANGED <<pc[u], bkt[u], cur[u]>>
        /\ b \in Buckets /\ p \in Ref
    BY <1>4, <2>1 DEF SweepDelete, Walk, Types
  <2>3. p # NONE => p # s
    <3>1. PICK rank \in [Sessions -> Nat] : SweepRanks(rank)
      BY DEF Sound, Ranked
    <3> QED
      BY <2>1, <2>2, <3>1 DEF SweepRanks, Ref
  <2>4. Fits(b, s, p)
    BY <2>1, <2>2, <2>3 DEF Fits, Sound, Sweepers
  <2>5. Sweeping(t, b) /\ Sweeping(t, b)'
    BY <2>1, <2>2 DEF Sweeping
  <2> QED
    BY <1>0, <2>1, <2>2, <2>4, <2>5, DeleteClears
<1>5. ASSUME NEW t \in Threads, FoundExpired(t) PROVE (Coming(d) \/ Cleared(d))'
  <2>1. PICK b \in Buckets, s \in Sessions, p \in Ref :
          /\ Fits(b, s, p) /\ Unlink(b, s, p)
          /\ \A u \in Threads : pc[u] = "sweep" => bkt[u] # b
          /\ IF p = NONE THEN head[b] = s ELSE next[p] = s
    BY <1>5, FoundExpiredFits
  <2>2. /\ pc[t] = "find" /\ pc'[t] = "limit" /\ UNCHANGED <<cleantime, tnow>>
        /\ \A u \in Threads : u # t => UNCHANGED <<pc[u], bkt[u], cur[u]>>
    BY <1>5 DEF FoundExpired, Goto, walk, Types
  <2>3. \A u \in Threads : ~Sweeping(u, b)
    BY <2>1 DEF Sweeping
  <2> QED
    BY <1>0, <2>1, <2>2, <2>3, DeleteClears
<1>6. ASSUME NEW t \in Threads, NoCookie(t) \/ Found(t) \/ NotFound(t)
      PROVE  (Coming(d) \/ Cleared(d))'
  <2>1. /\ UNCHANGED <<cleantime, head, next, live, atime, tnow, bkt, cur>>
        /\ pc[t] = "find" /\ pc'[t] \in {"limit", "touch"}
        /\ \A u \in Threads : u # t => pc'[u] = pc[u]
    BY <1>6 DEF NoCookie, Found, NotFound, Goto, store, walk, Types
  <2> QED
    BY <1>1, <2>1
<1>7. ASSUME NEW t \in Threads, Touch(t) PROVE (Coming(d) \/ Cleared(d))'
  <2>1. /\ UNCHANGED <<cleantime, head, next, live, tnow, bkt, cur>>
        /\ pc[t] = "touch" /\ pc'[t] = "serve"
        /\ \A u \in Threads : u # t => pc'[u] = pc[u]
    BY <1>7 DEF Touch, Goto, walk, Types
  <2>2. tnow[t] \in Nat /\ now \in Nat /\ now <= tnow[t] + MaxStall
    BY <2>1 DEF Recent, Types
  <2>3. cleantime - tnow[t] <= MaxIdle
    BY <1>0, <2>2
  <2>4. \A q \in live : atime'[q] = atime[q] \/ atime'[q] = tnow[t]
    BY <1>7 DEF Touch, Types
  <2> QED
    BY <1>0, <2>1, <2>3, <2>4, OthersStep
<1>8. ASSUME NEW t \in Threads, Refused(t) \/ Served(t) PROVE (Coming(d) \/ Cleared(d))'
  <2>1. /\ UNCHANGED <<cleantime, head, next, live, atime, bkt, cur>>
        /\ pc[t] \in {"limit", "serve"} /\ pc'[t] = "idle"
        /\ \A u \in Threads : u # t => UNCHANGED <<pc[u], tnow[u]>>
    BY <1>8 DEF Refused, Served, Leave, Goto, store, walk, Types
  <2> QED
    BY <1>1, <2>1
<1>9. ASSUME NEW t \in Threads, CreateId(t) \/ ReadHead(t) \/ TailTest(t) \/ TailStep(t)
      PROVE  (Coming(d) \/ Cleared(d))'
  <2>1. /\ UNCHANGED <<cleantime, head, next, live, atime, tnow>>
        /\ pc[t] \notin {"bucket", "sweep"} /\ pc'[t] \notin {"bucket", "sweep"}
        /\ \A u \in Threads : u # t => UNCHANGED <<pc[u], bkt[u], cur[u]>>
    BY <1>9 DEF CreateId, ReadHead, TailTest, TailStep, Walk, Goto, store, walk, Types
  <2> QED
    BY <1>1, <2>1
<1>10. CASE Done
  <2>1. /\ \A t \in Threads : pc[t] = "idle" /\ pc'[t] = "stopped"
        /\ head'[d] = NONE
    BY <1>10 DEF Done
  <2>2. Clear(d, {})'
    BY <2>1 DEF Clear, Sweeping
  <2> QED
    BY <2>2 DEF Cleared
<1>11. CASE Tick
  BY <1>0, <1>11, OthersStep DEF Tick, store, walk
<1>12. ASSUME NEW t \in Threads, Misuse(t) PROVE (Coming(d) \/ Cleared(d))'
  BY <1>0, <1>12, OthersStep DEF Misuse, store, walk
<1> QED
  BY <1>0, <1>2, <1>3, <1>4, <1>5, <1>6, <1>7, <1>8, <1>9, <1>10, <1>11, <1>12,
     SweepBucketClears, SweepKeepClears, SweepUnlockClears, AppendClears
     DEF Next, Work, Clean, Find, Create

LEMMA CleanedStep ==
    ASSUME Types, Sound, Recent, Cleaned, Next, MaxStall <= MaxIdle, CleanInterval > 0
    PROVE  Cleaned'
<1> USE TableAssumption, TimeAssumption
<1>t. /\ now \in Nat /\ tnow \in [Threads -> Nat] /\ cleantime \in Nat /\ cleantime <= now
      /\ \A t \in Threads : tnow[t] <= now
  BY DEF Types, Cleaned, Recent
<1>1. ASSUME NEW t \in Threads, UNCHANGED <<now, cleantime>>, tnow'[t] = tnow[t],
             \A u \in Threads : u # t => UNCHANGED <<pc[u], tnow[u]>>,
             pc'[t] \in {"bucket", "sweep"} => pc[t] \in {"bucket", "sweep"},
             pc[t] \notin {"idle", "clean", "stopped"}
      PROVE  Cleaned'
  BY <1>1, BucketsClean DEF Cleaned
<1>2. ASSUME NEW t \in Threads, Arrive(t) PROVE Cleaned'
  <2>1. /\ UNCHANGED <<now, cleantime>> /\ pc'[t] = "clean"
        /\ \A u \in Threads : u # t => UNCHANGED <<pc[u], tnow[u]>>
    BY <1>2 DEF Arrive, Goto, Types
  <2> QED
    BY <2>1, BucketsClean DEF Cleaned
<1>3. ASSUME NEW t \in Threads, CleanCheck(t) PROVE Cleaned'
  <2>1. UNCHANGED <<now, tnow>> /\ \A u \in Threads : u # t => pc'[u] = pc[u]
    BY <1>3 DEF CleanCheck, Goto, Types
  <2>2. CASE tnow[t] - cleantime < CleanInterval /\ cleantime' = cleantime /\ pc'[t] = "find"
    <3>1. tnow[t] < cleantime + CleanInterval
      BY <1>t, <2>2
    <3> QED
      BY <2>1, <2>2, <3>1, BucketsClean DEF Cleaned
  <2>3. CASE ~(tnow[t] - cleantime < CleanInterval) /\ cleantime' = tnow[t] /\ pc'[t] = "bucket"
    <3>1. cleantime <= tnow[t]
      BY <1>t, <2>3
    <3>2. \A u \in Threads : tnow[u] <= cleantime => tnow[u] <= tnow[t]
      BY <1>t, <3>1
    <3>3. \A u \in Threads : tnow[u] < cleantime + CleanInterval => tnow[u] < tnow[t] + CleanInterval
      BY <1>t, <3>1
    <3>4. tnow[t] < tnow[t] + CleanInterval
      BY <1>t
    <3> QED
      BY <1>t, <2>1, <2>3, <3>2, <3>3, <3>4, BucketsClean DEF Cleaned
  <2> QED
    BY <1>3, <2>2, <2>3 DEF CleanCheck, Goto, Types
<1>4. ASSUME NEW t \in Threads, SweepBucket(t) \/ SweepDelete(t) \/ SweepKeep(t) \/ SweepUnlock(t)
      PROVE  Cleaned'
  <2>1. /\ UNCHANGED <<now, cleantime, tnow>> /\ pc[t] \in {"bucket", "sweep"}
        /\ \A u \in Threads : u # t => pc'[u] = pc[u]
    BY <1>4 DEF SweepBucket, SweepDelete, SweepKeep, SweepUnlock, Goto, Types
  <2> QED
    BY <1>1, <2>1
<1>5. ASSUME NEW t \in Threads,
             \/ Find(t) \/ Touch(t) \/ CreateId(t)
             \/ ReadHead(t) \/ TailTest(t) \/ TailStep(t) \/ AppendSession(t)
      PROVE  Cleaned'
  <2>1. /\ UNCHANGED <<now, cleantime, tnow>>
        /\ pc[t] \in {"find", "touch", "limit", "first", "tail", "along", "append"}
        /\ pc'[t] \notin {"bucket", "sweep"}
        /\ \A u \in Threads : u # t => pc'[u] = pc[u]
    BY <1>5 DEF Find, NoCookie, Found, FoundExpired, NotFound, Touch, CreateId,
           ReadHead, TailTest, TailStep, AppendSession, Goto, Types
  <2> QED
    BY <1>1, <2>1
<1>6. ASSUME NEW t \in Threads, Refused(t) \/ Served(t) PROVE Cleaned'
  <2>1. /\ UNCHANGED <<now, cleantime>> /\ pc'[t] = "idle"
        /\ \A u \in Threads : u # t => UNCHANGED <<pc[u], tnow[u]>>
    BY <1>6 DEF Refused, Served, Leave, Goto, Types
  <2> QED
    BY <2>1, BucketsClean DEF Cleaned
<1>7. CASE Done
  <2>1. UNCHANGED <<now, cleantime>> /\ \A t \in Threads : pc'[t] = "stopped"
    BY <1>7 DEF Done
  <2> QED
    BY <2>1, BucketsClean DEF Cleaned
<1>8. CASE Tick
  <2>1. now' = now + 1 /\ UNCHANGED <<cleantime, tnow, pc>>
    BY <1>8 DEF Tick
  <2>2. cleantime <= now'
    BY <1>t, <2>1
  <2> QED
    BY <2>1, <2>2, BucketsClean DEF Cleaned
<1>9. ASSUME NEW t \in Threads, Misuse(t) PROVE Cleaned'
  BY <1>9, BucketsClean DEF Misuse, Cleaned
<1> QED
  BY <1>2, <1>3, <1>4, <1>5, <1>6, <1>7, <1>8, <1>9 DEF Next, Work, Clean, Create

\* Where no sweep is under way, a whole chain is among the records that are clear.
LEMMA ChainIsClear ==
    ASSUME Types, NEW b \in Buckets, NEW G, head[b] \in G \cup {NONE},
           \A q \in G : next[q] \in G \cup {NONE}
    PROVE  Linked(b) \subseteq G
<1> DEFINE hp == Hops(b)
           Strays == {n \in Nat : n <= N /\ hp[n] \notin G \cup {NONE}}
<1>1. /\ N \in Nat /\ hp \in [0 .. N -> Ref] /\ hp[0] = head[b]
      /\ \A n \in 1 .. N : hp[n] = IF hp[n-1] = NONE THEN NONE ELSE next[hp[n-1]]
  BY HopFacts
<1>2. Linked(b) = {hp[n] : n \in 0 .. N} \ {NONE}
  BY DEF Linked, N
<1> HIDE DEF hp
<1>3. ASSUME Strays # {} PROVE FALSE
  <2>1. PICK m \in Strays : \A n \in Strays : m <= n
    BY <1>3, NatMin
  <2>2. m # 0
    BY <2>1, <1>1
  <2>3. m - 1 \in Nat /\ m \in 1 .. N /\ m - 1 \notin Strays
    BY <2>1, <2>2, <1>1
  <2>4. hp[m-1] \in G \cup {NONE}
    BY <2>1, <2>3, <1>1
  <2> QED
    BY <2>1, <2>3, <2>4, <1>1
<1> QED
  BY <1>1, <1>2, <1>3

\* Past clean(), and with no sweep under way, nothing in the table has been idle for
\* longer than MAXIDLE and one CLEANINTERVAL, if requests do not last longer than MAXIDLE:
\* sweeps may overlap, chains may be cut and linked again meanwhile, but no record gets
\* past the last sweep.
THEOREM SweptCorrect == MaxStall <= MaxIdle /\ CleanInterval > 0 => (Spec => []Swept)
<1> SUFFICES ASSUME MaxStall <= MaxIdle, CleanInterval > 0 PROVE Spec => []Swept
  OBVIOUS
<1> USE TableAssumption, TimeAssumption
<1>1. Init => Recent
  BY DEF Init, Recent
<1>2. Init => Cleaned
  <2> SUFFICES ASSUME Init PROVE Cleaned
    OBVIOUS
  <2>1. \A b \in Buckets : Clear(b, {})
    BY DEF Init, Clear, Sweeping
  <2> QED
    BY <2>1 DEF Init, Cleaned, Cleared
<1>3. Types /\ Sound /\ Recent /\ Cleaned /\ [Next]_vars => (Recent /\ Cleaned)'
  <2> SUFFICES ASSUME Types, Sound, Recent, Cleaned, [Next]_vars PROVE (Recent /\ Cleaned)'
    OBVIOUS
  <2>1. CASE Next
    BY <2>1, RecentStep, CleanedStep DEF Sound
  <2>2. CASE UNCHANGED vars
    BY <2>2 DEF vars, store, walk, Recent, Cleaned, Coming, Cleared, Clear, Cursor, Sweeping
  <2> QED
    BY <2>1, <2>2
<1>4. Types /\ Cleaned => Swept
  <2> SUFFICES ASSUME Types, Cleaned, \A t \in Threads : pc[t] \notin {"bucket", "sweep"},
                      NEW t \in Threads, pc[t] \in {"find", "limit"},
                      NEW b \in Buckets, NEW s \in Linked(b)
               PROVE  tnow[t] - atime[s] < MaxIdle + CleanInterval
    BY DEF Swept
  <2>1. PICK G \in SUBSET Sessions : Clear(b, G)
    BY DEF Cleaned, Coming, Cleared
  <2>2. Cursor(b) = {}
    BY DEF Cursor, Sweeping
  <2>3. s \in G
    BY <2>1, <2>2, ChainIsClear DEF Clear
  <2>4. cleantime - atime[s] <= MaxIdle /\ atime[s] \in Nat
    BY <2>1, <2>3 DEF Clear, Types
  <2>5. tnow[t] < cleantime + CleanInterval /\ cleantime \in Nat /\ tnow[t] \in Nat
    BY DEF Cleaned, Types
  <2> QED
    BY <2>4, <2>5
<1> QED
  BY <1>1, <1>2, <1>3, <1>4, AlwaysSound, PTL DEF Spec

-----------------------------------------------------------------------------
(***************************************************************************)
(* Who owns the properties of a session.  A set of facts says what a       *)
(* request knows: the keys whose pointers are not gone, "in" if somebody   *)
(* is logged in, "mine" if it has got a user, "ref" if the referrer is not *)
(* gone.  A list of accesses together with the facts it starts from is in  *)
(* order if each access finds the facts it needs.                          *)
(***************************************************************************)

Ops == {"get", "use", "deref", "set", "clear", "other", "ensure", "free", "store",
        "read", "user", "silent", "login", "logout"}
Accesses == Ops \X (Keys \cup {"root", "logout"})
Lists == Seq(Accesses)
TextKeys == Keys \ {"table", "user", "referrer"}

\* An access that finds what it needs in F leaves G.
Leads(a, F, G) ==
    LET op == a[1]
        k == a[2]
    IN \/ op = "get" /\ k \in TextKeys \cup {"table"} /\ G = F \cup {k}
       \/ op = "use" /\ k \in Keys \cap F /\ G = F
       \/ op = "deref" /\ k = "user" /\ {"user", "mine"} \subseteq F /\ G = F
       \/ op = "set" /\ k \in TextKeys /\ G = F \cup {k}
       \/ op = "clear" /\ k \in TextKeys /\ G = F \ {k}
       \/ op = "other" /\ G = F \ {"name"}
       \/ op = "ensure" /\ "table" \in F /\ G = F \ {"user", "in"}
       \/ op = "free" /\ k = "referrer" /\ "ref" \in F /\ G = F \ {"referrer", "ref"}
       \/ op = "store" /\ k = "referrer" /\ G = F \cup {"ref"}
       \/ op = "read" /\ "table" \in F
           /\ G = (F \ {"mine"}) \cup {"user"} \cup {f \in {"mine"} : "in" \in F}
       \/ op = "logout" /\ "table" \in F /\ G = F \ {"user", "in"}

\* What L may go on with is in R, with the facts there are then.
InOrder(R, L, F) ==
    /\ L \in Lists
    /\ L = <<>> => "ref" \in F
    /\ L # <<>> =>
         LET op == Head(L)[1]
             k == Head(L)[2]
         IN \/ \E G : Leads(Head(L), F, G) /\ <<Tail(L), G>> \in R
            \/ op = "user" /\ k \in {"form", "logout"} /\ "table" \in F
                 /\ \A found \in BOOLEAN : <<Then(k, found), (F \ {"mine"}) \cup {"user"}>> \in R
            \/ op = "silent" /\ "table" \in F
                 /\ <<ShowSilent, F \cup {"in"}>> \in R /\ <<ShowLogin, F>> \in R
            \/ op = "login" /\ "table" \in F
                 /\ <<LoginOk, F \ {"user"}>> \in R /\ <<LoginFailed, F>> \in R

Closed(R) == \A L, F : <<L, F>> \in R => InOrder(R, L, F)

Orderly(L, F) == \E R : Closed(R) /\ <<L, F>> \in R

\* A list is in order wherever at least the facts in K are known.
Sure(L, K) == \A F : K \subseteq F => Orderly(L, F)

LEMMA InOrderMore ==
    ASSUME NEW R, NEW S, R \subseteq S, NEW L, NEW F, InOrder(R, L, F)
    PROVE  InOrder(S, L, F)
BY DEF InOrder

LEMMA ClosedUnion ==
    ASSUME NEW R, NEW S, Closed(R), Closed(S)
    PROVE  Closed(R \cup S)
<1> SUFFICES ASSUME NEW L, NEW F, <<L, F>> \in R \cup S PROVE InOrder(R \cup S, L, F)
  BY DEF Closed
<1>1. CASE <<L, F>> \in R
  <2>1. InOrder(R, L, F) /\ R \subseteq R \cup S
    BY <1>1 DEF Closed
  <2> QED
    BY <2>1, InOrderMore
<1>2. CASE <<L, F>> \in S
  <2>1. InOrder(S, L, F) /\ S \subseteq R \cup S
    BY <1>2 DEF Closed
  <2> QED
    BY <2>1, InOrderMore
<1> QED
  BY <1>1, <1>2

LEMMA OneMore ==
    ASSUME NEW R, Closed(R), NEW L, NEW F, InOrder(R, L, F)
    PROVE  Orderly(L, F)
<1> DEFINE S == R \cup {<<L, F>>}
<1>1. Closed(S)
  <2> SUFFICES ASSUME NEW M, NEW G, <<M, G>> \in S PROVE InOrder(S, M, G)
    BY DEF Closed
  <2>1. R \subseteq S
    OBVIOUS
  <2>2. <<M, G>> \in R => InOrder(R, M, G)
    BY DEF Closed
  <2>3. <<M, G>> \notin R => M = L /\ G = F
    OBVIOUS
  <2>4. InOrder(R, M, G)
    BY <2>2, <2>3
  <2> HIDE DEF S
  <2> QED
    BY <2>1, <2>4, InOrderMore
<1> QED
  BY <1>1 DEF Orderly

LEMMA AccessIs ==
    ASSUME NEW op \in Ops, NEW k \in Keys \cup {"root", "logout"}
    PROVE  <<op, k>> \in Accesses /\ <<op, k>>[1] = op /\ <<op, k>>[2] = k
BY DEF Accesses

-----------------------------------------------------------------------------
(* What one access adds to a list, by kind.                                *)

Cons(a, M) == <<a>> \o M

LEMMA ConsIs ==
    ASSUME NEW a \in Accesses, NEW M \in Lists
    PROVE  Cons(a, M) \in Lists /\ Cons(a, M) # <<>> /\ Head(Cons(a, M)) = a /\ Tail(Cons(a, M)) = M
BY DEF Cons, Lists

LEMMA EmptySure == Sure(<<>>, {"ref"})
<1> SUFFICES ASSUME NEW F, "ref" \in F PROVE Orderly(<<>>, F)
  BY DEF Sure
<1>1. Closed({})
  BY DEF Closed
<1>2. InOrder({}, <<>>, F)
  BY DEF InOrder, Lists
<1> QED
  BY <1>1, <1>2, OneMore

\* An access after which F holds of the rest.
LEMMA StepSure ==
    ASSUME NEW M \in Lists, NEW P, Sure(M, P), NEW a \in Accesses, NEW K,
           \A F : K \subseteq F => \E G : P \subseteq G /\ Leads(a, F, G)
    PROVE  Cons(a, M) \in Lists /\ Sure(Cons(a, M), K)
<1> DEFINE L == Cons(a, M)
<1>1. L \in Lists /\ L # <<>> /\ Head(L) = a /\ Tail(L) = M
  BY ConsIs
<1> HIDE DEF L
<1>2. ASSUME NEW F, K \subseteq F PROVE Orderly(L, F)
  <2>1. PICK G : P \subseteq G /\ Leads(a, F, G)
    BY <1>2
  <2>2. PICK R : Closed(R) /\ <<M, G>> \in R
    BY <2>1 DEF Sure, Orderly
  <2>3. InOrder(R, L, F)
    <3> HIDE DEF Leads
    <3> QED
      BY <1>1, <2>1, <2>2 DEF InOrder
  <2> QED
    BY <2>2, <2>3, OneMore
<1> QED
  BY <1>1, <1>2 DEF Sure, L

LEMMA GetSure ==
    ASSUME NEW M \in Lists, NEW P, Sure(M, P), NEW k \in TextKeys \cup {"table"}, NEW K,
        P \subseteq K \cup {k}
    PROVE  Cons(<<"get", k>>, M) \in Lists /\ Sure(Cons(<<"get", k>>, M), K)
<1> DEFINE a == <<"get", k>>
<1>1. a \in Accesses /\ a[1] = "get" /\ a[2] = k
  <2>1. "get" \in Ops /\ k \in Keys \cup {"root", "logout"}
    BY DEF Ops, Keys, TextKeys
  <2> QED
    BY <2>1, AccessIs
<1> HIDE DEF a
<1>2. ASSUME NEW F, K \subseteq F PROVE \E G : P \subseteq G /\ Leads(a, F, G)
  <2> DEFINE G == F \cup {k}
  <2>1. P \subseteq G
    BY <1>2
  <2>2. Leads(a, F, G)
    BY <1>1, <1>2 DEF Leads
  <2> QED
    BY <2>1, <2>2
<1>3. Cons(a, M) \in Lists /\ Sure(Cons(a, M), K)
  BY <1>1, <1>2, StepSure
<1> QED
  BY <1>3 DEF a

LEMMA UseSure ==
    ASSUME NEW M \in Lists, NEW P, Sure(M, P), NEW k \in Keys, NEW K, P \cup {k} \subseteq K
    PROVE  Cons(<<"use", k>>, M) \in Lists /\ Sure(Cons(<<"use", k>>, M), K)
<1> DEFINE a == <<"use", k>>
<1>1. a \in Accesses /\ a[1] = "use" /\ a[2] = k
  <2>1. "use" \in Ops /\ k \in Keys \cup {"root", "logout"}
    BY DEF Ops, Keys, TextKeys
  <2> QED
    BY <2>1, AccessIs
<1> HIDE DEF a
<1>2. ASSUME NEW F, K \subseteq F PROVE \E G : P \subseteq G /\ Leads(a, F, G)
  <2> DEFINE G == F
  <2>1. P \subseteq G
    BY <1>2
  <2>2. Leads(a, F, G)
    BY <1>1, <1>2 DEF Leads
  <2> QED
    BY <2>1, <2>2
<1>3. Cons(a, M) \in Lists /\ Sure(Cons(a, M), K)
  BY <1>1, <1>2, StepSure
<1> QED
  BY <1>3 DEF a

LEMMA DerefSure ==
    ASSUME NEW M \in Lists, NEW P, Sure(M, P), NEW K, P \cup {"user", "mine"} \subseteq K
    PROVE  Cons(<<"deref", "user">>, M) \in Lists /\ Sure(Cons(<<"deref", "user">>, M), K)
<1> DEFINE a == <<"deref", "user">>
<1>1. a \in Accesses /\ a[1] = "deref" /\ a[2] = "user"
  <2>1. "deref" \in Ops /\ "user" \in Keys \cup {"root", "logout"}
    BY DEF Ops, Keys
  <2> QED
    BY <2>1, AccessIs
<1> HIDE DEF a
<1>2. ASSUME NEW F, K \subseteq F PROVE \E G : P \subseteq G /\ Leads(a, F, G)
  <2> DEFINE G == F
  <2>1. P \subseteq G
    BY <1>2
  <2>2. Leads(a, F, G)
    BY <1>1, <1>2 DEF Leads
  <2> QED
    BY <2>1, <2>2
<1>3. Cons(a, M) \in Lists /\ Sure(Cons(a, M), K)
  BY <1>1, <1>2, StepSure
<1> QED
  BY <1>3 DEF a

LEMMA SetSure ==
    ASSUME NEW M \in Lists, NEW P, Sure(M, P), NEW k \in TextKeys, NEW K, P \subseteq K \cup {k}
    PROVE  Cons(<<"set", k>>, M) \in Lists /\ Sure(Cons(<<"set", k>>, M), K)
<1> DEFINE a == <<"set", k>>
<1>1. a \in Accesses /\ a[1] = "set" /\ a[2] = k
  <2>1. "set" \in Ops /\ k \in Keys \cup {"root", "logout"}
    BY DEF Ops, Keys, TextKeys
  <2> QED
    BY <2>1, AccessIs
<1> HIDE DEF a
<1>2. ASSUME NEW F, K \subseteq F PROVE \E G : P \subseteq G /\ Leads(a, F, G)
  <2> DEFINE G == F \cup {k}
  <2>1. P \subseteq G
    BY <1>2
  <2>2. Leads(a, F, G)
    BY <1>1, <1>2 DEF Leads
  <2> QED
    BY <2>1, <2>2
<1>3. Cons(a, M) \in Lists /\ Sure(Cons(a, M), K)
  BY <1>1, <1>2, StepSure
<1> QED
  BY <1>3 DEF a

LEMMA ClearSure ==
    ASSUME NEW M \in Lists, NEW P, Sure(M, P), NEW k \in TextKeys, NEW K, k \notin P, P \subseteq K
    PROVE  Cons(<<"clear", k>>, M) \in Lists /\ Sure(Cons(<<"clear", k>>, M), K)
<1> DEFINE a == <<"clear", k>>
<1>1. a \in Accesses /\ a[1] = "clear" /\ a[2] = k
  <2>1. "clear" \in Ops /\ k \in Keys \cup {"root", "logout"}
    BY DEF Ops, Keys, TextKeys
  <2> QED
    BY <2>1, AccessIs
<1> HIDE DEF a
<1>2. ASSUME NEW F, K \subseteq F PROVE \E G : P \subseteq G /\ Leads(a, F, G)
  <2> DEFINE G == F \ {k}
  <2>1. P \subseteq G
    BY <1>2
  <2>2. Leads(a, F, G)
    BY <1>1, <1>2 DEF Leads
  <2> QED
    BY <2>1, <2>2
<1>3. Cons(a, M) \in Lists /\ Sure(Cons(a, M), K)
  BY <1>1, <1>2, StepSure
<1> QED
  BY <1>3 DEF a

LEMMA OtherSure ==
    ASSUME NEW M \in Lists, NEW P, Sure(M, P), NEW K, "name" \notin P, P \subseteq K
    PROVE  Cons(<<"other", "name">>, M) \in Lists /\ Sure(Cons(<<"other", "name">>, M), K)
<1> DEFINE a == <<"other", "name">>
<1>1. a \in Accesses /\ a[1] = "other" /\ a[2] = "name"
  <2>1. "other" \in Ops /\ "name" \in Keys \cup {"root", "logout"}
    BY DEF Ops, Keys
  <2> QED
    BY <2>1, AccessIs
<1> HIDE DEF a
<1>2. ASSUME NEW F, K \subseteq F PROVE \E G : P \subseteq G /\ Leads(a, F, G)
  <2> DEFINE G == F \ {"name"}
  <2>1. P \subseteq G
    BY <1>2
  <2>2. Leads(a, F, G)
    BY <1>1, <1>2 DEF Leads
  <2> QED
    BY <2>1, <2>2
<1>3. Cons(a, M) \in Lists /\ Sure(Cons(a, M), K)
  BY <1>1, <1>2, StepSure
<1> QED
  BY <1>3 DEF a

LEMMA EnsureSure ==
    ASSUME NEW M \in Lists, NEW P, Sure(M, P), NEW K, "user" \notin P, "in" \notin P,
        P \cup {"table"} \subseteq K
    PROVE  Cons(<<"ensure", "table">>, M) \in Lists /\ Sure(Cons(<<"ensure", "table">>, M), K)
<1> DEFINE a == <<"ensure", "table">>
<1>1. a \in Accesses /\ a[1] = "ensure" /\ a[2] = "table"
  <2>1. "ensure" \in Ops /\ "table" \in Keys \cup {"root", "logout"}
    BY DEF Ops, Keys
  <2> QED
    BY <2>1, AccessIs
<1> HIDE DEF a
<1>2. ASSUME NEW F, K \subseteq F PROVE \E G : P \subseteq G /\ Leads(a, F, G)
  <2> DEFINE G == F \ {"user", "in"}
  <2>1. P \subseteq G
    BY <1>2
  <2>2. Leads(a, F, G)
    BY <1>1, <1>2 DEF Leads
  <2> QED
    BY <2>1, <2>2
<1>3. Cons(a, M) \in Lists /\ Sure(Cons(a, M), K)
  BY <1>1, <1>2, StepSure
<1> QED
  BY <1>3 DEF a

LEMMA FreeSure ==
    ASSUME NEW M \in Lists, NEW P, Sure(M, P), NEW K, "referrer" \notin P, "ref" \notin P,
        P \cup {"ref"} \subseteq K
    PROVE  Cons(<<"free", "referrer">>, M) \in Lists /\ Sure(Cons(<<"free", "referrer">>, M), K)
<1> DEFINE a == <<"free", "referrer">>
<1>1. a \in Accesses /\ a[1] = "free" /\ a[2] = "referrer"
  <2>1. "free" \in Ops /\ "referrer" \in Keys \cup {"root", "logout"}
    BY DEF Ops, Keys
  <2> QED
    BY <2>1, AccessIs
<1> HIDE DEF a
<1>2. ASSUME NEW F, K \subseteq F PROVE \E G : P \subseteq G /\ Leads(a, F, G)
  <2> DEFINE G == F \ {"referrer", "ref"}
  <2>1. P \subseteq G
    BY <1>2
  <2>2. Leads(a, F, G)
    BY <1>1, <1>2 DEF Leads
  <2> QED
    BY <2>1, <2>2
<1>3. Cons(a, M) \in Lists /\ Sure(Cons(a, M), K)
  BY <1>1, <1>2, StepSure
<1> QED
  BY <1>3 DEF a

LEMMA StoreSure ==
    ASSUME NEW M \in Lists, NEW P, Sure(M, P), NEW K, P \subseteq K \cup {"ref"}
    PROVE  Cons(<<"store", "referrer">>, M) \in Lists /\ Sure(Cons(<<"store", "referrer">>, M), K)
<1> DEFINE a == <<"store", "referrer">>
<1>1. a \in Accesses /\ a[1] = "store" /\ a[2] = "referrer"
  <2>1. "store" \in Ops /\ "referrer" \in Keys \cup {"root", "logout"}
    BY DEF Ops, Keys
  <2> QED
    BY <2>1, AccessIs
<1> HIDE DEF a
<1>2. ASSUME NEW F, K \subseteq F PROVE \E G : P \subseteq G /\ Leads(a, F, G)
  <2> DEFINE G == F \cup {"ref"}
  <2>1. P \subseteq G
    BY <1>2
  <2>2. Leads(a, F, G)
    BY <1>1, <1>2 DEF Leads
  <2> QED
    BY <2>1, <2>2
<1>3. Cons(a, M) \in Lists /\ Sure(Cons(a, M), K)
  BY <1>1, <1>2, StepSure
<1> QED
  BY <1>3 DEF a

LEMMA ReadSure ==
    ASSUME NEW M \in Lists, NEW P, Sure(M, P), NEW K, P \subseteq K \cup {"user", "mine"}, {"table",
        "in"} \subseteq K
    PROVE  Cons(<<"read", "user">>, M) \in Lists /\ Sure(Cons(<<"read", "user">>, M), K)
<1> DEFINE a == <<"read", "user">>
<1>1. a \in Accesses /\ a[1] = "read" /\ a[2] = "user"
  <2>1. "read" \in Ops /\ "user" \in Keys \cup {"root", "logout"}
    BY DEF Ops, Keys
  <2> QED
    BY <2>1, AccessIs
<1> HIDE DEF a
<1>2. ASSUME NEW F, K \subseteq F PROVE \E G : P \subseteq G /\ Leads(a, F, G)
  <2> DEFINE G == (F \ {"mine"}) \cup {"user"} \cup {f \in {"mine"} : "in" \in F}
  <2>1. P \subseteq G
    BY <1>2
  <2>2. Leads(a, F, G)
    BY <1>1, <1>2 DEF Leads
  <2> QED
    BY <2>1, <2>2
<1>3. Cons(a, M) \in Lists /\ Sure(Cons(a, M), K)
  BY <1>1, <1>2, StepSure
<1> QED
  BY <1>3 DEF a

LEMMA LogoutSure ==
    ASSUME NEW M \in Lists, NEW P, Sure(M, P), NEW K, "user" \notin P, "in" \notin P,
        P \cup {"table"} \subseteq K
    PROVE  Cons(<<"logout", "user">>, M) \in Lists /\ Sure(Cons(<<"logout", "user">>, M), K)
<1> DEFINE a == <<"logout", "user">>
<1>1. a \in Accesses /\ a[1] = "logout" /\ a[2] = "user"
  <2>1. "logout" \in Ops /\ "user" \in Keys \cup {"root", "logout"}
    BY DEF Ops, Keys
  <2> QED
    BY <2>1, AccessIs
<1> HIDE DEF a
<1>2. ASSUME NEW F, K \subseteq F PROVE \E G : P \subseteq G /\ Leads(a, F, G)
  <2> DEFINE G == F \ {"user", "in"}
  <2>1. P \subseteq G
    BY <1>2
  <2>2. Leads(a, F, G)
    BY <1>1, <1>2 DEF Leads
  <2> QED
    BY <2>1, <2>2
<1>3. Cons(a, M) \in Lists /\ Sure(Cons(a, M), K)
  BY <1>1, <1>2, StepSure
<1> QED
  BY <1>3 DEF a

-----------------------------------------------------------------------------
(* Accesses a list ends with, as the authenticator says how it goes on.    *)

LEMMA BothSound ==
    ASSUME NEW L, NEW F, NEW M, NEW G, Orderly(L, F), Orderly(M, G)
    PROVE  \E R : Closed(R) /\ <<L, F>> \in R /\ <<M, G>> \in R
<1>1. PICK R : Closed(R) /\ <<L, F>> \in R
  BY DEF Orderly
<1>2. PICK S : Closed(S) /\ <<M, G>> \in S
  BY DEF Orderly
<1>3. Closed(R \cup S)
  BY <1>1, <1>2, ClosedUnion
<1> QED
  BY <1>1, <1>2, <1>3

LEMMA UserSure ==
    ASSUME NEW who \in {"form", "logout"}, NEW P, NEW Q, NEW K,
           Sure(Then(who, TRUE), P), Sure(Then(who, FALSE), Q),
           P \cup Q \subseteq (K \ {"mine"}) \cup {"user"}, "table" \in K
    PROVE  <<<<"user", who>>>> \in Lists /\ Sure(<<<<"user", who>>>>, K)
<1> DEFINE a == <<"user", who>>
           L == <<a>>
<1>1. a \in Accesses /\ a[1] = "user" /\ a[2] = who
  <2>1. "user" \in Ops /\ who \in Keys \cup {"root", "logout"}
    BY DEF Ops, Keys
  <2> QED
    BY <2>1, AccessIs
<1> HIDE DEF a
<1>2. L \in Lists /\ L # <<>> /\ Head(L) = a
  BY <1>1 DEF Lists
<1> HIDE DEF L
<1>3. ASSUME NEW F, K \subseteq F PROVE Orderly(L, F)
  <2> DEFINE G == (F \ {"mine"}) \cup {"user"}
  <2>1. Orderly(Then(who, TRUE), G) /\ Orderly(Then(who, FALSE), G)
    BY <1>3 DEF Sure
  <2>2. PICK R : Closed(R) /\ <<Then(who, TRUE), G>> \in R /\ <<Then(who, FALSE), G>> \in R
    BY <2>1, BothSound
  <2>3. InOrder(R, L, F)
    <3>1. \A found \in BOOLEAN : <<Then(who, found), G>> \in R
      BY <2>2
    <3> QED
      BY <1>1, <1>2, <1>3, <3>1 DEF InOrder
  <2> QED
    BY <2>2, <2>3, OneMore
<1> QED
  BY <1>2, <1>3 DEF Sure, L, a

LEMMA SilentSure ==
    ASSUME NEW P, NEW Q, NEW K, Sure(ShowSilent, P), Sure(ShowLogin, Q),
           P \subseteq K \cup {"in"}, Q \subseteq K, "table" \in K
    PROVE  <<<<"silent", "user">>>> \in Lists /\ Sure(<<<<"silent", "user">>>>, K)
<1> DEFINE a == <<"silent", "user">>
           L == <<a>>
<1>1. a \in Accesses /\ a[1] = "silent"
  <2>1. "silent" \in Ops /\ "user" \in Keys \cup {"root", "logout"}
    BY DEF Ops, Keys
  <2> QED
    BY <2>1, AccessIs
<1> HIDE DEF a
<1>2. L \in Lists /\ L # <<>> /\ Head(L) = a
  BY <1>1 DEF Lists
<1> HIDE DEF L
<1>3. ASSUME NEW F, K \subseteq F PROVE Orderly(L, F)
  <2>1. Orderly(ShowSilent, F \cup {"in"}) /\ Orderly(ShowLogin, F)
    BY <1>3 DEF Sure
  <2>2. PICK R : Closed(R) /\ <<ShowSilent, F \cup {"in"}>> \in R /\ <<ShowLogin, F>> \in R
    BY <2>1, BothSound
  <2>3. InOrder(R, L, F)
    BY <1>1, <1>2, <1>3, <2>2 DEF InOrder
  <2> QED
    BY <2>2, <2>3, OneMore
<1> QED
  BY <1>2, <1>3 DEF Sure, L, a

LEMMA LoginSure ==
    ASSUME NEW P, NEW Q, NEW K, Sure(LoginOk, P), Sure(LoginFailed, Q),
           "user" \notin P, P \cup Q \subseteq K, "table" \in K
    PROVE  <<<<"login", "user">>>> \in Lists /\ Sure(<<<<"login", "user">>>>, K)
<1> DEFINE a == <<"login", "user">>
           L == <<a>>
<1>1. a \in Accesses /\ a[1] = "login"
  <2>1. "login" \in Ops /\ "user" \in Keys \cup {"root", "logout"}
    BY DEF Ops, Keys
  <2> QED
    BY <2>1, AccessIs
<1> HIDE DEF a
<1>2. L \in Lists /\ L # <<>> /\ Head(L) = a
  BY <1>1 DEF Lists
<1> HIDE DEF L
<1>3. ASSUME NEW F, K \subseteq F PROVE Orderly(L, F)
  <2>1. Orderly(LoginOk, F \ {"user"}) /\ Orderly(LoginFailed, F)
    BY <1>3 DEF Sure
  <2>2. PICK R : Closed(R) /\ <<LoginOk, F \ {"user"}>> \in R /\ <<LoginFailed, F>> \in R
    BY <2>1, BothSound
  <2>3. InOrder(R, L, F)
    BY <1>1, <1>2, <1>3, <2>2 DEF InOrder
  <2> QED
    BY <2>2, <2>3, OneMore
<1> QED
  BY <1>2, <1>3 DEF Sure, L, a

-----------------------------------------------------------------------------
(* The lists of the handlers, spelled out.                                 *)

LEMMA ConsAppend ==
    ASSUME NEW a \in Accesses, NEW M \in Lists, NEW X \in Lists
    PROVE  Cons(a, M) \o X = Cons(a, M \o X)
BY SMTT(30) DEF Cons, Lists

LEMMA NothingAppended ==
    ASSUME NEW M \in Lists
    PROVE  M \o <<>> = M
BY DEF Lists

LEMMA NothingInLists == <<>> \in Lists
BY DEF Lists

LEMMA Append3 ==
    ASSUME NEW L \in Lists, NEW M \in Lists, NEW K \in Lists
    PROVE  L \o M \in Lists /\ M \o K \in Lists /\ (L \o M) \o K = L \o (M \o K)
BY SMTT(30) DEF Lists

LEMMA Row1 ==
    ASSUME NEW a1, NEW X, X \in Lists,
           a1 \in Accesses
    PROVE  <<a1>> \in Lists /\ <<a1>> \o X = Cons(a1, X) /\ <<a1>> \o X \in Lists
BY DEF Cons, Lists

LEMMA Cells2 ==
    ASSUME NEW a1, NEW a2
    PROVE  <<a1, a2>> = Cons(a1, <<a2>>)
<1> DEFINE S == {a1, a2}
           s == Cons(a1, <<a2>>)
           r == <<a1, a2>>
<1>1. r \in Seq(S) /\ Len(r) = 2 /\ r[1] = a1 /\ r[2] = a2
  OBVIOUS
<1>2. s \in Seq(S) /\ Len(s) = 2 /\ s[1] = a1 /\ s[2] = a2
  BY DEF Cons
<1>3. \A i \in 1 .. 2 : r[i] = s[i]
  BY <1>1, <1>2
<1> HIDE DEF S, r, s
<1> QED
  BY <1>1, <1>2, <1>3 DEF r, s

LEMMA Row2 ==
    ASSUME NEW a1, NEW a2, NEW X, X \in Lists,
           a1 \in Accesses, a2 \in Accesses
    PROVE  <<a1, a2>> \in Lists /\ <<a1, a2>> \o X = Cons(a1, Cons(a2, X)) /\ <<a1, a2>> \o X \in Lists
<1> DEFINE r == <<a2>>
           s == Cons(a2, X)
<1>1. r \in Lists /\ r \o X = s /\ r \o X \in Lists
  BY Row1
<1>2. <<a1, a2>> = Cons(a1, r)
  BY Cells2
<1> HIDE DEF r, s
<1>3. Cons(a1, r) \o X = Cons(a1, s)
  <2>1. Cons(a1, r) \o X = Cons(a1, r \o X)
    BY ZenonT(30), <1>1, ConsAppend
  <2> QED
    BY <1>1, <2>1
<1>4. Cons(a1, r) \in Lists /\ s \in Lists /\ Cons(a1, s) \in Lists
  BY <1>1, ConsIs
<1> QED
  BY <1>2, <1>3, <1>4 DEF s

LEMMA Cells3 ==
    ASSUME NEW a1, NEW a2, NEW a3
    PROVE  <<a1, a2, a3>> = Cons(a1, <<a2, a3>>)
BY DEF Cons

LEMMA Row3 ==
    ASSUME NEW a1, NEW a2, NEW a3, NEW X, X \in Lists,
           a1 \in Accesses, a2 \in Accesses, a3 \in Accesses
    PROVE  <<a1, a2, a3>> \in Lists /\ <<a1, a2, a3>> \o X = Cons(a1, Cons(a2, Cons(a3, X))) /\ <<a1,
        a2, a3>> \o X \in Lists
<1> DEFINE r == <<a2, a3>>
           s == Cons(a2, Cons(a3, X))
<1>1. r \in Lists /\ r \o X = s /\ r \o X \in Lists
  BY Row2
<1>2. <<a1, a2, a3>> = Cons(a1, r)
  BY Cells3
<1> HIDE DEF r, s
<1>3. Cons(a1, r) \o X = Cons(a1, s)
  <2>1. Cons(a1, r) \o X = Cons(a1, r \o X)
    BY ZenonT(30), <1>1, ConsAppend
  <2> QED
    BY <1>1, <2>1
<1>4. Cons(a1, r) \in Lists /\ s \in Lists /\ Cons(a1, s) \in Lists
  BY <1>1, ConsIs
<1> QED
  BY <1>2, <1>3, <1>4 DEF s

LEMMA Cells4 ==
    ASSUME NEW a1, NEW a2, NEW a3, NEW a4
    PROVE  <<a1, a2, a3, a4>> = Cons(a1, <<a2, a3, a4>>)
BY DEF Cons

LEMMA Row4 ==
    ASSUME NEW a1, NEW a2, NEW a3, NEW a4, NEW X, X \in Lists,
           a1 \in Accesses, a2 \in Accesses, a3 \in Accesses, a4 \in Accesses
    PROVE  <<a1, a2, a3, a4>> \in Lists /\ <<a1, a2, a3, a4>> \o X = Cons(a1, Cons(a2, Cons(a3, Cons(a4,
        X)))) /\ <<a1, a2, a3, a4>> \o X \in Lists
<1> DEFINE r == <<a2, a3, a4>>
           s == Cons(a2, Cons(a3, Cons(a4, X)))
<1>1. r \in Lists /\ r \o X = s /\ r \o X \in Lists
  BY SMTT(30), Row3
<1>2. <<a1, a2, a3, a4>> = Cons(a1, r)
  BY Cells4
<1> HIDE DEF r, s
<1>3. Cons(a1, r) \o X = Cons(a1, s)
  <2>1. Cons(a1, r) \o X = Cons(a1, r \o X)
    BY ZenonT(30), <1>1, ConsAppend
  <2> QED
    BY <1>1, <2>1
<1>4. Cons(a1, r) \in Lists /\ s \in Lists /\ Cons(a1, s) \in Lists
  BY <1>1, ConsIs
<1> QED
  BY <1>2, <1>3, <1>4 DEF s

LEMMA Cells5 ==
    ASSUME NEW a1, NEW a2, NEW a3, NEW a4, NEW a5
    PROVE  <<a1, a2, a3, a4, a5>> = Cons(a1, <<a2, a3, a4, a5>>)
BY DEF Cons

LEMMA Row5 ==
    ASSUME NEW a1, NEW a2, NEW a3, NEW a4, NEW a5, NEW X, X \in Lists,
           a1 \in Accesses, a2 \in Accesses, a3 \in Accesses, a4 \in Accesses, a5 \in Accesses
    PROVE  <<a1, a2, a3, a4, a5>> \in Lists /\ <<a1, a2, a3, a4, a5>> \o X = Cons(a1, Cons(a2, Cons(a3,
        Cons(a4, Cons(a5, X))))) /\ <<a1, a2, a3, a4, a5>> \o X \in Lists
<1> DEFINE r == <<a2, a3, a4, a5>>
           s == Cons(a2, Cons(a3, Cons(a4, Cons(a5, X))))
<1>1. r \in Lists /\ r \o X = s /\ r \o X \in Lists
  BY SMTT(30), Row4
<1>2. <<a1, a2, a3, a4, a5>> = Cons(a1, r)
  BY Cells5
<1> HIDE DEF r, s
<1>3. Cons(a1, r) \o X = Cons(a1, s)
  <2>1. Cons(a1, r) \o X = Cons(a1, r \o X)
    BY ZenonT(30), <1>1, ConsAppend
  <2> QED
    BY <1>1, <2>1
<1>4. Cons(a1, r) \in Lists /\ s \in Lists /\ Cons(a1, s) \in Lists
  BY <1>1, ConsIs
<1> QED
  BY <1>2, <1>3, <1>4 DEF s

-----------------------------------------------------------------------------
(* The accesses of the handlers by name.                                    *)

freeReferrer == <<"free", "referrer">>
storeReferrer == <<"store", "referrer">>
readUser == <<"read", "user">>
derefUser == <<"deref", "user">>
useRealm == <<"use", "realm">>
getRdr == <<"get", "rdr">>
useRdr == <<"use", "rdr">>
getName == <<"get", "name">>
setCsrf == <<"set", "csrf">>
useName == <<"use", "name">>
useCsrf == <<"use", "csrf">>
useUser == <<"use", "user">>
setArealm == <<"set", "arealm">>
setArdr == <<"set", "ardr">>
logoutUser == <<"logout", "user">>
useForm == <<"use", "form">>
setName == <<"set", "name">>
silentUser == <<"silent", "user">>
getTable == <<"get", "table">>
ensureTable == <<"ensure", "table">>
userRoot == <<"user", "root">>
setForm == <<"set", "form">>
getArealm == <<"get", "arealm">>
getRealm == <<"get", "realm">>
useArealm == <<"use", "arealm">>
otherName == <<"other", "name">>
setRealm == <<"set", "realm">>
clearArealm == <<"clear", "arealm">>
getArdr == <<"get", "ardr">>
useArdr == <<"use", "ardr">>
setRdr == <<"set", "rdr">>
clearArdr == <<"clear", "ardr">>
userForm == <<"user", "form">>
getCsrf == <<"get", "csrf">>
clearCsrf == <<"clear", "csrf">>
getForm == <<"get", "form">>
loginUser == <<"login", "user">>
userLogout == <<"user", "logout">>

LEMMA Named ==
    /\ freeReferrer \in Accesses
    /\ storeReferrer \in Accesses
    /\ readUser \in Accesses
    /\ derefUser \in Accesses
    /\ useRealm \in Accesses
    /\ getRdr \in Accesses
    /\ useRdr \in Accesses
    /\ getName \in Accesses
    /\ setCsrf \in Accesses
    /\ useName \in Accesses
    /\ useCsrf \in Accesses
    /\ useUser \in Accesses
    /\ setArealm \in Accesses
    /\ setArdr \in Accesses
    /\ logoutUser \in Accesses
    /\ useForm \in Accesses
    /\ setName \in Accesses
    /\ silentUser \in Accesses
    /\ getTable \in Accesses
    /\ ensureTable \in Accesses
    /\ userRoot \in Accesses
    /\ setForm \in Accesses
    /\ getArealm \in Accesses
    /\ getRealm \in Accesses
    /\ useArealm \in Accesses
    /\ otherName \in Accesses
    /\ setRealm \in Accesses
    /\ clearArealm \in Accesses
    /\ getArdr \in Accesses
    /\ useArdr \in Accesses
    /\ setRdr \in Accesses
    /\ clearArdr \in Accesses
    /\ userForm \in Accesses
    /\ getCsrf \in Accesses
    /\ clearCsrf \in Accesses
    /\ getForm \in Accesses
    /\ loginUser \in Accesses
    /\ userLogout \in Accesses
<1> USE AccessIs DEF Ops, Keys
<1>1. freeReferrer \in Accesses
  BY DEF freeReferrer
<1>2. storeReferrer \in Accesses
  BY DEF storeReferrer
<1>3. readUser \in Accesses
  BY DEF readUser
<1>4. derefUser \in Accesses
  BY DEF derefUser
<1>5. useRealm \in Accesses
  BY DEF useRealm
<1>6. getRdr \in Accesses
  BY DEF getRdr
<1>7. useRdr \in Accesses
  BY DEF useRdr
<1>8. getName \in Accesses
  BY DEF getName
<1>9. setCsrf \in Accesses
  BY DEF setCsrf
<1>10. useName \in Accesses
  BY DEF useName
<1>11. useCsrf \in Accesses
  BY DEF useCsrf
<1>12. useUser \in Accesses
  BY DEF useUser
<1>13. setArealm \in Accesses
  BY DEF setArealm
<1>14. setArdr \in Accesses
  BY DEF setArdr
<1>15. logoutUser \in Accesses
  BY DEF logoutUser
<1>16. useForm \in Accesses
  BY DEF useForm
<1>17. setName \in Accesses
  BY DEF setName
<1>18. silentUser \in Accesses
  BY DEF silentUser
<1>19. getTable \in Accesses
  BY DEF getTable
<1>20. ensureTable \in Accesses
  BY DEF ensureTable
<1>21. userRoot \in Accesses
  BY DEF userRoot
<1>22. setForm \in Accesses
  BY DEF setForm
<1>23. getArealm \in Accesses
  BY DEF getArealm
<1>24. getRealm \in Accesses
  BY DEF getRealm
<1>25. useArealm \in Accesses
  BY DEF useArealm
<1>26. otherName \in Accesses
  BY DEF otherName
<1>27. setRealm \in Accesses
  BY DEF setRealm
<1>28. clearArealm \in Accesses
  BY DEF clearArealm
<1>29. getArdr \in Accesses
  BY DEF getArdr
<1>30. useArdr \in Accesses
  BY DEF useArdr
<1>31. setRdr \in Accesses
  BY DEF setRdr
<1>32. clearArdr \in Accesses
  BY DEF clearArdr
<1>33. userForm \in Accesses
  BY DEF userForm
<1>34. getCsrf \in Accesses
  BY DEF getCsrf
<1>35. clearCsrf \in Accesses
  BY DEF clearCsrf
<1>36. getForm \in Accesses
  BY DEF getForm
<1>37. loginUser \in Accesses
  BY DEF loginUser
<1>38. userLogout \in Accesses
  BY DEF userLogout
<1> QED
  BY <1>1, <1>2, <1>3, <1>4, <1>5, <1>6, <1>7, <1>8, <1>9, <1>10, <1>11, <1>12, <1>13, <1>14, <1>15,
     <1>16, <1>17, <1>18, <1>19, <1>20, <1>21, <1>22, <1>23, <1>24, <1>25, <1>26, <1>27, <1>28, <1>29,
              <1>30, <1>31, <1>32, <1>33, <1>34, <1>35, <1>36, <1>37, <1>38

-----------------------------------------------------------------------------
(* Each handler is in order from the facts named here.                      *)

LEMMA ReplaceSure == Replace \in Lists /\ Sure(Replace, {"ref"})
<1> DEFINE M2 == <<>>
           M1 == Cons(storeReferrer, M2)
           M0 == Cons(freeReferrer, M1)
<1>1. M2 \in Lists /\ Sure(M2, {"ref"})
  BY NothingInLists, EmptySure
<1> HIDE DEF M2
<1>2. M1 \in Lists /\ Sure(M1, {})
  BY <1>1, StoreSure DEF storeReferrer
<1> HIDE DEF M1
<1>3. M0 \in Lists /\ Sure(M0, {"ref"})
  BY <1>2, FreeSure DEF freeReferrer
<1> HIDE DEF M0
<1>4. Replace = M0
  <2>1. Replace = <<freeReferrer, storeReferrer>>
    BY DEF Replace, freeReferrer, storeReferrer
  <2>2. <<freeReferrer, storeReferrer>> \in Lists /\ <<freeReferrer, storeReferrer>> \o M2 = M0
    BY <1>1, Named, Row2 DEF M0, M1
  <2> QED
    BY <2>1, <2>2, NothingAppended DEF M2
<1> QED
  BY <1>3, <1>4

LEMMA LoginOkSure == LoginOk \in Lists /\ Sure(LoginOk, {"rdr", "realm", "ref"})
<1> DEFINE M3 == <<>>
           M2 == Cons(useRdr, M3)
           M1 == Cons(setName, M2)
           M0 == Cons(useRealm, M1)
<1>1. M3 \in Lists /\ Sure(M3, {"ref"})
  BY NothingInLists, EmptySure
<1> HIDE DEF M3
<1>2. M2 \in Lists /\ Sure(M2, {"rdr", "ref"})
  BY <1>1, UseSure DEF useRdr, TextKeys, Keys
<1> HIDE DEF M2
<1>3. M1 \in Lists /\ Sure(M1, {"rdr", "ref"})
  BY <1>2, SetSure DEF setName, TextKeys, Keys
<1> HIDE DEF M1
<1>4. M0 \in Lists /\ Sure(M0, {"rdr", "realm", "ref"})
  BY <1>3, UseSure DEF useRealm, TextKeys, Keys
<1> HIDE DEF M0
<1>5. LoginOk = M0
  <2>1. LoginOk = <<useRealm, setName, useRdr>>
    BY DEF LoginOk, useRealm, setName, useRdr
  <2>2. <<useRealm, setName, useRdr>> \in Lists /\ <<useRealm, setName, useRdr>> \o M3 = M0
    BY <1>1, Named, Row3 DEF M0, M1, M2
  <2> QED
    BY <2>1, <2>2, NothingAppended DEF M3
<1> QED
  BY <1>4, <1>5

LEMMA LogoutDoneSure == LogoutDone \in Lists /\ Sure(LogoutDone, {"ref", "table"})
<1> DEFINE M3 == <<>>
           M2 == Cons(useRdr, M3)
           M1 == Cons(getRdr, M2)
           M0 == Cons(logoutUser, M1)
<1>1. M3 \in Lists /\ Sure(M3, {"ref"})
  BY NothingInLists, EmptySure
<1> HIDE DEF M3
<1>2. M2 \in Lists /\ Sure(M2, {"rdr", "ref"})
  BY <1>1, UseSure DEF useRdr, TextKeys, Keys
<1> HIDE DEF M2
<1>3. M1 \in Lists /\ Sure(M1, {"ref"})
  BY <1>2, GetSure DEF getRdr, TextKeys, Keys
<1> HIDE DEF M1
<1>4. M0 \in Lists /\ Sure(M0, {"ref", "table"})
  BY <1>3, LogoutSure DEF logoutUser
<1> HIDE DEF M0
<1>5. LogoutDone = M0
  <2>1. LogoutDone = <<logoutUser, getRdr, useRdr>>
    BY DEF LogoutDone, logoutUser, getRdr, useRdr
  <2>2. <<logoutUser, getRdr, useRdr>> \in Lists /\ <<logoutUser, getRdr, useRdr>> \o M3 = M0
    BY <1>1, Named, Row3 DEF M0, M1, M2
  <2> QED
    BY <2>1, <2>2, NothingAppended DEF M3
<1> QED
  BY <1>4, <1>5

LEMMA BackToFormSure == BackToForm \in Lists /\ Sure(BackToForm, {"form", "ref"})
<1> DEFINE M1 == <<>>
           M0 == Cons(useForm, M1)
<1>1. M1 \in Lists /\ Sure(M1, {"ref"})
  BY NothingInLists, EmptySure
<1> HIDE DEF M1
<1>2. M0 \in Lists /\ Sure(M0, {"form", "ref"})
  BY <1>1, UseSure DEF useForm, TextKeys, Keys
<1> HIDE DEF M0
<1>3. BackToForm = M0
  <2>1. BackToForm = <<useForm>>
    BY DEF BackToForm, useForm
  <2>2. <<useForm>> \in Lists /\ <<useForm>> \o M1 = M0
    BY <1>1, Named, Row1 DEF M0
  <2> QED
    BY <2>1, <2>2, NothingAppended DEF M1
<1> QED
  BY <1>2, <1>3

LEMMA Split7 ==
    ASSUME NEW a1, NEW a2, NEW a3, NEW a4, NEW a5, NEW a6, NEW a7
    PROVE  <<a1, a2, a3, a4, a5, a6, a7>> = <<a1, a2, a3, a4>> \o <<a5, a6, a7>>
OBVIOUS

LEMMA LoginFailedSure == LoginFailed \in Lists /\ Sure(LoginFailed, {"form", "rdr", "realm", "ref"})
<1> DEFINE M7 == <<>>
           M6 == Cons(useForm, M7)
           M5 == Cons(setName, M6)
           M4 == Cons(useRealm, M5)
           M3 == Cons(setArdr, M4)
           M2 == Cons(useRdr, M3)
           M1 == Cons(setArealm, M2)
           M0 == Cons(useRealm, M1)
<1>1. M7 \in Lists /\ Sure(M7, {"ref"})
  BY NothingInLists, EmptySure
<1> HIDE DEF M7
<1>2. M6 \in Lists /\ Sure(M6, {"form", "ref"})
  BY <1>1, UseSure DEF useForm, TextKeys, Keys
<1> HIDE DEF M6
<1>3. M5 \in Lists /\ Sure(M5, {"form", "ref"})
  BY <1>2, SetSure DEF setName, TextKeys, Keys
<1> HIDE DEF M5
<1>4. M4 \in Lists /\ Sure(M4, {"form", "realm", "ref"})
  BY <1>3, UseSure DEF useRealm, TextKeys, Keys
<1> HIDE DEF M4
<1>5. M3 \in Lists /\ Sure(M3, {"form", "realm", "ref"})
  BY <1>4, SetSure DEF setArdr, TextKeys, Keys
<1> HIDE DEF M3
<1>6. M2 \in Lists /\ Sure(M2, {"form", "rdr", "realm", "ref"})
  BY <1>5, UseSure DEF useRdr, TextKeys, Keys
<1> HIDE DEF M2
<1>7. M1 \in Lists /\ Sure(M1, {"form", "rdr", "realm", "ref"})
  BY <1>6, SetSure DEF setArealm, TextKeys, Keys
<1> HIDE DEF M1
<1>8. M0 \in Lists /\ Sure(M0, {"form", "rdr", "realm", "ref"})
  BY <1>7, UseSure DEF useRealm, TextKeys, Keys
<1> HIDE DEF M0
<1>9. LoginFailed = M0
  <2>1. LoginFailed = <<useRealm, setArealm, useRdr, setArdr, useRealm, setName, useForm>>
    BY DEF LoginFailed, useRealm, setArealm, useRdr, setArdr, setName, useForm
  <2>2. LoginFailed = <<useRealm, setArealm, useRdr, setArdr>> \o <<useRealm, setName, useForm>>
    BY <2>1, Split7
  <2>3. <<useRealm, setName, useForm>> \in Lists /\ <<useRealm, setName, useForm>> \o M7 = M4
    BY <1>1, Named, Row3 DEF M4, M5, M6
  <2>4. <<useRealm, setArealm, useRdr, setArdr>> \in Lists /\ <<useRealm, setArealm, useRdr,
            setArdr>> \o M4 = M0
    BY <1>4, Named, Row4 DEF M0, M1, M2, M3
  <2> QED
    BY <2>2, <2>3, <2>4, NothingAppended DEF M7
<1> QED
  BY <1>8, <1>9

LEMMA ShowSilentSure == ShowSilent \in Lists /\ Sure(ShowSilent, {"in", "realm", "ref", "table"})
<1> DEFINE M5 == Replace
           M4 == Cons(useRdr, M5)
           M3 == Cons(getRdr, M4)
           M2 == Cons(useRealm, M3)
           M1 == Cons(derefUser, M2)
           M0 == Cons(readUser, M1)
<1>1. M5 \in Lists /\ Sure(M5, {"ref"})
  BY ReplaceSure
<1> HIDE DEF M5
<1>2. M4 \in Lists /\ Sure(M4, {"rdr", "ref"})
  BY <1>1, UseSure DEF useRdr, TextKeys, Keys
<1> HIDE DEF M4
<1>3. M3 \in Lists /\ Sure(M3, {"ref"})
  BY <1>2, GetSure DEF getRdr, TextKeys, Keys
<1> HIDE DEF M3
<1>4. M2 \in Lists /\ Sure(M2, {"realm", "ref"})
  BY <1>3, UseSure DEF useRealm, TextKeys, Keys
<1> HIDE DEF M2
<1>5. M1 \in Lists /\ Sure(M1, {"mine", "realm", "ref", "user"})
  BY <1>4, DerefSure DEF derefUser
<1> HIDE DEF M1
<1>6. M0 \in Lists /\ Sure(M0, {"in", "realm", "ref", "table"})
  BY <1>5, ReadSure DEF readUser
<1> HIDE DEF M0
<1>7. ShowSilent = M0
  <2>1. ShowSilent = <<readUser, derefUser, useRealm, getRdr, useRdr>> \o Replace
    BY DEF ShowSilent, readUser, derefUser, useRealm, getRdr, useRdr
  <2> QED
    BY <1>1, <2>1, Named, Row5 DEF M0, M1, M2, M3, M4, M5
<1> QED
  BY <1>6, <1>7

LEMMA ShowLoginSure == ShowLogin \in Lists /\ Sure(ShowLogin, {"realm", "ref"})
<1> DEFINE M5 == Replace
           M4 == Cons(useRealm, M5)
           M3 == Cons(useCsrf, M4)
           M2 == Cons(useName, M3)
           M1 == Cons(setCsrf, M2)
           M0 == Cons(getName, M1)
<1>1. M5 \in Lists /\ Sure(M5, {"ref"})
  BY ReplaceSure
<1> HIDE DEF M5
<1>2. M4 \in Lists /\ Sure(M4, {"realm", "ref"})
  BY <1>1, UseSure DEF useRealm, TextKeys, Keys
<1> HIDE DEF M4
<1>3. M3 \in Lists /\ Sure(M3, {"csrf", "realm", "ref"})
  BY <1>2, UseSure DEF useCsrf, TextKeys, Keys
<1> HIDE DEF M3
<1>4. M2 \in Lists /\ Sure(M2, {"csrf", "name", "realm", "ref"})
  BY <1>3, UseSure DEF useName, TextKeys, Keys
<1> HIDE DEF M2
<1>5. M1 \in Lists /\ Sure(M1, {"name", "realm", "ref"})
  BY <1>4, SetSure DEF setCsrf, TextKeys, Keys
<1> HIDE DEF M1
<1>6. M0 \in Lists /\ Sure(M0, {"realm", "ref"})
  BY <1>5, GetSure DEF getName, TextKeys, Keys
<1> HIDE DEF M0
<1>7. ShowLogin = M0
  <2>1. ShowLogin = <<getName, setCsrf, useName, useCsrf, useRealm>> \o Replace
    BY DEF ShowLogin, getName, setCsrf, useName, useCsrf, useRealm
  <2> QED
    BY <1>1, <2>1, Named, Row5 DEF M0, M1, M2, M3, M4, M5
<1> QED
  BY <1>6, <1>7

LEMMA ShowLogoutSure == ShowLogout \in Lists /\ Sure(ShowLogout, {"realm", "ref", "user"})
<1> DEFINE M5 == Replace
           M4 == Cons(useRealm, M5)
           M3 == Cons(useCsrf, M4)
           M2 == Cons(useUser, M3)
           M1 == Cons(setCsrf, M2)
           M0 == Cons(useUser, M1)
<1>1. M5 \in Lists /\ Sure(M5, {"ref"})
  BY ReplaceSure
<1> HIDE DEF M5
<1>2. M4 \in Lists /\ Sure(M4, {"realm", "ref"})
  BY <1>1, UseSure DEF useRealm, TextKeys, Keys
<1> HIDE DEF M4
<1>3. M3 \in Lists /\ Sure(M3, {"csrf", "realm", "ref"})
  BY <1>2, UseSure DEF useCsrf, TextKeys, Keys
<1> HIDE DEF M3
<1>4. M2 \in Lists /\ Sure(M2, {"csrf", "realm", "ref", "user"})
  BY <1>3, UseSure DEF useUser, TextKeys, Keys
<1> HIDE DEF M2
<1>5. M1 \in Lists /\ Sure(M1, {"realm", "ref", "user"})
  BY <1>4, SetSure DEF setCsrf, TextKeys, Keys
<1> HIDE DEF M1
<1>6. M0 \in Lists /\ Sure(M0, {"realm", "ref", "user"})
  BY <1>5, UseSure DEF useUser, TextKeys, Keys
<1> HIDE DEF M0
<1>7. ShowLogout = M0
  <2>1. ShowLogout = <<useUser, setCsrf, useUser, useCsrf, useRealm>> \o Replace
    BY DEF ShowLogout, useUser, setCsrf, useCsrf, useRealm
  <2> QED
    BY <1>1, <2>1, Named, Row5 DEF M0, M1, M2, M3, M4, M5
<1> QED
  BY <1>6, <1>7

LEMMA Split13 ==
    ASSUME NEW a1, NEW a2, NEW a3, NEW a4, NEW a5, NEW a6, NEW a7, NEW a8, NEW a9, NEW a10,
           NEW a11, NEW a12, NEW a13
    PROVE  <<a1, a2, a3, a4, a5, a6, a7, a8, a9, a10, a11, a12, a13>>
             = <<a1, a2, a3, a4, a5>> \o <<a6, a7, a8, a9, a10, a11, a12, a13>>
OBVIOUS

LEMMA Split8 ==
    ASSUME NEW a1, NEW a2, NEW a3, NEW a4, NEW a5, NEW a6, NEW a7, NEW a8
    PROVE  <<a1, a2, a3, a4, a5, a6, a7, a8>> = <<a1, a2, a3, a4, a5>> \o <<a6, a7, a8>>
OBVIOUS

LEMMA AuthCreateIs ==
    /\ AuthCreate \in Lists
    /\ \A X \in Lists : AuthCreate \o X = Cons(getTable, Cons(ensureTable, X))
<1>1. AuthCreate = <<getTable, ensureTable>>
  BY DEF AuthCreate, getTable, ensureTable
<1> QED
  BY <1>1, Named, NothingInLists, Row2

LEMMA UpdateSessionIs ==
    /\ UpdateSession \in Lists
    /\ \A X \in Lists : UpdateSession \o X =
         Cons(setForm, Cons(getArealm, Cons(getRealm, Cons(useArealm, Cons(useRealm, Cons(otherName,
             Cons(useArealm, Cons(setRealm, Cons(clearArealm, Cons(getArdr, Cons(useArdr, Cons(setRdr,
                 Cons(clearArdr, X)))))))))))))
<1> DEFINE A == <<setForm, getArealm, getRealm, useArealm, useRealm>>
           B == <<otherName, useArealm, setRealm, clearArealm, getArdr>>
           C == <<useArdr, setRdr, clearArdr>>
<1>1. UpdateSession = A \o (B \o C)
  <2>1. UpdateSession = <<setForm, getArealm, getRealm, useArealm, useRealm, otherName, useArealm,
            setRealm, clearArealm, getArdr, useArdr, setRdr, clearArdr>>
    BY DEF UpdateSession, setForm, getArealm, getRealm, useArealm, useRealm, otherName, setRealm,
       clearArealm, getArdr, useArdr, setRdr, clearArdr
  <2>2. UpdateSession = A \o <<otherName, useArealm, setRealm, clearArealm, getArdr, useArdr, setRdr,
            clearArdr>>
    BY <2>1, Split13
  <2>3. <<otherName, useArealm, setRealm, clearArealm, getArdr, useArdr, setRdr, clearArdr>> = B \o C
    BY Split8
  <2> QED
    BY <2>2, <2>3
<1>2. A \in Lists /\ B \in Lists /\ C \in Lists
  <2>1. A \in Lists
    BY Named, NothingInLists, Row5
  <2>2. B \in Lists
    BY Named, NothingInLists, Row5
  <2>3. C \in Lists
    BY Named, NothingInLists, Row3
  <2> QED
    BY <2>1, <2>2, <2>3
<1>3. ASSUME NEW X \in Lists
      PROVE  UpdateSession \o X = Cons(setForm, Cons(getArealm, Cons(getRealm, Cons(useArealm,
          Cons(useRealm, Cons(otherName, Cons(useArealm, Cons(setRealm, Cons(clearArealm, Cons(getArdr,
              Cons(useArdr, Cons(setRdr, Cons(clearArdr, X)))))))))))))
  <2> DEFINE Y == Cons(useArdr, Cons(setRdr, Cons(clearArdr, X)))
             Z == Cons(otherName, Cons(useArealm, Cons(setRealm, Cons(clearArealm, Cons(getArdr, Y)))))
  <2>1. Y \in Lists /\ C \o X = Y
    <3>1. C \o X = Y
      BY Named, Row3
    <3>2. C \o X \in Lists
      BY Named, Row3
    <3> QED
      BY <3>1, <3>2
  <2> HIDE DEF Y
  <2>2. Z \in Lists /\ B \o Y = Z
    <3>1. B \o Y = Z
      BY <2>1, Named, Row5
    <3>2. B \o Y \in Lists
      BY <2>1, Named, Row5
    <3> QED
      BY <3>1, <3>2
  <2> HIDE DEF Z
  <2>3. A \o Z = Cons(setForm, Cons(getArealm, Cons(getRealm, Cons(useArealm, Cons(useRealm, Z)))))
    BY SMTT(30), <2>2, Named, Row5
  <2> HIDE DEF A, B, C
  <2>4. UpdateSession \o X = A \o (B \o (C \o X))
    <3> DEFINE E == B \o C
    <3>3. E \in Lists
      BY <1>2, Append3
    <3> HIDE DEF E
    <3>4. A \in Lists
      BY <1>2
    <3>1. (A \o E) \o X = A \o (E \o X)
      BY <3>3, <3>4, Append3
    <3>2. (B \o C) \o X = B \o (C \o X)
      BY SMTT(30), <1>2, Append3
    <3> QED
      BY <1>1, <3>1, <3>2 DEF A, B, C, E
  <2>5. UpdateSession \o X = A \o Z
    BY <2>1, <2>2, <2>4
  <2> QED
    BY <2>3, <2>5 DEF A, Y, Z
<1>4. UpdateSession \in Lists
  <2> HIDE DEF A, B, C
  <2>1. B \o C \in Lists
    BY <1>2, Append3
  <2>2. A \o (B \o C) \in Lists
    BY <1>2, <2>1, Append3
  <2> QED
    BY <1>1, <2>2 DEF A, B, C
<1> QED
  BY <1>3, <1>4

LEMMA ProtectIs ==
    /\ Protect \in Lists
    /\ \A X \in Lists : Protect \o X =
         Cons(getCsrf, Cons(useCsrf, Cons(clearCsrf, Cons(getRealm, Cons(getForm, X)))))
<1>1. Protect = <<getCsrf, useCsrf, clearCsrf, getRealm, getForm>>
  BY DEF Protect, getCsrf, useCsrf, clearCsrf, getRealm, getForm
<1> QED
  BY SMTT(30), <1>1, Named, NothingInLists, Row5

LEMMA SilentListSure == <<silentUser>> \in Lists /\ Sure(<<silentUser>>, {"realm", "ref", "table"})
BY ShowSilentSure, ShowLoginSure, SilentSure DEF silentUser

LEMMA UserFormSure == <<userForm>> \in Lists /\ Sure(<<userForm>>, {"realm", "ref", "table"})
<1>1. Then("form", TRUE) = ShowLogout /\ Then("form", FALSE) = <<silentUser>>
  BY DEF Then, silentUser
<1> QED
  BY <1>1, ShowLogoutSure, SilentListSure, UserSure DEF userForm

LEMMA UserLogoutSure == <<userLogout>> \in Lists /\ Sure(<<userLogout>>, {"form", "ref", "table"})
<1>1. Then("logout", TRUE) = LogoutDone /\ Then("logout", FALSE) = BackToForm
  BY DEF Then
<1> QED
  BY <1>1, LogoutDoneSure, BackToFormSure, UserSure DEF userLogout

LEMMA LoginUserSure == <<loginUser>> \in Lists /\ Sure(<<loginUser>>, {"form", "rdr", "realm", "ref",
    "table"})
BY LoginOkSure, LoginFailedSure, LoginSure DEF loginUser

LEMMA ShowFormSure == ShowForm \in Lists /\ Sure(ShowForm, {"ref"})
<1> DEFINE M16 == <<userForm>>
           M15 == Cons(useRealm, M16)
           M14 == Cons(ensureTable, M15)
           M13 == Cons(getTable, M14)
           M12 == Cons(clearArdr, M13)
           M11 == Cons(setRdr, M12)
           M10 == Cons(useArdr, M11)
           M9 == Cons(getArdr, M10)
           M8 == Cons(clearArealm, M9)
           M7 == Cons(setRealm, M8)
           M6 == Cons(useArealm, M7)
           M5 == Cons(otherName, M6)
           M4 == Cons(useRealm, M5)
           M3 == Cons(useArealm, M4)
           M2 == Cons(getRealm, M3)
           M1 == Cons(getArealm, M2)
           M0 == Cons(setForm, M1)
<1>1. M16 \in Lists /\ Sure(M16, {"realm", "ref", "table"})
  BY UserFormSure
<1> HIDE DEF M16
<1>2. M15 \in Lists /\ Sure(M15, {"realm", "ref", "table"})
  BY <1>1, UseSure DEF useRealm, TextKeys, Keys
<1> HIDE DEF M15
<1>3. M14 \in Lists /\ Sure(M14, {"realm", "ref", "table"})
  BY <1>2, EnsureSure DEF ensureTable
<1> HIDE DEF M14
<1>4. M13 \in Lists /\ Sure(M13, {"realm", "ref"})
  BY <1>3, GetSure DEF getTable, TextKeys, Keys
<1> HIDE DEF M13
<1>5. M12 \in Lists /\ Sure(M12, {"realm", "ref"})
  BY <1>4, ClearSure DEF clearArdr, TextKeys, Keys
<1> HIDE DEF M12
<1>6. M11 \in Lists /\ Sure(M11, {"realm", "ref"})
  BY <1>5, SetSure DEF setRdr, TextKeys, Keys
<1> HIDE DEF M11
<1>7. M10 \in Lists /\ Sure(M10, {"ardr", "realm", "ref"})
  BY <1>6, UseSure DEF useArdr, TextKeys, Keys
<1> HIDE DEF M10
<1>8. M9 \in Lists /\ Sure(M9, {"realm", "ref"})
  BY <1>7, GetSure DEF getArdr, TextKeys, Keys
<1> HIDE DEF M9
<1>9. M8 \in Lists /\ Sure(M8, {"realm", "ref"})
  BY <1>8, ClearSure DEF clearArealm, TextKeys, Keys
<1> HIDE DEF M8
<1>10. M7 \in Lists /\ Sure(M7, {"ref"})
  BY <1>9, SetSure DEF setRealm, TextKeys, Keys
<1> HIDE DEF M7
<1>11. M6 \in Lists /\ Sure(M6, {"arealm", "ref"})
  BY <1>10, UseSure DEF useArealm, TextKeys, Keys
<1> HIDE DEF M6
<1>12. M5 \in Lists /\ Sure(M5, {"arealm", "ref"})
  BY <1>11, OtherSure DEF otherName
<1> HIDE DEF M5
<1>13. M4 \in Lists /\ Sure(M4, {"arealm", "realm", "ref"})
  BY <1>12, UseSure DEF useRealm, TextKeys, Keys
<1> HIDE DEF M4
<1>14. M3 \in Lists /\ Sure(M3, {"arealm", "realm", "ref"})
  BY <1>13, UseSure DEF useArealm, TextKeys, Keys
<1> HIDE DEF M3
<1>15. M2 \in Lists /\ Sure(M2, {"arealm", "ref"})
  BY <1>14, GetSure DEF getRealm, TextKeys, Keys
<1> HIDE DEF M2
<1>16. M1 \in Lists /\ Sure(M1, {"ref"})
  BY <1>15, GetSure DEF getArealm, TextKeys, Keys
<1> HIDE DEF M1
<1>17. M0 \in Lists /\ Sure(M0, {"ref"})
  BY <1>16, SetSure DEF setForm, TextKeys, Keys
<1> HIDE DEF M0
<1>18. ShowForm = M0
  <2>1. <<useRealm, userForm>> \in Lists /\ <<useRealm, userForm>> = M15
    BY <1>2, Cells2 DEF M15, M16
  <2>2. AuthCreate \o M15 = M13
    BY <1>2, AuthCreateIs DEF M13, M14
  <2>3. UpdateSession \o M13 = M0
    BY <1>4, UpdateSessionIs DEF M0, M1, M2, M3, M4, M5, M6, M7, M8, M9, M10, M11, M12
  <2>4. ShowForm = (UpdateSession \o AuthCreate) \o <<useRealm, userForm>>
    BY DEF ShowForm, useRealm, userForm
  <2> QED
    BY <2>1, <2>2, <2>3, <2>4, UpdateSessionIs, AuthCreateIs, Append3
<1> QED
  BY <1>17, <1>18

LEMMA DoLoginSure == DoLogin \in Lists /\ Sure(DoLogin, {"ref"})
<1> DEFINE M9 == <<loginUser>>
           M8 == Cons(useRealm, M9)
           M7 == Cons(ensureTable, M8)
           M6 == Cons(getTable, M7)
           M5 == Cons(getRdr, M6)
           M4 == Cons(getForm, M5)
           M3 == Cons(getRealm, M4)
           M2 == Cons(clearCsrf, M3)
           M1 == Cons(useCsrf, M2)
           M0 == Cons(getCsrf, M1)
<1>1. M9 \in Lists /\ Sure(M9, {"form", "rdr", "realm", "ref", "table"})
  BY LoginUserSure
<1> HIDE DEF M9
<1>2. M8 \in Lists /\ Sure(M8, {"form", "rdr", "realm", "ref", "table"})
  BY <1>1, UseSure DEF useRealm, TextKeys, Keys
<1> HIDE DEF M8
<1>3. M7 \in Lists /\ Sure(M7, {"form", "rdr", "realm", "ref", "table"})
  BY <1>2, EnsureSure DEF ensureTable
<1> HIDE DEF M7
<1>4. M6 \in Lists /\ Sure(M6, {"form", "rdr", "realm", "ref"})
  BY <1>3, GetSure DEF getTable, TextKeys, Keys
<1> HIDE DEF M6
<1>5. M5 \in Lists /\ Sure(M5, {"form", "realm", "ref"})
  BY <1>4, GetSure DEF getRdr, TextKeys, Keys
<1> HIDE DEF M5
<1>6. M4 \in Lists /\ Sure(M4, {"realm", "ref"})
  BY <1>5, GetSure DEF getForm, TextKeys, Keys
<1> HIDE DEF M4
<1>7. M3 \in Lists /\ Sure(M3, {"ref"})
  BY <1>6, GetSure DEF getRealm, TextKeys, Keys
<1> HIDE DEF M3
<1>8. M2 \in Lists /\ Sure(M2, {"ref"})
  BY <1>7, ClearSure DEF clearCsrf, TextKeys, Keys
<1> HIDE DEF M2
<1>9. M1 \in Lists /\ Sure(M1, {"csrf", "ref"})
  BY <1>8, UseSure DEF useCsrf, TextKeys, Keys
<1> HIDE DEF M1
<1>10. M0 \in Lists /\ Sure(M0, {"ref"})
  BY <1>9, GetSure DEF getCsrf, TextKeys, Keys
<1> HIDE DEF M0
<1>11. DoLogin = M0
  <2>1. <<useRealm, loginUser>> \in Lists /\ <<useRealm, loginUser>> = M8
    BY <1>2, Cells2 DEF M8, M9
  <2>2. AuthCreate \o M8 = M6
    BY <1>2, AuthCreateIs DEF M6, M7
  <2>3. <<getRdr>> \in Lists /\ <<getRdr>> \o M6 = M5
    BY <1>4, Named, Row1 DEF M5
  <2>4. Protect \o M5 = M0
    BY <1>5, ProtectIs DEF M0, M1, M2, M3, M4
  <2>5. DoLogin = ((Protect \o <<getRdr>>) \o AuthCreate) \o <<useRealm, loginUser>>
    BY DEF DoLogin, getRdr, useRealm, loginUser
  <2> DEFINE E == Protect \o <<getRdr>>
  <2>6. E \in Lists
    BY <2>3, ProtectIs, Append3
  <2> HIDE DEF E
  <2>7. DoLogin = E \o M6
    <3>1. DoLogin = (E \o AuthCreate) \o M8
      BY <2>1, <2>5 DEF E
    <3>2. M8 \in Lists /\ AuthCreate \in Lists
      BY <1>2, AuthCreateIs
    <3>3. (E \o AuthCreate) \o M8 = E \o (AuthCreate \o M8)
      BY <2>6, <3>2, Append3
    <3> QED
      BY <2>2, <3>1, <3>3
  <2>8. E \o M6 = Protect \o M5
    <3>1. (Protect \o <<getRdr>>) \o M6 = Protect \o (<<getRdr>> \o M6)
      BY ZenonT(30), <1>4, <2>3, ProtectIs, Append3
    <3> QED
      BY <2>3, <3>1 DEF E
  <2> QED
    BY <2>4, <2>7, <2>8
<1> QED
  BY <1>10, <1>11

LEMMA DoLogoutSure == DoLogout \in Lists /\ Sure(DoLogout, {"ref"})
<1> DEFINE M8 == <<userLogout>>
           M7 == Cons(useRealm, M8)
           M6 == Cons(ensureTable, M7)
           M5 == Cons(getTable, M6)
           M4 == Cons(getForm, M5)
           M3 == Cons(getRealm, M4)
           M2 == Cons(clearCsrf, M3)
           M1 == Cons(useCsrf, M2)
           M0 == Cons(getCsrf, M1)
<1>1. M8 \in Lists /\ Sure(M8, {"form", "ref", "table"})
  BY UserLogoutSure
<1> HIDE DEF M8
<1>2. M7 \in Lists /\ Sure(M7, {"form", "realm", "ref", "table"})
  BY <1>1, UseSure DEF useRealm, TextKeys, Keys
<1> HIDE DEF M7
<1>3. M6 \in Lists /\ Sure(M6, {"form", "realm", "ref", "table"})
  BY <1>2, EnsureSure DEF ensureTable
<1> HIDE DEF M6
<1>4. M5 \in Lists /\ Sure(M5, {"form", "realm", "ref"})
  BY <1>3, GetSure DEF getTable, TextKeys, Keys
<1> HIDE DEF M5
<1>5. M4 \in Lists /\ Sure(M4, {"realm", "ref"})
  BY <1>4, GetSure DEF getForm, TextKeys, Keys
<1> HIDE DEF M4
<1>6. M3 \in Lists /\ Sure(M3, {"ref"})
  BY <1>5, GetSure DEF getRealm, TextKeys, Keys
<1> HIDE DEF M3
<1>7. M2 \in Lists /\ Sure(M2, {"ref"})
  BY <1>6, ClearSure DEF clearCsrf, TextKeys, Keys
<1> HIDE DEF M2
<1>8. M1 \in Lists /\ Sure(M1, {"csrf", "ref"})
  BY <1>7, UseSure DEF useCsrf, TextKeys, Keys
<1> HIDE DEF M1
<1>9. M0 \in Lists /\ Sure(M0, {"ref"})
  BY <1>8, GetSure DEF getCsrf, TextKeys, Keys
<1> HIDE DEF M0
<1>10. DoLogout = M0
  <2>1. <<useRealm, userLogout>> \in Lists /\ <<useRealm, userLogout>> = M7
    BY <1>2, Cells2 DEF M7, M8
  <2>2. AuthCreate \o M7 = M5
    BY <1>2, AuthCreateIs DEF M5, M6
  <2>3. Protect \o M5 = M0
    BY <1>4, ProtectIs DEF M0, M1, M2, M3, M4
  <2>4. DoLogout = (Protect \o AuthCreate) \o <<useRealm, userLogout>>
    BY DEF DoLogout, useRealm, userLogout
  <2> QED
    BY <2>1, <2>2, <2>3, <2>4, ProtectIs, AuthCreateIs, Append3
<1> QED
  BY <1>9, <1>10

LEMMA DoNothingSure == DoNothing \in Lists /\ Sure(DoNothing, {"ref"})
<1> DEFINE M5 == BackToForm
           M4 == Cons(getForm, M5)
           M3 == Cons(getRealm, M4)
           M2 == Cons(clearCsrf, M3)
           M1 == Cons(useCsrf, M2)
           M0 == Cons(getCsrf, M1)
<1>1. M5 \in Lists /\ Sure(M5, {"form", "ref"})
  BY BackToFormSure
<1> HIDE DEF M5
<1>2. M4 \in Lists /\ Sure(M4, {"ref"})
  BY <1>1, GetSure DEF getForm, TextKeys, Keys
<1> HIDE DEF M4
<1>3. M3 \in Lists /\ Sure(M3, {"ref"})
  BY <1>2, GetSure DEF getRealm, TextKeys, Keys
<1> HIDE DEF M3
<1>4. M2 \in Lists /\ Sure(M2, {"ref"})
  BY <1>3, ClearSure DEF clearCsrf, TextKeys, Keys
<1> HIDE DEF M2
<1>5. M1 \in Lists /\ Sure(M1, {"csrf", "ref"})
  BY <1>4, UseSure DEF useCsrf, TextKeys, Keys
<1> HIDE DEF M1
<1>6. M0 \in Lists /\ Sure(M0, {"ref"})
  BY <1>5, GetSure DEF getCsrf, TextKeys, Keys
<1> HIDE DEF M0
<1>7. DoNothing = M0
  <2> QED
    BY <1>1, ProtectIs DEF DoNothing, M0, M1, M2, M3, M4, M5
<1> QED
  BY <1>6, <1>7

LEMMA CompareSure == <<getCsrf, useCsrf>> \in Lists /\ Sure(<<getCsrf, useCsrf>>, {"ref"})
<1> DEFINE M2 == <<>>
           M1 == Cons(useCsrf, M2)
           M0 == Cons(getCsrf, M1)
<1>1. M2 \in Lists /\ Sure(M2, {"ref"})
  BY NothingInLists, EmptySure
<1> HIDE DEF M2
<1>2. M1 \in Lists /\ Sure(M1, {"csrf", "ref"})
  BY <1>1, UseSure DEF useCsrf, TextKeys, Keys
<1> HIDE DEF M1
<1>3. M0 \in Lists /\ Sure(M0, {"ref"})
  BY <1>2, GetSure DEF getCsrf, TextKeys, Keys
<1> HIDE DEF M0
<1>4. <<getCsrf, useCsrf>> = M0
  <2>1. <<getCsrf, useCsrf>> \in Lists /\ <<getCsrf, useCsrf>> \o M2 = M0
    BY <1>1, Named, Row2 DEF M0, M1
  <2> QED
    BY <2>1, NothingAppended DEF M2
<1> QED
  BY <1>3, <1>4
-----------------------------------------------------------------------------
(* The objects, and what a thread knows of them.                            *)

Gone(g, k, n) == n # 0 /\ n \in g[k]

\* Objects are numbered in the order they are made, and only the referrer's
\* may be gone while it is still pointed to.
Sane(v, l, g) ==
    /\ v \in [Keys -> Nat] /\ l \in [Keys -> Nat] /\ g \in [Keys -> SUBSET Nat]
    /\ \A k \in Keys : /\ v[k] <= l[k] /\ \A n \in g[k] : n <= l[k]
                       /\ k # "referrer" => ~Gone(g, k, v[k])

\* What the facts F say of the objects and the pointers p.
Holds(v, g, p, F) ==
    /\ \A k \in Keys \cap F : ~Gone(g, k, p[k])
    /\ "in" \in F => v["user"] # 0
    /\ "mine" \in F => p["user"] # 0
    /\ "ref" \in F => ~Gone(g, "referrer", v["referrer"])

LEMMA KeysAre ==
    /\ TextKeys = {"form", "realm", "arealm", "rdr", "ardr", "name", "csrf"}
    /\ TextKeys \cup {"table"} \subseteq Keys /\ "user" \in Keys /\ "referrer" \in Keys
BY DEF TextKeys, Keys

LEMMA ReplacedIs ==
    ASSUME Sane(value, last, gone), NEW k \in Keys, NEW new \in BOOLEAN, Replaced(k, new)
    PROVE  /\ Sane(value', last', gone')
           /\ new => value'[k] = last[k] + 1 /\ last[k] + 1 \in Nat \ {0} /\ ~Gone(gone', k, last[k] + 1)
           /\ ~new => value'[k] = 0
           /\ gone'[k] = gone[k] \cup ({value[k]} \ {0})
           /\ k = "table" => value'["user"] = 0
           /\ \A j \in Keys \ {k} : k # "table" \/ j # "user" => value'[j] = value[j] /\ gone'[j] = gone[j]
<1> DEFINE owned == IF k = "table" THEN {"user"} ELSE {}
<1>1. /\ last' = [last EXCEPT ![k] = IF new THEN @ + 1 ELSE @]
      /\ value' = [j \in Keys |-> IF j = k /\ new THEN last[k] + 1
                                 ELSE IF j \in owned \cup {k} THEN 0 ELSE value[j]]
      /\ gone' = [j \in Keys |-> IF j \in owned \cup {k} THEN gone[j] \cup ({value[j]} \ {0})
                                                      ELSE gone[j]]
  BY DEF Replaced
<1>2. /\ value \in [Keys -> Nat] /\ last \in [Keys -> Nat] /\ gone \in [Keys -> SUBSET Nat]
      /\ \A j \in Keys : value[j] <= last[j] /\ \A n \in gone[j] : n <= last[j]
      /\ \A j \in Keys : j # "referrer" => ~Gone(gone, j, value[j])
  BY DEF Sane
<1>3. /\ value' \in [Keys -> Nat] /\ last' \in [Keys -> Nat] /\ gone' \in [Keys -> SUBSET Nat]
  <2>1. last' \in [Keys -> Nat]
    BY <1>1, <1>2
  <2>2. value' \in [Keys -> Nat]
    BY <1>1, <1>2
  <2>3. gone' \in [Keys -> SUBSET Nat]
    <3> SUFFICES ASSUME NEW j \in Keys
                 PROVE  (IF j \in owned \cup {k} THEN gone[j] \cup ({value[j]} \ {0}) ELSE gone[j]) \in SUBSET Nat
      BY <1>1
    <3> QED
      BY <1>2
  <2> QED
    BY <2>1, <2>2, <2>3
<1>4. ASSUME NEW j \in Keys
      PROVE  /\ value'[j] <= last'[j] /\ \A n \in gone'[j] : n <= last'[j]
             /\ j # "referrer" => ~Gone(gone', j, value'[j])
  <2>1. /\ last'[j] = IF j = k /\ new THEN last[k] + 1 ELSE last[j]
        /\ value'[j] = IF j = k /\ new THEN last[k] + 1 ELSE IF j \in owned \cup {k} THEN 0 ELSE value[j]
        /\ gone'[j] = IF j \in owned \cup {k} THEN gone[j] \cup ({value[j]} \ {0}) ELSE gone[j]
    BY <1>1, <1>2
  <2>2. last[j] \in Nat /\ value[j] \in Nat /\ value[j] <= last[j] /\ gone[j] \subseteq Nat
    BY <1>2
  <2>3. value'[j] <= last'[j]
    BY <2>1, <2>2
  <2>4. \A n \in gone'[j] : n \in Nat /\ n <= last[j] /\ n <= last'[j]
    BY <1>2, <2>1, <2>2
  <2>5. j # "referrer" => ~Gone(gone', j, value'[j])
    <3>1. CASE j = k /\ new
      BY <2>1, <2>2, <2>4, <3>1 DEF Gone
    <3>2. CASE ~(j = k /\ new) /\ j \in owned \cup {k}
      BY <2>1, <3>2 DEF Gone
    <3>3. CASE j \notin owned \cup {k}
      BY <1>2, <2>1, <3>3 DEF Gone
    <3> QED
      BY <3>1, <3>2, <3>3
  <2> QED
    BY <2>3, <2>4, <2>5
<1>5. Sane(value', last', gone')
  BY <1>3, <1>4 DEF Sane
<1>6. new => value'[k] = last[k] + 1 /\ last[k] + 1 \in Nat \ {0} /\ ~Gone(gone', k, last[k] + 1)
  <2>1. \A n \in gone'[k] : n \in Nat /\ n <= last[k]
    <3>1. gone'[k] = gone[k] \cup ({value[k]} \ {0})
      BY <1>1
    <3>2. last[k] \in Nat /\ value[k] \in Nat /\ value[k] <= last[k] /\ gone[k] \subseteq Nat
      BY <1>2
    <3> QED
      BY <1>2, <3>1, <3>2
  <2>2. last[k] \in Nat
    BY <1>2
  <2>3. new => value'[k] = last[k] + 1
    BY <1>1
  <2> QED
    BY <2>1, <2>2, <2>3 DEF Gone
<1>7. /\ ~new => value'[k] = 0
      /\ gone'[k] = gone[k] \cup ({value[k]} \ {0})
      /\ \A j \in Keys \ {k} : k # "table" \/ j # "user" => value'[j] = value[j] /\ gone'[j] = gone[j]
  BY <1>1
<1>8. k = "table" => value'["user"] = 0
  BY <1>1, KeysAre
<1> QED
  BY <1>5, <1>6, <1>7, <1>8

-----------------------------------------------------------------------------
(* The inductive invariant.                                                 *)

Ends == {<<"user", "root">>, <<"use", "user">>, <<"set", "ardr">>}
NotRoot(L) == L = <<>> \/ L[Len(L)] \notin Ends

RootPlaces == {<<getTable, ensureTable, userRoot>>, <<ensureTable, userRoot>>, <<userRoot>>,
               <<useUser>>, <<setArealm, setArdr>>, <<setArdr>>, <<>>}

\* What a check has found: the table of the session, then a user of it.
Checked(t) ==
    steps[t] # <<>> =>
      /\ Head(steps[t])[1] \in {"ensure", "user"} => ptr[t]["table"] = value["table"]
      /\ Head(steps[t])[1] = "use" => ~Gone(gone, "user", ptr[t]["user"])

OwnedTypes ==
    /\ Sane(value, last, gone)
    /\ ptr \in [PThreads -> [Keys -> Nat]] /\ steps \in [PThreads -> Lists]

\* Checks only: several at a time if there is a table, or one.
Roots ==
    /\ ~Gone(gone, "referrer", value["referrer"])
    /\ \A t \in PThreads : steps[t] \in RootPlaces /\ Checked(t)
    /\ \/ value["table"] # 0
       \/ \A t, u \in PThreads : steps[t] # <<>> /\ steps[u] # <<>> => t = u

\* A request of another kind, which is alone.
Alone(t) ==
    /\ steps[t] # <<>> /\ NotRoot(steps[t])
    /\ \A u \in PThreads \ {t} : steps[u] = <<>>
    /\ \E F : Orderly(steps[t], F) /\ Holds(value, gone, ptr[t], F)

OwnedInv ==
    \/ overlap = "others"
    \/ /\ misused = FALSE /\ OwnedTypes
       /\ Roots \/ \E t \in PThreads : Alone(t)
-----------------------------------------------------------------------------
(* A request that is alone.                                                 *)

LEMMA OrderlyStep ==
    ASSUME NEW L, NEW F, Orderly(L, F)
    PROVE  /\ L \in Lists
           /\ L = <<>> => "ref" \in F
           /\ L # <<>> =>
                \/ \E G : Leads(Head(L), F, G) /\ Orderly(Tail(L), G)
                \/ Head(L)[1] = "user" /\ Head(L)[2] \in {"form", "logout"} /\ "table" \in F
                     /\ \A found \in BOOLEAN : Orderly(Then(Head(L)[2], found),
                        (F \ {"mine"}) \cup {"user"})
                \/ Head(L)[1] = "silent" /\ "table" \in F
                     /\ Orderly(ShowSilent, F \cup {"in"}) /\ Orderly(ShowLogin, F)
                \/ Head(L)[1] = "login" /\ "table" \in F
                     /\ Orderly(LoginOk, F \ {"user"}) /\ Orderly(LoginFailed, F)
<1>1. PICK R : Closed(R) /\ <<L, F>> \in R
  BY DEF Orderly
<1>2. InOrder(R, L, F)
  BY <1>1 DEF Closed
<1>3. \A M, G : <<M, G>> \in R => Orderly(M, G)
  BY <1>1 DEF Orderly
<1> HIDE DEF Leads
<1> QED
  BY <1>2, <1>3 DEF InOrder

LEMMA TailNotRoot ==
    ASSUME NEW L \in Lists, L # <<>>, NotRoot(L)
    PROVE  Tail(L) \in Lists /\ NotRoot(Tail(L))
<1> DEFINE E == Ends
<1> HIDE DEF E
<1>1. L[Len(L)] \notin E
  BY DEF NotRoot, E
<1>2. Tail(L) \in Lists /\ (Tail(L) = <<>> \/ Tail(L)[Len(Tail(L))] = L[Len(L)])
  BY DEF Lists
<1> QED
  BY <1>1, <1>2 DEF NotRoot, E

LEMMA AppendNotRoot ==
    ASSUME NEW L \in Lists, NEW M \in Lists, M # <<>>, NotRoot(M)
    PROVE  NotRoot(L \o M)
<1>1. (L \o M)[Len(L \o M)] = M[Len(M)]
  BY DEF Lists
<1> QED
  BY <1>1 DEF NotRoot

\* What every step of such a request comes to.
Moved(t) ==
    /\ misused' = FALSE /\ OwnedTypes' /\ NotRoot(steps'[t])
    /\ \A u \in PThreads \ {t} : steps'[u] = steps[u]
    /\ \E G : Orderly(steps'[t], G) /\ Holds(value', gone', ptr'[t], G)

LEMMA Moves ==
    ASSUME OwnedTypes, NEW t \in PThreads, NEW rest \in Lists, NotRoot(rest),
           steps' = [steps EXCEPT ![t] = rest], misused' = FALSE,
           Sane(value', last', gone'), ptr' \in [PThreads -> [Keys -> Nat]],
           NEW G, Orderly(rest, G), Holds(value', gone', ptr'[t], G)
    PROVE  Moved(t)
<1>1. steps' \in [PThreads -> Lists] /\ steps'[t] = rest
  BY DEF OwnedTypes
<1>2. \A u \in PThreads \ {t} : steps'[u] = steps[u]
  BY DEF OwnedTypes
<1>3. OwnedTypes'
  BY <1>1 DEF OwnedTypes
<1> QED
  BY <1>1, <1>2, <1>3 DEF Moved

\* After it the request is still alone, or there is none.
LEMMA AfterMove ==
    ASSUME NEW t \in PThreads, \A u \in PThreads \ {t} : steps[u] = <<>>, Moved(t)
    PROVE  OwnedInv'
<1>1. PICK G : Orderly(steps'[t], G) /\ Holds(value', gone', ptr'[t], G)
  BY DEF Moved
<1>2. misused' = FALSE /\ OwnedTypes' /\ NotRoot(steps'[t]) /\ \A u \in PThreads \ {t} : steps'[u] = <<>>
  BY DEF Moved
<1>3. CASE steps'[t] = <<>>
  <2>1. "ref" \in G
    BY <1>1, <1>3, OrderlyStep
  <2>2. ~Gone(gone', "referrer", value'["referrer"])
    BY <1>1, <2>1 DEF Holds
  <2>3. \A u \in PThreads : steps'[u] = <<>>
    BY <1>2, <1>3
  <2>4. Roots'
    BY <2>2, <2>3 DEF Roots, RootPlaces, Checked
  <2> QED
    BY <1>2, <2>4 DEF OwnedInv
<1>4. CASE steps'[t] # <<>>
  <2>1. Alone(t)'
    BY <1>1, <1>2, <1>4 DEF Alone
  <2> QED
    BY <1>2, <2>1 DEF OwnedInv
<1> QED
  BY <1>3, <1>4

LEMMA PointIs ==
    ASSUME OwnedTypes, NEW t \in PThreads, NEW k \in Keys, NEW n \in Nat, Point(t, k, n)
    PROVE  /\ ptr' \in [PThreads -> [Keys -> Nat]] /\ ptr'[t][k] = n
           /\ \A j \in Keys \ {k} : ptr'[t][j] = ptr[t][j]
           /\ \A u \in PThreads \ {t} : ptr'[u] = ptr[u]
BY DEF OwnedTypes, Point

-----------------------------------------------------------------------------
(* The steps of such a request, action by action.                           *)

\* A request that is alone, with the facts F.
With(t, F) ==
    /\ OwnedTypes /\ misused = FALSE /\ NotRoot(steps[t])
    /\ Orderly(steps[t], F) /\ Holds(value, gone, ptr[t], F)

\* An access that leaves the facts G.
LEMMA Goes ==
    ASSUME NEW t \in PThreads, NEW F, With(t, F), steps[t] # <<>>,
           NEW G, Orderly(Tail(steps[t]), G), OnStep(t), misused' = FALSE,
           Sane(value', last', gone'), ptr' \in [PThreads -> [Keys -> Nat]],
           Holds(value', gone', ptr'[t], G)
    PROVE  Moved(t)
<1>1. OwnedTypes /\ steps[t] \in Lists /\ NotRoot(steps[t])
  BY DEF With, OwnedTypes
<1>2. Tail(steps[t]) \in Lists /\ NotRoot(Tail(steps[t]))
  BY <1>1, TailNotRoot
<1>3. steps' = [steps EXCEPT ![t] = Tail(steps[t])]
  BY DEF OnStep, Go
<1> QED
  BY <1>1, <1>2, <1>3, Moves

LEMMA Leading ==
    ASSUME NEW t \in PThreads, NEW F, With(t, F), steps[t] # <<>>,
           Head(steps[t])[1] \notin {"user", "silent", "login"}
    PROVE  \E G : Leads(Head(steps[t]), F, G) /\ Orderly(Tail(steps[t]), G)
<1> HIDE DEF Leads
<1> QED
  BY OrderlyStep DEF With

LEMMA SameObjects ==
    ASSUME OwnedTypes, UNCHANGED objVars
    PROVE  Sane(value', last', gone') /\ value' = value /\ gone' = gone
BY DEF OwnedTypes, objVars

LEMMA GetAlone ==
    ASSUME NEW t \in PThreads, NEW F, With(t, F), GetProp(t)
    PROVE  Moved(t)
<1> DEFINE k == Head(steps[t])[2]
<1>1. /\ steps[t] # <<>> /\ Head(steps[t])[1] = "get" /\ Point(t, k, value[k])
      /\ OnStep(t) /\ UNCHANGED objVars /\ misused' = FALSE
  BY DEF GetProp, Step, Key, With
<1>2. PICK G : Leads(Head(steps[t]), F, G) /\ Orderly(Tail(steps[t]), G)
  BY <1>1, Leading
<1>3. k \in TextKeys \cup {"table"} /\ G = F \cup {k}
  BY <1>1, <1>2 DEF Leads
<1>4. OwnedTypes /\ Holds(value, gone, ptr[t], F)
  BY DEF With
<1> HIDE DEF k
<1>5. k \in Keys /\ k \notin {"in", "mine", "ref", "user", "referrer"}
  BY <1>3, KeysAre
<1>6. value[k] \in Nat /\ ~Gone(gone, k, value[k])
  BY <1>4, <1>5 DEF OwnedTypes, Sane
<1>7. Sane(value', last', gone') /\ value' = value /\ gone' = gone
  BY <1>1, <1>4, SameObjects
<1>8. /\ ptr' \in [PThreads -> [Keys -> Nat]] /\ ptr'[t][k] = value[k]
      /\ \A j \in Keys \ {k} : ptr'[t][j] = ptr[t][j]
  BY <1>1, <1>4, <1>5, <1>6, PointIs
<1>9. Holds(value', gone', ptr'[t], G)
  <2>1. \A j \in Keys \cap G : ~Gone(gone, j, ptr'[t][j])
    BY <1>3, <1>4, <1>6, <1>8 DEF Holds
  <2>2. ptr'[t]["user"] = ptr[t]["user"]
    BY <1>5, <1>8, KeysAre
  <2> QED
    BY <1>3, <1>4, <1>5, <1>7, <2>1, <2>2 DEF Holds
<1> QED
  BY <1>1, <1>2, <1>7, <1>8, <1>9, Goes

LEMMA UseAlone ==
    ASSUME NEW t \in PThreads, NEW F, With(t, F), Use(t)
    PROVE  Moved(t)
<1> DEFINE k == Head(steps[t])[2]
           op == Head(steps[t])[1]
<1>1. /\ steps[t] # <<>> /\ op \in {"use", "deref"}
      /\ misused' = (Bad(k, ptr[t][k]) \/ (op = "deref" /\ ptr[t][k] = 0))
      /\ OnStep(t) /\ UNCHANGED objVars /\ UNCHANGED ptr
  BY DEF Use, Step, Key, With
<1>2. PICK G : Leads(Head(steps[t]), F, G) /\ Orderly(Tail(steps[t]), G)
  BY <1>1, Leading
<1>3. k \in Keys \cap F /\ G = F /\ (op = "deref" => k = "user" /\ "mine" \in F)
  BY <1>1, <1>2, KeysAre DEF Leads
<1>4. OwnedTypes /\ Holds(value, gone, ptr[t], F)
  BY DEF With
<1> HIDE DEF k, op
<1>5. ~Gone(gone, k, ptr[t][k]) /\ (op = "deref" => ptr[t][k] # 0)
  BY <1>3, <1>4 DEF Holds
<1>6. misused' = FALSE
  BY <1>1, <1>5 DEF Bad, Gone
<1>7. Sane(value', last', gone') /\ value' = value /\ gone' = gone
  BY <1>1, <1>4, SameObjects
<1>8. ptr' \in [PThreads -> [Keys -> Nat]] /\ ptr' = ptr
  BY <1>1, <1>4 DEF OwnedTypes
<1> QED
  BY <1>1, <1>2, <1>3, <1>4, <1>6, <1>7, <1>8, Goes

\* The objects of one text property are exchanged.
LEMMA TextReplaced ==
    ASSUME OwnedTypes, NEW k \in TextKeys, NEW new \in BOOLEAN, Replaced(k, new)
    PROVE  /\ Sane(value', last', gone') /\ ~Gone(gone, k, value[k]) /\ ~Bad(k, value[k])
           /\ last[k] + 1 \in Nat /\ (new => ~Gone(gone', k, last[k] + 1))
           /\ \A p, F : Holds(value, gone, p, F) => Holds(value', gone', p, F \ {k})
<1>1. k \in Keys /\ k \notin {"in", "mine", "ref", "user", "referrer", "table"}
  BY KeysAre
<1>2. Sane(value, last, gone)
  BY DEF OwnedTypes
<1>3. /\ Sane(value', last', gone')
      /\ new => ~Gone(gone', k, last[k] + 1)
      /\ \A j \in Keys \ {k} : value'[j] = value[j] /\ gone'[j] = gone[j]
  BY <1>1, <1>2, ReplacedIs
<1>4. ~Gone(gone, k, value[k]) /\ last[k] + 1 \in Nat
  BY <1>1, <1>2 DEF Sane
<1>5. ASSUME NEW p, NEW F, Holds(value, gone, p, F)
      PROVE  Holds(value', gone', p, F \ {k})
  <2>1. value'["user"] = value["user"] /\ value'["referrer"] = value["referrer"]
        /\ gone'["referrer"] = gone["referrer"]
    BY <1>1, <1>3, KeysAre
  <2>2. \A j \in Keys \cap (F \ {k}) : ~Gone(gone', j, p[j])
    BY <1>3, <1>5 DEF Holds, Gone
  <2> QED
    BY <1>5, <2>1, <2>2 DEF Holds, Gone
<1> QED
  BY <1>3, <1>4, <1>5 DEF Bad, Gone

LEMMA SetAlone ==
    ASSUME NEW t \in PThreads, NEW F, With(t, F), SetProp(t)
    PROVE  Moved(t)
<1> DEFINE k == Head(steps[t])[2]
<1>1. /\ steps[t] # <<>> /\ Head(steps[t])[1] = "set" /\ Replaced(k, TRUE) /\ Point(t, k, last[k] + 1)
      /\ misused' = Bad(k, value[k]) /\ OnStep(t)
  BY DEF SetProp, Step, Key, With
<1>2. PICK G : Leads(Head(steps[t]), F, G) /\ Orderly(Tail(steps[t]), G)
  BY <1>1, Leading
<1>3. k \in TextKeys /\ G = F \cup {k}
  BY <1>1, <1>2 DEF Leads
<1>4. OwnedTypes /\ Holds(value, gone, ptr[t], F)
  BY DEF With
<1> HIDE DEF k
<1>5. k \in Keys /\ k \notin {"in", "mine", "ref", "user", "referrer"}
  BY <1>3, KeysAre
<1>6. /\ Sane(value', last', gone') /\ ~Bad(k, value[k])
      /\ last[k] + 1 \in Nat /\ ~Gone(gone', k, last[k] + 1)
      /\ Holds(value', gone', ptr[t], F \ {k})
  BY <1>1, <1>3, <1>4, TextReplaced
<1>7. /\ ptr' \in [PThreads -> [Keys -> Nat]] /\ ptr'[t][k] = last[k] + 1
      /\ \A j \in Keys \ {k} : ptr'[t][j] = ptr[t][j]
  BY <1>1, <1>4, <1>5, <1>6, PointIs
<1>8. Holds(value', gone', ptr'[t], G)
  <2>1. \A j \in Keys \cap G : ~Gone(gone', j, ptr'[t][j])
    BY <1>3, <1>6, <1>7 DEF Holds
  <2>2. ptr'[t]["user"] = ptr[t]["user"]
    BY <1>5, <1>7, KeysAre
  <2> QED
    BY <1>3, <1>5, <1>6, <2>1, <2>2 DEF Holds
<1>9. misused' = FALSE
  BY <1>1, <1>6
<1> QED
  BY <1>1, <1>2, <1>6, <1>7, <1>8, <1>9, Goes

LEMMA ClearAlone ==
    ASSUME NEW t \in PThreads, NEW F, With(t, F), ClearProp(t)
    PROVE  Moved(t)
<1> DEFINE k == Head(steps[t])[2]
<1>1. /\ steps[t] # <<>> /\ Head(steps[t])[1] = "clear" /\ Replaced(k, FALSE)
      /\ misused' = Bad(k, value[k]) /\ OnStep(t) /\ UNCHANGED ptr
  BY DEF ClearProp, Step, Key, With
<1>2. PICK G : Leads(Head(steps[t]), F, G) /\ Orderly(Tail(steps[t]), G)
  BY <1>1, Leading
<1>3. k \in TextKeys /\ G = F \ {k}
  BY <1>1, <1>2 DEF Leads
<1>4. OwnedTypes /\ Holds(value, gone, ptr[t], F)
  BY DEF With
<1> HIDE DEF k
<1>5. Sane(value', last', gone') /\ ~Bad(k, value[k]) /\ Holds(value', gone', ptr[t], F \ {k})
  BY <1>1, <1>3, <1>4, TextReplaced
<1>6. ptr' \in [PThreads -> [Keys -> Nat]] /\ ptr' = ptr /\ misused' = FALSE
  BY <1>1, <1>4, <1>5 DEF OwnedTypes
<1> QED
  BY <1>1, <1>2, <1>3, <1>5, <1>6, Goes

LEMMA OtherAlone ==
    ASSUME NEW t \in PThreads, NEW F, With(t, F), OtherRealm(t)
    PROVE  Moved(t)
<1>1. /\ steps[t] # <<>> /\ Head(steps[t])[1] = "other" /\ (Replaced("name", FALSE) \/ UNCHANGED objVars)
      /\ misused' = FALSE /\ OnStep(t) /\ UNCHANGED ptr
  BY DEF OtherRealm, Step, With
<1>2. PICK G : Leads(Head(steps[t]), F, G) /\ Orderly(Tail(steps[t]), G)
  BY <1>1, Leading
<1>3. G = F \ {"name"} /\ "name" \in TextKeys
  BY <1>1, <1>2, KeysAre DEF Leads
<1>4. OwnedTypes /\ Holds(value, gone, ptr[t], F)
  BY DEF With
<1>5. Sane(value', last', gone') /\ Holds(value', gone', ptr[t], F \ {"name"})
  <2>1. CASE Replaced("name", FALSE)
    BY <1>3, <1>4, <2>1, TextReplaced
  <2>2. CASE UNCHANGED objVars
    <3>1. Sane(value', last', gone') /\ value' = value /\ gone' = gone
      BY <1>4, <2>2, SameObjects
    <3> QED
      BY <1>4, <3>1 DEF Holds
  <2> QED
    BY <1>1, <2>1, <2>2
<1>6. ptr' \in [PThreads -> [Keys -> Nat]] /\ ptr' = ptr
  BY <1>1, <1>4 DEF OwnedTypes
<1> QED
  BY <1>1, <1>2, <1>3, <1>5, <1>6, Goes

LEMMA EnsureAlone ==
    ASSUME NEW t \in PThreads, NEW F, With(t, F), EnsureTable(t)
    PROVE  Moved(t)
<1>1. /\ steps[t] # <<>> /\ Head(steps[t])[1] = "ensure" /\ misused' = FALSE /\ OnStep(t)
      /\ IF ptr[t]["table"] # 0 THEN UNCHANGED objVars /\ UNCHANGED ptr
         ELSE Replaced("table", TRUE) /\ Point(t, "table", last["table"] + 1)
  BY DEF EnsureTable, Step, With
<1>2. PICK G : Leads(Head(steps[t]), F, G) /\ Orderly(Tail(steps[t]), G)
  BY <1>1, Leading
<1>3. G = F \ {"user", "in"}
  BY <1>1, <1>2 DEF Leads
<1>4. OwnedTypes /\ Holds(value, gone, ptr[t], F) /\ Sane(value, last, gone)
  BY DEF With, OwnedTypes
<1>5. /\ Sane(value', last', gone') /\ ptr' \in [PThreads -> [Keys -> Nat]]
      /\ Holds(value', gone', ptr'[t], G)
  <2>1. CASE ptr[t]["table"] # 0
    <3>1. Sane(value', last', gone') /\ value' = value /\ gone' = gone
      BY <1>1, <1>4, <2>1, SameObjects
    <3>2. ptr' \in [PThreads -> [Keys -> Nat]] /\ ptr' = ptr
      BY <1>1, <1>4, <2>1 DEF OwnedTypes
    <3>3. Holds(value, gone, ptr[t], G)
      BY <1>3, <1>4 DEF Holds
    <3> QED
      BY <3>1, <3>2, <3>3
  <2>2. CASE ptr[t]["table"] = 0
    <3>1. Replaced("table", TRUE) /\ Point(t, "table", last["table"] + 1)
      BY <1>1, <2>2
    <3>2. /\ Sane(value', last', gone') /\ last["table"] + 1 \in Nat
          /\ ~Gone(gone', "table", last["table"] + 1)
          /\ \A j \in Keys \ {"table"} : j # "user" => value'[j] = value[j] /\ gone'[j] = gone[j]
      BY <1>4, <3>1, ReplacedIs, KeysAre
    <3>3. /\ ptr' \in [PThreads -> [Keys -> Nat]] /\ ptr'[t]["table"] = last["table"] + 1
          /\ \A j \in Keys \ {"table"} : ptr'[t][j] = ptr[t][j]
      BY <1>4, <3>1, <3>2, PointIs, KeysAre
    <3>4. value'["referrer"] = value["referrer"] /\ gone'["referrer"] = gone["referrer"]
          /\ ptr'[t]["user"] = ptr[t]["user"]
      BY <3>2, <3>3, KeysAre
    <3>5. \A j \in Keys \cap G : ~Gone(gone', j, ptr'[t][j])
      BY <1>3, <1>4, <3>2, <3>3 DEF Holds, Gone
    <3>6. Holds(value', gone', ptr'[t], G)
      BY <1>3, <1>4, <3>4, <3>5 DEF Holds, Gone
    <3> QED
      BY <3>2, <3>3, <3>6
  <2> QED
    BY <2>1, <2>2
<1> QED
  BY <1>1, <1>2, <1>5, Goes

LEMMA FreeAlone ==
    ASSUME NEW t \in PThreads, NEW F, With(t, F), FreeReferrer(t)
    PROVE  Moved(t)
<1>1. PICK G : Leads(Head(steps[t]), F, G) /\ Orderly(Tail(steps[t]), G)
  BY Leading DEF FreeReferrer, Step
<1>2. Head(steps[t])[2] = "referrer" /\ "ref" \in F /\ G = F \ {"referrer", "ref"}
  BY <1>1 DEF Leads, FreeReferrer, Step
<1>3. /\ steps[t] # <<>> /\ OnStep(t) /\ misused' = Bad("referrer", value["referrer"])
      /\ gone' = [gone EXCEPT !["referrer"] = @ \cup ({value["referrer"]} \ {0})]
      /\ value' = value /\ last' = last /\ ptr' = ptr
  BY <1>2 DEF FreeReferrer, Step, Key
<1>4. OwnedTypes /\ Holds(value, gone, ptr[t], F) /\ Sane(value, last, gone)
  BY DEF With, OwnedTypes
<1>5. misused' = FALSE
  BY <1>2, <1>3, <1>4 DEF Holds, Bad, Gone
<1>6. /\ gone' \in [Keys -> SUBSET Nat]
      /\ gone'["referrer"] = gone["referrer"] \cup ({value["referrer"]} \ {0})
      /\ \A j \in Keys \ {"referrer"} : gone'[j] = gone[j]
  BY <1>3, <1>4, KeysAre DEF Sane
<1>7. Sane(value', last', gone')
  <2>1. \A j \in Keys : value[j] <= last[j] /\ \A n \in gone'[j] : n <= last[j]
    BY <1>4, <1>6 DEF Sane
  <2>2. \A j \in Keys : j # "referrer" => ~Gone(gone', j, value[j])
    BY <1>4, <1>6 DEF Sane, Gone
  <2> QED
    BY <1>3, <1>4, <1>6, <2>1, <2>2 DEF Sane
<1>8. Holds(value', gone', ptr'[t], G)
  BY <1>2, <1>3, <1>4, <1>6 DEF Holds, Gone
<1>9. ptr' \in [PThreads -> [Keys -> Nat]]
  BY <1>3, <1>4 DEF OwnedTypes
<1> QED
  BY <1>1, <1>3, <1>5, <1>7, <1>8, <1>9, Goes

LEMMA StoreAlone ==
    ASSUME NEW t \in PThreads, NEW F, With(t, F), StoreReferrer(t)
    PROVE  Moved(t)
<1>1. PICK G : Leads(Head(steps[t]), F, G) /\ Orderly(Tail(steps[t]), G)
  BY Leading DEF StoreReferrer, Step
<1>2. Head(steps[t])[2] = "referrer" /\ G = F \cup {"ref"}
  BY <1>1 DEF Leads, StoreReferrer, Step
<1>3. /\ steps[t] # <<>> /\ OnStep(t) /\ misused' = misused
      /\ last' = [last EXCEPT !["referrer"] = @ + 1]
      /\ value' = [value EXCEPT !["referrer"] = last["referrer"] + 1]
      /\ gone' = gone /\ ptr' = ptr
  BY <1>2 DEF StoreReferrer, Step, Key
<1>4. OwnedTypes /\ misused = FALSE /\ Holds(value, gone, ptr[t], F) /\ Sane(value, last, gone)
  BY DEF With, OwnedTypes
<1>5. /\ value' \in [Keys -> Nat] /\ last' \in [Keys -> Nat]
      /\ last'["referrer"] = last["referrer"] + 1 /\ value'["referrer"] = last["referrer"] + 1
      /\ \A j \in Keys \ {"referrer"} : value'[j] = value[j] /\ last'[j] = last[j]
  <2>1. value \in [Keys -> Nat] /\ last \in [Keys -> Nat] /\ "referrer" \in Keys
    BY <1>4, KeysAre DEF Sane
  <2>2. /\ last' \in [Keys -> Nat] /\ last'["referrer"] = last["referrer"] + 1
        /\ \A j \in Keys \ {"referrer"} : last'[j] = last[j]
    BY <1>3, <2>1
  <2>3. /\ value' \in [Keys -> Nat] /\ value'["referrer"] = last["referrer"] + 1
        /\ \A j \in Keys \ {"referrer"} : value'[j] = value[j]
    BY <1>3, <2>1
  <2> QED
    BY <2>2, <2>3
<1>6. /\ last["referrer"] \in Nat /\ gone["referrer"] \subseteq Nat
      /\ \A n \in gone["referrer"] : n <= last["referrer"]
  BY <1>4, KeysAre DEF Sane
<1>7. ~Gone(gone', "referrer", value'["referrer"]) /\ \A n \in gone["referrer"] : n <= last'["referrer"]
  BY <1>3, <1>5, <1>6 DEF Gone
<1>8. Sane(value', last', gone')
  <2>1. \A j \in Keys : value'[j] <= last'[j] /\ \A n \in gone'[j] : n <= last'[j]
    <3> TAKE j \in Keys
    <3>1. CASE j = "referrer"
      BY <1>3, <1>5, <1>6, <1>7, <3>1
    <3>2. CASE j # "referrer"
      BY <1>3, <1>4, <1>5, <3>2 DEF Sane
    <3> QED
      BY <3>1, <3>2
  <2>2. \A j \in Keys : j # "referrer" => ~Gone(gone', j, value'[j])
    BY <1>3, <1>4, <1>5 DEF Sane, Gone
  <2> QED
    BY <1>3, <1>4, <1>5, <2>1, <2>2 DEF Sane
<1>9. Holds(value', gone', ptr'[t], G)
  <2>1. value'["user"] = value["user"]
    BY <1>5, KeysAre
  <2>2. "ref" \notin Keys
    BY DEF Keys
  <2> QED
    BY <1>2, <1>3, <1>4, <1>7, <2>1, <2>2 DEF Holds
<1>10. ptr' \in [PThreads -> [Keys -> Nat]]
  BY <1>3, <1>4 DEF OwnedTypes
<1> QED
  BY <1>1, <1>3, <1>4, <1>8, <1>9, <1>10, Goes

LEMMA LogoutAlone ==
    ASSUME NEW t \in PThreads, NEW F, With(t, F), AuthenticatorLogout(t)
    PROVE  Moved(t)
<1>1. /\ steps[t] # <<>> /\ Head(steps[t])[1] = "logout" /\ OnStep(t) /\ UNCHANGED ptr
      /\ misused' = Bad("table", ptr[t]["table"])
      /\ UNCHANGED objVars \/ Replaced("user", FALSE)
  BY DEF AuthenticatorLogout, Step, Table
<1>2. PICK G : Leads(Head(steps[t]), F, G) /\ Orderly(Tail(steps[t]), G)
  BY <1>1, Leading
<1>3. "table" \in F /\ G = F \ {"user", "in"}
  BY <1>1, <1>2 DEF Leads
<1>4. OwnedTypes /\ Holds(value, gone, ptr[t], F) /\ Sane(value, last, gone)
  BY DEF With, OwnedTypes
<1>5. misused' = FALSE
  BY <1>1, <1>3, <1>4, KeysAre DEF Holds, Bad, Gone
<1>6. Sane(value', last', gone') /\ \A j \in Keys \ {"user"} : value'[j] = value[j] /\ gone'[j] = gone[j]
  <2>1. CASE UNCHANGED objVars
    BY <1>4, <2>1, SameObjects
  <2>2. CASE Replaced("user", FALSE)
    BY <1>4, <2>2, ReplacedIs, KeysAre
  <2> QED
    BY <1>1, <2>1, <2>2
<1>7. Holds(value', gone', ptr[t], G)
  BY <1>3, <1>4, <1>6, KeysAre DEF Holds, Gone
<1>8. ptr' \in [PThreads -> [Keys -> Nat]] /\ ptr' = ptr
  BY <1>1, <1>4 DEF OwnedTypes
<1> QED
  BY <1>1, <1>2, <1>5, <1>6, <1>7, <1>8, Goes

-----------------------------------------------------------------------------
(* How a request goes on is no check of the session.                        *)

LEMMA LiteralsNotRoot ==
    /\ NotRoot(Replace) /\ Replace # <<>>
    /\ NotRoot(LoginOk) /\ NotRoot(LogoutDone) /\ NotRoot(BackToForm) /\ BackToForm # <<>>
    /\ NotRoot(<<silentUser>>) /\ NotRoot(<<getCsrf, useCsrf>>)
    /\ NotRoot(<<useRealm, userForm>>) /\ NotRoot(<<useRealm, loginUser>>) /\ NotRoot(<<useRealm,
       userLogout>>)
<1>1. ASSUME NEW a PROVE a \notin Ends => NotRoot(<<a>>) /\ <<a>> # <<>>
  BY DEF NotRoot
<1>2. ASSUME NEW a, NEW b PROVE b \notin Ends => NotRoot(<<a, b>>) /\ <<a, b>> # <<>>
  BY DEF NotRoot
<1>3. ASSUME NEW a, NEW b, NEW c PROVE c \notin Ends => NotRoot(<<a, b, c>>)
  BY DEF NotRoot
<1>4. /\ storeReferrer \notin Ends /\ useRdr \notin Ends /\ useForm \notin Ends /\ silentUser \notin Ends
      /\ useCsrf \notin Ends /\ userForm \notin Ends /\ loginUser \notin Ends /\ userLogout \notin Ends
  BY DEF Ends, storeReferrer, useRdr, useForm, silentUser, useCsrf, userForm, loginUser, userLogout
<1>5. /\ Replace = <<freeReferrer, storeReferrer>> /\ LoginOk = <<useRealm, setName, useRdr>>
      /\ LogoutDone = <<logoutUser, getRdr, useRdr>> /\ BackToForm = <<useForm>>
  BY DEF Replace, LoginOk, LogoutDone, BackToForm, freeReferrer, storeReferrer, useRealm, setName, useRdr,
         logoutUser, getRdr, useForm
<1> QED
  BY <1>1, <1>2, <1>3, <1>4, <1>5

LEMMA LoginFailedNotRoot == NotRoot(LoginFailed)
<1>1. LoginFailed = <<useRealm, setArealm, useRdr, setArdr, useRealm, setName, useForm>>
  BY DEF LoginFailed, useRealm, setArealm, useRdr, setArdr, setName, useForm
<1>2. ASSUME NEW a1, NEW a2, NEW a3, NEW a4, NEW a5, NEW a6, NEW a7
      PROVE  a7 \notin Ends => NotRoot(<<a1, a2, a3, a4, a5, a6, a7>>)
  BY DEF NotRoot
<1>3. useForm \notin Ends
  BY DEF Ends, useForm
<1> QED
  BY <1>1, <1>2, <1>3

LEMMA ShownNotRoot ==
    NotRoot(ShowSilent) /\ NotRoot(ShowLogin) /\ NotRoot(ShowLogout)
<1>1. Replace \in Lists /\ Replace # <<>> /\ NotRoot(Replace)
  BY ReplaceSure, LiteralsNotRoot
<1>2. NotRoot(ShowSilent)
  <2>1. ShowSilent = <<readUser, derefUser, useRealm, getRdr, useRdr>> \o Replace
    BY DEF ShowSilent, readUser, derefUser, useRealm, getRdr, useRdr
  <2>2. <<readUser, derefUser, useRealm, getRdr, useRdr>> \in Lists
    BY <1>1, Named, Row5
  <2> QED
    BY <1>1, <2>1, <2>2, AppendNotRoot
<1>3. NotRoot(ShowLogin)
  <2>1. ShowLogin = <<getName, setCsrf, useName, useCsrf, useRealm>> \o Replace
    BY DEF ShowLogin, getName, setCsrf, useName, useCsrf, useRealm
  <2>2. <<getName, setCsrf, useName, useCsrf, useRealm>> \in Lists
    BY <1>1, Named, Row5
  <2> QED
    BY <1>1, <2>1, <2>2, AppendNotRoot
<1>4. NotRoot(ShowLogout)
  <2>1. ShowLogout = <<useUser, setCsrf, useUser, useCsrf, useRealm>> \o Replace
    BY DEF ShowLogout, useUser, setCsrf, useCsrf, useRealm
  <2>2. <<useUser, setCsrf, useUser, useCsrf, useRealm>> \in Lists
    BY <1>1, Named, Row5
  <2> QED
    BY <1>1, <2>1, <2>2, AppendNotRoot
<1> QED
  BY <1>2, <1>3, <1>4

\* What a request may begin with, other than a check.
LEMMA BegunSure ==
    ASSUME NEW list \in Requests, list # RootHandler
    PROVE  list \in Lists /\ NotRoot(list) /\ Sure(list, {"ref"})
<1>1. list \in {ShowForm, <<getCsrf, useCsrf>>, DoLogin, DoLogout, DoNothing}
  BY DEF Requests, getCsrf, useCsrf
<1>2. list \in Lists /\ Sure(list, {"ref"})
  BY <1>1, ShowFormSure, CompareSure, DoLoginSure, DoLogoutSure, DoNothingSure
<1>3. /\ <<useRealm, userForm>> \in Lists /\ <<useRealm, loginUser>> \in Lists /\ <<useRealm,
         userLogout>> \in Lists
      /\ <<useRealm, userForm>> # <<>> /\ <<useRealm, loginUser>> # <<>> /\ <<useRealm, userLogout>> # <<>>
  BY NothingInLists, Named, Row2
<1>4. NotRoot(ShowForm)
  <2>1. ShowForm = (UpdateSession \o AuthCreate) \o <<useRealm, userForm>>
    BY DEF ShowForm, useRealm, userForm
  <2>2. UpdateSession \o AuthCreate \in Lists
    BY UpdateSessionIs, AuthCreateIs, Append3
  <2> QED
    BY <1>3, <2>1, <2>2, LiteralsNotRoot, AppendNotRoot
<1>5. NotRoot(DoLogin)
  <2>1. DoLogin = ((Protect \o <<getRdr>>) \o AuthCreate) \o <<useRealm, loginUser>>
    BY DEF DoLogin, getRdr, useRealm, loginUser
  <2>2. Protect \o <<getRdr>> \in Lists
    <3>1. <<getRdr>> \in Lists
      BY NothingInLists, Named, Row1
    <3> QED
      BY <3>1, ProtectIs, Append3
  <2>3. (Protect \o <<getRdr>>) \o AuthCreate \in Lists
    BY <2>2, AuthCreateIs, Append3
  <2> QED
    BY <1>3, <2>1, <2>3, LiteralsNotRoot, AppendNotRoot
<1>6. NotRoot(DoLogout)
  <2>1. DoLogout = (Protect \o AuthCreate) \o <<useRealm, userLogout>>
    BY DEF DoLogout, useRealm, userLogout
  <2>2. Protect \o AuthCreate \in Lists
    BY ProtectIs, AuthCreateIs, Append3
  <2> QED
    BY <1>3, <2>1, <2>2, LiteralsNotRoot, AppendNotRoot
<1>7. NotRoot(DoNothing)
  BY BackToFormSure, ProtectIs, LiteralsNotRoot, AppendNotRoot DEF DoNothing
<1> QED
  BY <1>1, <1>2, <1>4, <1>5, <1>6, <1>7, LiteralsNotRoot

LEMMA UserAlone ==
    ASSUME NEW t \in PThreads, NEW F, With(t, F), AuthenticatorUser(t)
    PROVE  Moved(t)
<1> DEFINE op == Head(steps[t])[1]
           k == Head(steps[t])[2]
<1>1. /\ steps[t] # <<>> /\ op \in {"user", "read"} /\ Point(t, "user", value["user"])
      /\ misused' = Bad("table", ptr[t]["table"]) /\ UNCHANGED objVars
      /\ Go(t, IF op = "read" THEN Tail(steps[t]) ELSE Then(k, value["user"] # 0))
      /\ UNCHANGED <<requests, overlap>>
  BY DEF AuthenticatorUser, Step, Table, Key
<1>2. OwnedTypes /\ Holds(value, gone, ptr[t], F) /\ Sane(value, last, gone) /\ Orderly(steps[t], F)
  BY DEF With, OwnedTypes
<1>3. value["user"] \in Nat /\ ~Gone(gone, "user", value["user"])
  BY <1>2, KeysAre DEF Sane
<1>4. /\ ptr' \in [PThreads -> [Keys -> Nat]] /\ ptr'[t]["user"] = value["user"]
      /\ \A j \in Keys \ {"user"} : ptr'[t][j] = ptr[t][j]
  BY <1>1, <1>2, <1>3, KeysAre, PointIs
<1>5. Sane(value', last', gone') /\ value' = value /\ gone' = gone
  BY <1>1, <1>2, SameObjects
<1>6. "table" \in F => misused' = FALSE
  BY <1>1, <1>2, KeysAre DEF Holds, Bad, Gone
<1>7. ASSUME NEW G, "mine" \in G => "in" \in F, G \subseteq F \cup {"user", "mine"}
      PROVE  Holds(value', gone', ptr'[t], G)
  <2>1. \A j \in Keys \cap G : ~Gone(gone, j, ptr'[t][j])
    <3> SUFFICES ASSUME NEW j \in Keys \cap G PROVE ~Gone(gone, j, ptr'[t][j])
      OBVIOUS
    <3>1. "mine" \notin Keys
      BY DEF Keys
    <3>2. CASE j = "user"
      BY <1>3, <1>4, <3>2
    <3>3. CASE j # "user"
      BY <1>2, <1>4, <1>7, <3>1, <3>3 DEF Holds
    <3> QED
      BY <3>2, <3>3
  <2> QED
    BY <1>2, <1>4, <1>5, <1>7, <2>1 DEF Holds
<1>8. CASE op = "read"
  <2>1. PICK G : Leads(Head(steps[t]), F, G) /\ Orderly(Tail(steps[t]), G)
    BY <1>1, <1>8, Leading
  <2>2. "table" \in F /\ G = (F \ {"mine"}) \cup {"user"} \cup {f \in {"mine"} : "in" \in F}
    BY <1>8, <2>1 DEF Leads
  <2>3. Holds(value', gone', ptr'[t], G)
    BY <1>7, <2>2
  <2>4. OnStep(t)
    BY <1>1, <1>8 DEF OnStep
  <2> QED
    BY <1>1, <1>4, <1>5, <1>6, <2>1, <2>2, <2>3, <2>4, Goes
<1>9. CASE op = "user"
  <2> DEFINE found == value["user"] # 0
             rest == Then(k, found)
             G == (F \ {"mine"}) \cup {"user"}
  <2>1. \/ \E H : Leads(Head(steps[t]), F, H)
        \/ k \in {"form", "logout"} /\ "table" \in F /\ \A f \in BOOLEAN : Orderly(Then(k, f), G)
    <3> HIDE DEF Leads
    <3> QED
      BY <1>1, <1>2, <1>9, OrderlyStep
  <2>2. ~\E H : Leads(Head(steps[t]), F, H)
    BY <1>9 DEF Leads
  <2>3. k \in {"form", "logout"} /\ "table" \in F /\ Orderly(rest, G)
    BY <2>1, <2>2
  <2>4. rest \in {ShowLogout, <<silentUser>>, LogoutDone, BackToForm}
    BY <2>3 DEF Then, silentUser
  <2>5. rest \in Lists /\ NotRoot(rest)
    BY <2>4, ShowLogoutSure, SilentListSure, LogoutDoneSure, BackToFormSure, ShownNotRoot, LiteralsNotRoot
  <2>6. steps' = [steps EXCEPT ![t] = rest]
    BY <1>1, <1>9 DEF Go
  <2>7. Holds(value', gone', ptr'[t], G)
    BY <1>7
  <2> HIDE DEF rest, G
  <2> QED
    BY <1>2, <1>4, <1>5, <1>6, <2>3, <2>5, <2>6, <2>7, Moves
<1> QED
  BY <1>1, <1>8, <1>9

LEMMA SilentAlone ==
    ASSUME NEW t \in PThreads, NEW F, With(t, F), AuthenticatorSilentLogin(t)
    PROVE  Moved(t)
<1>1. /\ steps[t] # <<>> /\ Head(steps[t])[1] = "silent" /\ UNCHANGED ptr
      /\ misused' = Bad("table", ptr[t]["table"])
      /\ \/ Go(t, ShowSilent) /\ (IF value["user"] = 0 THEN Replaced("user", TRUE) ELSE UNCHANGED objVars)
         \/ value["user"] = 0 /\ Go(t, ShowLogin) /\ UNCHANGED objVars
  BY DEF AuthenticatorSilentLogin, Step, Table
<1>2. OwnedTypes /\ Holds(value, gone, ptr[t], F) /\ Sane(value, last, gone) /\ Orderly(steps[t], F)
  BY DEF With, OwnedTypes
<1>3. "table" \in F /\ Orderly(ShowSilent, F \cup {"in"}) /\ Orderly(ShowLogin, F)
  <2>1. ~\E G : Leads(Head(steps[t]), F, G)
    BY <1>1 DEF Leads
  <2> HIDE DEF Leads
  <2> QED
    BY <1>1, <1>2, <2>1, OrderlyStep
<1>4. misused' = FALSE
  BY <1>1, <1>2, <1>3, KeysAre DEF Holds, Bad, Gone
<1>5. ptr' \in [PThreads -> [Keys -> Nat]] /\ ptr' = ptr
  BY <1>1, <1>2 DEF OwnedTypes
<1>6. ShowSilent \in Lists /\ ShowLogin \in Lists /\ NotRoot(ShowSilent) /\ NotRoot(ShowLogin)
  BY ShowSilentSure, ShowLoginSure, ShownNotRoot
<1>7. CASE Go(t, ShowSilent) /\ value["user"] = 0 /\ Replaced("user", TRUE)
  <2>1. /\ Sane(value', last', gone') /\ value'["user"] = last["user"] + 1 /\ last["user"] + 1 \in Nat \ {0}
        /\ gone'["user"] = gone["user"] \cup ({value["user"]} \ {0})
        /\ \A j \in Keys \ {"user"} : value'[j] = value[j] /\ gone'[j] = gone[j]
    BY <1>2, <1>7, ReplacedIs, KeysAre
  <2>2. \A j \in Keys : gone'[j] = gone[j]
    BY <1>7, <2>1
  <2>3. "in" \notin Keys /\ value'["referrer"] = value["referrer"]
    BY <2>1, KeysAre DEF Keys
  <2>4. Holds(value', gone', ptr'[t], F \cup {"in"})
    BY <1>2, <1>5, <2>1, <2>2, <2>3, KeysAre DEF Holds, Gone
  <2>5. steps' = [steps EXCEPT ![t] = ShowSilent]
    BY <1>7 DEF Go
  <2> QED
    BY <1>2, <1>3, <1>4, <1>5, <1>6, <2>1, <2>4, <2>5, Moves
<1>8. CASE Go(t, ShowSilent) /\ value["user"] # 0 /\ UNCHANGED objVars
  <2>1. Sane(value', last', gone') /\ value' = value /\ gone' = gone
    BY <1>2, <1>8, SameObjects
  <2>2. "in" \notin Keys
    BY DEF Keys
  <2>3. Holds(value', gone', ptr'[t], F \cup {"in"})
    BY <1>2, <1>5, <1>8, <2>1, <2>2 DEF Holds
  <2>4. steps' = [steps EXCEPT ![t] = ShowSilent]
    BY <1>8 DEF Go
  <2> QED
    BY <1>2, <1>3, <1>4, <1>5, <1>6, <2>1, <2>3, <2>4, Moves
<1>9. CASE Go(t, ShowLogin) /\ UNCHANGED objVars
  <2>1. Sane(value', last', gone') /\ value' = value /\ gone' = gone
    BY <1>2, <1>9, SameObjects
  <2>2. Holds(value', gone', ptr'[t], F)
    BY <1>2, <1>5, <2>1
  <2>3. steps' = [steps EXCEPT ![t] = ShowLogin]
    BY <1>9 DEF Go
  <2> QED
    BY <1>2, <1>3, <1>4, <1>5, <1>6, <2>1, <2>2, <2>3, Moves
<1> QED
  BY <1>1, <1>7, <1>8, <1>9

LEMMA LoginAlone ==
    ASSUME NEW t \in PThreads, NEW F, With(t, F), AuthenticatorLogin(t)
    PROVE  Moved(t)
<1>1. /\ steps[t] # <<>> /\ Head(steps[t])[1] = "login" /\ UNCHANGED ptr
      /\ misused' = Bad("table", ptr[t]["table"])
      /\ \/ Replaced("user", TRUE) /\ Go(t, LoginOk)
         \/ UNCHANGED objVars /\ Go(t, LoginFailed)
  BY DEF AuthenticatorLogin, Step, Table
<1>2. OwnedTypes /\ Holds(value, gone, ptr[t], F) /\ Sane(value, last, gone) /\ Orderly(steps[t], F)
  BY DEF With, OwnedTypes
<1>3. "table" \in F /\ Orderly(LoginOk, F \ {"user"}) /\ Orderly(LoginFailed, F)
  <2>1. ~\E G : Leads(Head(steps[t]), F, G)
    BY <1>1 DEF Leads
  <2> HIDE DEF Leads
  <2> QED
    BY <1>1, <1>2, <2>1, OrderlyStep
<1>4. misused' = FALSE
  BY <1>1, <1>2, <1>3, KeysAre DEF Holds, Bad, Gone
<1>5. ptr' \in [PThreads -> [Keys -> Nat]] /\ ptr' = ptr
  BY <1>1, <1>2 DEF OwnedTypes
<1>6. LoginOk \in Lists /\ LoginFailed \in Lists /\ NotRoot(LoginOk) /\ NotRoot(LoginFailed)
  BY LoginOkSure, LoginFailedSure, LiteralsNotRoot, LoginFailedNotRoot
<1>7. CASE Replaced("user", TRUE) /\ Go(t, LoginOk)
  <2>1. /\ Sane(value', last', gone') /\ value'["user"] = last["user"] + 1 /\ last["user"] + 1 \in Nat \ {0}
        /\ \A j \in Keys \ {"user"} : value'[j] = value[j] /\ gone'[j] = gone[j]
    BY <1>2, <1>7, ReplacedIs, KeysAre
  <2>2. value'["referrer"] = value["referrer"] /\ gone'["referrer"] = gone["referrer"]
    BY <2>1, KeysAre
  <2>3. Holds(value', gone', ptr'[t], F \ {"user"})
    BY <1>2, <1>5, <2>1, <2>2 DEF Holds, Gone
  <2>4. steps' = [steps EXCEPT ![t] = LoginOk]
    BY <1>7 DEF Go
  <2> QED
    BY <1>2, <1>3, <1>4, <1>5, <1>6, <2>1, <2>3, <2>4, Moves
<1>8. CASE UNCHANGED objVars /\ Go(t, LoginFailed)
  <2>1. Sane(value', last', gone') /\ value' = value /\ gone' = gone
    BY <1>2, <1>8, SameObjects
  <2>2. Holds(value', gone', ptr'[t], F)
    BY <1>2, <1>5, <2>1
  <2>3. steps' = [steps EXCEPT ![t] = LoginFailed]
    BY <1>8 DEF Go
  <2> QED
    BY <1>2, <1>3, <1>4, <1>5, <1>6, <2>1, <2>2, <2>3, Moves
<1> QED
  BY <1>1, <1>7, <1>8

\* A step of the handlers that takes no new request.
Steps(t) ==
    \/ GetProp(t) \/ Use(t) \/ SetProp(t) \/ ClearProp(t) \/ OtherRealm(t)
    \/ EnsureTable(t) \/ FreeReferrer(t) \/ StoreReferrer(t)
    \/ AuthenticatorUser(t) \/ AuthenticatorSilentLogin(t)
    \/ AuthenticatorLogin(t) \/ AuthenticatorLogout(t)

LEMMA StepsAlone ==
    ASSUME OwnedTypes, misused = FALSE, NEW t \in PThreads, Alone(t), NEW u \in PThreads, Steps(u)
    PROVE  OwnedInv'
<1>1. steps[u] # <<>>
  BY DEF Steps, GetProp, Use, SetProp, ClearProp, OtherRealm, EnsureTable, FreeReferrer, StoreReferrer,
         AuthenticatorUser, AuthenticatorSilentLogin, AuthenticatorLogin, AuthenticatorLogout, Step
<1>2. u = t
  BY <1>1 DEF Alone
<1>3. PICK F : Orderly(steps[t], F) /\ Holds(value, gone, ptr[t], F)
  BY DEF Alone
<1>4. With(t, F)
  BY <1>3 DEF With, Alone
<1>5. Moved(t)
  <2>1. CASE GetProp(t) \/ Use(t) \/ SetProp(t) \/ ClearProp(t)
    BY <1>4, <2>1, GetAlone, UseAlone, SetAlone, ClearAlone
  <2>2. CASE OtherRealm(t) \/ EnsureTable(t) \/ FreeReferrer(t) \/ StoreReferrer(t)
    BY <1>4, <2>2, OtherAlone, EnsureAlone, FreeAlone, StoreAlone
  <2>3. CASE AuthenticatorUser(t) \/ AuthenticatorSilentLogin(t) \/ AuthenticatorLogin(t)
            \/ AuthenticatorLogout(t)
    BY <1>4, <2>3, UserAlone, SilentAlone, LoginAlone, LogoutAlone
  <2> QED
    BY <1>2, <2>1, <2>2, <2>3 DEF Steps
<1> QED
  BY <1>5, AfterMove DEF Alone

-----------------------------------------------------------------------------
(* Checks, alone or at the same time.                                       *)

\* Where a check may be, by the access that is next.
LEMMA RootPlacesAre ==
    ASSUME NEW L \in RootPlaces, L # <<>>
    PROVE  /\ L \in Lists
           /\ \/ Head(L) = getTable /\ Tail(L) = <<ensureTable, userRoot>>
              \/ Head(L) = ensureTable /\ Tail(L) = <<userRoot>>
              \/ Head(L) = userRoot
              \/ Head(L) = useUser /\ Tail(L) = <<>>
              \/ Head(L) = setArealm /\ Tail(L) = <<setArdr>>
              \/ Head(L) = setArdr /\ Tail(L) = <<>>
<1>1. ASSUME NEW a, a \in Accesses PROVE <<a>> \in Lists /\ Head(<<a>>) = a /\ Tail(<<a>>) = <<>>
  BY <1>1 DEF Lists
<1>2. ASSUME NEW a, NEW b, a \in Accesses, b \in Accesses
      PROVE  <<a, b>> \in Lists /\ Head(<<a, b>>) = a /\ Tail(<<a, b>>) = <<b>>
  BY <1>2 DEF Lists
<1>3. ASSUME NEW a, NEW b, NEW c, a \in Accesses, b \in Accesses, c \in Accesses
      PROVE  <<a, b, c>> \in Lists /\ Head(<<a, b, c>>) = a /\ Tail(<<a, b, c>>) = <<b, c>>
  BY <1>3 DEF Lists
<1>4. CASE L = <<getTable, ensureTable, userRoot>>
  BY <1>3, <1>4, Named
<1>5. CASE L = <<ensureTable, userRoot>>
  BY <1>2, <1>5, Named
<1>6. CASE L = <<userRoot>>
  BY <1>1, <1>6, Named
<1>7. CASE L = <<useUser>>
  BY <1>1, <1>7, Named
<1>8. CASE L = <<setArealm, setArdr>>
  BY <1>2, <1>8, Named
<1>9. CASE L = <<setArdr>>
  BY <1>1, <1>9, Named
<1> QED
  BY <1>4, <1>5, <1>6, <1>7, <1>8, <1>9 DEF RootPlaces

\* The access by its kind.
LEMMA RootAccess ==
    ASSUME NEW t \in PThreads, steps[t] \in RootPlaces, steps[t] # <<>>
    PROVE  /\ Head(steps[t])[1] = "get" => Head(steps[t])[2] = "table"
              /\ Tail(steps[t]) = <<ensureTable, userRoot>>
           /\ Head(steps[t])[1] = "ensure" => Tail(steps[t]) = <<userRoot>>
           /\ Head(steps[t])[1] = "user" => Head(steps[t])[2] = "root"
           /\ Head(steps[t])[1] = "use" => Head(steps[t])[2] = "user" /\ Tail(steps[t]) = <<>>
           /\ Head(steps[t])[1] = "set" => /\ Head(steps[t])[2] \in {"arealm", "ardr"}
                                           /\ Tail(steps[t]) \in {<<setArdr>>, <<>>}
           /\ Head(steps[t])[1] \in {"get", "ensure", "user", "use", "set"}
<1>1. /\ getTable[1] = "get" /\ getTable[2] = "table" /\ ensureTable[1] = "ensure"
      /\ userRoot[1] = "user" /\ userRoot[2] = "root" /\ useUser[1] = "use" /\ useUser[2] = "user"
      /\ setArealm[1] = "set" /\ setArealm[2] = "arealm" /\ setArdr[1] = "set" /\ setArdr[2] = "ardr"
  BY DEF getTable, ensureTable, userRoot, useUser, setArealm, setArdr
<1> DEFINE L == steps[t]
<1>2. \/ Head(L) = getTable /\ Tail(L) = <<ensureTable, userRoot>>
      \/ Head(L) = ensureTable /\ Tail(L) = <<userRoot>>
      \/ Head(L) = userRoot
      \/ Head(L) = useUser /\ Tail(L) = <<>>
      \/ Head(L) = setArealm /\ Tail(L) = <<setArdr>>
      \/ Head(L) = setArdr /\ Tail(L) = <<>>
  BY RootPlacesAre
<1> HIDE DEF L
<1>3. CASE Head(L) = getTable /\ Tail(L) = <<ensureTable, userRoot>>
  BY <1>1, <1>3 DEF L
<1>4. CASE Head(L) = ensureTable /\ Tail(L) = <<userRoot>>
  BY <1>1, <1>4 DEF L
<1>5. CASE Head(L) = userRoot
  BY <1>1, <1>5 DEF L
<1>6. CASE Head(L) = useUser /\ Tail(L) = <<>>
  BY <1>1, <1>6 DEF L
<1>7. CASE Head(L) = setArealm /\ Tail(L) = <<setArdr>>
  BY <1>1, <1>7 DEF L
<1>8. CASE Head(L) = setArdr /\ Tail(L) = <<>>
  BY <1>1, <1>8 DEF L
<1> QED
  BY <1>2, <1>3, <1>4, <1>5, <1>6, <1>7, <1>8

\* What a step of a check leaves, at the place it comes to.
LEMMA AfterRootStep ==
    ASSUME OwnedTypes, Roots, NEW t \in PThreads, steps[t] # <<>>, NEW rest \in RootPlaces,
           steps' = [steps EXCEPT ![t] = rest], misused' = FALSE,
           Sane(value', last', gone'), ptr' \in [PThreads -> [Keys -> Nat]],
           \A u \in PThreads \ {t} : ptr'[u] = ptr[u],
           Checked(t)',
           gone'["referrer"] = gone["referrer"], value'["referrer"] = value["referrer"],
           \/ /\ gone'["user"] = gone["user"] /\ value'["table"] = value["table"]
           \/ value["table"] = 0
    PROVE  OwnedInv'
<1>1. /\ steps' \in [PThreads -> Lists] /\ steps'[t] = rest
      /\ \A u \in PThreads \ {t} : steps'[u] = steps[u]
  <2>1. rest \in Lists
    BY RootPlacesAre, NothingInLists
  <2> QED
    BY <2>1 DEF OwnedTypes
<1>2. OwnedTypes'
  BY <1>1 DEF OwnedTypes
<1>3. ~Gone(gone', "referrer", value'["referrer"])
  BY DEF Roots, Gone
<1>4. CASE gone'["user"] = gone["user"] /\ value'["table"] = value["table"]
  <2>1. ASSUME NEW u \in PThreads PROVE steps'[u] \in RootPlaces /\ Checked(u)'
    <3>1. CASE u = t
      BY <1>1, <3>1
    <3>2. CASE u # t
      BY <1>1, <1>4, <3>2 DEF Roots, Checked, Gone
    <3> QED
      BY <3>1, <3>2
  <2>2. \/ value'["table"] # 0
        \/ \A x, u \in PThreads : steps'[x] # <<>> /\ steps'[u] # <<>> => x = u
    <3>1. CASE value["table"] # 0
      BY <1>4, <3>1
    <3>2. CASE value["table"] = 0
      <4>1. \A u \in PThreads \ {t} : steps'[u] = <<>>
        BY <1>1, <3>2 DEF Roots
      <4> QED
        BY <4>1
    <3> QED
      BY <3>1, <3>2
  <2>3. Roots'
    BY <1>3, <2>1, <2>2 DEF Roots
  <2> QED
    BY <1>2, <2>3 DEF OwnedInv
<1>5. CASE value["table"] = 0
  <2>1. \A u \in PThreads \ {t} : steps'[u] = <<>>
    BY <1>1, <1>5 DEF Roots
  <2>2. ASSUME NEW u \in PThreads PROVE steps'[u] \in RootPlaces /\ Checked(u)'
    <3>1. CASE u = t
      BY <1>1, <3>1
    <3>2. CASE u # t
      BY <2>1, <3>2 DEF RootPlaces, Checked
    <3> QED
      BY <3>1, <3>2
  <2>3. \A x, u \in PThreads : steps'[x] # <<>> /\ steps'[u] # <<>> => x = u
    BY <2>1
  <2>4. Roots'
    BY <1>3, <2>2, <2>3 DEF Roots
  <2> QED
    BY <1>2, <2>4 DEF OwnedInv
<1> QED
  BY <1>4, <1>5

LEMMA PlacesNext ==
    /\ <<ensureTable, userRoot>> \in RootPlaces /\ Head(<<ensureTable, userRoot>>)[1] = "ensure"
    /\ <<userRoot>> \in RootPlaces /\ Head(<<userRoot>>)[1] = "user"
    /\ RootAllowed \in RootPlaces /\ Head(RootAllowed)[1] = "use"
    /\ RootDenied \in RootPlaces /\ Head(RootDenied)[1] = "set"
    /\ <<setArdr>> \in RootPlaces /\ Head(<<setArdr>>)[1] = "set"
    /\ <<>> \in RootPlaces
    /\ RootHandler \in RootPlaces /\ Head(RootHandler)[1] = "get"
<1>1. RootAllowed = <<useUser>> /\ RootDenied = <<setArealm, setArdr>>
  BY DEF RootAllowed, RootDenied, useUser, setArealm, setArdr
<1>2. RootHandler = <<getTable, ensureTable, userRoot>>
  <2>1. RootHandler = AuthCreate \o <<userRoot>>
    BY DEF RootHandler, userRoot
  <2>2. <<userRoot>> \in Lists
    BY NothingInLists, Named, Row1
  <2>3. RootHandler = Cons(getTable, Cons(ensureTable, <<userRoot>>))
    BY <2>1, <2>2, AuthCreateIs
  <2> QED
    BY <2>3, Cells2, Cells3
<1>3. ASSUME NEW a PROVE Head(<<a>>) = a
  OBVIOUS
<1>4. ASSUME NEW a, NEW b PROVE Head(<<a, b>>) = a
  OBVIOUS
<1>5. ASSUME NEW a, NEW b, NEW c PROVE Head(<<a, b, c>>) = a
  OBVIOUS
<1>6. /\ getTable[1] = "get" /\ ensureTable[1] = "ensure" /\ userRoot[1] = "user" /\ useUser[1] = "use"
      /\ setArealm[1] = "set" /\ setArdr[1] = "set"
  BY DEF getTable, ensureTable, userRoot, useUser, setArealm, setArdr
<1>7. /\ Head(<<ensureTable, userRoot>>)[1] = "ensure" /\ Head(<<userRoot>>)[1] = "user"
      /\ Head(RootAllowed)[1] = "use" /\ Head(RootDenied)[1] = "set" /\ Head(<<setArdr>>)[1] = "set"
  BY <1>1, <1>3, <1>4, <1>6
<1>8. Head(RootHandler)[1] = "get"
  BY <1>2, <1>5, <1>6
<1> QED
  BY <1>1, <1>2, <1>7, <1>8 DEF RootPlaces

LEMMA StepsRoot ==
    ASSUME OwnedTypes, misused = FALSE, Roots, NEW t \in PThreads, Steps(t)
    PROVE  OwnedInv'
<1> DEFINE op == Head(steps[t])[1]
           k == Head(steps[t])[2]
<1>1. steps[t] # <<>> /\ steps[t] \in RootPlaces /\ Checked(t)
  BY DEF Roots, Steps, GetProp, Use, SetProp, ClearProp, OtherRealm, EnsureTable, FreeReferrer,
     StoreReferrer,
         AuthenticatorUser, AuthenticatorSilentLogin, AuthenticatorLogin, AuthenticatorLogout, Step
<1>2. Sane(value, last, gone) /\ ptr \in [PThreads -> [Keys -> Nat]] /\ steps \in [PThreads -> Lists]
  BY DEF OwnedTypes
<1>3. CASE GetProp(t)
  <2>1. /\ op = "get" /\ Point(t, k, value[k]) /\ UNCHANGED objVars /\ misused' = FALSE
        /\ steps' = [steps EXCEPT ![t] = Tail(steps[t])]
    BY <1>3 DEF GetProp, Step, Key, OnStep, Go
  <2>2. k = "table" /\ Tail(steps[t]) = <<ensureTable, userRoot>>
    BY <1>1, <2>1, RootAccess
  <2>3. Sane(value', last', gone') /\ value' = value /\ gone' = gone
    BY <2>1, SameObjects
  <2>4. value["table"] \in Nat
    BY <1>2, KeysAre DEF Sane
  <2>5. /\ ptr' \in [PThreads -> [Keys -> Nat]] /\ ptr'[t]["table"] = value["table"]
        /\ \A u \in PThreads \ {t} : ptr'[u] = ptr[u]
    BY <2>1, <2>2, <2>4, PointIs, KeysAre
  <2>6. steps'[t] = <<ensureTable, userRoot>>
    BY <1>2, <2>1, <2>2
  <2>7. Checked(t)'
    BY <2>3, <2>5, <2>6, PlacesNext DEF Checked
  <2> QED
    BY <1>1, <2>1, <2>2, <2>3, <2>5, <2>7, PlacesNext, AfterRootStep
<1>4. CASE Use(t)
  <2>1. /\ op \in {"use", "deref"} /\ UNCHANGED objVars /\ ptr' = ptr
        /\ misused' = (Bad(k, ptr[t][k]) \/ (op = "deref" /\ ptr[t][k] = 0))
        /\ steps' = [steps EXCEPT ![t] = Tail(steps[t])]
    BY <1>4 DEF Use, Step, Key, OnStep, Go
  <2>2. op = "use" /\ k = "user" /\ Tail(steps[t]) = <<>>
    BY <1>1, <2>1, RootAccess
  <2>3. misused' = FALSE
    BY <1>1, <2>1, <2>2 DEF Checked, Bad, Gone
  <2>4. Sane(value', last', gone') /\ value' = value /\ gone' = gone
    BY <2>1, SameObjects
  <2>5. steps'[t] = <<>>
    BY <1>2, <2>1, <2>2
  <2>6. Checked(t)'
    BY <2>5 DEF Checked
  <2> QED
    BY <1>1, <1>2, <2>1, <2>2, <2>3, <2>4, <2>6, PlacesNext, AfterRootStep
<1>5. CASE SetProp(t)
  <2>1. /\ op = "set" /\ Replaced(k, TRUE) /\ Point(t, k, last[k] + 1)
        /\ misused' = Bad(k, value[k]) /\ steps' = [steps EXCEPT ![t] = Tail(steps[t])]
    BY <1>5 DEF SetProp, Step, Key, OnStep, Go
  <2>2. k \in {"arealm", "ardr"} /\ Tail(steps[t]) \in {<<setArdr>>, <<>>}
    BY <1>1, <2>1, RootAccess
  <2>3. k \in TextKeys /\ k \in Keys \ {"table", "user", "referrer"}
    BY <2>2, KeysAre
  <2>4. Sane(value', last', gone') /\ ~Bad(k, value[k]) /\ last[k] + 1 \in Nat
    BY <2>1, <2>3, TextReplaced
  <2>5. \A j \in Keys \ {k} : value'[j] = value[j] /\ gone'[j] = gone[j]
    BY <1>2, <2>1, <2>3, ReplacedIs
  <2>6. /\ gone'["user"] = gone["user"] /\ value'["table"] = value["table"]
        /\ gone'["referrer"] = gone["referrer"] /\ value'["referrer"] = value["referrer"]
    BY <2>3, <2>5, KeysAre
  <2>7. ptr' \in [PThreads -> [Keys -> Nat]] /\ \A u \in PThreads \ {t} : ptr'[u] = ptr[u]
    BY <2>1, <2>3, <2>4, PointIs
  <2>8. steps'[t] \in {<<setArdr>>, <<>>}
    BY <1>2, <2>1, <2>2
  <2>9. Checked(t)'
    BY <2>8, PlacesNext DEF Checked
  <2>10. misused' = FALSE
    BY <2>1, <2>4
  <2>11. Tail(steps[t]) \in RootPlaces
    BY <2>2, PlacesNext
  <2> QED
    BY <1>1, <2>1, <2>4, <2>6, <2>7, <2>9, <2>10, <2>11, AfterRootStep
<1>6. CASE EnsureTable(t)
  <2>1. /\ op = "ensure" /\ misused' = FALSE /\ steps' = [steps EXCEPT ![t] = Tail(steps[t])]
        /\ IF ptr[t]["table"] # 0 THEN UNCHANGED objVars /\ UNCHANGED ptr
           ELSE Replaced("table", TRUE) /\ Point(t, "table", last["table"] + 1)
    BY <1>6 DEF EnsureTable, Step, OnStep, Go
  <2>2. Tail(steps[t]) = <<userRoot>> /\ ptr[t]["table"] = value["table"]
    BY <1>1, <2>1, RootAccess DEF Checked
  <2>3. steps'[t] = <<userRoot>>
    BY <1>2, <2>1, <2>2
  <2>4. CASE ptr[t]["table"] # 0
    <3>1. Sane(value', last', gone') /\ value' = value /\ gone' = gone /\ ptr' = ptr
      BY <2>1, <2>4, SameObjects
    <3>2. Checked(t)'
      BY <2>2, <2>3, <3>1, PlacesNext DEF Checked
    <3> QED
      BY <1>1, <1>2, <2>1, <2>2, <3>1, <3>2, PlacesNext, AfterRootStep
  <2>5. CASE ptr[t]["table"] = 0
    <3>1. Replaced("table", TRUE) /\ Point(t, "table", last["table"] + 1)
      BY <2>1, <2>5
    <3>2. /\ Sane(value', last', gone') /\ value'["table"] = last["table"] + 1 /\ last["table"] + 1 \in Nat
          /\ \A j \in Keys \ {"table"} : j # "user" => value'[j] = value[j] /\ gone'[j] = gone[j]
      BY <1>2, <3>1, ReplacedIs, KeysAre
    <3>3. gone'["referrer"] = gone["referrer"] /\ value'["referrer"] = value["referrer"]
      BY <3>2, KeysAre
    <3>4. /\ ptr' \in [PThreads -> [Keys -> Nat]] /\ ptr'[t]["table"] = last["table"] + 1
          /\ \A u \in PThreads \ {t} : ptr'[u] = ptr[u]
      BY <3>1, <3>2, PointIs, KeysAre
    <3>5. Checked(t)'
      BY <2>3, <3>2, <3>4, PlacesNext DEF Checked
    <3>6. value["table"] = 0
      BY <2>2, <2>5
    <3> QED
      BY <1>1, <2>1, <2>2, <3>2, <3>3, <3>4, <3>5, <3>6, PlacesNext, AfterRootStep
  <2> QED
    BY <2>4, <2>5
<1>7. CASE AuthenticatorUser(t)
  <2> DEFINE rest == IF value["user"] # 0 THEN RootAllowed ELSE RootDenied
  <2>1. /\ op \in {"user", "read"} /\ Point(t, "user", value["user"]) /\ UNCHANGED objVars
        /\ misused' = Bad("table", ptr[t]["table"])
        /\ Go(t, IF op = "read" THEN Tail(steps[t]) ELSE Then(k, value["user"] # 0))
    BY <1>7 DEF AuthenticatorUser, Step, Table, Key
  <2>2. op = "user" /\ k = "root" /\ ptr[t]["table"] = value["table"]
    BY <1>1, <2>1, RootAccess DEF Checked
  <2>3. steps' = [steps EXCEPT ![t] = rest]
    BY <2>1, <2>2 DEF Go, Then
  <2>4. value["user"] \in Nat /\ ~Gone(gone, "user", value["user"]) /\ ~Gone(gone, "table", value["table"])
    BY <1>2, KeysAre DEF Sane
  <2>5. misused' = FALSE
    BY <2>1, <2>2, <2>4 DEF Bad, Gone
  <2>6. Sane(value', last', gone') /\ value' = value /\ gone' = gone
    BY <2>1, SameObjects
  <2>7. /\ ptr' \in [PThreads -> [Keys -> Nat]] /\ ptr'[t]["user"] = value["user"]
        /\ \A u \in PThreads \ {t} : ptr'[u] = ptr[u]
    BY <2>1, <2>4, PointIs, KeysAre
  <2>8. rest \in RootPlaces /\ steps'[t] = rest
    BY <1>2, <2>3, PlacesNext
  <2>9. Checked(t)'
    BY <2>4, <2>6, <2>7, <2>8, PlacesNext DEF Checked
  <2> HIDE DEF rest
  <2> QED
    BY <1>1, <2>3, <2>5, <2>6, <2>7, <2>8, <2>9, AfterRootStep
<1>8. op \in {"get", "ensure", "user", "use", "set"}
  BY <1>1, RootAccess
<1>9. ~(ClearProp(t) \/ OtherRealm(t) \/ FreeReferrer(t) \/ StoreReferrer(t)
        \/ AuthenticatorSilentLogin(t) \/ AuthenticatorLogin(t) \/ AuthenticatorLogout(t))
  BY <1>8 DEF ClearProp, OtherRealm, FreeReferrer, StoreReferrer, AuthenticatorSilentLogin,
              AuthenticatorLogin, AuthenticatorLogout, Step
<1> QED
  BY <1>3, <1>4, <1>5, <1>6, <1>7, <1>9 DEF Steps

-----------------------------------------------------------------------------
(* A request begins.                                                        *)

LEMMA BeginOwned ==
    ASSUME OwnedTypes, misused = FALSE, Roots \/ \E u \in PThreads : Alone(u),
           NEW t \in PThreads, NEW list \in Requests, BeginRequest(t, list)
    PROVE  OwnedInv'
<1> DEFINE others == {u \in PThreads : steps[u] # <<>>}
           checks == /\ list = RootHandler /\ value["table"] # 0
                     /\ \A u \in others : steps[u][Len(steps[u])] \in Ends
<1>1. /\ steps[t] = <<>> /\ steps' = [steps EXCEPT ![t] = list] /\ ptr' = [ptr EXCEPT ![t] = Nothing]
      /\ UNCHANGED objVars /\ misused' = FALSE
      /\ overlap' = IF others = {} \/ overlap = "others" THEN overlap
                    ELSE IF checks THEN "checks" ELSE "others"
  BY DEF BeginRequest, Go, Ends
<1>2. Sane(value', last', gone') /\ value' = value /\ gone' = gone
  BY <1>1, SameObjects
<1>3. /\ ptr \in [PThreads -> [Keys -> Nat]] /\ steps \in [PThreads -> Lists]
      /\ Nothing \in [Keys -> Nat] /\ \A k \in Keys : Nothing[k] = 0
  BY DEF OwnedTypes, Nothing
<1>4. /\ ptr' \in [PThreads -> [Keys -> Nat]] /\ ptr'[t] = Nothing
      /\ \A u \in PThreads \ {t} : ptr'[u] = ptr[u]
  BY <1>1, <1>3
<1>5. /\ steps'[t] = list /\ \A u \in PThreads \ {t} : steps'[u] = steps[u]
  BY <1>1, <1>3
<1>6. Roots => ~Gone(gone', "referrer", value'["referrer"])
  BY <1>2 DEF Roots
<1>7. CASE Roots /\ list = RootHandler /\ (others = {} \/ value["table"] # 0)
  <2>1. RootHandler \in RootPlaces /\ Head(RootHandler)[1] = "get" /\ RootHandler \in Lists
    BY PlacesNext, RootPlacesAre, NothingInLists
  <2>2. Checked(t)'
    BY <1>5, <1>7, <2>1 DEF Checked
  <2>3. ASSUME NEW u \in PThreads PROVE steps'[u] \in RootPlaces /\ Checked(u)'
    <3>1. CASE u = t
      BY <1>5, <1>7, <2>1, <2>2, <3>1
    <3>2. CASE u # t
      BY <1>2, <1>4, <1>5, <1>7, <3>2 DEF Roots, Checked
    <3> QED
      BY <3>1, <3>2
  <2>4. \/ value'["table"] # 0
        \/ \A x, u \in PThreads : steps'[x] # <<>> /\ steps'[u] # <<>> => x = u
    <3>1. CASE others = {}
      <4>1. \A u \in PThreads \ {t} : steps'[u] = <<>>
        BY <1>5, <3>1
      <4> QED
        BY <4>1
    <3>2. CASE value["table"] # 0
      BY <1>2, <3>2
    <3> QED
      BY <1>7, <3>1, <3>2
  <2>5. Roots'
    BY <1>6, <1>7, <2>3, <2>4 DEF Roots
  <2>6. OwnedTypes'
    <3>1. steps' \in [PThreads -> Lists]
      BY <1>1, <1>3, <1>7, <2>1
    <3> QED
      BY <1>2, <1>4, <3>1 DEF OwnedTypes
  <2> QED
    BY <1>1, <2>5, <2>6 DEF OwnedInv
<1>8. CASE Roots /\ list # RootHandler /\ others = {}
  <2>1. list \in Lists /\ NotRoot(list) /\ Orderly(list, {"ref"})
    BY <1>8, BegunSure DEF Sure
  <2>2. ~Gone(gone', "referrer", value'["referrer"])
    BY <1>6, <1>8
  <2>3. Holds(value', gone', ptr'[t], {"ref"})
    BY <1>3, <1>4, <2>2 DEF Holds, Gone
  <2>4. Moved(t)
    BY <1>1, <1>2, <1>4, <2>1, <2>3, Moves
  <2>5. \A u \in PThreads \ {t} : steps[u] = <<>>
    BY <1>8
  <2> QED
    BY <2>4, <2>5, AfterMove
<1>9. CASE Roots /\ others # {} /\ ~(list = RootHandler /\ value["table"] # 0)
  BY <1>1, <1>9 DEF OwnedInv
<1>10. CASE \E u \in PThreads : Alone(u)
  <2>1. PICK u \in PThreads : Alone(u)
    BY <1>10
  <2>2. u \in others /\ steps[u][Len(steps[u])] \notin Ends
    BY <2>1 DEF Alone, NotRoot
  <2>3. others # {} /\ ~checks
    BY <2>2
  <2> QED
    BY <1>1, <2>3 DEF OwnedInv
<1> QED
  BY <1>7, <1>8, <1>9, <1>10

\* PropsOwned of every number of threads and of requests: no object of a
\* session is used or freed after it was freed as long as its requests come one
\* after the other, or the ones at the same time only check a session that has
\* a table of logins.
THEOREM PropsOwnedCorrect == PropSpec => []PropsOwned
<1>1. PropInit => OwnedInv
  <2> SUFFICES ASSUME PropInit PROVE OwnedInv
    OBVIOUS
  <2>1. Sane(value, last, gone)
    BY DEF PropInit, Nothing, Sane, Gone
  <2>2. ptr \in [PThreads -> [Keys -> Nat]] /\ steps \in [PThreads -> Lists]
    <3>1. Nothing \in [Keys -> Nat]
      BY DEF Nothing
    <3> QED
      BY <3>1, NothingInLists DEF PropInit
  <2>3. Roots
    <3>1. value["referrer"] = 0
      BY KeysAre DEF PropInit, Nothing
    <3>2. \A t \in PThreads : steps[t] = <<>>
      BY DEF PropInit
    <3> QED
      BY <3>1, <3>2 DEF Roots, RootPlaces, Checked, Gone
  <2> QED
    BY <2>1, <2>2, <2>3 DEF PropInit, OwnedInv, OwnedTypes
<1>2. OwnedInv /\ [PropNext]_propVars => OwnedInv'
  <2> SUFFICES ASSUME OwnedInv, [PropNext]_propVars PROVE OwnedInv'
    OBVIOUS
  <2>1. CASE UNCHANGED propVars
    <3>1. /\ value' = value /\ last' = last /\ gone' = gone /\ steps' = steps /\ ptr' = ptr
          /\ misused' = misused /\ overlap' = overlap
      BY <2>1 DEF propVars, objVars
    <3>2. /\ OwnedTypes' <=> OwnedTypes
          /\ Roots' <=> Roots
          /\ \A t \in PThreads : Alone(t)' <=> Alone(t)
      BY <3>1 DEF OwnedTypes, Roots, Checked, Alone
    <3> QED
      BY <3>1, <3>2 DEF OwnedInv
  <2>2. CASE PropNext
    <3>1. PICK t \in PThreads : (\E list \in Requests : BeginRequest(t, list)) \/ Steps(t)
      BY <2>2 DEF PropNext, Steps
    <3>2. CASE overlap = "others"
      <4>1. overlap' = "others"
        BY <3>1, <3>2 DEF Steps, BeginRequest, GetProp, Use, SetProp, ClearProp, OtherRealm, EnsureTable,
             FreeReferrer, StoreReferrer, AuthenticatorUser, AuthenticatorSilentLogin, AuthenticatorLogin,
             AuthenticatorLogout, OnStep
      <4> QED
        BY <4>1 DEF OwnedInv
    <3>3. CASE overlap # "others"
      <4>1. misused = FALSE /\ OwnedTypes /\ (Roots \/ \E u \in PThreads : Alone(u))
        BY <3>3 DEF OwnedInv
      <4>2. CASE \E list \in Requests : BeginRequest(t, list)
        BY <4>1, <4>2, BeginOwned
      <4>3. CASE Steps(t)
        BY <4>1, <4>3, StepsAlone, StepsRoot
      <4> QED
        BY <3>1, <4>2, <4>3
    <3> QED
      BY <3>2, <3>3
  <2> QED
    BY <2>1, <2>2
<1>3. OwnedInv => PropsOwned
  BY DEF OwnedInv, PropsOwned
<1> QED
  BY <1>1, <1>2, <1>3, PTL DEF PropSpec

===============================================================================
