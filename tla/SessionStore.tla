---------------------------- MODULE SessionStore ----------------------------
(***************************************************************************)
(* The table of sessions (middleware/session.c): a fixed number of         *)
(* buckets, each a linked list with a lock, used by the worker threads of   *)
(* the pool, one request each.  A request first sweeps the table when the   *)
(* last sweep is old enough (clean), looks its session up (findSession),    *)
(* touches it, or creates one and appends it to its bucket                  *)
(* (createSession), and then holds a bare pointer to it until it ends.      *)
(*                                                                          *)
(* createSession reads and writes a chain without the lock of its bucket,   *)
(* so each of its reads, the write behind the last record and the steps of  *)
(* a sweep are steps of their own.  A record that was given back is never   *)
(* allocated again: a use after free is a use of a record in freed, which   *)
(* the variable strayed notes and after which nothing is claimed.  The      *)
(* identifier of a session is its record, and never repeats.                *)
(* The properties of a session are in LoginFlow, its referrer is left out.  *)
(***************************************************************************)
EXTENDS Integers, FiniteSets

CONSTANTS Threads,        \* the threads of the pool
          Sessions,       \* the records that can be allocated
          NBuckets,       \* SHT_SIZE
          Hash,           \* the bucket of each session's identifier
          MaxIdle, MaxAge, CleanInterval,
          MaxStall,       \* how long a request runs at most (it is cancelled)
          MaxTime,        \* bound of the clock
          NONE

Buckets == 0 .. NBuckets - 1

ASSUME TableAssumption == /\ NBuckets \in Nat \ {0}
                          /\ Hash \in [Sessions -> Buckets]
                          /\ NONE \notin Sessions \cup Threads
                          /\ IsFiniteSet(Sessions)
ASSUME TimeAssumption == /\ {MaxIdle, MaxAge, CleanInterval, MaxTime} \subseteq Nat
                         /\ MaxStall \in Nat

VARIABLES now, cleantime,
          head, next,      \* the pointers that make the chains
          ctime, atime,
          live, freed,     \* allocated records, and those given back
          lock,            \* the owner of each bucket's lock
          pc, tnow,        \* per thread: where it is, the time it read
          sid,             \* the session its cookie names
          self,            \* its session
          bkt, cur, par,   \* a walk: bucket, record and the one before it
          cookies,         \* the sessions some client knows the id of
          raced,           \* buckets where a creation overlapped a change
          strayed          \* the thread that has used a freed record

store == <<head, next, ctime, atime, live, freed>>
walk == <<bkt, cur, par>>
vars == <<now, cleantime, store, lock, pc, tnow, sid, self, walk, cookies, raced,
          strayed>>

-----------------------------------------------------------------------------

\* sessionExpired
Expired(s, t) == t - atime[s] > MaxIdle \/ t - ctime[s] > MaxAge

\* Where createSession reads and writes a chain without the lock.
Unlocked == {"first", "tail", "along", "append"}

\* t is between its lookup in bucket b and its write there.
Creating(t, b) == pc[t] \in Unlocked /\ bkt[t] = b

\* The records a walk from the head of b meets.
Hops(b) == LET hop[n \in 0 .. Cardinality(Sessions)] ==
                 IF n = 0 THEN head[b]
                 ELSE IF hop[n-1] = NONE THEN NONE ELSE next[hop[n-1]]
           IN hop

Linked(b) == {Hops(b)[n] : n \in 0 .. Cardinality(Sessions)} \ {NONE}

Goto(t, l) == pc' = [pc EXCEPT ![t] = l]

Walk(t, b, s, p) == /\ bkt' = [bkt EXCEPT ![t] = b]
                    /\ cur' = [cur EXCEPT ![t] = s]
                    /\ par' = [par EXCEPT ![t] = p]

\* The walk is over: its pointers are locals nobody reads any more.
EndWalk(t) == Walk(t, 0, NONE, NONE)

\* MW_Session goes on with what findSession returned.
FindReturns(t, s) == /\ sid' = [sid EXCEPT ![t] = NONE]
                     /\ self' = [self EXCEPT ![t] = s]

\* The request is over.
Leave(t) == /\ Goto(t, "idle")
            /\ tnow' = [tnow EXCEPT ![t] = 0]
            /\ self' = [self EXCEPT ![t] = NONE]

Init == /\ now = 0 /\ cleantime = 0
        /\ head = [b \in Buckets |-> NONE]
        /\ next = [s \in Sessions |-> NONE]
        /\ ctime = [s \in Sessions |-> 0] /\ atime = ctime
        /\ live = {} /\ freed = {}
        /\ lock = [b \in Buckets |-> NONE]
        /\ pc = [t \in Threads |-> "idle"] /\ tnow = [t \in Threads |-> 0]
        /\ sid = [t \in Threads |-> NONE] /\ self = sid
        /\ bkt = tnow /\ cur = sid /\ par = sid
        /\ cookies = {} /\ raced = {} /\ strayed = NONE

-----------------------------------------------------------------------------

(* A request reaches MW_Session with a cookie it was once given, or none.   *)
(* A cookie with an identifier that was never issued is like none.          *)
Arrive(t) == /\ pc[t] = "idle"
             /\ \E c \in cookies \cup {NONE} : sid' = [sid EXCEPT ![t] = c]
             /\ tnow' = [tnow EXCEPT ![t] = now]
             /\ Goto(t, "clean")
             /\ UNCHANGED <<now, cleantime, store, lock, self, walk, cookies, raced>>

(* clean, under cleanlock: whether this request is the one that sweeps.     *)
CleanCheck(t) ==
    /\ pc[t] = "clean"
    /\ IF tnow[t] - cleantime < CleanInterval
         THEN Goto(t, "find") /\ UNCHANGED <<cleantime, walk>>
         ELSE /\ cleantime' = tnow[t]
              /\ Walk(t, 0, NONE, NONE)
              /\ Goto(t, "bucket")
    /\ UNCHANGED <<now, store, lock, tnow, sid, self, cookies, raced>>

SweepBucket(t) == /\ pc[t] = "bucket" /\ lock[bkt[t]] = NONE
                  /\ lock' = [lock EXCEPT ![bkt[t]] = t]
                  /\ Walk(t, bkt[t], head[bkt[t]], NONE)
                  /\ Goto(t, "sweep")
                  /\ UNCHANGED <<now, cleantime, store, tnow, sid, self, cookies, raced>>

\* Take s, whose predecessor is p, out of bucket b and delete it.
Unlink(b, s, p) == /\ IF p = NONE
                        THEN head' = [head EXCEPT ![b] = next[s]] /\ UNCHANGED next
                        ELSE next' = [next EXCEPT ![p] = next[s]] /\ UNCHANGED head
                   /\ live' = live \ {s} /\ freed' = freed \cup {s}
                   /\ raced' = IF \E t \in Threads : Creating(t, b)
                                 THEN raced \cup {b} ELSE raced
                   /\ ctime' = [ctime EXCEPT ![s] = 0] /\ atime' = [atime EXCEPT ![s] = 0]

\* Mutant: the deleted record becomes the predecessor of the next one.
SweepDeleteMoves(t) == /\ pc[t] = "sweep" /\ cur[t] # NONE
                  /\ Expired(cur[t], tnow[t])
                  /\ Unlink(bkt[t], cur[t], par[t])
                  /\ Walk(t, bkt[t], next[cur[t]], cur[t])
                  /\ UNCHANGED <<now, cleantime, lock, pc, tnow, sid, self, cookies>>

SweepDelete(t) == /\ pc[t] = "sweep" /\ cur[t] # NONE
                  /\ Expired(cur[t], tnow[t])
                  /\ Unlink(bkt[t], cur[t], par[t])
                  /\ Walk(t, bkt[t], next[cur[t]], par[t])
                  /\ UNCHANGED <<now, cleantime, lock, pc, tnow, sid, self, cookies>>

SweepKeep(t) == /\ pc[t] = "sweep" /\ cur[t] # NONE
                /\ ~Expired(cur[t], tnow[t])
                /\ Walk(t, bkt[t], next[cur[t]], cur[t])
                /\ UNCHANGED <<now, cleantime, store, lock, pc, tnow, sid, self, cookies, raced>>

\* Mutant: the loop over the buckets ends one early.
SweepUnlockEarly(t) ==
    /\ pc[t] = "sweep" /\ cur[t] = NONE
    /\ lock' = [lock EXCEPT ![bkt[t]] = NONE]
    /\ IF bkt[t] + 2 < NBuckets
         THEN Goto(t, "bucket") /\ Walk(t, bkt[t] + 1, NONE, NONE)
         ELSE Goto(t, "find") /\ EndWalk(t)
    /\ UNCHANGED <<now, cleantime, store, tnow, sid, self, cookies, raced>>

SweepUnlock(t) ==
    /\ pc[t] = "sweep" /\ cur[t] = NONE
    /\ lock' = [lock EXCEPT ![bkt[t]] = NONE]
    /\ IF bkt[t] + 1 < NBuckets
         THEN Goto(t, "bucket") /\ Walk(t, bkt[t] + 1, NONE, NONE)
         ELSE Goto(t, "find") /\ EndWalk(t)
    /\ UNCHANGED <<now, cleantime, store, tnow, sid, self, cookies, raced>>

-----------------------------------------------------------------------------

(* findSession for the cookie's identifier, one step: it holds the lock of  *)
(* the bucket, and the only write that can fall into it is the append of    *)
(* another session.                                                         *)
NoCookie(t) == /\ pc[t] = "find" /\ sid[t] = NONE
               /\ Goto(t, "limit")
               /\ UNCHANGED <<now, cleantime, store, lock, tnow, sid, self, walk, cookies, raced>>

Reaches(t) == lock[Hash[sid[t]]] = NONE /\ sid[t] \in Linked(Hash[sid[t]])

(* It is found, and used after the lock was given back.                     *)
Found(t) == /\ pc[t] = "find" /\ sid[t] # NONE
            /\ Reaches(t) /\ ~Expired(sid[t], tnow[t])
            /\ FindReturns(t, sid[t])
            /\ Goto(t, "touch")
            /\ UNCHANGED <<now, cleantime, store, lock, tnow, walk, cookies, raced>>

(* It is found expired and deleted.                                         *)
FoundExpired(t) ==
    /\ pc[t] = "find" /\ sid[t] # NONE
    /\ Reaches(t) /\ Expired(sid[t], tnow[t])
    /\ LET b == Hash[sid[t]]
           before == {p \in Linked(b) : next[p] = sid[t]}
       IN Unlink(b, sid[t], IF before = {} THEN NONE ELSE CHOOSE p \in before : TRUE)
    /\ FindReturns(t, NONE)
    /\ Goto(t, "limit")
    /\ UNCHANGED <<now, cleantime, lock, tnow, walk, cookies>>

NotFound(t) == /\ pc[t] = "find" /\ sid[t] # NONE
               /\ lock[Hash[sid[t]]] = NONE /\ sid[t] \notin Linked(Hash[sid[t]])
               /\ FindReturns(t, NONE)
               /\ Goto(t, "limit")
               /\ UNCHANGED <<now, cleantime, store, lock, tnow, walk, cookies, raced>>

\* Mutant: the time of the last access is not kept.
TouchNot(t) == /\ pc[t] = "touch"
               /\ Goto(t, "serve")
               /\ UNCHANGED <<now, cleantime, store, lock, tnow, sid, self, walk, cookies, raced>>

(* self->atime = now, with the time read when the request came in.          *)
Touch(t) == /\ pc[t] = "touch" /\ self[t] \in live
            /\ atime' = [atime EXCEPT ![self[t]] = tnow[t]]
            /\ Goto(t, "serve")
            /\ UNCHANGED <<now, cleantime, head, next, ctime, live, freed, lock,
                           tnow, sid, self, walk, cookies, raced>>

-----------------------------------------------------------------------------

(* RateLimit_check refuses the new session: the answer is 429.              *)
Refused(t) == /\ pc[t] = "limit"
              /\ Leave(t)
              /\ UNCHANGED <<now, cleantime, store, lock, sid, walk, cookies, raced>>

(* createSession: a fresh identifier, for which findSession walks the       *)
(* bucket under its lock and finds nothing.                                 *)
CreateId(t) ==
    /\ pc[t] = "limit"
    /\ \E s \in Sessions \ (live \cup freed) :
         LET b == Hash[s]
         IN /\ \A u \in Threads : self[u] # s
            /\ lock[b] = NONE
            /\ self' = [self EXCEPT ![t] = s]
            /\ Walk(t, b, NONE, NONE)
            /\ raced' = IF \E u \in Threads : Creating(u, b) THEN raced \cup {b} ELSE raced
    /\ Goto(t, "first")
    /\ UNCHANGED <<now, cleantime, store, lock, tnow, sid, cookies>>

(* From here on without the lock: parent = buckets[h].                      *)
ReadHead(t) == /\ pc[t] = "first"
               /\ Walk(t, bkt[t], head[bkt[t]], NONE)
               /\ Goto(t, "tail")
               /\ UNCHANGED <<now, cleantime, store, lock, tnow, sid, self, cookies, raced>>

(* while (parent && parent->next): next is read here, and again in the body *)
(* of the loop.                                                             *)
TailTest(t) == /\ pc[t] = "tail" /\ cur[t] \notin freed
               /\ Goto(t, IF cur[t] = NONE \/ next[cur[t]] = NONE THEN "append" ELSE "along")
               /\ UNCHANGED <<now, cleantime, store, lock, tnow, sid, self, walk, cookies, raced>>

TailStep(t) == /\ pc[t] = "along" /\ cur[t] \notin freed
               /\ Walk(t, bkt[t], next[cur[t]], NONE)
               /\ Goto(t, "tail")
               /\ UNCHANGED <<now, cleantime, store, lock, tnow, sid, self, cookies, raced>>

\* Mutant: the record replaces the chain.
AppendHead(t) ==
    /\ pc[t] = "append" /\ cur[t] \notin freed
    /\ LET s == self[t] IN
         /\ live' = live \cup {s}
         /\ ctime' = [ctime EXCEPT ![s] = tnow[t]]
         /\ atime' = [atime EXCEPT ![s] = tnow[t]]
         /\ head' = [head EXCEPT ![bkt[t]] = s] /\ UNCHANGED next
    /\ EndWalk(t)
    /\ Goto(t, "serve")
    /\ UNCHANGED <<now, cleantime, freed, lock, tnow, sid, self, cookies, raced>>

(* The record is filled and linked, with whatever has happened since.       *)
AppendSession(t) ==
    /\ pc[t] = "append" /\ cur[t] \notin freed
    /\ LET s == self[t] IN
         /\ live' = live \cup {s}
         /\ ctime' = [ctime EXCEPT ![s] = tnow[t]]
         /\ atime' = [atime EXCEPT ![s] = tnow[t]]
         /\ IF cur[t] = NONE
              THEN head' = [head EXCEPT ![bkt[t]] = s] /\ UNCHANGED next
              ELSE next' = [next EXCEPT ![cur[t]] = s] /\ UNCHANGED head
    /\ EndWalk(t)
    /\ Goto(t, "serve")
    /\ UNCHANGED <<now, cleantime, freed, lock, tnow, sid, self, cookies, raced>>

(* The rest of the pipeline ran; the answer carries the cookie.             *)
Served(t) == /\ pc[t] = "serve"
             /\ cookies' = cookies \cup {self[t]}
             /\ Leave(t)
             /\ UNCHANGED <<now, cleantime, store, lock, sid, walk, raced>>

(* The next access of the thread is to a record that was given back: by the *)
(* walk of createSession or its write behind the last record, or through    *)
(* the pointer of the request's own session.                                *)
Misuse(t) == /\ \/ pc[t] \in Unlocked /\ cur[t] \in freed
                \/ pc[t] \in {"touch", "serve"} /\ self[t] \in freed
             /\ strayed' = t
             /\ UNCHANGED <<now, cleantime, store, lock, pc, tnow, sid, self, walk, cookies, raced>>

(* MW_Session_done, when the pool has stopped: what the chains hold is      *)
(* deleted.                                                                 *)
Done == /\ \A t \in Threads : pc[t] = "idle"
        /\ LET all == UNION {Linked(b) : b \in Buckets} IN
             live' = live \ all /\ freed' = freed \cup all
        /\ head' = [b \in Buckets |-> NONE]
        /\ pc' = [t \in Threads |-> "stopped"]
        /\ UNCHANGED <<now, cleantime, next, ctime, atime, lock, tnow, sid, self,
                       walk, cookies, raced>>

(* The clock; a request does not outlive MaxStall.                          *)
Tick == /\ now < MaxTime
        /\ \A t \in Threads : pc[t] \notin {"idle", "stopped"} => now - tnow[t] < MaxStall
        /\ now' = now + 1
        /\ UNCHANGED <<cleantime, store, lock, pc, tnow, sid, self, walk, cookies, raced>>

Clean(t) == CleanCheck(t) \/ SweepBucket(t) \/ SweepDelete(t) \/ SweepKeep(t) \/ SweepUnlock(t)
Find(t) == NoCookie(t) \/ Found(t) \/ FoundExpired(t) \/ NotFound(t)
Create(t) == \/ Refused(t) \/ CreateId(t)
             \/ ReadHead(t) \/ TailTest(t) \/ TailStep(t) \/ AppendSession(t)

Work(t) == Arrive(t) \/ Clean(t) \/ Find(t) \/ Touch(t) \/ Create(t) \/ Served(t)

(* Nothing is known of the program once it has used freed memory.           *)
Next == /\ strayed = NONE
        /\ \/ ((\E t \in Threads : Work(t)) \/ Done \/ Tick) /\ UNCHANGED strayed
           \/ \E t \in Threads : Misuse(t)

Spec == Init /\ [][Next]_vars

-----------------------------------------------------------------------------

PCs == {"idle", "clean", "bucket", "sweep", "find", "touch", "limit",
        "serve", "stopped"} \cup Unlocked

(* The types of the variables.                                              *)
TypeOK == /\ now \in 0 .. MaxTime /\ cleantime \in 0 .. now
          /\ head \in [Buckets -> Sessions \cup {NONE}]
          /\ next \in [Sessions -> Sessions \cup {NONE}]
          /\ ctime \in [Sessions -> 0 .. now] /\ atime \in [Sessions -> 0 .. now]
          /\ live \subseteq Sessions /\ freed \subseteq Sessions /\ live \cap freed = {}
          /\ pc \in [Threads -> PCs] /\ tnow \in [Threads -> 0 .. now]
          /\ {sid, self, cur, par} \subseteq [Threads -> Sessions \cup {NONE}]
          /\ bkt \in [Threads -> Buckets]
          /\ cookies \subseteq Sessions /\ raced \subseteq Buckets
          /\ strayed \in Threads \cup {NONE}

(* Whatever creations, lookups and sweeps do at the same time, each chain   *)
(* ends, stays in its bucket and holds no record that was given back:       *)
(* a walk under the lock never reads freed memory, and a thread owns the    *)
(* lock of a bucket exactly while it sweeps there.  The walk of             *)
(* createSession, which has no lock (session.c:130-138), reads or writes    *)
(* freed memory only in a bucket where it overlapped another change.        *)
ChainsSound ==
    /\ \A b \in Buckets :
         /\ \A t \in Threads : lock[b] = t <=> pc[t] = "sweep" /\ bkt[t] = b
         /\ Hops(b)[Cardinality(Sessions)] = NONE
         /\ \A s \in Linked(b) : s \in live /\ Hash[s] = b
    /\ \A t \in Threads : strayed = t /\ pc[t] \in Unlocked => bkt[t] \in raced

(* A live session can be found, unless its creation or another one in its   *)
(* bucket overlapped a creation or a deletion there (createSession appends  *)
(* without the lock, session.c:131-139).                                    *)
NotLost == \A s \in live : s \in Linked(Hash[s]) \/ Hash[s] \in raced

(* No step takes away a session that a request has touched or created and   *)
(* still uses, unless the session reaches MAXAGE: no request lasts long     *)
(* enough for another one to see its session idle.  (Between findSession    *)
(* and the touch it can happen, session.c:284-287.)                         *)
HeldUntilOld == [][\A t \in Threads :
                     pc[t] = "serve" /\ pc'[t] = "serve" /\ self[t] \in live \ live'
                       => now - ctime[self[t]] > MaxAge]_vars

(* Once a request is past clean() and no sweep is under way, nothing in the *)
(* table has been idle for longer than MAXIDLE and one CLEANINTERVAL: the   *)
(* table is bounded by the rate of creations in that time.                  *)
Swept == (\A t \in Threads : pc[t] \notin {"bucket", "sweep"}) =>
           \A t \in Threads : pc[t] \in {"find", "limit"} =>
             \A b \in Buckets : \A s \in Linked(b) :
               tnow[t] - atime[s] < MaxIdle + CleanInterval

-----------------------------------------------------------------------------
=============================================================================
