--------------------------- MODULE Startup_proofs ---------------------------
(***************************************************************************)
(* Proofs about Config and Startup, for command lines and files of any     *)
(* length.                                                                 *)
(***************************************************************************)
EXTENDS Startup, FiniteSetTheorems, WellFoundedInduction, TLAPS

Lines == UNION Files
SectionNames == {"global", "checkers", "realms", "server", "invalid"}
Entries == [line : Lines, in : SectionNames]
KeysRead == {l.key : l \in Lines}
ValsRead == {l.val : l \in Lines}
CfgRealm == [name : KeysRead, checkers : ValsRead, limits : Seq(LimitVals)]

-----------------------------------------------------------------------------
(* Limits.                                                                 *)

FileRead ==
    /\ vocabulary \in Files /\ said \in Seq(Entries) /\ section \in SectionNames
    /\ sessionLimits \in Seq(LimitVals) /\ loginLimits \in Seq(LimitVals)
    /\ cfgRealms \in Seq(CfgRealm)

\* What LimitsInEffect asks of the file.
Harmless(e) ==
    (/\ e.line.is = "setting"
     /\ \/ e.in = "realms" /\ e.line.limit
        \/ e.in = "global" /\ e.line.key \in {"session_limit", "login_fail_limit"}
     /\ e.in = "realms" \/ e.line.val[1] > 65535)
      => ~BadLimit(e.line.val)
\* A limit that is in effect allows something and ends.
Allows(v) == v[1] % 65536 > 0 /\ v[2] % 65536 > 0
AllAllow(list) == \A i \in DOMAIN list : Allows(list[i])

LimitsRead == NoBadLimit => /\ AllAllow(sessionLimits) /\ AllAllow(loginLimits)
                           /\ \A i \in DOMAIN cfgRealms : AllAllow(cfgRealms[i].limits)

\* The lines for one list of limits.
GlobalFor(e, key) == e.in = "global" /\ e.line.is = "setting" /\ e.line.key = key
LimitsRealm(e, name) == e.in = "realms" /\ e.line.is = "setting" /\ e.line.limit /\ e.line.key = name
GlobalIn(sd, key) == {i \in DOMAIN sd : GlobalFor(sd[i], key)}
LimitingIn(sd, name) == {i \in DOMAIN sd : LimitsRealm(sd[i], name)}

\* No list holds more than there are lines for it.
RoomRead ==
    /\ Len(sessionLimits) <= Cardinality(GlobalIn(said, "session_limit"))
    /\ Len(loginLimits) <= Cardinality(GlobalIn(said, "login_fail_limit"))
    /\ \A i \in DOMAIN cfgRealms :
          Len(cfgRealms[i].limits) <= Cardinality(LimitingIn(said, cfgRealms[i].name))

\* Once the code has written past an array, too much was said and nothing else
\* is known.
LimitsInv ==
    /\ phase = "undefined" => ~NotTooMany
    /\ phase # "undefined" => FileRead /\ LimitsRead /\ RoomRead /\ LimitsInEffect

\* A limit as intArg() reads it: both its numbers are counts, and the second fits 16 bits.
LEMMA LimitIs ==
    ASSUME NEW v \in LimitVals
    PROVE  /\ v[1] \in LimitSecs /\ v[2] \in LimitNums
           /\ v[1] \in Nat /\ v[2] \in Nat /\ v[2] < 65536
<1> DEFINE s == v[1]
           n == v[2]
<1>1. s \in LimitSecs /\ n \in LimitNums
  BY DEF LimitVals
<1> HIDE DEF s, n
<1>2. s \in Nat
  BY <1>1 DEF LimitSecs
<1>3. n \in Nat
  BY <1>1 DEF LimitNums
<1>4. n < 65536
  BY <1>1 DEF LimitNums
<1> QED
  BY <1>1, <1>2, <1>3, <1>4 DEF s, n

\* A number that fits 16 bits is kept as it is.
LEMMA NoWrap ==
    ASSUME NEW x \in Nat, x < 65536
    PROVE  x % 65536 = x
OBVIOUS

\* What limitsArg() accepts allows something, if its seconds do not wrap to 0.
LEMMA LimitAllows ==
    ASSUME NEW v \in LimitVals, v[1] > 0, v[2] > 0, v[1] > 65535 => ~BadLimit(v)
    PROVE  Allows(v)
<1> DEFINE s == v[1]
           n == v[2]
<1>1. s \in Nat /\ n \in Nat /\ n < 65536 /\ s > 0 /\ n > 0
  BY LimitIs
<1>2. ~(s > 65535)
  BY DEF BadLimit
<1> HIDE DEF s, n
<1>3. n % 65536 > 0
  BY <1>1, NoWrap
<1>4. s % 65536 > 0
  <2>1. CASE s < 65536
    BY <1>1, <2>1, NoWrap
  <2>2. CASE ~(s < 65536)
    BY <1>1, <1>2, <2>2
  <2> QED
    BY <2>1, <2>2
<1> QED
  BY <1>3, <1>4 DEF Allows, s, n

\* One limit more that allows something.
LEMMA AppendAllows ==
    ASSUME NEW list \in Seq(LimitVals), NEW v \in LimitVals, AllAllow(list), Allows(v)
    PROVE  AllAllow(Append(list, v))
BY DEF AllAllow

\* A line that limits something says so in numbers.
LEMMA LimitLineVal ==
    ASSUME NEW l \in Lines, l.is = "setting", l.limit \/ l.key \in {"session_limit", "login_fail_limit"}
    PROVE  l.val \in LimitVals
BY LineAssumption DEF Lines

\* The list limitsArg() leaves behind.
LEMMA WithLimitIs ==
    ASSUME NEW list \in Seq(LimitVals), NEW v \in LimitVals
    PROVE  /\ WithLimit(list, v) \in Seq(LimitVals)
           /\ AllAllow(list) /\ (v[1] > 65535 => ~BadLimit(v)) => AllAllow(WithLimit(list, v))
<1>1. CASE LimitsArg(v)
  <2>1. v[1] > 0 /\ v[2] > 0
    BY <1>1 DEF LimitsArg
  <2>2. Append(list, v) \in Seq(LimitVals)
    OBVIOUS
  <2>3. AllAllow(list) /\ (v[1] > 65535 => ~BadLimit(v)) => AllAllow(Append(list, v))
    BY <2>1, LimitAllows, AppendAllows
  <2> QED
    BY <2>2, <2>3 DEF WithLimit
<1>2. CASE ~LimitsArg(v)
  BY <1>2 DEF WithLimit
<1> QED
  BY <1>1, <1>2

\* The limit of a realm, as the buffers of intArg() may leave it.
LEMMA RealmLimitIs ==
    ASSUME NEW v \in LimitVals, NEW e \in RealmLimit(v)
    PROVE  e \in LimitVals /\ (v[1] > 0 /\ v[2] > 0 => e = v)
<1>1. v[1] \in LimitSecs /\ v[2] \in LimitNums /\ v = <<v[1], v[2]>>
  BY LimitIs DEF LimitVals
<1>2. 0 \in LimitSecs /\ 1 \in LimitSecs /\ 0 \in LimitNums /\ 1 \in LimitNums
  BY DEF LimitSecs, LimitNums
<1>3. PICK s, n : /\ e = <<s, n>> /\ s \in {v[1], 0, 1} /\ n \in {v[2], 0, 1}
                  /\ v[1] > 0 /\ v[2] > 0 => s = v[1] /\ n = v[2]
  BY DEF RealmLimit
<1>4. s \in LimitSecs /\ n \in LimitNums
  BY <1>1, <1>2, <1>3
<1> QED
  BY <1>1, <1>3, <1>4 DEF LimitVals

\* What reading a line does, by the kind of the line and the section it is in.
LEMMA LineIsRead ==
    ASSUME FileRead, NEW l \in vocabulary, ReadLine(l)
    PROVE  /\ l \in Lines /\ l.is \in {"section", "setting", "skip"}
           /\ said' = Append(said, [line |-> l, in |-> section])
           /\ l.is = "section" => ReadSection(l)
           /\ l.is = "skip" => UNCHANGED <<runasVars, listVars, serverVars>>
           /\ l.is = "setting" => /\ section = "global" => ReadOption(l)
                                  /\ section = "checkers" => ReadChecker(l)
                                  /\ section = "realms" => ReadRealm(l)
                                  /\ section = "server" => ReadServer(l)
                                  /\ section = "invalid" => UNCHANGED <<runasVars, listVars, serverVars>>
           /\ phase = "file" /\ UNCHANGED <<phase, vocabulary, argVars>>
<1>1. l \in Lines
  BY DEF Lines, FileRead
<1>2. l.is \in {"section", "setting", "skip"}
  BY <1>1, LineAssumption DEF Lines
<1> QED
  BY <1>1, <1>2 DEF ReadLine

\* Every line keeps what was read a list of such things.
LEMMA LineTypes ==
    ASSUME FileRead, NEW l \in vocabulary, ReadLine(l)
    PROVE  FileRead'
<1>0. /\ l \in Lines /\ l.is \in {"section", "setting", "skip"}
      /\ said' = Append(said, [line |-> l, in |-> section])
      /\ UNCHANGED vocabulary
  BY LineIsRead
<1>1. said' \in Seq(Entries)
  <2>1. [line |-> l, in |-> section] \in Entries
    BY <1>0 DEF Entries, FileRead
  <2>2. said \in Seq(Entries)
    BY DEF FileRead
  <2> QED
    BY <1>0, <2>1, <2>2
<1>2. CASE l.is = "section"
  <2>1. UNCHANGED <<sessionLimits, loginLimits, cfgRealms>> /\ section' = l.section
    BY <1>2, LineIsRead DEF ReadSection, listVars
  <2>2. l.section \in SectionNames
    BY <1>0, <1>2, LineAssumption DEF Lines, SectionNames
  <2> QED
    BY <1>0, <1>1, <2>1, <2>2 DEF FileRead
<1>3. CASE l.is = "skip" \/ (l.is = "setting" /\ section \in {"checkers", "server", "invalid"})
  <2>1. UNCHANGED <<sessionLimits, loginLimits, cfgRealms, section>>
    BY <1>3, LineIsRead DEF ReadChecker, ReadServer, listVars, serverVars
  <2> QED
    BY <1>0, <1>1, <2>1 DEF FileRead
<1>4. CASE l.is = "setting" /\ section = "global"
  <2>1. /\ sessionLimits' = (IF l.key = "session_limit" THEN WithLimit(sessionLimits, l.val)
                             ELSE sessionLimits)
        /\ loginLimits' = (IF l.key = "login_fail_limit" THEN WithLimit(loginLimits, l.val)
                           ELSE loginLimits)
        /\ UNCHANGED <<cfgRealms, section>>
    BY <1>4, LineIsRead DEF ReadOption, serverVars
  <2>2. sessionLimits' \in Seq(LimitVals) /\ loginLimits' \in Seq(LimitVals)
    BY <1>0, <1>4, <2>1, LimitLineVal, WithLimitIs DEF FileRead
  <2> QED
    BY <1>0, <1>1, <2>1, <2>2 DEF FileRead
<1>5. CASE l.is = "setting" /\ section = "realms"
  <2>1. ReadRealm(l) /\ UNCHANGED <<sessionLimits, loginLimits, section>>
    BY <1>5, LineIsRead DEF ReadRealm, serverVars
  <2>2. cfgRealms \in Seq(CfgRealm)
    BY DEF FileRead
  <2>3. CASE ~l.limit
    <3> DEFINE r == [name |-> l.key, checkers |-> l.val, limits |-> <<>>]
    <3>1. cfgRealms' = Append(cfgRealms, r)
      BY <2>1, <2>3 DEF ReadRealm
    <3>2. r \in CfgRealm
      BY <1>0 DEF CfgRealm, KeysRead, ValsRead
    <3> HIDE DEF r
    <3> QED
      BY <1>0, <1>1, <2>1, <2>2, <3>1, <3>2 DEF FileRead
  <2>4. CASE l.limit /\ cfgRealms' = cfgRealms
    BY <1>0, <1>1, <2>1, <2>4 DEF FileRead
  <2>5. CASE l.limit /\ cfgRealms' # cfgRealms
    <3>1. PICK e \in RealmLimit(l.val) :
            cfgRealms' = [cfgRealms EXCEPT ![RealmIndex(l.key)].limits = Append(@, e)]
      BY <2>1, <2>5 DEF ReadRealm
    <3>2. l.val \in LimitVals
      BY <1>0, <1>5, <2>5, LimitLineVal
    <3>3. e \in LimitVals
      BY <3>2, RealmLimitIs
    <3>4. \A i \in DOMAIN cfgRealms : cfgRealms[i] \in CfgRealm
      BY <2>2
    <3> DEFINE i == RealmIndex(l.key)
               list == Append(cfgRealms[i].limits, e)
               r == [cfgRealms[i] EXCEPT !.limits = list]
    <3>5. cfgRealms' = [cfgRealms EXCEPT ![i] = r]
      BY <3>1
    <3>6. i \in DOMAIN cfgRealms => r \in CfgRealm
      <4> SUFFICES ASSUME i \in DOMAIN cfgRealms PROVE r \in CfgRealm
        OBVIOUS
      <4>1. list \in Seq(LimitVals) /\ cfgRealms[i] \in CfgRealm
        <5>1. cfgRealms[i] \in CfgRealm
          BY <3>4
        <5>2. cfgRealms[i].limits \in Seq(LimitVals)
          BY <5>1 DEF CfgRealm
        <5> QED
          BY <5>1, <5>2, <3>3
      <4> HIDE DEF i, list
      <4> QED
        BY <4>1 DEF CfgRealm
    <3> HIDE DEF i, r
    <3>7. cfgRealms' \in Seq(CfgRealm)
      <4>1. CASE i \in DOMAIN cfgRealms
        BY <2>2, <3>5, <3>6, <4>1
      <4>2. CASE i \notin DOMAIN cfgRealms
        <5>1. cfgRealms' = cfgRealms
          BY <2>2, <3>5, <4>2
        <5> QED
          BY <5>1, <2>2
      <4> QED
        BY <4>1, <4>2
    <3> QED
      BY <1>0, <1>1, <2>1, <3>7 DEF FileRead
  <2> QED
    BY <2>3, <2>4, <2>5
<1> QED
  BY <1>0, <1>2, <1>3, <1>4, <1>5 DEF SectionNames, FileRead

\* The lines with harmless limits, one by one.
LEMMA BadLimits == NoBadLimit <=> \A i \in DOMAIN said : Harmless(said[i])
BY DEF NoBadLimit, Harmless, LimitLine

\* Every line keeps the lists such that each limit in them allows something.
LEMMA LineLimits ==
    ASSUME FileRead, LimitsRead, NEW l \in vocabulary, ReadLine(l)
    PROVE  LimitsRead'
<1> DEFINE e == [line |-> l, in |-> section]
<1>0. /\ l \in Lines /\ l.is \in {"section", "setting", "skip"} /\ said' = Append(said, e)
      /\ section \in SectionNames
  BY LineIsRead DEF FileRead
<1>s. SUFFICES ASSUME NoBadLimit'
               PROVE  /\ AllAllow(sessionLimits') /\ AllAllow(loginLimits')
                      /\ \A i \in DOMAIN cfgRealms' : AllAllow(cfgRealms'[i].limits)
  BY DEF LimitsRead, AllAllow
<1>1. Harmless(e) /\ NoBadLimit
  <2> HIDE DEF e
  <2>1. said \in Seq(Entries) /\ said' = Append(said, e) /\ e \in Entries
    BY <1>0 DEF FileRead, Entries, e
  <2>2. \A i \in DOMAIN said' : Harmless(said'[i])
    BY <1>s DEF NoBadLimit, Harmless, LimitLine
  <2>3. Len(said) + 1 \in DOMAIN said' /\ said'[Len(said) + 1] = e
    BY <2>1
  <2>4. \A i \in DOMAIN said : i \in DOMAIN said' /\ said'[i] = said[i]
    BY <2>1
  <2> QED
    BY <2>2, <2>3, <2>4, BadLimits
<1>2. /\ AllAllow(sessionLimits) /\ AllAllow(loginLimits)
      /\ \A i \in DOMAIN cfgRealms : AllAllow(cfgRealms[i].limits)
  BY <1>1 DEF LimitsRead
<1>3. CASE l.is \in {"section", "skip"} \/ (l.is = "setting" /\ section \in {"checkers", "server", "invalid"})
  <2>1. UNCHANGED <<sessionLimits, loginLimits, cfgRealms>>
    BY <1>3, LineIsRead DEF ReadSection, ReadChecker, ReadServer, listVars, serverVars
  <2> QED
    BY <1>2, <2>1
<1>4. CASE l.is = "setting" /\ section = "global"
  <2>1. /\ sessionLimits' = (IF l.key = "session_limit" THEN WithLimit(sessionLimits, l.val)
                             ELSE sessionLimits)
        /\ loginLimits' = (IF l.key = "login_fail_limit" THEN WithLimit(loginLimits, l.val)
                           ELSE loginLimits)
        /\ cfgRealms' = cfgRealms
    BY <1>4, LineIsRead DEF ReadOption, serverVars
  <2>2. l.key \in {"session_limit", "login_fail_limit"} =>
          l.val \in LimitVals /\ (l.val[1] > 65535 => ~BadLimit(l.val))
    BY <1>0, <1>1, <1>4, LimitLineVal DEF Harmless
  <2>3. sessionLimits \in Seq(LimitVals) /\ loginLimits \in Seq(LimitVals)
    BY DEF FileRead
  <2>4. AllAllow(sessionLimits') /\ AllAllow(loginLimits')
    BY <1>2, <2>1, <2>2, <2>3, WithLimitIs
  <2> QED
    BY <1>2, <2>1, <2>4
<1>5. CASE l.is = "setting" /\ section = "realms"
  <2>1. ReadRealm(l) /\ UNCHANGED <<sessionLimits, loginLimits>>
    BY <1>5, LineIsRead DEF ReadRealm
  <2>2. cfgRealms \in Seq(CfgRealm)
    BY DEF FileRead
  <2>3. CASE ~l.limit
    <3> DEFINE r == [name |-> l.key, checkers |-> l.val, limits |-> <<>>]
    <3>1. cfgRealms' = Append(cfgRealms, r)
      BY <2>1, <2>3 DEF ReadRealm
    <3>2. AllAllow(r.limits) /\ r \in CfgRealm
      BY <1>0 DEF AllAllow, CfgRealm, KeysRead, ValsRead
    <3> HIDE DEF r
    <3> QED
      BY <1>2, <2>1, <2>2, <3>1, <3>2
  <2>4. CASE l.limit /\ cfgRealms' = cfgRealms
    BY <1>2, <2>1, <2>4
  <2>5. CASE l.limit /\ cfgRealms' # cfgRealms
    <3>1. PICK v \in RealmLimit(l.val) :
            cfgRealms' = [cfgRealms EXCEPT ![RealmIndex(l.key)].limits = Append(@, v)]
      BY <2>1, <2>5 DEF ReadRealm
    <3>2. l.val \in LimitVals /\ ~BadLimit(l.val)
      BY <1>0, <1>1, <1>5, <2>5, LimitLineVal DEF Harmless
    <3>3. v \in LimitVals /\ Allows(v)
      <4>1. l.val[1] \in Nat /\ l.val[2] \in Nat /\ l.val[1] # 0 /\ l.val[2] # 0
        <5> DEFINE a == l.val[1]
                   b == l.val[2]
        <5>1. a \in Nat /\ b \in Nat
          BY <3>2, LimitIs
        <5>2. a # 0 /\ b # 0
          BY <3>2 DEF BadLimit
        <5> QED
          BY <5>1, <5>2 DEF a, b
      <4>2. l.val[1] > 0 /\ l.val[2] > 0
        BY <4>1
      <4> QED
        BY <3>2, <4>2, RealmLimitIs, LimitAllows
    <3> DEFINE k == RealmIndex(l.key)
               list == Append(cfgRealms[k].limits, v)
    <3>4. cfgRealms' = [cfgRealms EXCEPT ![k].limits = list]
      BY <3>1
    <3>5. k \in DOMAIN cfgRealms => AllAllow(list)
      <4> SUFFICES ASSUME k \in DOMAIN cfgRealms PROVE AllAllow(list)
        OBVIOUS
      <4>1. cfgRealms[k] \in CfgRealm /\ AllAllow(cfgRealms[k].limits)
        BY <1>2, <2>2
      <4>2. cfgRealms[k].limits \in Seq(LimitVals)
        BY <4>1 DEF CfgRealm
      <4> QED
        BY <3>3, <4>1, <4>2, AppendAllows
    <3> HIDE DEF k, list
    <3>6. ASSUME NEW i \in DOMAIN cfgRealms' PROVE AllAllow(cfgRealms'[i].limits)
      <4>1. i \in DOMAIN cfgRealms /\ cfgRealms[i] \in CfgRealm
        BY <2>2, <3>4, <3>6
      <4>2. CASE i = k
        <5>1. cfgRealms'[i] = [cfgRealms[i] EXCEPT !.limits = list]
          BY <3>4, <4>1, <4>2
        <5>2. cfgRealms'[i].limits = list
          BY <5>1, <4>1 DEF CfgRealm
        <5> QED
          BY <5>2, <3>5, <4>1, <4>2
      <4>3. CASE i # k
        <5>1. cfgRealms'[i] = cfgRealms[i]
          BY <3>4, <4>1, <4>3
        <5> QED
          BY <5>1, <1>2, <4>1
      <4> QED
        BY <4>2, <4>3
    <3> QED
      BY <1>2, <2>1, <3>6
  <2> QED
    BY <2>3, <2>4, <2>5
<1> QED
  BY <1>0, <1>3, <1>4, <1>5 DEF SectionNames

\* A set of positions, and one more.
LEMMA PositionsMore ==
    ASSUME NEW n \in Nat, NEW T, T \subseteq 1 .. n
    PROVE  LET T2 == T \cup {n + 1}
           IN /\ Cardinality(T) \in Nat /\ Cardinality(T2) = Cardinality(T) + 1
              /\ Cardinality({j \in T2 : j <= n + 1}) = Cardinality(T) + 1
              /\ \A i \in T : /\ {j \in T2 : j <= i} = {j \in T : j <= i}
                              /\ Cardinality({j \in T : j <= i}) \in 1 .. Cardinality(T)
<1> DEFINE T2 == T \cup {n + 1}
<1>1. IsFiniteSet(1 .. n)
  BY FS_Interval
<1>2. IsFiniteSet(T) /\ n + 1 \notin T
  <2>1. IsFiniteSet(T)
    BY <1>1, FS_Subset
  <2>2. n + 1 \notin 1 .. n
    OBVIOUS
  <2> QED
    BY <2>1, <2>2
<1>3. Cardinality(T) \in Nat /\ Cardinality(T2) = Cardinality(T) + 1
  BY <1>2, FS_CardinalityType, FS_AddElement
<1>4. {j \in T2 : j <= n + 1} = T2
  <2>1. \A j \in T2 : j <= n + 1
    OBVIOUS
  <2> HIDE DEF T2
  <2> QED
    BY <2>1
<1>5. \A i \in T : {j \in T2 : j <= i} = {j \in T : j <= i}
  OBVIOUS
<1>6. ASSUME NEW i \in T PROVE Cardinality({j \in T : j <= i}) \in 1 .. Cardinality(T)
  <2> DEFINE P == {j \in T : j <= i}
  <2>1. P \subseteq T /\ i \in P
    OBVIOUS
  <2> HIDE DEF P
  <2>2. IsFiniteSet(P) /\ Cardinality(P) <= Cardinality(T) /\ Cardinality(P) \in Nat
    BY <1>2, <2>1, FS_Subset, FS_CardinalityType
  <2>3. Cardinality(P) # 0
    BY <2>1, <2>2, FS_EmptySet
  <2>4. Cardinality(P) \in 1 .. Cardinality(T)
    BY <1>3, <2>2, <2>3
  <2> QED
    BY <2>4 DEF P
<1> HIDE DEF T2
<1> QED
  BY <1>3, <1>4, <1>5, <1>6 DEF T2

\* What a list holds is what the lines in T say, in their order.
InOrderOf(list, sd, T) ==
    /\ Len(list) = Cardinality(T)
    /\ \A i \in T : list[Cardinality({j \in T : j <= i})] = sd[i].line.val

\* A line that comes after them does not change it.
LEMMA InOrderStays ==
    ASSUME NEW sd \in Seq(Entries), NEW e \in Entries, NEW list, NEW T, T \subseteq 1 .. Len(sd),
           InOrderOf(list, sd, T)
    PROVE  InOrderOf(list, Append(sd, e), T)
<1> DEFINE sd2 == Append(sd, e)
<1>1. \A i \in T : sd2[i] = sd[i]
  OBVIOUS
<1> HIDE DEF sd2
<1>2. InOrderOf(list, sd2, T)
  BY <1>1 DEF InOrderOf
<1> QED
  BY <1>2 DEF sd2

\* No line and no value.
LEMMA NoneInOrder ==
    ASSUME NEW list, list = <<>>, NEW sd, NEW T, T = {}
    PROVE  InOrderOf(list, sd, T)
<1>1. Len(list) = 0 /\ Cardinality(T) = 0
  BY FS_EmptySet
<1> QED
  BY <1>1 DEF InOrderOf

\* One more line, and what it says at the end of the list.
LEMMA InOrderMore ==
    ASSUME NEW sd \in Seq(Entries), NEW e \in Entries, NEW V, NEW list \in Seq(V),
           NEW T, T \subseteq 1 .. Len(sd), InOrderOf(list, sd, T), NEW v \in V, v = e.line.val
    PROVE  InOrderOf(Append(list, v), Append(sd, e), T \cup {Len(sd) + 1})
<1> DEFINE sd2 == Append(sd, e)
           n == Len(sd)
           T2 == T \cup {n + 1}
           list2 == Append(list, v)
           c == Cardinality(T)
           m == Len(list)
<1>1. n \in Nat /\ m \in Nat /\ sd2[n + 1] = e /\ \A i \in 1 .. n : sd2[i] = sd[i]
  OBVIOUS
<1>2. Len(list2) = m + 1 /\ list2[m + 1] = v /\ \A i \in 1 .. m : list2[i] = list[i]
  OBVIOUS
<1> HIDE DEF sd2, n, list2, m
<1>3. /\ c \in Nat /\ Cardinality(T2) = c + 1
      /\ Cardinality({j \in T2 : j <= n + 1}) = c + 1
      /\ \A i \in T : /\ {j \in T2 : j <= i} = {j \in T : j <= i}
                      /\ Cardinality({j \in T : j <= i}) \in 1 .. c
  BY <1>1, PositionsMore DEF n
<1>4. \A i \in T : sd2[i] = sd[i]
  BY <1>1 DEF n
<1>5. m = c /\ \A i \in T : list[Cardinality({j \in T : j <= i})] = sd[i].line.val
  BY DEF InOrderOf, m
<1> HIDE DEF c
<1>6. Len(list2) = Cardinality(T2)
  BY <1>2, <1>3, <1>5
<1>7. \A i \in T : list2[Cardinality({j \in T2 : j <= i})] = sd2[i].line.val
  BY <1>2, <1>3, <1>4, <1>5
<1>8. list2[Cardinality({j \in T2 : j <= n + 1})] = sd2[n + 1].line.val
  BY <1>1, <1>2, <1>3, <1>5
<1>9. InOrderOf(list2, sd2, T2)
  BY <1>6, <1>7, <1>8 DEF InOrderOf
<1> QED
  BY <1>9 DEF T2, n, sd2, list2

\* The limits that allow something are not changed by prestartup().
LEMMA InEffectIs ==
    ASSUME NEW list \in Seq(LimitVals), AllAllow(list)
    PROVE  /\ Divides(list)
           /\ \A i \in DOMAIN InEffect(list) : InEffect(list)[i][1] > 0 /\ InEffect(list)[i][2] > 0
BY DEF AllAllow, Allows, Divides, InEffect

\* Every set of positions has a least one.
LEMMA LeastPosition ==
    ASSUME NEW T, T \subseteq Nat, T # {}
    PROVE  \E m \in T : \A n \in T : m <= n
<1> DEFINE U == {0 .. n : n \in T}
<1>1. \A n \in T : 0 .. n \in SUBSET Nat /\ IsFiniteSet(0 .. n)
  <2> TAKE n \in T
  <2>1. n \in Int /\ 0 .. n \in SUBSET Nat
    OBVIOUS
  <2> QED
    BY <2>1, FS_Interval
<1>2. U \subseteq FiniteSubsetsOf(Nat) /\ U # {}
  BY <1>1 DEF FiniteSubsetsOf
<1>3. PICK x \in U : \A y \in U : ~(<<y, x>> \in StrictSubsetOrdering(Nat))
  <2> HIDE DEF U
  <2> QED
    BY <1>2, FS_StrictSubsetOrderingWellFounded, WFMin
<1>4. PICK m \in T : x = 0 .. m
  OBVIOUS
<1>5. ASSUME NEW n \in T, n < m
      PROVE  FALSE
  <2>1. <<0 .. n, 0 .. m>> \in StrictSubsetOrdering(Nat)
    BY <1>5, m \in Nat, n \in Nat DEF StrictSubsetOrdering
  <2> QED
    BY <2>1, <1>3, <1>4
<1> QED
  BY <1>5

\* A set of positions of a sequence has a greatest and a least one.
LEMMA Extremes ==
    ASSUME NEW n \in Nat, NEW T, T \subseteq 1 .. n, T # {}
    PROVE  /\ Max(T) \in T /\ \A x \in T : x <= Max(T)
           /\ Min(T) \in T /\ \A x \in T : Min(T) <= x
<1> DEFINE D == {n - x : x \in T}
<1>1. D \subseteq Nat /\ D # {} /\ T \subseteq Nat
  <2>1. \A x \in T : x \in Nat /\ n - x \in Nat
    <3> TAKE x \in T
    <3>1. x \in 1 .. n
      OBVIOUS
    <3> QED
      BY <3>1
  <2> QED
    BY <2>1
<1>2. PICK m \in T : \A x \in T : m <= x
  BY <1>1, LeastPosition
<1>3. PICK d \in D : \A y \in D : d <= y
  <2> HIDE DEF D
  <2> QED
    BY <1>1, LeastPosition
<1>4. PICK g \in T : d = n - g
  OBVIOUS
<1>5. \A x \in T : g >= x
  <2> TAKE x \in T
  <2>1. n - g <= n - x
    BY <1>3, <1>4
  <2>2. g \in Int /\ x \in Int
    OBVIOUS
  <2> QED
    BY <2>1, <2>2
<1>6. Max(T) \in T /\ \A x \in T : Max(T) >= x
  BY <1>5 DEF Max
<1>7. Min(T) \in T /\ \A x \in T : Min(T) <= x
  BY <1>2 DEF Min
<1>8. \A x \in T : x <= Max(T)
  <2> TAKE x \in T
  <2>1. Max(T) >= x
    BY <1>6
  <2>2. Max(T) \in Int /\ x \in Int
    <3>1. Max(T) \in Nat /\ x \in Nat
      BY <1>1, <1>6, Zenon
    <3> QED
      BY <3>1
  <2> DEFINE h == Max(T)
  <2> HIDE DEF h
  <2>3. h >= x /\ h \in Int /\ x \in Int
    BY <2>1, <2>2 DEF h
  <2>4. x <= h
    BY <2>3
  <2> QED
    BY <2>4 DEF h
<1> QED
  BY <1>6, <1>7, <1>8

\* One more line, counted for the list it is for.
LEMMA GlobalMore ==
    ASSUME NEW sd \in Seq(Entries), NEW e \in Entries, NEW key
    PROVE  /\ Cardinality(GlobalIn(sd, key)) \in Nat
           /\ Cardinality(GlobalIn(Append(sd, e), key)) =
                 Cardinality(GlobalIn(sd, key)) + (IF GlobalFor(e, key) THEN 1 ELSE 0)
<1> DEFINE sd2 == Append(sd, e)
           n == Len(sd)
           T == GlobalIn(sd, key)
<1>1. n \in Nat /\ DOMAIN sd = 1 .. n /\ DOMAIN sd2 = 1 .. n + 1 /\ sd2[n + 1] = e
      /\ \A i \in 1 .. n : sd2[i] = sd[i]
  OBVIOUS
<1> HIDE DEF sd2, n
<1>2. T \subseteq 1 .. n
  BY <1>1 DEF GlobalIn
<1>3. GlobalIn(sd2, key) = IF GlobalFor(e, key) THEN T \cup {n + 1} ELSE T
  BY <1>1 DEF GlobalIn
<1> HIDE DEF T
<1>4. Cardinality(T) \in Nat /\ Cardinality(T \cup {n + 1}) = Cardinality(T) + 1
  BY <1>1, <1>2, PositionsMore
<1> QED
  BY <1>3, <1>4 DEF T, sd2

LEMMA LimitingMore ==
    ASSUME NEW sd \in Seq(Entries), NEW e \in Entries, NEW name
    PROVE  /\ Cardinality(LimitingIn(sd, name)) \in Nat
           /\ Cardinality(LimitingIn(Append(sd, e), name)) =
                 Cardinality(LimitingIn(sd, name)) + (IF LimitsRealm(e, name) THEN 1 ELSE 0)
<1> DEFINE sd2 == Append(sd, e)
           n == Len(sd)
           T == LimitingIn(sd, name)
<1>1. n \in Nat /\ DOMAIN sd = 1 .. n /\ DOMAIN sd2 = 1 .. n + 1 /\ sd2[n + 1] = e
      /\ \A i \in 1 .. n : sd2[i] = sd[i]
  OBVIOUS
<1> HIDE DEF sd2, n
<1>2. T \subseteq 1 .. n
  BY <1>1 DEF LimitingIn
<1>3. LimitingIn(sd2, name) = IF LimitsRealm(e, name) THEN T \cup {n + 1} ELSE T
  BY <1>1 DEF LimitingIn
<1> HIDE DEF T
<1>4. Cardinality(T) \in Nat /\ Cardinality(T \cup {n + 1}) = Cardinality(T) + 1
  BY <1>1, <1>2, PositionsMore
<1> QED
  BY <1>3, <1>4 DEF T, sd2

\* Every line adds at most one limit to the list it is for.
LEMMA LineRoom ==
    ASSUME FileRead, RoomRead, NEW l \in vocabulary, ReadLine(l)
    PROVE  RoomRead'
<1> DEFINE e == [line |-> l, in |-> section]
           gs == Cardinality(GlobalIn(said, "session_limit"))
           gl == Cardinality(GlobalIn(said, "login_fail_limit"))
<1>0. /\ l \in Lines /\ l.is \in {"section", "setting", "skip"} /\ said' = Append(said, e)
      /\ section \in SectionNames
  BY LineIsRead DEF FileRead
<1>1. e \in Entries /\ said \in Seq(Entries) /\ e.line = l /\ e.in = section
  BY <1>0 DEF Entries, FileRead
<1> HIDE DEF e
<1>2. /\ gs \in Nat /\ Cardinality(GlobalIn(said', "session_limit")) =
                          gs + (IF GlobalFor(e, "session_limit") THEN 1 ELSE 0)
      /\ gl \in Nat /\ Cardinality(GlobalIn(said', "login_fail_limit")) =
                          gl + (IF GlobalFor(e, "login_fail_limit") THEN 1 ELSE 0)
  BY <1>0, <1>1, GlobalMore
<1>3. \A name : /\ Cardinality(LimitingIn(said, name)) \in Nat
                /\ Cardinality(LimitingIn(said', name)) =
                      Cardinality(LimitingIn(said, name)) + (IF LimitsRealm(e, name) THEN 1 ELSE 0)
  BY <1>0, <1>1, LimitingMore
<1> HIDE DEF gs, gl
<1>4. Len(sessionLimits) <= gs /\ Len(loginLimits) <= gl
  BY DEF RoomRead, gs, gl
<1>5. \A i \in DOMAIN cfgRealms : Len(cfgRealms[i].limits) <= Cardinality(LimitingIn(said, cfgRealms[i].name))
  BY DEF RoomRead
<1>6. /\ sessionLimits \in Seq(LimitVals) /\ loginLimits \in Seq(LimitVals) /\ cfgRealms \in Seq(CfgRealm)
      /\ \A i \in DOMAIN cfgRealms : cfgRealms[i] \in CfgRealm
  BY DEF FileRead
<1>7. Len(sessionLimits) \in Nat /\ Len(loginLimits) \in Nat
      /\ \A i \in DOMAIN cfgRealms : Len(cfgRealms[i].limits) \in Nat
  BY <1>6 DEF CfgRealm
<1>8. UNCHANGED sessionLimits => Len(sessionLimits') <= Cardinality(GlobalIn(said', "session_limit"))
  BY <1>2, <1>4, <1>7
<1>9. UNCHANGED loginLimits => Len(loginLimits') <= Cardinality(GlobalIn(said', "login_fail_limit"))
  BY <1>2, <1>4, <1>7
<1>10. ASSUME NEW i \in DOMAIN cfgRealms
       PROVE  Len(cfgRealms[i].limits) <= Cardinality(LimitingIn(said', cfgRealms[i].name))
  BY <1>3, <1>5, <1>7
<1>11. CASE UNCHANGED <<sessionLimits, loginLimits, cfgRealms>>
  BY <1>8, <1>9, <1>10, <1>11 DEF RoomRead
<1>12. CASE l.is = "setting" /\ section = "global"
  <2>1. /\ sessionLimits' = (IF l.key = "session_limit" THEN WithLimit(sessionLimits, l.val)
                             ELSE sessionLimits)
        /\ loginLimits' = (IF l.key = "login_fail_limit" THEN WithLimit(loginLimits, l.val)
                           ELSE loginLimits)
        /\ UNCHANGED cfgRealms
    BY <1>12, LineIsRead DEF ReadOption
  <2>2. \A list \in Seq(LimitVals) : l.val \in LimitVals =>
             Len(list) \in Nat /\ Len(WithLimit(list, l.val)) \in {Len(list), Len(list) + 1}
    BY DEF WithLimit
  <2>3. l.key \in {"session_limit", "login_fail_limit"} => l.val \in LimitVals
    BY <1>0, <1>12, LimitLineVal
  <2>4. Len(sessionLimits') <= Cardinality(GlobalIn(said', "session_limit"))
    <3>1. CASE l.key = "session_limit"
      <4>1. GlobalFor(e, "session_limit")
        BY <1>1, <1>12, <3>1 DEF GlobalFor
      <4>2. Len(sessionLimits') \in {Len(sessionLimits), Len(sessionLimits) + 1}
        BY <1>6, <2>1, <2>2, <2>3, <3>1
      <4> QED
        BY <1>2, <1>4, <1>7, <4>1, <4>2
    <3> QED
      BY <1>8, <2>1, <3>1
  <2>5. Len(loginLimits') <= Cardinality(GlobalIn(said', "login_fail_limit"))
    <3>1. CASE l.key = "login_fail_limit"
      <4>1. GlobalFor(e, "login_fail_limit")
        BY <1>1, <1>12, <3>1 DEF GlobalFor
      <4>2. Len(loginLimits') \in {Len(loginLimits), Len(loginLimits) + 1}
        BY <1>6, <2>1, <2>2, <2>3, <3>1
      <4> QED
        BY <1>2, <1>4, <1>7, <4>1, <4>2
    <3> QED
      BY <1>9, <2>1, <3>1
  <2> QED
    BY <1>10, <2>1, <2>4, <2>5 DEF RoomRead
<1>13. CASE l.is = "setting" /\ section = "realms" /\ ~UNCHANGED cfgRealms
  <2>1. ReadRealm(l) /\ UNCHANGED <<sessionLimits, loginLimits>>
    BY <1>13, LineIsRead DEF ReadRealm
  <2> SUFFICES ASSUME NEW i \in DOMAIN cfgRealms'
               PROVE  Len(cfgRealms'[i].limits) <= Cardinality(LimitingIn(said', cfgRealms'[i].name))
    BY <1>8, <1>9, <2>1 DEF RoomRead
  <2>2. CASE ~l.limit
    <3> DEFINE r == [name |-> l.key, checkers |-> l.val, limits |-> <<>>]
    <3>1. cfgRealms' = Append(cfgRealms, r)
      BY <2>1, <2>2 DEF ReadRealm
    <3>2. Len(r.limits) = 0 /\ r \in CfgRealm
      BY <1>0 DEF CfgRealm, KeysRead, ValsRead
    <3> HIDE DEF r
    <3>3. (i \in DOMAIN cfgRealms /\ cfgRealms'[i] = cfgRealms[i]) \/ cfgRealms'[i] = r
      BY <1>6, <3>1, <3>2
    <3>4. Cardinality(LimitingIn(said', r.name)) \in Nat
      BY <1>3
    <3> QED
      BY <1>10, <3>2, <3>3, <3>4
  <2>3. CASE l.limit
    <3>1. PICK v \in RealmLimit(l.val) :
            cfgRealms' = [cfgRealms EXCEPT ![RealmIndex(l.key)].limits = Append(@, v)]
      BY <1>13, <2>1, <2>3 DEF ReadRealm
    <3>2. v \in LimitVals
      <4>1. l.val \in LimitVals
        BY <1>0, <1>13, <2>3, LimitLineVal
      <4> QED
        BY <4>1, RealmLimitIs
    <3> DEFINE k == RealmIndex(l.key)
    <3>3. i \in DOMAIN cfgRealms /\ cfgRealms[i] \in CfgRealm /\ cfgRealms[i].limits \in Seq(LimitVals)
      BY <1>6, <3>1 DEF CfgRealm
    <3>4. CASE i = k
      <4>1. cfgRealms[i].name = l.key
        <5> DEFINE T == {j \in DOMAIN cfgRealms : cfgRealms[j].name = l.key}
                   n == Len(cfgRealms)
        <5>1. k = IF T = {} THEN 0 ELSE Min(T)
          BY DEF RealmIndex
        <5>2. n \in Nat /\ T \subseteq 1 .. n /\ i \in 1 .. n
          BY <1>6, <3>3
        <5> HIDE DEF T, n, k
        <5>3. T # {} /\ i = Min(T)
          BY <3>4, <5>1, <5>2
        <5>4. i \in T
          BY <5>2, <5>3, Extremes
        <5> QED
          BY <5>4 DEF T
      <4>2. cfgRealms'[i].limits = Append(cfgRealms[i].limits, v) /\ cfgRealms'[i].name = l.key
        BY <3>1, <3>3, <3>4, <4>1 DEF CfgRealm
      <4>3. LimitsRealm(e, l.key)
        BY <1>1, <1>13, <2>3 DEF LimitsRealm
      <4>4. Len(cfgRealms'[i].limits) = Len(cfgRealms[i].limits) + 1
        BY <3>2, <3>3, <4>2
      <4> QED
        BY <1>3, <1>5, <1>7, <3>3, <4>1, <4>2, <4>3, <4>4
    <3>5. CASE i # k
      <4>1. cfgRealms'[i] = cfgRealms[i]
        BY <3>1, <3>3, <3>5
      <4> QED
        BY <1>10, <3>3, <4>1
    <3> QED
      BY <3>4, <3>5
  <2> QED
    BY <2>2, <2>3
<1>14. l.is \in {"section", "skip"} \/ (l.is = "setting" /\ section \in {"checkers", "server", "invalid"})
          => UNCHANGED <<sessionLimits, loginLimits, cfgRealms>>
  BY LineIsRead DEF ReadSection, ReadChecker, ReadServer, listVars, serverVars
<1>15. l.is = "setting" /\ section = "realms" => UNCHANGED <<sessionLimits, loginLimits>>
  BY LineIsRead DEF ReadRealm
<1> QED
  BY <1>0, <1>11, <1>12, <1>13, <1>14, <1>15 DEF SectionNames

\* A list that is full was given as many lines as there is room for, and the line
\* that is past it is one too much.
LEMMA PastIsTooMuch ==
    ASSUME FileRead, RoomRead, NEW l \in vocabulary, ReadPastRoom(l)
    PROVE  ~NotTooMany'
<1> DEFINE e == [line |-> l, in |-> section]
           n == Len(said) + 1
<1>1. /\ e \in Entries /\ said \in Seq(Entries) /\ e.line = l /\ e.in = section
      /\ said' = Append(said, e) /\ PastRoom(l) /\ l \in Lines
  BY DEF Entries, FileRead, ReadPastRoom, Lines
<1> HIDE DEF e
<1>2. n \in DOMAIN said' /\ said'[n] = e
  BY <1>1
<1> HIDE DEF n
<1>3. LimitRoom \in Nat /\ CheckerRoom \in Nat
  BY ConfigAssumption
<1>4. ASSUME NotTooMany' PROVE FALSE
  <2>1. \A key \in {"session_limit", "login_fail_limit"} : Cardinality(GlobalIn(said', key)) <= LimitRoom
    BY <1>4 DEF NotTooMany, GlobalLines, IsGlobal, GlobalIn, GlobalFor
  <2>2. e.in = "realms" /\ e.line.is = "setting" =>
           IF e.line.limit THEN Cardinality(LimitingIn(said', e.line.key)) <= LimitRoom
                           ELSE Len(e.line.val) <= CheckerRoom
    BY <1>2, <1>4 DEF NotTooMany, LinesLimiting, LimitingIn, LimitsRealm
  <2>3. ASSUME NEW key \in {"session_limit", "login_fail_limit"}, NEW list \in Seq(LimitVals), ~HasRoom(list),
               Len(list) <= Cardinality(GlobalIn(said, key)), GlobalFor(e, key)
        PROVE  FALSE
    <3>1. Cardinality(GlobalIn(said, key)) \in Nat
          /\ Cardinality(GlobalIn(said', key)) = Cardinality(GlobalIn(said, key)) + 1
      BY <1>1, <2>3, GlobalMore
    <3>2. Len(list) \in Nat /\ Len(list) >= LimitRoom
      BY <1>3, <2>3 DEF HasRoom
    <3>3. Cardinality(GlobalIn(said', key)) <= LimitRoom
      BY <2>1
    <3> DEFINE c == Cardinality(GlobalIn(said, key))
               c2 == Cardinality(GlobalIn(said', key))
    <3>4. Len(list) <= c
      BY <2>3
    <3> HIDE DEF c, c2
    <3> QED
      BY <1>3, <3>1, <3>2, <3>3, <3>4 DEF c, c2
  <2>4. CASE section = "global"
    <3>1. sessionLimits \in Seq(LimitVals) /\ loginLimits \in Seq(LimitVals)
      BY DEF FileRead
    <3>2. CASE l.key = "session_limit" /\ ~HasRoom(sessionLimits)
      BY <1>1, <2>3, <2>4, <3>1, <3>2 DEF PastRoom, GlobalFor, RoomRead
    <3>3. CASE l.key = "login_fail_limit" /\ ~HasRoom(loginLimits)
      BY <1>1, <2>3, <2>4, <3>1, <3>3 DEF PastRoom, GlobalFor, RoomRead
    <3> QED
      BY <1>1, <2>4, <3>2, <3>3 DEF PastRoom
  <2>5. CASE section = "realms" /\ l.limit
    <3> DEFINE k == RealmIndex(l.key)
               T == {j \in DOMAIN cfgRealms : cfgRealms[j].name = l.key}
               m == Len(cfgRealms)
    <3>1. k > 0 /\ ~HasRoom(cfgRealms[k].limits) /\ l.is = "setting"
      BY <1>1, <2>5 DEF PastRoom
    <3>2. k = IF T = {} THEN 0 ELSE Min(T)
      BY DEF RealmIndex
    <3>3. m \in Nat /\ T \subseteq 1 .. m /\ cfgRealms \in Seq(CfgRealm)
      BY DEF FileRead
    <3> HIDE DEF k, T, m
    <3>4. k \in T
      <4>1. T # {}
        BY <3>1, <3>2
      <4>2. Min(T) \in T
        BY <3>3, <4>1, Extremes
      <4> QED
        BY <3>2, <4>1, <4>2
    <3>5. k \in DOMAIN cfgRealms /\ cfgRealms[k].name = l.key
      BY <3>4 DEF T
    <3>6. Len(cfgRealms[k].limits) <= Cardinality(LimitingIn(said, l.key))
      BY <3>5 DEF RoomRead
    <3>7. cfgRealms[k].limits \in Seq(LimitVals)
      <4>1. cfgRealms[k] \in CfgRealm
        BY <3>3, <3>5
      <4> QED
        BY <4>1 DEF CfgRealm
    <3>8. LimitsRealm(e, l.key)
      BY <1>1, <2>5, <3>1 DEF LimitsRealm
    <3> DEFINE c == Cardinality(LimitingIn(said, l.key))
               c2 == Cardinality(LimitingIn(said', l.key))
    <3>9. c \in Nat /\ c2 = c + 1
      BY <1>1, <3>8, LimitingMore
    <3>10. c2 <= LimitRoom
      BY <1>1, <2>2, <2>5, <3>1
    <3>11. Len(cfgRealms[k].limits) <= c
      BY <3>6
    <3> HIDE DEF c, c2
    <3> QED
      BY <1>3, <3>1, <3>7, <3>9, <3>10, <3>11 DEF HasRoom
  <2>6. CASE section = "realms" /\ ~l.limit
    <3>1. ~(Len(l.val) <= CheckerRoom) /\ l.is = "setting"
      BY <1>1, <2>6 DEF PastRoom
    <3>2. Len(l.val) <= CheckerRoom
      BY <1>1, <2>2, <2>6, <3>1
    <3> QED
      BY <3>1, <3>2
  <2> QED
    BY <1>1, <2>4, <2>5, <2>6 DEF PastRoom
<1> QED
  BY <1>4

\* A realm that is registered is one of the file.
LEMMA RegisteredIs ==
    ASSUME FileRead, NEW i \in DOMAIN cfgRealms
    PROVE  LET name == cfgRealms[i].name
           IN Registered(name) \in DOMAIN cfgRealms /\ cfgRealms[Registered(name)].name = name
<1> DEFINE name == cfgRealms[i].name
           T == {j \in DOMAIN cfgRealms : cfgRealms[j].name = name}
           n == Len(cfgRealms)
<1>1. n \in Nat /\ T \subseteq 1 .. n /\ T # {}
  BY DEF FileRead
<1>2. Registered(name) = Max(T)
  BY DEF Registered
<1> HIDE DEF n
<1>3. Max(T) \in T
  <2> HIDE DEF T
  <2> QED
    BY <1>1, Extremes
<1> QED
  BY <1>2, <1>3

\* No line is read by a service that runs.
LEMMA LineInEffect ==
    ASSUME FileRead, NEW l \in vocabulary, ReadLine(l)
    PROVE  LimitsInEffect'
BY LineIsRead DEF LimitsInEffect

\* prestartup() passes on limits that allow something.
LEMMA PrestartupLimits ==
    ASSUME LimitsInv, NEW up, Prestartup(up)
    PROVE  LimitsInv'
<1>0. FileRead /\ LimitsRead /\ RoomRead
  BY DEF LimitsInv, Prestartup
<1>1. /\ said' = said /\ section' = section /\ vocabulary' = vocabulary
      /\ UNCHANGED <<sessionLimits, loginLimits, cfgRealms>> /\ phase' \in {"failed", "running"}
      /\ createLimits' = (IF sessionLimits = <<>> THEN SessionDefaults ELSE InEffect(sessionLimits))
      /\ defaultLimits' = InEffect(loginLimits)
      /\ regRealms' = [name \in {cfgRealms[i].name : i \in DOMAIN cfgRealms} |->
                        [checkers |-> cfgRealms[Registered(name)].checkers,
                         limits   |-> InEffect(cfgRealms[Registered(name)].limits)]]
  BY DEF Prestartup, listVars, serverVars
<1>2. FileRead' /\ LimitsRead' /\ RoomRead'
  BY <1>0, <1>1 DEF FileRead, LimitsRead, RoomRead, NoBadLimit, LimitLine, AllAllow, Allows
<1>3. LimitsInEffect'
  <2> SUFFICES ASSUME NoBadLimit', NEW list \in ListsInEffect'
               PROVE  \A i \in DOMAIN list : list[i][1] > 0 /\ list[i][2] > 0
    BY <1>1 DEF LimitsInEffect
  <2>1. NoBadLimit
    BY <1>1 DEF NoBadLimit, LimitLine
  <2>2. /\ AllAllow(sessionLimits) /\ AllAllow(loginLimits)
        /\ \A i \in DOMAIN cfgRealms : AllAllow(cfgRealms[i].limits)
        /\ sessionLimits \in Seq(LimitVals) /\ loginLimits \in Seq(LimitVals) /\ cfgRealms \in Seq(CfgRealm)
    BY <1>0, <2>1 DEF LimitsRead, FileRead
  <2>3. CASE list = createLimits'
    BY <1>1, <2>2, <2>3, InEffectIs, DefaultsAssumption
  <2>4. CASE list = defaultLimits'
    BY <1>1, <2>2, <2>4, InEffectIs
  <2>5. ASSUME NEW r \in DOMAIN regRealms', list = regRealms'[r].limits
        PROVE  \A i \in DOMAIN list : list[i][1] > 0 /\ list[i][2] > 0
    <3> DEFINE k == Registered(r)
    <3>1. k \in DOMAIN cfgRealms
      <4>1. PICK i \in DOMAIN cfgRealms : r = cfgRealms[i].name
        BY <1>1, <2>5
      <4> QED
        BY <1>0, <4>1, RegisteredIs
    <3>2. list = InEffect(cfgRealms[k].limits)
      BY <1>1, <2>5
    <3> HIDE DEF k
    <3>3. cfgRealms[k].limits \in Seq(LimitVals) /\ AllAllow(cfgRealms[k].limits)
      <4>1. cfgRealms[k] \in CfgRealm /\ AllAllow(cfgRealms[k].limits)
        BY <2>2, <3>1
      <4> QED
        BY <4>1 DEF CfgRealm
    <3> QED
      BY <3>2, <3>3, InEffectIs
  <2> QED
    BY <2>3, <2>4, <2>5 DEF ListsInEffect
<1> QED
  BY <1>1, <1>2, <1>3 DEF LimitsInv

\* prestartup() does not crash, since no limit is 0 seconds.
LEMMA NoCrash ==
    ASSUME FileRead, LimitsRead, NoBadLimit
    PROVE  AllDivide
<1>1. /\ AllAllow(sessionLimits) /\ AllAllow(loginLimits)
      /\ \A i \in DOMAIN cfgRealms : AllAllow(cfgRealms[i].limits)
      /\ sessionLimits \in Seq(LimitVals) /\ loginLimits \in Seq(LimitVals) /\ cfgRealms \in Seq(CfgRealm)
  BY DEF LimitsRead, FileRead
<1>2. ASSUME NEW i \in DOMAIN cfgRealms PROVE Divides(cfgRealms[i].limits)
  <2>1. cfgRealms[i] \in CfgRealm /\ AllAllow(cfgRealms[i].limits)
    BY <1>1
  <2>2. cfgRealms[i].limits \in Seq(LimitVals)
    BY <2>1 DEF CfgRealm
  <2> QED
    BY <2>1, <2>2, InEffectIs
<1> QED
  BY <1>1, <1>2, InEffectIs DEF AllDivide

\* Before the command line is read there is no limit.
LEMMA LimitsInit == ServiceInit => LimitsInv
<1> SUFFICES ASSUME ServiceInit PROVE LimitsInv
  OBVIOUS
<1>1. /\ phase = "args" /\ vocabulary \in Files /\ said = <<>> /\ section = "global"
      /\ sessionLimits = <<>> /\ loginLimits = <<>> /\ cfgRealms = <<>>
  BY DEF ServiceInit, ConfigInit
<1>2. FileRead
  <2>1. <<>> \in Seq(Entries) /\ <<>> \in Seq(LimitVals) /\ <<>> \in Seq(CfgRealm)
    OBVIOUS
  <2> QED
    BY <1>1, <2>1 DEF FileRead, SectionNames
<1>3. LimitsRead /\ LimitsInEffect
  BY <1>1 DEF LimitsRead, AllAllow, LimitsInEffect
<1>4. RoomRead
  <2>1. GlobalIn(said, "session_limit") = {} /\ GlobalIn(said, "login_fail_limit") = {}
    BY <1>1 DEF GlobalIn
  <2>2. Cardinality({}) = 0
    BY FS_EmptySet
  <2>3. Len(<<>>) = 0
    OBVIOUS
  <2>4. Len(sessionLimits) <= Cardinality(GlobalIn(said, "session_limit"))
    BY <1>1, <2>1, <2>2, <2>3
  <2>5. Len(loginLimits) <= Cardinality(GlobalIn(said, "login_fail_limit"))
    <3>1. Len(loginLimits) = 0
      BY <1>1, <2>3
    <3>2. Cardinality(GlobalIn(said, "login_fail_limit")) = 0
      BY <2>1, <2>2, Zenon
    <3> QED
      BY <3>1, <3>2
  <2>6. DOMAIN cfgRealms = {}
    BY <1>1
  <2> QED
    BY <2>4, <2>5, <2>6, Zenon DEF RoomRead
<1> QED
  BY <1>1, <1>2, <1>3, <1>4 DEF LimitsInv

\* Steps that do not read the file.
LEMMA ElsewhereLimits ==
    ASSUME LimitsInv, phase # "undefined", phase' # "undefined",
           UNCHANGED <<vocabulary, said, section, sessionLimits, loginLimits, cfgRealms>>,
           phase' # "running" \/ UNCHANGED <<phase, createLimits, defaultLimits, regRealms>>,
           phase' # "crashed" \/ phase = "crashed" \/ ~NoBadLimit
    PROVE  LimitsInv'
<1>0. FileRead /\ LimitsRead /\ RoomRead /\ LimitsInEffect
  BY DEF LimitsInv
<1>1. (NoBadLimit' <=> NoBadLimit) /\ (NotTooMany' <=> NotTooMany)
  BY DEF NoBadLimit, LimitLine, NotTooMany, GlobalLines, IsGlobal, LinesLimiting
<1>2. FileRead' /\ LimitsRead' /\ RoomRead'
  BY <1>0, <1>1 DEF FileRead, LimitsRead, RoomRead, AllAllow, Allows
<1>3. LimitsInEffect'
  <2>1. CASE phase' # "running"
    BY <1>0, <1>1, <2>1 DEF LimitsInEffect
  <2>2. CASE UNCHANGED <<phase, createLimits, defaultLimits, regRealms>>
    <3>1. ListsInEffect' = ListsInEffect
      BY <2>2 DEF ListsInEffect
    <3> QED
      BY <1>0, <1>1, <2>2, <3>1 DEF LimitsInEffect
  <2> QED
    BY <2>1, <2>2
<1> QED
  BY <1>2, <1>3 DEF LimitsInv

\* Every step keeps the invariant.
LEMMA LimitsKept ==
    ASSUME LimitsInv, [ServiceNext]_serviceVars
    PROVE  LimitsInv'
<1> DEFINE Same == UNCHANGED <<vocabulary, said, section, sessionLimits, loginLimits, cfgRealms>>
<1>1. CASE UNCHANGED serviceVars
  <2>1. Same /\ UNCHANGED <<phase, createLimits, defaultLimits, regRealms>>
    BY <1>1 DEF serviceVars, configVars, startVars, listVars, serverVars
  <2>2. CASE phase = "undefined"
    BY <2>1, <2>2 DEF LimitsInv, NotTooMany, GlobalLines, IsGlobal, LinesLimiting
  <2> QED
    BY <2>1, <2>2, ElsewhereLimits
<1>2. ASSUME NEW w \in Words, ReadArgument(w), UNCHANGED startVars PROVE LimitsInv'
  <2>1. Same /\ phase = "args" /\ phase' \in {"args", "exit"}
    BY <1>2 DEF ReadArgument, listVars, serverVars
  <2> QED
    BY <2>1, ElsewhereLimits
<1>3. CASE ArgumentsDone /\ UNCHANGED startVars
  <2>1. Same /\ phase = "args" /\ phase' \in {"file", "exit"}
    BY <1>3 DEF ArgumentsDone, listVars, serverVars
  <2> QED
    BY <2>1, ElsewhereLimits
<1>4. ASSUME NEW l \in vocabulary, ReadLine(l), UNCHANGED startVars PROVE LimitsInv'
  <2>1. FileRead /\ LimitsRead /\ RoomRead
    BY <1>4 DEF LimitsInv, ReadLine
  <2>2. phase' # "undefined"
    BY <1>4, <2>1, LineIsRead
  <2> QED
    BY <1>4, <2>1, <2>2, LineTypes, LineLimits, LineRoom, LineInEffect DEF LimitsInv
<1>8. ASSUME NEW l \in vocabulary, ReadPastRoom(l), UNCHANGED startVars PROVE LimitsInv'
  <2>1. FileRead /\ RoomRead /\ phase' = "undefined"
    BY <1>8 DEF LimitsInv, ReadPastRoom
  <2> QED
    BY <1>8, <2>1, PastIsTooMuch DEF LimitsInv
<1>5. ASSUME NEW up \in SUBSET DOMAIN cfgServers, Prestartup(up) PROVE LimitsInv'
  BY <1>5, PrestartupLimits
<1>6. CASE PrestartupCrash
  <2>1. Same /\ phase = "file" /\ phase' = "crashed" /\ ~NoBadLimit
    BY <1>6, NoCrash DEF LimitsInv, PrestartupCrash, listVars, serverVars
  <2> QED
    BY <2>1, ElsewhereLimits
<1>7. CASE Shutdown
  <2>1. Same /\ phase = "running" /\ phase' = "down"
    BY <1>7 DEF Shutdown, listVars, serverVars
  <2> QED
    BY <2>1, ElsewhereLimits
<1> HIDE DEF Same
<1> QED
  BY <1>1, <1>2, <1>3, <1>4, <1>5, <1>6, <1>7, <1>8 DEF ServiceNext

\* A file of any length without the limits that are known to do harm makes a service
\* that comes up, with limits that all allow something and end, as readConfigFile()
\* ignores what limitsArg() refuses and prestartup() passes on the rest.
THEOREM LimitsInEffectCorrect == ServiceSpec => []LimitsInEffect
<1>1. LimitsInv => LimitsInEffect
  BY DEF LimitsInv, LimitsInEffect
<1> QED
  BY <1>1, LimitsInit, LimitsKept, PTL DEF ServiceSpec

-----------------------------------------------------------------------------
(* Servers.  What the lines of a file say of a server is a function of the  *)
(* lines alone.                                                             *)

SrvNames == {l.name : l \in Lines} \cup {NoName}
CfgServer == [name : SrvNames, set : [ServerKeys -> ValsRead \cup {Default}], listen : Seq(ValsRead)]

SectionsBefore(sd, i) == {j \in 1 .. i - 1 : sd[j].line.is = "section" /\ sd[j].line.section = "server"}
ServerAt(sd, i) ==
    IF SectionsBefore(sd, i) = {} \/ sd[Max(SectionsBefore(sd, i))].line.name = "" THEN NoName
    ELSE sd[Max(SectionsBefore(sd, i))].line.name
SaidIn(sd, name, key) == {i \in DOMAIN sd : /\ sd[i].in = "server" /\ sd[i].line.is = "setting"
                                            /\ sd[i].line.key = key /\ ServerAt(sd, i) = name}
Counts(sd, name, k) == IF k = "nat64_prefix" THEN SaidIn(sd, name, k)
                       ELSE {i \in SaidIn(sd, name, k) : sd[i].line.val # Invalid}
LastOf(sd, name, k) == IF Counts(sd, name, k) = {} \/ sd[Max(Counts(sd, name, k))].line.val = Invalid THEN Default
                       ELSE sd[Max(Counts(sd, name, k))].line.val

Configured(s, sd) == /\ InOrderOf(s.listen, sd, SaidIn(sd, s.name, "listen"))
                     /\ \A k \in ServerKeys : s.set[k] = LastOf(sd, s.name, k)

\* The greatest position of a sequence that got longer.
LEMMA MaxOfMore ==
    ASSUME NEW n \in Nat, NEW T, T \subseteq 1 .. n
    PROVE  Max(T \cup {n + 1}) = n + 1
<1> DEFINE U == T \cup {n + 1}
           h == Max(U)
<1>1. U \subseteq 1 .. n + 1 /\ U # {} /\ n + 1 \in Nat
  OBVIOUS
<1>2. h \in U /\ \A x \in U : x <= h
  <2> HIDE DEF U
  <2> QED
    BY <1>1, Extremes
<1>3. h \in 1 .. n + 1 /\ n + 1 <= h
  BY <1>1, <1>2
<1> HIDE DEF h
<1>4. h = n + 1
  BY <1>3
<1> QED
  BY <1>4 DEF h

\* One line more does not change which server the lines before it are about.
LEMMA ServerAtAppend ==
    ASSUME NEW sd \in Seq(Entries), NEW e \in Entries, NEW i \in 1 .. Len(sd) + 1
    PROVE  ServerAt(Append(sd, e), i) = ServerAt(sd, i)
<1> DEFINE sd2 == Append(sd, e)
           T == SectionsBefore(sd, i)
           n == Len(sd)
<1>1. n \in Nat /\ \A j \in 1 .. n : sd2[j] = sd[j]
  OBVIOUS
<1>2. \A j \in 1 .. i - 1 : j \in 1 .. n
  OBVIOUS
<1> HIDE DEF sd2, n
<1>3. SectionsBefore(sd2, i) = T
  BY <1>1, <1>2 DEF SectionsBefore
<1>4. T # {} => sd2[Max(T)] = sd[Max(T)]
  <2> SUFFICES ASSUME T # {} PROVE sd2[Max(T)] = sd[Max(T)]
    OBVIOUS
  <2>1. T \subseteq 1 .. n
    BY <1>2 DEF SectionsBefore
  <2> HIDE DEF T
  <2>2. Max(T) \in T
    BY <1>1, <2>1, Extremes
  <2> QED
    BY <1>1, <2>1, <2>2
<1> QED
  BY <1>3, <1>4 DEF ServerAt, sd2

Mine(sd, e, name, key) == /\ e.in = "server" /\ e.line.is = "setting" /\ e.line.key = key
                          /\ ServerAt(sd, Len(sd) + 1) = name

\* The lines that say something of a server, after one line more.
LEMMA SaidAppend ==
    ASSUME NEW sd \in Seq(Entries), NEW e \in Entries, NEW name, NEW key
    PROVE  SaidIn(Append(sd, e), name, key) =
             IF Mine(sd, e, name, key) THEN SaidIn(sd, name, key) \cup {Len(sd) + 1}
             ELSE SaidIn(sd, name, key)
<1> DEFINE sd2 == Append(sd, e)
           n == Len(sd)
<1>1. n \in Nat /\ DOMAIN sd = 1 .. n /\ DOMAIN sd2 = 1 .. n + 1 /\ sd2[n + 1] = e
      /\ \A j \in 1 .. n : sd2[j] = sd[j]
  OBVIOUS
<1>2. \A i \in 1 .. n + 1 : ServerAt(sd2, i) = ServerAt(sd, i)
  BY ServerAtAppend
<1>3. \A i : i \in 1 .. n + 1 <=> i \in 1 .. n \/ i = n + 1
  BY <1>1
<1>4. n + 1 \notin 1 .. n
  BY <1>1
<1> HIDE DEF sd2
<1>5. \A i : i \in SaidIn(sd2, name, key) <=>
              i \in SaidIn(sd, name, key) \/ (i = n + 1 /\ Mine(sd, e, name, key))
  BY <1>1, <1>2, <1>3, <1>4 DEF SaidIn, Mine
<1> QED
  BY <1>5 DEF sd2

\* The value a server has, after one line more.
LEMMA LastAppend ==
    ASSUME NEW sd \in Seq(Entries), NEW e \in Entries, NEW name, NEW k
    PROVE  LastOf(Append(sd, e), name, k) =
             IF Mine(sd, e, name, k) /\ (k = "nat64_prefix" \/ e.line.val # Invalid)
               THEN IF e.line.val = Invalid THEN Default ELSE e.line.val
               ELSE LastOf(sd, name, k)
<1> DEFINE sd2 == Append(sd, e)
           n == Len(sd)
           C == Counts(sd, name, k)
           more == Mine(sd, e, name, k) /\ (k = "nat64_prefix" \/ e.line.val # Invalid)
<1>1. n \in Nat /\ DOMAIN sd = 1 .. n /\ sd2[n + 1] = e /\ \A j \in 1 .. n : sd2[j] = sd[j]
  OBVIOUS
<1>2. SaidIn(sd2, name, k) = IF Mine(sd, e, name, k) THEN SaidIn(sd, name, k) \cup {n + 1} ELSE SaidIn(sd, name, k)
  BY SaidAppend
<1>3. SaidIn(sd, name, k) \subseteq 1 .. n
  BY <1>1 DEF SaidIn
<1> HIDE DEF sd2, n
<1>4. Counts(sd2, name, k) = IF more THEN C \cup {n + 1} ELSE C
  BY <1>1, <1>2, <1>3 DEF Counts
<1>5. C \subseteq 1 .. n
  BY <1>3 DEF Counts
<1>6. CASE more
  <2>1. Max(C \cup {n + 1}) = n + 1
    BY <1>1, <1>5, MaxOfMore
  <2> QED
    BY <1>1, <1>4, <1>6, <2>1 DEF LastOf, sd2
<1>7. CASE ~more
  <2>1. C # {} => sd2[Max(C)] = sd[Max(C)]
    <3> SUFFICES ASSUME C # {} PROVE sd2[Max(C)] = sd[Max(C)]
      OBVIOUS
    <3> HIDE DEF C
    <3>1. Max(C) \in C
      BY <1>1, <1>5, Extremes
    <3> QED
      BY <1>1, <1>5, <3>1
  <2> QED
    BY <1>4, <1>7, <2>1 DEF LastOf, sd2
<1> QED
  BY <1>6, <1>7

\* The addresses to listen on, after one line more that names none.
LEMMA ListenStays ==
    ASSUME NEW sd \in Seq(Entries), NEW e \in Entries, NEW name, NEW list,
           InOrderOf(list, sd, SaidIn(sd, name, "listen")), ~Mine(sd, e, name, "listen")
    PROVE  InOrderOf(list, Append(sd, e), SaidIn(Append(sd, e), name, "listen"))
<1>1. SaidIn(Append(sd, e), name, "listen") = SaidIn(sd, name, "listen")
  BY SaidAppend
<1>2. SaidIn(sd, name, "listen") \subseteq 1 .. Len(sd)
  BY DEF SaidIn
<1> QED
  BY <1>1, <1>2, InOrderStays

\* What a line does to the server it is about, and that it is about no other.
LEMMA OthersKept ==
    ASSUME NEW sd \in Seq(Entries), NEW e \in Entries, NEW s, Configured(s, sd),
           ~(e.in = "server" /\ e.line.is = "setting" /\ ServerAt(sd, Len(sd) + 1) = s.name)
    PROVE  Configured(s, Append(sd, e))
<1> DEFINE sd2 == Append(sd, e)
<1>1. \A key : ~Mine(sd, e, s.name, key)
  BY DEF Mine
<1>2. InOrderOf(s.listen, sd2, SaidIn(sd2, s.name, "listen"))
  BY <1>1, ListenStays DEF Configured
<1>3. \A k : LastOf(sd2, s.name, k) = LastOf(sd, s.name, k)
  BY <1>1, LastAppend
<1> QED
  BY <1>2, <1>3 DEF Configured

\* A setting without a value changes nothing of any server.
LEMMA NoValue ==
    ASSUME NEW sd \in Seq(Entries), NEW e \in Entries, NEW s, Configured(s, sd),
           e.line.key # "listen", e.line.key # "nat64_prefix",
           e.line.key \notin ServerKeys \/ e.line.val = Invalid
    PROVE  Configured(s, Append(sd, e))
<1> DEFINE sd2 == Append(sd, e)
<1>1. InOrderOf(s.listen, sd2, SaidIn(sd2, s.name, "listen"))
  BY ListenStays DEF Mine, Configured
<1>2. ASSUME NEW k \in ServerKeys PROVE LastOf(sd2, s.name, k) = LastOf(sd, s.name, k)
  BY LastAppend DEF Mine
<1> QED
  BY <1>1, <1>2 DEF Configured

\* A setting with a key no server has changes nothing of any server.
LEMMA OtherKey ==
    ASSUME NEW sd \in Seq(Entries), NEW e \in Entries, NEW s, Configured(s, sd),
           e.line.key # "listen", e.line.key \notin ServerKeys
    PROVE  Configured(s, Append(sd, e))
<1> DEFINE sd2 == Append(sd, e)
<1>1. InOrderOf(s.listen, sd2, SaidIn(sd2, s.name, "listen"))
  BY ListenStays DEF Mine, Configured
<1>2. ASSUME NEW k \in ServerKeys PROVE LastOf(sd2, s.name, k) = LastOf(sd, s.name, k)
  BY LastAppend DEF Mine
<1> QED
  BY <1>1, <1>2 DEF Configured

\* One more address to listen on.
LEMMA ListenMore ==
    ASSUME NEW sd \in Seq(Entries), NEW e \in Entries, NEW s \in CfgServer, Configured(s, sd),
           Mine(sd, e, s.name, "listen"), NEW v \in ValsRead, v = e.line.val
    PROVE  LET s2 == [s EXCEPT !.listen = Append(@, v)]
           IN s2 \in CfgServer /\ s2.name = s.name /\ Configured(s2, Append(sd, e))
<1> DEFINE sd2 == Append(sd, e)
           n == Len(sd)
           S == SaidIn(sd, s.name, "listen")
           ls == Append(s.listen, v)
           s2 == [s EXCEPT !.listen = ls]
<1>1. s.listen \in Seq(ValsRead)
  BY DEF CfgServer
<1>2. ls \in Seq(ValsRead)
  BY <1>1
<1>3. InOrderOf(ls, sd2, S \cup {n + 1})
  <2>1. S \subseteq 1 .. n /\ InOrderOf(s.listen, sd, S)
    BY DEF SaidIn, Configured
  <2> HIDE DEF S
  <2> QED
    BY <1>1, <2>1, InOrderMore
<1> HIDE DEF ls
<1>4. s2 \in CfgServer /\ s2.name = s.name /\ s2.listen = ls /\ s2.set = s.set
  BY <1>2 DEF CfgServer
<1> HIDE DEF s2
<1>5. SaidIn(sd2, s.name, "listen") = S \cup {n + 1}
  BY SaidAppend
<1>6. \A k \in ServerKeys : s.set[k] = LastOf(sd, s.name, k)
  BY DEF Configured
<1>7. InOrderOf(s2.listen, sd2, SaidIn(sd2, s2.name, "listen"))
  BY <1>3, <1>4, <1>5
<1>8. ASSUME NEW k \in ServerKeys PROVE s2.set[k] = LastOf(sd2, s2.name, k)
  <2>1. ~Mine(sd, e, s.name, k)
    BY ServerAssumption DEF Mine
  <2>2. LastOf(sd2, s.name, k) = LastOf(sd, s.name, k)
    BY <2>1, LastAppend
  <2> QED
    BY <2>2, <1>4, <1>6
<1>9. Configured(s2, sd2)
  BY <1>7, <1>8 DEF Configured
<1> QED
  BY <1>4, <1>9 DEF s2, ls

Becomes(s, s2, sd) == s2 \in CfgServer /\ s2.name = s.name /\ Configured(s2, sd)

\* One more value for a key.
LEMMA ValueMore ==
    ASSUME NEW sd \in Seq(Entries), NEW e \in Entries, NEW s \in CfgServer, Configured(s, sd),
           NEW key \in ServerKeys, Mine(sd, e, s.name, key), NEW v \in ValsRead \cup {Default},
           key = "nat64_prefix" \/ e.line.val # Invalid,
           v = IF e.line.val = Invalid THEN Default ELSE e.line.val
    PROVE  Becomes(s, [s EXCEPT !.set[key] = v], Append(sd, e))
<1> DEFINE sd2 == Append(sd, e)
           f == [s.set EXCEPT ![key] = v]
           s2 == [s EXCEPT !.set = f]
<1>1. s.set \in [ServerKeys -> ValsRead \cup {Default}]
  BY DEF CfgServer
<1>2. f \in [ServerKeys -> ValsRead \cup {Default}] /\ \A k \in ServerKeys : f[k] = IF k = key THEN v ELSE s.set[k]
  BY <1>1
<1> HIDE DEF f
<1>3. s2 \in CfgServer /\ s2.name = s.name /\ s2.listen = s.listen /\ s2.set = f
  BY <1>2 DEF CfgServer
<1>4. [s EXCEPT !.set[key] = v] = s2
  BY DEF f
<1> HIDE DEF s2
<1>5. \A k \in ServerKeys : s.set[k] = LastOf(sd, s.name, k)
  BY DEF Configured
<1>6. InOrderOf(s.listen, sd2, SaidIn(sd2, s.name, "listen"))
  <2>1. ~Mine(sd, e, s.name, "listen")
    BY ServerAssumption DEF Mine
  <2> QED
    BY <2>1, ListenStays DEF Configured
<1>7. ASSUME NEW k \in ServerKeys PROVE f[k] = LastOf(sd2, s.name, k)
  <2>1. CASE k = key
    <3>1. LastOf(sd2, s.name, key) = v
      BY LastAppend
    <3> QED
      BY <3>1, <2>1, <1>2
  <2>2. CASE k # key
    <3>1. ~Mine(sd, e, s.name, k)
      BY <2>2 DEF Mine
    <3>2. LastOf(sd2, s.name, k) = LastOf(sd, s.name, k)
      BY <3>1, LastAppend
    <3> QED
      BY <3>2, <2>2, <1>2, <1>5
  <2> QED
    BY <2>1, <2>2
<1>8. Configured(s2, sd2)
  BY <1>3, <1>5, <1>6, <1>7 DEF Configured
<1> QED
  BY <1>3, <1>4, <1>8 DEF Becomes

-----------------------------------------------------------------------------
(* The inductive invariant of the servers: the one whose section is read is *)
(* the one the next line is about, and no line is about one that is not     *)
(* known.                                                                  *)

Distinct(ss) == \A i, j \in DOMAIN ss : ss[i].name = ss[j].name => i = j

ServersInv ==
    /\ FileRead /\ cfgServers \in Seq(CfgServer) /\ server \in DOMAIN cfgServers
    /\ section = "server" => cfgServers[server].name = ServerAt(said, Len(said) + 1)
    /\ \A i \in DOMAIN said :
          said[i].in = "server" => \E j \in DOMAIN cfgServers : cfgServers[j].name = ServerAt(said, i)
    /\ cfgServers[1].name = NoName
    /\ Distinct(cfgServers)
    /\ \A i \in DOMAIN cfgServers : Configured(cfgServers[i], said)

\* At first there is the default server, and nothing was said of it.
LEMMA ServersInit == ServiceInit => ServersInv
<1> SUFFICES ASSUME ServiceInit PROVE ServersInv
  OBVIOUS
<1> DEFINE s == NewServer(NoName)
<1>1. said = <<>> /\ cfgServers = <<s>> /\ server = 1 /\ section = "global" /\ FileRead
  BY LimitsInit DEF ServiceInit, ConfigInit, LimitsInv
<1>2. s \in CfgServer /\ s.name = NoName
  BY DEF NewServer, CfgServer, SrvNames
<1>3. Configured(s, <<>>)
  <2>1. \A name, key : SaidIn(<<>>, name, key) = {}
    BY DEF SaidIn
  <2>2. \A k \in ServerKeys : s.set[k] = LastOf(<<>>, s.name, k)
    BY <2>1 DEF LastOf, Counts, NewServer
  <2>3. s.listen = <<>>
    BY DEF NewServer
  <2>4. InOrderOf(s.listen, <<>>, SaidIn(<<>>, s.name, "listen"))
    BY <2>1, <2>3, NoneInOrder
  <2> QED
    BY <2>2, <2>4 DEF Configured
<1> HIDE DEF s
<1>4. cfgServers \in Seq(CfgServer) /\ DOMAIN cfgServers = {1} /\ cfgServers[1] = s
  BY <1>1, <1>2
<1> QED
  BY <1>1, <1>2, <1>3, <1>4 DEF ServersInv, Distinct

\* The server the next line is about is the same, unless a section was opened.
LEMMA ServerAtNext ==
    ASSUME NEW sd \in Seq(Entries), NEW e \in Entries
    PROVE  ServerAt(Append(sd, e), Len(sd) + 2) =
             IF e.line.is = "section" /\ e.line.section = "server"
               THEN IF e.line.name = "" THEN NoName ELSE e.line.name
               ELSE ServerAt(sd, Len(sd) + 1)
<1> DEFINE sd2 == Append(sd, e)
           n == Len(sd)
           T == SectionsBefore(sd, n + 1)
           opens == e.line.is = "section" /\ e.line.section = "server"
<1>1. n \in Nat /\ sd2[n + 1] = e /\ \A j \in 1 .. n : sd2[j] = sd[j]
  OBVIOUS
<1>2. (n + 2) - 1 = n + 1 /\ (n + 1) - 1 = n
  BY <1>1
<1>3. \A i : i \in 1 .. n + 1 <=> i \in 1 .. n \/ i = n + 1
  BY <1>1
<1> HIDE DEF sd2, n
<1>4. SectionsBefore(sd2, n + 2) = IF opens THEN T \cup {n + 1} ELSE T
  <2>1. \A i : i \in SectionsBefore(sd2, n + 2) <=> i \in T \/ (i = n + 1 /\ opens)
    BY <1>1, <1>2, <1>3 DEF SectionsBefore
  <2> QED
    BY <2>1
<1>5. T \subseteq 1 .. n
  <2>1. T \subseteq 1 .. (n + 1) - 1
    BY DEF SectionsBefore
  <2> QED
    BY <1>2, <2>1
<1>6. CASE opens
  <2>1. Max(T \cup {n + 1}) = n + 1
    BY <1>1, <1>5, MaxOfMore
  <2> QED
    BY <1>1, <1>4, <1>6, <2>1 DEF ServerAt, sd2, n
<1>7. CASE ~opens
  <2>1. T # {} => sd2[Max(T)] = sd[Max(T)]
    <3> SUFFICES ASSUME T # {} PROVE sd2[Max(T)] = sd[Max(T)]
      OBVIOUS
    <3> HIDE DEF T
    <3>1. Max(T) \in T
      BY <1>1, <1>5, Extremes
    <3> QED
      BY <1>1, <1>5, <3>1
  <2> QED
    BY <1>4, <1>7, <2>1 DEF ServerAt, sd2, n
<1> QED
  BY <1>6, <1>7

\* The servers change by what the line does to the one it is about, if any; each one
\* is known before a line is about it.
LEMMA ServersUpdated ==
    ASSUME ServersInv, FileRead', NEW e \in Entries, said' = Append(said, e), e.in = section,
           cfgServers' \in Seq(CfgServer), DOMAIN cfgServers \subseteq DOMAIN cfgServers',
           server' \in DOMAIN cfgServers',
           \A i \in DOMAIN cfgServers : cfgServers'[i].name = cfgServers[i].name,
           Distinct(cfgServers'),
           \A i \in DOMAIN cfgServers' : Configured(cfgServers'[i], said'),
           section' = "server" => cfgServers'[server'].name = ServerAt(said', Len(said) + 2)
    PROVE  ServersInv'
<1> DEFINE n == Len(said)
<1>1. said \in Seq(Entries) /\ server \in DOMAIN cfgServers /\ 1 \in DOMAIN cfgServers
  BY DEF ServersInv, FileRead
<1>2. /\ n \in Nat /\ Len(said') = n + 1 /\ DOMAIN said' = 1 .. n + 1 /\ DOMAIN said = 1 .. n
      /\ said'[n + 1] = e /\ \A i \in 1 .. n : said'[i] = said[i]
      /\ n + 1 + 1 = n + 2
  BY <1>1
<1>3. \A i \in 1 .. n + 1 : ServerAt(said', i) = ServerAt(said, i)
  BY <1>1, ServerAtAppend
<1>4. ASSUME NEW i \in DOMAIN said', said'[i].in = "server"
      PROVE  \E j \in DOMAIN cfgServers' : cfgServers'[j].name = ServerAt(said', i)
  <2>1. \E j \in DOMAIN cfgServers : cfgServers[j].name = ServerAt(said, i)
    <3>1. CASE i = n + 1
      BY <1>1, <1>2, <1>4, <3>1 DEF ServersInv
    <3>2. CASE i # n + 1
      <4>1. i \in DOMAIN said /\ said[i].in = "server"
        BY <1>2, <1>4, <3>2
      <4> QED
        BY <4>1 DEF ServersInv
    <3> QED
      BY <3>1, <3>2
  <2>2. ServerAt(said', i) = ServerAt(said, i)
    BY <1>2, <1>3
  <2> QED
    BY <2>1, <2>2
<1>5. cfgServers'[1].name = NoName
  BY <1>1 DEF ServersInv
<1>6. section' = "server" => cfgServers'[server'].name = ServerAt(said', Len(said') + 1)
  BY <1>2
<1> HIDE DEF n
<1> QED
  BY <1>4, <1>5, <1>6 DEF ServersInv

\* readServer() finds the server of a name, or that there is none.
LEMMA ServerIndexIs ==
    ASSUME ServersInv, NEW name
    PROVE  LET i == ServerIndex(name)
           IN /\ i \in Nat
              /\ i > 0 => i \in DOMAIN cfgServers /\ cfgServers[i].name = name
              /\ ~(i > 0) => \A j \in DOMAIN cfgServers : cfgServers[j].name # name
<1> DEFINE T == {i \in DOMAIN cfgServers : cfgServers[i].name = name}
           n == Len(cfgServers)
<1>1. n \in Nat /\ T \subseteq 1 .. n
  BY DEF ServersInv
<1>2. ServerIndex(name) = IF T = {} THEN 0 ELSE Min(T)
  BY DEF ServerIndex
<1>3. CASE T = {}
  BY <1>2, <1>3
<1>4. CASE T # {}
  <2> HIDE DEF T, n
  <2>1. Min(T) \in T
    BY <1>1, <1>4, Extremes
  <2> DEFINE m == Min(T)
  <2>2. m \in 1 .. n
    BY <1>1, <2>1
  <2> HIDE DEF m
  <2>3. m \in Nat /\ m > 0
    BY <1>1, <2>2
  <2> QED
    BY <1>2, <1>4, <2>1, <2>3 DEF T, m
<1> QED
  BY <1>3, <1>4

\* A line that is not about a server.
LEMMA LineElsewhere ==
    ASSUME ServersInv, FileRead', NEW e \in Entries, said' = Append(said, e), e.in = section,
           UNCHANGED <<cfgServers, server>>,
           ~(section = "server" /\ e.line.is = "setting"),
           ~(e.line.is = "section" /\ e.line.section = "server"),
           section' = "server" => section = "server"
    PROVE  ServersInv'
<1>1. said \in Seq(Entries)
  BY DEF ServersInv, FileRead
<1>2. ASSUME NEW i \in DOMAIN cfgServers' PROVE Configured(cfgServers'[i], said')
  <2>1. Configured(cfgServers[i], said)
    BY DEF ServersInv
  <2> QED
    BY <1>1, <2>1, OthersKept
<1>3. section' = "server" => cfgServers'[server'].name = ServerAt(said', Len(said) + 2)
  BY <1>1, ServerAtNext DEF ServersInv
<1>4. /\ cfgServers' \in Seq(CfgServer) /\ DOMAIN cfgServers \subseteq DOMAIN cfgServers'
      /\ server' \in DOMAIN cfgServers' /\ Distinct(cfgServers')
      /\ \A i \in DOMAIN cfgServers : cfgServers'[i].name = cfgServers[i].name
  BY DEF ServersInv
<1> QED
  BY <1>2, <1>3, <1>4, ServersUpdated

\* A section of a server.
LEMMA LineOpens ==
    ASSUME ServersInv, FileRead', NEW l \in Lines, l.is = "section", l.section = "server", ReadSection(l),
           said' = Append(said, [line |-> l, in |-> section])
    PROVE  ServersInv'
<1> DEFINE name == IF l.name = "" THEN NoName ELSE l.name
           k == ServerIndex(name)
           e == [line |-> l, in |-> section]
           s == NewServer(name)
           m == Len(cfgServers)
<1>1. /\ section' = "server"
      /\ k > 0 => server' = k /\ cfgServers' = cfgServers
      /\ ~(k > 0) => cfgServers' = Append(cfgServers, s) /\ server' = Len(cfgServers')
  BY DEF ReadSection
<1>2. said \in Seq(Entries) /\ e \in Entries /\ e.line = l /\ e.in = section
      /\ cfgServers \in Seq(CfgServer) /\ Distinct(cfgServers)
      /\ \A i \in DOMAIN cfgServers : Configured(cfgServers[i], said)
  BY DEF ServersInv, FileRead, Entries
<1>3. ServerAt(said', Len(said) + 2) = name
  BY <1>2, ServerAtNext
<1>4. /\ k > 0 => k \in DOMAIN cfgServers /\ cfgServers[k].name = name
      /\ ~(k > 0) => \A j \in DOMAIN cfgServers : cfgServers[j].name # name
  BY ServerIndexIs
<1>5. \A i \in DOMAIN cfgServers : Configured(cfgServers[i], said')
  BY <1>2, OthersKept
<1>6. CASE k > 0
  <2> HIDE DEF e, k, name
  <2> QED
    BY <1>1, <1>2, <1>3, <1>4, <1>5, <1>6, ServersUpdated DEF e
<1>7. CASE ~(k > 0)
  <2>1. s \in CfgServer /\ s.name = name
    <3>1. name \in SrvNames
      BY DEF SrvNames
    <3> HIDE DEF name
    <3> QED
      BY <3>1 DEF NewServer, CfgServer
  <2>2. Configured(s, said')
    <3>1. \A key : SaidIn(said, name, key) = {}
      <4>1. \A i \in DOMAIN said : said[i].in = "server" => ServerAt(said, i) # name
        BY <1>4, <1>7 DEF ServersInv
      <4> QED
        BY <4>1 DEF SaidIn
    <3>2. \A key : SaidIn(said', name, key) = {}
      <4>1. \A key : ~Mine(said, e, name, key)
        BY <1>2 DEF Mine
      <4> QED
        BY <3>1, <4>1, <1>2, SaidAppend
    <3>3. s.listen = <<>> /\ s.set = [j \in ServerKeys |-> Default]
      BY DEF NewServer
    <3> HIDE DEF name, s
    <3>4. \A j \in ServerKeys : s.set[j] = LastOf(said', s.name, j)
      BY <2>1, <3>2, <3>3 DEF LastOf, Counts
    <3>5. InOrderOf(s.listen, said', SaidIn(said', s.name, "listen"))
      BY <2>1, <3>2, <3>3, NoneInOrder
    <3> QED
      BY <3>4, <3>5 DEF Configured
  <2> HIDE DEF s, e, k, name
  <2>3. /\ cfgServers' \in Seq(CfgServer) /\ m \in Nat /\ server' = m + 1
        /\ DOMAIN cfgServers = 1 .. m /\ DOMAIN cfgServers' = 1 .. m + 1
        /\ cfgServers'[m + 1] = s /\ \A i \in 1 .. m : cfgServers'[i] = cfgServers[i]
    <3>1. cfgServers' = Append(cfgServers, s) /\ server' = Len(cfgServers') /\ cfgServers \in Seq(CfgServer)
          /\ s \in CfgServer
      BY <1>1, <1>2, <1>7, <2>1
    <3>2. cfgServers' \in Seq(CfgServer) /\ Len(cfgServers') = m + 1 /\ m \in Nat
      BY <3>1
    <3>3. cfgServers'[m + 1] = s /\ \A i \in 1 .. m : cfgServers'[i] = cfgServers[i]
      BY <3>1
    <3>4. DOMAIN cfgServers = 1 .. m /\ DOMAIN cfgServers' = 1 .. m + 1 /\ server' = m + 1
      BY <3>1, <3>2
    <3> QED
      BY <3>2, <3>3, <3>4
  <2>4. \A i : i \in 1 .. m + 1 <=> i \in 1 .. m \/ i = m + 1
    BY <2>3
  <2> HIDE DEF m
  <2>5. Distinct(cfgServers')
    BY <1>2, <1>4, <1>7, <2>1, <2>3, <2>4 DEF Distinct
  <2>6. \A i \in DOMAIN cfgServers' : Configured(cfgServers'[i], said')
    BY <1>5, <2>2, <2>3, <2>4
  <2>7. /\ DOMAIN cfgServers \subseteq DOMAIN cfgServers' /\ server' \in DOMAIN cfgServers'
        /\ \A i \in DOMAIN cfgServers : cfgServers'[i].name = cfgServers[i].name
        /\ cfgServers'[server'].name = name
    BY <2>1, <2>3, <2>4
  <2> QED
    BY <1>2, <1>3, <2>3, <2>5, <2>6, <2>7, ServersUpdated DEF e
<1> QED
  BY <1>6, <1>7

\* A setting of the server whose section is read.
LEMMA LineServer ==
    ASSUME ServersInv, FileRead', NEW l \in Lines, l.is = "setting", section = "server", ReadServer(l),
           said' = Append(said, [line |-> l, in |-> section])
    PROVE  ServersInv'
<1> DEFINE e == [line |-> l, in |-> section]
           s == cfgServers[server]
<1>1. /\ section' = section /\ server' = server
      /\ said \in Seq(Entries) /\ e \in Entries /\ e.line = l /\ e.in = "server"
      /\ cfgServers \in Seq(CfgServer) /\ Distinct(cfgServers) /\ server \in DOMAIN cfgServers
      /\ \A i \in DOMAIN cfgServers : Configured(cfgServers[i], said)
      /\ l.val \in ValsRead
      /\ s.name = ServerAt(said, Len(said) + 1)
  BY DEF ReadServer, ServersInv, FileRead, Entries, ValsRead
<1>2. s \in CfgServer /\ Configured(s, said)
  BY <1>1
<1>3. Mine(said, e, s.name, l.key)
  BY <1>1 DEF Mine
<1> HIDE DEF e, s
<1>4. PICK s2 \in CfgServer : /\ s2.name = s.name /\ Configured(s2, said')
                              /\ cfgServers' = [cfgServers EXCEPT ![server] = s2]
  <2>1. CASE l.key = "listen"
    <3> DEFINE r == [s EXCEPT !.listen = Append(@, l.val)]
    <3>1. r \in CfgServer /\ r.name = s.name /\ Configured(r, said')
      BY <1>1, <1>2, <1>3, <2>1, ListenMore DEF e
    <3>2. cfgServers' = [cfgServers EXCEPT ![server] = r]
      BY <1>1, <2>1 DEF ReadServer, s
    <3> HIDE DEF r
    <3> QED
      BY <3>1, <3>2
  <2>2. CASE l.key \in ServerKeys /\ (l.val # Invalid \/ l.key = "nat64_prefix")
    <3> DEFINE v == IF l.val = Invalid THEN Default ELSE l.val
               r == [s EXCEPT !.set[l.key] = v]
    <3>1. v \in ValsRead \cup {Default}
      BY <1>1
    <3>2. r \in CfgServer /\ r.name = s.name /\ Configured(r, said')
      <4> HIDE DEF v
      <4>1. v = IF e.line.val = Invalid THEN Default ELSE e.line.val
        BY <1>1 DEF v
      <4>2. said' = Append(said, e) /\ (l.key = "nat64_prefix" \/ e.line.val # Invalid)
        BY <1>1, <2>2 DEF e
      <4>3. Becomes(s, r, Append(said, e))
        BY <1>1, <1>2, <1>3, <2>2, <3>1, <4>1, <4>2, ValueMore
      <4> QED
        BY <4>2, <4>3 DEF Becomes
    <3>3. cfgServers' = [cfgServers EXCEPT ![server] = r]
      <4>1. l.key # "listen"
        BY <2>2, ServerAssumption
      <4> QED
        BY <1>1, <2>2, <4>1 DEF ReadServer, s
    <3> HIDE DEF r
    <3> QED
      BY <3>2, <3>3
  <2>3. CASE l.key # "listen" /\ ~(l.key \in ServerKeys /\ (l.val # Invalid \/ l.key = "nat64_prefix"))
    <3>1. cfgServers' = cfgServers
      BY <2>3 DEF ReadServer
    <3>2. cfgServers' = [cfgServers EXCEPT ![server] = s]
      BY <3>1, <1>1 DEF s
    <3>3. Configured(s, said')
      <4>1. CASE l.key # "nat64_prefix"
        BY <1>1, <1>2, <2>3, <4>1, NoValue DEF e
      <4>2. CASE l.key = "nat64_prefix"
        <5>1. "nat64_prefix" \notin ServerKeys
          BY <2>3, <4>2
        <5> QED
          BY <1>1, <1>2, <2>3, <4>2, <5>1, OtherKey DEF e
      <4> QED
        BY <4>1, <4>2
    <3> QED
      BY <1>2, <3>2, <3>3
  <2> QED
    BY <2>1, <2>2, <2>3
<1>5. /\ cfgServers' \in Seq(CfgServer) /\ DOMAIN cfgServers' = DOMAIN cfgServers
      /\ cfgServers'[server] = s2 /\ \A i \in DOMAIN cfgServers : i # server => cfgServers'[i] = cfgServers[i]
  BY <1>1, <1>4
<1>6. \A i \in DOMAIN cfgServers : cfgServers'[i].name = cfgServers[i].name
  BY <1>4, <1>5 DEF s
<1>7. Distinct(cfgServers')
  BY <1>1, <1>5, <1>6 DEF Distinct
<1>8. ASSUME NEW i \in DOMAIN cfgServers' PROVE Configured(cfgServers'[i], said')
  <2>1. CASE i = server
    BY <1>4, <1>5, <2>1
  <2>2. CASE i # server
    <3>1. Configured(cfgServers[i], said) /\ cfgServers[i].name # s.name /\ cfgServers'[i] = cfgServers[i]
      BY <1>1, <1>5, <2>2 DEF Distinct, s
    <3> QED
      BY <1>1, <3>1, OthersKept DEF e
  <2> QED
    BY <2>1, <2>2
<1>9. cfgServers'[server'].name = ServerAt(said', Len(said) + 2)
  BY <1>1, <1>4, <1>5, ServerAtNext DEF e
<1> QED
  BY <1>1, <1>5, <1>6, <1>7, <1>8, <1>9, ServersUpdated DEF e

\* Nothing is said of what happens after the code has written past an array.
LEMMA NoWayBack ==
    ASSUME phase = "undefined", [ServiceNext]_serviceVars
    PROVE  phase' = "undefined"
BY DEF ServiceNext, serviceVars, configVars, ReadArgument, ArgumentsDone, ReadLine, ReadPastRoom,
       Prestartup, PrestartupCrash, Shutdown

\* Every step keeps the invariant.
LEMMA ServersKept ==
    ASSUME phase # "undefined" => ServersInv, [ServiceNext]_serviceVars
    PROVE  phase' # "undefined" => ServersInv'
<1> SUFFICES ASSUME phase' # "undefined" PROVE ServersInv'
  OBVIOUS
<1>0. ServersInv
  BY NoWayBack
<1>6. ASSUME NEW l \in vocabulary, ReadPastRoom(l) PROVE FALSE
  BY <1>6 DEF ReadPastRoom
<1>1. CASE UNCHANGED <<vocabulary, said, section, server, cfgServers, sessionLimits, loginLimits, cfgRealms>>
  BY <1>0, <1>1 DEF ServersInv, FileRead
<1>2. ASSUME NEW l \in vocabulary, ReadLine(l) PROVE ServersInv'
  <2> DEFINE e == [line |-> l, in |-> section]
  <2>1. FileRead
    BY <1>0 DEF ServersInv
  <2>2. FileRead' /\ l \in Lines /\ l.is \in {"section", "setting", "skip"} /\ said' = Append(said, e)
    BY <1>2, <2>1, LineTypes, LineIsRead
  <2>3. e \in Entries /\ e.line = l /\ e.in = section
    BY <2>1, <2>2 DEF FileRead, Entries
  <2>4. CASE l.is = "section" /\ l.section = "server"
    BY <1>0, <1>2, <2>1, <2>2, <2>4, LineIsRead, LineOpens
  <2>5. CASE l.is = "setting" /\ section = "server"
    BY <1>0, <1>2, <2>1, <2>2, <2>5, LineIsRead, LineServer
  <2>6. CASE ~(l.is = "section" /\ l.section = "server") /\ ~(l.is = "setting" /\ section = "server")
    <3>1. UNCHANGED <<cfgServers, server>> /\ (section' = "server" => section = "server")
      <4>1. CASE l.is = "section"
        BY <1>2, <2>1, <2>6, <4>1, LineIsRead DEF ReadSection
      <4>2. CASE l.is = "skip" \/ (l.is = "setting" /\ section = "invalid")
        BY <1>2, <2>1, <4>2, LineIsRead DEF serverVars
      <4>3. CASE l.is = "setting" /\ section # "invalid"
        <5>1. section \in {"global", "checkers", "realms"}
          BY <2>1, <2>6, <4>3 DEF FileRead, SectionNames
        <5>2. UNCHANGED serverVars
          BY <1>2, <2>1, <4>3, <5>1, LineIsRead DEF ReadOption, ReadChecker, ReadRealm
        <5> QED
          BY <5>2 DEF serverVars
      <4> QED
        BY <2>2, <4>1, <4>2, <4>3
    <3> HIDE DEF e
    <3> QED
      BY <1>0, <2>2, <2>3, <2>6, <3>1, LineElsewhere
  <2> QED
    BY <2>4, <2>5, <2>6
<1>3. ASSUME NEW w \in Words, ReadArgument(w) PROVE ServersInv'
  BY <1>1, <1>3 DEF ReadArgument, listVars, serverVars
<1>4. CASE ArgumentsDone \/ PrestartupCrash \/ Shutdown \/ \E up \in SUBSET DOMAIN cfgServers : Prestartup(up)
  BY <1>1, <1>4 DEF ArgumentsDone, PrestartupCrash, Shutdown, Prestartup, listVars, serverVars
<1>5. CASE UNCHANGED serviceVars
  BY <1>1, <1>5 DEF serviceVars, configVars, listVars, serverVars
<1> QED
  BY <1>2, <1>3, <1>4, <1>5, <1>6 DEF ServiceNext

\* A server that is started has the options of the one that is configured.
StartedInv ==
    /\ phase \in {"args", "file"} => started = <<>>
    /\ \A i \in DOMAIN started : /\ i \in DOMAIN cfgServers
                                 /\ started[i].set = cfgServers[i].set
                                 /\ started[i].listen = cfgServers[i].listen

LEMMA StartedKept ==
    ASSUME StartedInv, [ServiceNext]_serviceVars
    PROVE  StartedInv'
<1>1. CASE UNCHANGED <<phase, started, cfgServers>>
  BY <1>1 DEF StartedInv
<1>2. CASE started' = <<>>
  BY <1>2 DEF StartedInv
<1>3. ASSUME NEW l \in vocabulary, ReadLine(l) \/ ReadPastRoom(l), UNCHANGED startVars PROVE StartedInv'
  BY <1>2, <1>3 DEF StartedInv, ReadLine, ReadPastRoom, startVars
<1>4. ASSUME NEW w \in Words, ReadArgument(w), UNCHANGED startVars PROVE StartedInv'
  BY <1>2, <1>4 DEF StartedInv, ReadArgument, startVars
<1>5. CASE (ArgumentsDone /\ UNCHANGED startVars) \/ PrestartupCrash
  BY <1>2, <1>5 DEF StartedInv, ArgumentsDone, PrestartupCrash, startVars
<1>6. ASSUME NEW up \in SUBSET DOMAIN cfgServers, Prestartup(up) PROVE StartedInv'
  <2>1. started' = [i \in up |-> ServerOpts(i)] /\ phase' \in {"failed", "running"} /\ cfgServers' = cfgServers
    BY <1>6 DEF Prestartup, serverVars
  <2> QED
    BY <2>1 DEF StartedInv, ServerOpts
<1>7. CASE Shutdown
  BY <1>2, <1>7 DEF Shutdown
<1>8. CASE UNCHANGED serviceVars
  BY <1>1, <1>8 DEF serviceVars, configVars, serverVars, startVars
<1> QED
  BY <1>3, <1>4, <1>5, <1>6, <1>7, <1>8 DEF ServiceNext

\* The invariants give the property.
LEMMA ConfiguredIs ==
    ASSUME phase # "undefined" => ServersInv, StartedInv
    PROVE  ServersAsConfigured
<1> SUFFICES ASSUME phase # "undefined" PROVE ServersAsConfigured
  BY DEF ServersAsConfigured
<1>0. /\ cfgServers[1].name = NoName /\ Distinct(cfgServers)
      /\ \A i \in DOMAIN cfgServers : Configured(cfgServers[i], said)
  BY DEF ServersInv
<1>1. \A name, key : Said(name, key) = SaidIn(said, name, key)
  BY DEF Said, SaidIn, ServerOf, ServerAt, SectionsBefore
<1>2. \A name, k : LastSaid(name, k) = LastOf(said, name, k)
  BY <1>1 DEF LastSaid, LastOf, Counts, SaidValid
<1>3. \A list, T : AsSaidIn(list, T) <=> InOrderOf(list, said, T)
  BY DEF AsSaidIn, InOrderOf
<1>4. ASSUME NEW i \in DOMAIN cfgServers PROVE ServerAsSaid(cfgServers[i].name, cfgServers[i])
  BY <1>0, <1>1, <1>2, <1>3, Zenon DEF ServerAsSaid, Configured
<1>5. ASSUME NEW i \in DOMAIN started PROVE ServerAsSaid(cfgServers[i].name, started[i])
  <2>1. ServerAsSaid(cfgServers[i].name, cfgServers[i])
    BY <1>4 DEF StartedInv
  <2>2. started[i].set = cfgServers[i].set /\ started[i].listen = cfgServers[i].listen
    BY DEF StartedInv
  <2> QED
    BY <2>1, <2>2 DEF ServerAsSaid
<1> QED
  BY <1>0, <1>4, <1>5 DEF ServersAsConfigured, Distinct

\* However often and in whatever order a file opens sections of servers, the default
\* server stays the first one, a name means one server, and each one has the last valid
\* value that readServer() read in its own sections and all the addresses they name.
THEOREM ServersAsConfiguredCorrect == ServiceSpec => []ServersAsConfigured
<1> DEFINE Inv == (phase # "undefined" => ServersInv) /\ StartedInv
<1>1. ServiceInit => Inv
  BY ServersInit DEF ServiceInit, ConfigInit, StartedInv
<1>2. Inv /\ [ServiceNext]_serviceVars => Inv'
  <2> SUFFICES ASSUME Inv, [ServiceNext]_serviceVars PROVE Inv'
    OBVIOUS
  <2>1. phase' # "undefined" => ServersInv'
    BY ServersKept
  <2>2. StartedInv'
    BY StartedKept
  <2> QED
    BY <2>1, <2>2
<1>3. Inv => ServersAsConfigured
  BY ConfiguredIs
<1> HIDE DEF Inv
<1> QED
  BY <1>1, <1>2, <1>3, PTL DEF ServiceSpec

-----------------------------------------------------------------------------
(* What the command line and the file make swad run as.                    *)

ArgFlags == {"c", "g", "u"}
OnceFlags == {"c", "g", "p", "u"}
RestsOf(w) == {SubSeq(w, i, Len(w)) : i \in Nat}
OpWords == Words \cup UNION {RestsOf(w) : w \in Words}
Ids == Nat \cup {-1}
UsedArg == [flag : ArgFlags, op : OpWords]
ArgRec == [queue : Seq(ArgFlags), seen : SUBSET OnceFlags, uid : Ids, gid : Ids,
           resolve : {-1, 0, 1}, flags : Seq(ArgFlags), used : Seq(UsedArg),
           ok : BOOLEAN, stop : BOOLEAN]

Uses(us, flag) == \E i \in DOMAIN us : us[i].flag = flag

\* The user and the group are the ones of the arguments that were used.
AsTold(us, u, g) ==
    /\ \A i \in DOMAIN us : us[i].flag = "u" => us[i].op \in DOMAIN Users /\ u = Users[us[i].op].uid
    /\ \A i \in DOMAIN us : us[i].flag = "g" => us[i].op \in DOMAIN Groups /\ g = Groups[us[i].op]
    /\ ~Uses(us, "u") => u = -1
    /\ ~Uses(us, "g") => \/ u = -1 /\ g = -1
                         \/ \E w \in DOMAIN Users : u = Users[w].uid /\ g = Users[w].gid

\* The flags are the ones that were used, then those that wait, each once.
InOrder(fl, us, q) ==
    /\ Len(fl) = Len(us) + Len(q)
    /\ \A i \in DOMAIN us : us[i].flag = fl[i]
    /\ \A j \in DOMAIN q : q[j] = fl[Len(us) + j]
    /\ \A i, j \in DOMAIN fl : fl[i] = fl[j] => i = j

Told(a) == a.ok => /\ InOrder(a.flags, a.used, a.queue)
                   /\ \A i \in DOMAIN a.flags : a.flags[i] \in a.seen
                   /\ AsTold(a.used, a.uid, a.gid)

\* One more flag that waits.
LEMMA FlagWaits ==
    ASSUME NEW fl \in Seq(ArgFlags), NEW us \in Seq(UsedArg), NEW q \in Seq(ArgFlags),
           InOrder(fl, us, q), NEW c \in ArgFlags, \A i \in DOMAIN fl : fl[i] # c
    PROVE  /\ InOrder(Append(fl, c), us, Append(q, c))
           /\ \A i \in DOMAIN Append(fl, c) : Append(fl, c)[i] = c \/ \E j \in DOMAIN fl : Append(fl, c)[i] = fl[j]
<1> DEFINE fl2 == Append(fl, c)
           q2 == Append(q, c)
           n == Len(fl)
           k == Len(us)
           m == Len(q)
<1>1. n \in Nat /\ k \in Nat /\ m \in Nat /\ n = k + m
  BY DEF InOrder
<1>2. /\ Len(fl2) = n + 1 /\ fl2[n + 1] = c /\ DOMAIN fl2 = 1 .. n + 1
      /\ \A i \in 1 .. n : fl2[i] = fl[i]
  OBVIOUS
<1>3. /\ Len(q2) = m + 1 /\ q2[m + 1] = c /\ DOMAIN q2 = 1 .. m + 1
      /\ \A i \in 1 .. m : q2[i] = q[i]
  OBVIOUS
<1>4. DOMAIN us = 1 .. k /\ DOMAIN q = 1 .. m /\ DOMAIN fl = 1 .. n
  OBVIOUS
<1>5. /\ \A i \in 1 .. k : us[i].flag = fl[i]
      /\ \A j \in 1 .. m : q[j] = fl[k + j]
      /\ \A i, j \in 1 .. n : fl[i] = fl[j] => i = j
      /\ \A i \in 1 .. n : fl[i] # c
  BY <1>4 DEF InOrder
<1> HIDE DEF fl2, q2, n, k, m
<1>6. Len(fl2) = k + Len(q2)
  BY <1>1, <1>2, <1>3
<1>7. \A i \in 1 .. k : us[i].flag = fl2[i]
  BY <1>1, <1>2, <1>5
<1>8. \A j \in 1 .. m + 1 : q2[j] = fl2[k + j]
  <2> TAKE j \in 1 .. m + 1
  <2>1. CASE j = m + 1
    <3>1. k + j = n + 1
      BY <1>1, <2>1
    <3> QED
      BY <1>2, <1>3, <2>1, <3>1
  <2>2. CASE j # m + 1
    <3>1. j \in 1 .. m /\ k + j \in 1 .. n
      BY <1>1, <2>2
    <3> QED
      BY <1>2, <1>3, <1>5, <3>1
  <2> QED
    BY <2>1, <2>2
<1>9. \A i, j \in 1 .. n + 1 : fl2[i] = fl2[j] => i = j
  <2>1. \A i \in 1 .. n + 1 : i = n + 1 \/ i \in 1 .. n
    BY <1>1
  <2>2. \A i \in 1 .. n : fl2[i] = fl[i] /\ fl2[i] # c
    BY <1>2, <1>5
  <2> QED
    BY <1>2, <1>5, <2>1, <2>2
<1>10. InOrder(fl2, us, q2)
  BY <1>2, <1>3, <1>4, <1>6, <1>7, <1>8, <1>9 DEF InOrder, k
<1>11. \A i \in 1 .. n + 1 : fl2[i] = c \/ \E j \in 1 .. n : fl2[i] = fl[j]
  BY <1>1, <1>2
<1> QED
  BY <1>2, <1>4, <1>10, <1>11 DEF fl2, q2

\* The flag that waits longest gets its argument.
LEMMA FlagIsUsed ==
    ASSUME NEW fl \in Seq(ArgFlags), NEW us \in Seq(UsedArg), NEW q \in Seq(ArgFlags),
           InOrder(fl, us, q), q # <<>>, NEW op \in OpWords
    PROVE  /\ Head(q) \in ArgFlags /\ Tail(q) \in Seq(ArgFlags) /\ ~Uses(us, Head(q))
           /\ [flag |-> Head(q), op |-> op] \in UsedArg
           /\ InOrder(fl, Append(us, [flag |-> Head(q), op |-> op]), Tail(q))
<1> DEFINE c == Head(q)
           t == Tail(q)
           e == [flag |-> c, op |-> op]
           us2 == Append(us, e)
           n == Len(fl)
           k == Len(us)
           m == Len(q)
<1>1. n \in Nat /\ k \in Nat /\ m \in Nat /\ n = k + m /\ m > 0
  BY DEF InOrder
<1>2. c \in ArgFlags /\ t \in Seq(ArgFlags) /\ c = q[1] /\ Len(t) = m - 1 /\ DOMAIN t = 1 .. m - 1
  OBVIOUS
<1>3. \A j \in 1 .. m - 1 : t[j] = q[j + 1]
  OBVIOUS
<1>4. e \in UsedArg /\ e.flag = c
  BY <1>2 DEF UsedArg
<1>5. DOMAIN us = 1 .. k /\ DOMAIN q = 1 .. m /\ DOMAIN fl = 1 .. n
  OBVIOUS
<1>6. /\ \A i \in 1 .. k : us[i].flag = fl[i]
      /\ \A j \in 1 .. m : q[j] = fl[k + j]
      /\ \A i, j \in 1 .. n : fl[i] = fl[j] => i = j
  BY <1>5 DEF InOrder
<1> HIDE DEF e, c, t
<1>7. /\ Len(us2) = k + 1 /\ us2[k + 1] = e /\ DOMAIN us2 = 1 .. k + 1
      /\ \A i \in 1 .. k : us2[i] = us[i]
  BY <1>4
<1> HIDE DEF us2, n, k, m
<1>8. c = fl[k + 1]
  BY <1>1, <1>2, <1>6
<1>9. \A i \in 1 .. k : us[i].flag # c
  BY <1>1, <1>6, <1>8
<1>10. \A i \in 1 .. k + 1 : us2[i].flag = fl[i]
  BY <1>1, <1>4, <1>6, <1>7, <1>8
<1>11. \A j \in 1 .. m - 1 : t[j] = fl[(k + 1) + j]
  BY <1>1, <1>3, <1>6
<1>12. n = Len(us2) + Len(t)
  BY <1>1, <1>2, <1>7
<1>13. InOrder(fl, us2, t)
  BY <1>2, <1>5, <1>6, <1>7, <1>10, <1>11, <1>12 DEF InOrder, n
<1>14. ~Uses(us, c)
  BY <1>5, <1>9 DEF Uses
<1> QED
  BY <1>2, <1>4, <1>13, <1>14 DEF c, t, e, us2

\* Records with one thing changed.
LEMMA ArgChanges ==
    ASSUME NEW a \in ArgRec
    PROVE  /\ \A x \in BOOLEAN : [a EXCEPT !.ok = x] \in ArgRec
           /\ \A x \in BOOLEAN : [a EXCEPT !.stop = x] \in ArgRec
           /\ \A x \in {-1, 0, 1} : [a EXCEPT !.resolve = x] \in ArgRec
           /\ \A x \in SUBSET OnceFlags : [a EXCEPT !.seen = x] \in ArgRec
           /\ \A x \in Ids : [a EXCEPT !.gid = x] \in ArgRec
           /\ \A x, y \in Ids : [a EXCEPT !.uid = x, !.gid = y] \in ArgRec
           /\ \A x, y \in Seq(ArgFlags) : [a EXCEPT !.queue = x, !.flags = y] \in ArgRec
           /\ \A x \in Seq(ArgFlags), y \in Seq(UsedArg) : [a EXCEPT !.queue = x, !.used = y] \in ArgRec
<1> DEFINE Q == Seq(ArgFlags)
           U == Seq(UsedArg)
           O == SUBSET OnceFlags
<1> HIDE DEF Q, U, O
<1>1. ArgRec = [queue : Q, seen : O, uid : Ids, gid : Ids, resolve : {-1, 0, 1}, flags : Q,
                used : U, ok : BOOLEAN, stop : BOOLEAN]
  BY DEF ArgRec, Q, U, O
<1>2. \A x \in BOOLEAN : [a EXCEPT !.ok = x] \in ArgRec
  BY <1>1
<1>3. \A x \in BOOLEAN : [a EXCEPT !.stop = x] \in ArgRec
  BY <1>1
<1>4. \A x \in {-1, 0, 1} : [a EXCEPT !.resolve = x] \in ArgRec
  BY <1>1
<1>5. \A x \in O : [a EXCEPT !.seen = x] \in ArgRec
  BY <1>1
<1>6. \A x \in Ids : [a EXCEPT !.gid = x] \in ArgRec
  BY <1>1
<1>7. \A x, y \in Ids : [a EXCEPT !.uid = x, !.gid = y] \in ArgRec
  BY <1>1
<1>8. \A x, y \in Q : [a EXCEPT !.queue = x, !.flags = y] \in ArgRec
  BY <1>1
<1>9. \A x \in Q, y \in U : [a EXCEPT !.queue = x, !.used = y] \in ArgRec
  BY <1>1
<1> QED
  BY <1>2, <1>3, <1>4, <1>5, <1>6, <1>7, <1>8, <1>9 DEF Q, U, O

\* One more argument that was used, and what it may do to the user and the group.
LEMMA UseArg ==
    ASSUME NEW us \in Seq(UsedArg), NEW e \in UsedArg, NEW u \in Ids, NEW g \in Ids,
           AsTold(us, u, g), ~Uses(us, e.flag)
    PROVE  LET us2 == Append(us, e)
           IN /\ e.flag = "c" => AsTold(us2, u, g)
              /\ e.flag = "u" /\ e.op \in DOMAIN Users =>
                   AsTold(us2, Users[e.op].uid, IF g = -1 THEN Users[e.op].gid ELSE g)
              /\ e.flag = "g" /\ e.op \in DOMAIN Groups => AsTold(us2, u, Groups[e.op])
<1> DEFINE us2 == Append(us, e)
           k == Len(us)
<1>1. /\ k \in Nat /\ DOMAIN us2 = 1 .. k + 1 /\ DOMAIN us = 1 .. k /\ us2[k + 1] = e
      /\ \A i \in 1 .. k : us2[i] = us[i]
  OBVIOUS
<1> HIDE DEF us2, k
<1>2. \A i \in DOMAIN us2 : us2[i] = e \/ (i \in DOMAIN us /\ us2[i] = us[i])
  BY <1>1
<1>3. \A f : Uses(us2, f) <=> Uses(us, f) \/ e.flag = f
  BY <1>1, <1>2 DEF Uses
<1>4. \A i \in DOMAIN us : us[i].flag # e.flag
  BY DEF Uses
<1>5. ASSUME e.flag = "c" PROVE AsTold(us2, u, g)
  BY <1>2, <1>3, <1>5 DEF AsTold
<1>6. ASSUME e.flag = "u", e.op \in DOMAIN Users
      PROVE  AsTold(us2, Users[e.op].uid, IF g = -1 THEN Users[e.op].gid ELSE g)
  <2> DEFINE u2 == Users[e.op].uid
             g2 == IF g = -1 THEN Users[e.op].gid ELSE g
  <2>1. u = -1
    BY <1>6 DEF AsTold
  <2>2. ~Uses(us, "g") => g = -1
    BY <2>1, UserAssumption DEF AsTold
  <2>3. Uses(us, "g") => g # -1
    BY UserAssumption DEF AsTold, Uses
  <2>4. \A i \in DOMAIN us2 : us2[i].flag = "u" => us2[i].op \in DOMAIN Users /\ u2 = Users[us2[i].op].uid
    BY <1>2, <1>4, <1>6
  <2>5. \A i \in DOMAIN us2 : us2[i].flag = "g" => us2[i].op \in DOMAIN Groups /\ g2 = Groups[us2[i].op]
    BY <1>2, <1>6, <2>3 DEF AsTold, Uses
  <2>6. ~Uses(us2, "g") => g2 = Users[e.op].gid
    BY <1>3, <2>2
  <2> QED
    BY <1>3, <1>6, <2>4, <2>5, <2>6 DEF AsTold
<1>7. ASSUME e.flag = "g", e.op \in DOMAIN Groups PROVE AsTold(us2, u, Groups[e.op])
  <2>1. \A i \in DOMAIN us2 : us2[i].flag = "g" => us2[i] = e
    BY <1>2, <1>4, <1>7
  <2> QED
    BY <1>2, <1>3, <1>7, <2>1 DEF AsTold
<1> QED
  BY <1>5, <1>6, <1>7 DEF us2

\* An argument given is used for the flag that waits longest.
LEMMA OptArgTold ==
    ASSUME NEW a \in ArgRec, a.ok, Told(a), NEW op \in OpWords
    PROVE  OptArg(a, op) \in ArgRec /\ Told(OptArg(a, op))
<1> DEFINE e == [flag |-> Head(a.queue), op |-> op]
           t == Tail(a.queue)
           us == Append(a.used, e)
           b == [a EXCEPT !.queue = t, !.used = us]
<1>1. /\ a.queue \in Seq(ArgFlags) /\ a.flags \in Seq(ArgFlags) /\ a.used \in Seq(UsedArg)
      /\ a.uid \in Ids /\ a.gid \in Ids
  BY DEF ArgRec
<1>2. InOrder(a.flags, a.used, a.queue) /\ AsTold(a.used, a.uid, a.gid)
  BY DEF Told
<1>3. CASE a.queue = <<>>
  <2>1. OptArg(a, op) = [a EXCEPT !.ok = FALSE]
    BY <1>3 DEF OptArg
  <2>2. [a EXCEPT !.ok = FALSE].ok = FALSE
    BY DEF ArgRec
  <2> QED
    BY <2>1, <2>2, ArgChanges DEF Told
<1>4. CASE a.queue # <<>>
  <2>1. /\ Head(a.queue) \in ArgFlags /\ t \in Seq(ArgFlags) /\ ~Uses(a.used, Head(a.queue))
        /\ e \in UsedArg /\ InOrder(a.flags, us, t)
    BY <1>1, <1>2, <1>4, FlagIsUsed
  <2>2. us \in Seq(UsedArg)
    BY <1>1, <2>1
  <2>3. b \in ArgRec
    BY <2>1, <2>2, ArgChanges
  <2>4. /\ b.queue = t /\ b.used = us /\ b.flags = a.flags /\ b.seen = a.seen
        /\ b.uid = a.uid /\ b.gid = a.gid /\ b.ok = TRUE
    BY DEF ArgRec
  <2>5. /\ e.flag = "c" => AsTold(us, a.uid, a.gid)
        /\ e.flag = "u" /\ op \in DOMAIN Users =>
             AsTold(us, Users[op].uid, IF a.gid = -1 THEN Users[op].gid ELSE a.gid)
        /\ e.flag = "g" /\ op \in DOMAIN Groups => AsTold(us, a.uid, Groups[op])
    <3>1. e.flag = Head(a.queue) /\ e.op = op
      OBVIOUS
    <3>2. ~Uses(a.used, e.flag)
      BY <2>1, <3>1
    <3> HIDE DEF e
    <3> QED
      BY <1>1, <1>2, <2>1, <3>1, <3>2, UseArg
  <2>6. \A i \in DOMAIN a.flags : a.flags[i] \in a.seen
    BY DEF Told
  <2>7. OptArg(a, op) = (CASE e.flag = "u" -> ParseUser(b, op)
                           [] e.flag = "g" -> ParseGroup(b, op)
                           [] OTHER -> b)
    BY <1>4 DEF OptArg, Waiting
  <2>8. e.flag \in ArgFlags
    BY <2>1
  <2> HIDE DEF b, e, us, t
  <2>9. [b EXCEPT !.ok = FALSE] \in ArgRec /\ Told([b EXCEPT !.ok = FALSE])
    <3>1. [b EXCEPT !.ok = FALSE].ok = FALSE
      BY <2>3 DEF ArgRec
    <3> QED
      BY <2>3, <3>1, ArgChanges DEF Told
  <2>10. CASE e.flag = "u"
    <3>1. OptArg(a, op) = ParseUser(b, op)
      BY <2>7, <2>10
    <3>2. CASE op \notin DOMAIN Users
      BY <2>9, <3>1, <3>2 DEF ParseUser
    <3>3. CASE op \in DOMAIN Users
      <4> DEFINE u2 == Users[op].uid
                 g2 == IF b.gid = -1 THEN Users[op].gid ELSE b.gid
                 r == [b EXCEPT !.uid = u2, !.gid = g2]
      <4>1. OptArg(a, op) = r
        BY <3>1, <3>3 DEF ParseUser
      <4>2. u2 \in Ids /\ g2 \in Ids
        BY <1>1, <2>4, <3>3, UserAssumption DEF Ids
      <4>3. AsTold(us, u2, g2)
        BY <2>4, <2>5, <2>10, <3>3
      <4> HIDE DEF u2, g2
      <4>4. r \in ArgRec
        BY <2>3, <4>2, ArgChanges
      <4>5. r.queue = t /\ r.used = us /\ r.flags = a.flags /\ r.seen = a.seen /\ r.uid = u2 /\ r.gid = g2
        BY <2>3, <2>4 DEF ArgRec
      <4> HIDE DEF r
      <4>6. Told(r)
        BY <2>1, <2>6, <4>3, <4>5 DEF Told
      <4> QED
        BY <4>1, <4>4, <4>6
    <3> QED
      BY <3>2, <3>3
  <2>11. CASE e.flag = "g"
    <3>1. OptArg(a, op) = ParseGroup(b, op)
      BY <2>7, <2>11
    <3>2. CASE op \notin DOMAIN Groups
      BY <2>9, <3>1, <3>2 DEF ParseGroup
    <3>3. CASE op \in DOMAIN Groups
      <4> DEFINE g2 == Groups[op]
                 r == [b EXCEPT !.gid = g2]
      <4>1. OptArg(a, op) = r
        BY <3>1, <3>3 DEF ParseGroup
      <4>2. g2 \in Ids
        BY <3>3, UserAssumption DEF Ids
      <4>3. AsTold(us, a.uid, g2)
        BY <2>5, <2>11, <3>3
      <4> HIDE DEF g2
      <4>4. r \in ArgRec
        BY <2>3, <4>2, ArgChanges
      <4>5. r.queue = t /\ r.used = us /\ r.flags = a.flags /\ r.seen = a.seen /\ r.uid = a.uid /\ r.gid = g2
        BY <2>3, <2>4 DEF ArgRec
      <4> HIDE DEF r
      <4>6. Told(r)
        BY <2>1, <2>6, <4>3, <4>5 DEF Told
      <4> QED
        BY <4>1, <4>4, <4>6
    <3> QED
      BY <3>2, <3>3
  <2>12. CASE e.flag = "c"
    <3>1. OptArg(a, op) = b
      BY <2>7, <2>12
    <3>2. Told(b)
      BY <2>1, <2>4, <2>5, <2>6, <2>12 DEF Told
    <3> QED
      BY <2>3, <3>1, <3>2
  <2> QED
    BY <2>8, <2>10, <2>11, <2>12 DEF ArgFlags
<1> QED
  BY <1>3, <1>4

\* One letter of a word of flags.
LEMMA FlagStepTold ==
    ASSUME NEW a \in ArgRec, Told(a), NEW w \in Words, NEW i \in 1 .. Len(w)
    PROVE  FlagStep(a, w, i) \in ArgRec /\ Told(FlagStep(a, w, i))
<1> DEFINE c == w[i]
           b == [a EXCEPT !.seen = @ \cup ({c} \cap OnceFlags)]
           op == SubSeq(w, i, Len(w))
<1>1. CASE ~a.ok \/ a.stop
  BY <1>1 DEF FlagStep
<1>2. CASE a.ok /\ ~a.stop
  <2>1. a.seen \in SUBSET OnceFlags
    BY DEF ArgRec
  <2>2. b \in ArgRec
    <3>1. a.seen \cup ({c} \cap OnceFlags) \in SUBSET OnceFlags
      BY <2>1
    <3> QED
      BY <3>1, ArgChanges
  <2>3. /\ b.queue = a.queue /\ b.used = a.used /\ b.flags = a.flags /\ b.uid = a.uid /\ b.gid = a.gid
        /\ b.ok /\ b.seen = a.seen \cup ({c} \cap OnceFlags)
    BY <1>2 DEF ArgRec
  <2>4. Told(b)
    BY <1>2, <2>3 DEF Told
  <2>5. op \in OpWords
    <3>1. i \in Nat
      BY WordAssumption
    <3>2. op \in RestsOf(w)
      BY <3>1, Zenon DEF RestsOf
    <3> HIDE DEF op
    <3> QED
      BY <3>2 DEF OpWords
  <2>6. FlagStep(a, w, i) =
          (IF c \in a.seen \/ c \notin {"c", "g", "u", "R", "r", "f", "v", "h", "V"}
             THEN [OptArg(b, op) EXCEPT !.stop = TRUE]
           ELSE CASE c \in {"c", "g", "u"} -> [b EXCEPT !.queue = Append(@, c), !.flags = Append(@, c)]
                  [] c \in {"R", "r"} -> [b EXCEPT !.resolve = IF c = "r" THEN 1 ELSE 0]
                  [] c \in {"h", "V"} -> [b EXCEPT !.ok = FALSE]
                  [] OTHER -> b)
    BY <1>2 DEF FlagStep, OnceFlags
  <2> HIDE DEF b, c, op
  <2>7. CASE c \in a.seen \/ c \notin {"c", "g", "u", "R", "r", "f", "v", "h", "V"}
    <3> DEFINE o == OptArg(b, op)
               r == [o EXCEPT !.stop = TRUE]
    <3>1. o \in ArgRec /\ Told(o)
      BY <2>2, <2>3, <2>4, <2>5, OptArgTold
    <3>2. FlagStep(a, w, i) = r
      BY <2>6, <2>7
    <3> HIDE DEF o
    <3>3. /\ r.queue = o.queue /\ r.used = o.used /\ r.flags = o.flags /\ r.uid = o.uid /\ r.gid = o.gid
          /\ r.ok = o.ok /\ r.seen = o.seen
      BY <3>1 DEF ArgRec
    <3>4. r \in ArgRec
      BY <3>1, ArgChanges
    <3> HIDE DEF r
    <3>5. Told(r)
      BY <3>1, <3>3 DEF Told
    <3> QED
      BY <3>2, <3>4, <3>5
  <2>8. CASE c \notin a.seen /\ c \in {"c", "g", "u"}
    <3> DEFINE q2 == Append(b.queue, c)
               f2 == Append(b.flags, c)
               r == [b EXCEPT !.queue = q2, !.flags = f2]
    <3>1. c \in ArgFlags /\ c \in OnceFlags
      BY <2>8 DEF ArgFlags, OnceFlags
    <3>2. b.queue \in Seq(ArgFlags) /\ b.flags \in Seq(ArgFlags) /\ b.used \in Seq(UsedArg)
      BY <2>2 DEF ArgRec
    <3>3. q2 \in Seq(ArgFlags) /\ f2 \in Seq(ArgFlags)
      BY <3>1, <3>2
    <3>4. FlagStep(a, w, i) = r
      BY <2>6, <2>8
    <3>5. InOrder(b.flags, b.used, b.queue) /\ \A j \in DOMAIN b.flags : b.flags[j] \in a.seen
      BY <1>2, <2>3 DEF Told
    <3>6. \A j \in DOMAIN b.flags : b.flags[j] # c
      BY <2>8, <3>5
    <3>7. /\ InOrder(f2, b.used, q2)
          /\ \A j \in DOMAIN f2 : f2[j] = c \/ \E k \in DOMAIN b.flags : f2[j] = b.flags[k]
      BY <3>1, <3>2, <3>5, <3>6, FlagWaits
    <3> HIDE DEF q2, f2
    <3>8. \A j \in DOMAIN f2 : f2[j] \in b.seen
      BY <2>3, <3>1, <3>5, <3>7
    <3>9. r.queue = q2 /\ r.used = b.used /\ r.flags = f2 /\ r.uid = b.uid /\ r.gid = b.gid /\ r.seen = b.seen
      BY <2>2 DEF ArgRec
    <3>10. r \in ArgRec
      BY <2>2, <3>3, ArgChanges
    <3> HIDE DEF r
    <3>11. Told(r)
      BY <2>3, <2>4, <3>7, <3>8, <3>9 DEF Told
    <3> QED
      BY <3>4, <3>10, <3>11
  <2>9. CASE c \notin a.seen /\ c \in {"R", "r"}
    <3> DEFINE x == IF c = "r" THEN 1 ELSE 0
               r == [b EXCEPT !.resolve = x]
    <3>1. FlagStep(a, w, i) = r
      BY <2>6, <2>9
    <3>2. x \in {-1, 0, 1}
      OBVIOUS
    <3> HIDE DEF x
    <3>3. r \in ArgRec
      BY <2>2, <3>2, ArgChanges
    <3>4. /\ r.queue = b.queue /\ r.used = b.used /\ r.flags = b.flags /\ r.uid = b.uid /\ r.gid = b.gid
          /\ r.ok = b.ok /\ r.seen = b.seen
      BY <2>2 DEF ArgRec
    <3> HIDE DEF r
    <3>5. Told(r)
      BY <2>4, <3>4 DEF Told
    <3> QED
      BY <3>1, <3>3, <3>5
  <2>10. CASE c \notin a.seen /\ c \in {"h", "V"}
    <3> DEFINE r == [b EXCEPT !.ok = FALSE]
    <3>1. FlagStep(a, w, i) = r
      BY <2>6, <2>10
    <3>2. r \in ArgRec /\ r.ok = FALSE
      BY <2>2, ArgChanges DEF ArgRec
    <3> QED
      BY <3>1, <3>2 DEF Told
  <2>11. CASE c \notin a.seen /\ c \in {"f", "v"}
    <3>1. FlagStep(a, w, i) = b
      BY <2>6, <2>11
    <3> QED
      BY <2>2, <2>4, <3>1
  <2> QED
    BY <2>7, <2>8, <2>9, <2>10, <2>11
<1>3. a.ok \in BOOLEAN /\ a.stop \in BOOLEAN
  BY DEF ArgRec
<1> QED
  BY <1>1, <1>2, <1>3

\* Tables of n rows, the first of them x, each other one made from the row before.
Tables(S, f, x, n) ==
    {h \in [1 .. n -> S] : \A k \in 1 .. n : h[k] = IF k = 1 THEN x ELSE f[k][h[k - 1]]}

\* A table made row by row exists.
LEMMA TableExists ==
    ASSUME NEW S, NEW f \in [Nat -> [S -> S]], NEW x \in S, NEW n \in Nat
    PROVE  Tables(S, f, x, n) # {}
<1> USE DEF Tables
<1> DEFINE Good(m, h) == h \in Tables(S, f, x, m)
           Bad == {m \in Nat : \A h : ~Good(m, h)}
<1>1. SUFFICES ASSUME Bad # {} PROVE FALSE
  OBVIOUS
<1>2. PICK m \in Bad : \A k \in Bad : m <= k
  <2> HIDE DEF Good
  <2>1. Bad \subseteq Nat
    OBVIOUS
  <2> HIDE DEF Bad
  <2> QED
    BY <1>1, <2>1, LeastPosition
<1>3. m \in Nat /\ m # 0
  <2>1. Good(0, [k \in 1 .. 0 |-> x])
    OBVIOUS
  <2> QED
    BY <1>2, <2>1
<1>4. m - 1 \in Nat /\ m - 1 \notin Bad
  <2> HIDE DEF Bad
  <2>1. ~(m <= m - 1)
    BY <1>3
  <2> QED
    BY <1>2, <1>3, <2>1
<1>5. PICK h : Good(m - 1, h)
  BY <1>4
<1> DEFINE y == IF m = 1 THEN x ELSE f[m][h[m - 1]]
           g == [k \in 1 .. m |-> IF k = m THEN y ELSE h[k]]
<1>6. y \in S
  BY <1>3, <1>4, <1>5
<1>7. g \in [1 .. m -> S]
  BY <1>3, <1>5, <1>6
<1>8. \A k \in 1 .. m : g[k] = IF k = 1 THEN x ELSE f[k][g[k - 1]]
  <2> TAKE k \in 1 .. m
  <2>1. CASE k = m
    BY <1>3, <2>1
  <2>2. CASE k # m
    <3>1. k \in 1 .. m - 1 /\ (k # 1 => k - 1 \in 1 .. m /\ k - 1 # m)
      BY <1>3, <2>2
    <3>2. g[k] = h[k] /\ (k # 1 => g[k - 1] = h[k - 1])
      BY <2>2, <3>1
    <3> HIDE DEF g
    <3> QED
      BY <1>5, <3>1, <3>2
  <2> QED
    BY <2>1, <2>2
<1> HIDE DEF g
<1>9. Good(m, g)
  BY <1>7, <1>8
<1> QED
  BY <1>2, <1>9

\* What holds of a table's first row and is kept from row to row holds of its last.
LEMMA LastRow ==
    ASSUME NEW n \in Nat \ {0}, NEW h, NEW P, h[1] \in P,
           \A k \in 2 .. n : h[k - 1] \in P => h[k] \in P
    PROVE  h[n] \in P
<1> DEFINE Bad == {k \in 1 .. n : h[k] \notin P}
<1>1. SUFFICES ASSUME Bad # {} PROVE FALSE
  OBVIOUS
<1>2. PICK m \in Bad : \A k \in Bad : m <= k
  <2>1. Bad \subseteq Nat
    OBVIOUS
  <2> HIDE DEF Bad
  <2> QED
    BY <1>1, <2>1, LeastPosition
<1>3. m \in 2 .. n /\ m - 1 \in 1 .. n /\ m - 1 \notin Bad
  BY <1>2
<1> QED
  BY <1>2, <1>3

\* All letters of a word of flags.
LEMMA FlagWordTold ==
    ASSUME ArgState \in ArgRec, Told(ArgState), NEW w \in Words, Len(w) > 0
    PROVE  FlagWord(w) \in ArgRec /\ Told(FlagWord(w))
<1> DEFINE x == [ArgState EXCEPT !.ok = needargs = <<>>]
           n == Len(w)
           S == {a \in ArgRec : Told(a)}
           f == [k \in Nat |-> [a \in S |-> IF k \in 1 .. n THEN FlagStep(a, w, k) ELSE a]]
           Def(h) == [i \in 1 .. Len(w) |-> IF i = 1 THEN [ArgState EXCEPT !.ok = needargs = <<>>]
                                            ELSE FlagStep(h[i - 1], w, i)]
           read == CHOOSE h : h = Def(h)
<1>1. x \in S
  <2> DEFINE s == ArgState
             z == needargs = <<>>
  <2>1. z \in BOOLEAN
    OBVIOUS
  <2>2. s.ok = TRUE
    BY DEF ArgState
  <2> HIDE DEF s, z
  <2>3. [s EXCEPT !.ok = z] \in ArgRec
    BY <2>1, ArgChanges DEF s
  <2>4. LET y == [s EXCEPT !.ok = z]
        IN y.queue = s.queue /\ y.used = s.used /\ y.flags = s.flags /\ y.uid = s.uid /\ y.gid = s.gid /\ y.seen = s.seen
    BY DEF ArgRec, s
  <2>5. Told([s EXCEPT !.ok = z])
    BY <2>2, <2>4 DEF Told, s
  <2> QED
    BY <2>3, <2>5 DEF s, z
<1>2. n \in Nat /\ n \in Nat \ {0}
  BY WordAssumption
<1>3. \A k \in 1 .. n, a \in S : FlagStep(a, w, k) \in S
  BY FlagStepTold
<1> HIDE DEF x, S
<1>4. f \in [Nat -> [S -> S]]
  BY <1>3
<1>5. PICK h \in [1 .. n -> S] : \A k \in 1 .. n : h[k] = IF k = 1 THEN x ELSE f[k][h[k - 1]]
  <2> HIDE DEF f, n
  <2>1. Tables(S, f, x, n) # {}
    BY <1>1, <1>2, <1>4, TableExists
  <2> QED
    BY <2>1 DEF Tables
<1>6. \A k \in 1 .. n : h[k] = IF k = 1 THEN x ELSE FlagStep(h[k - 1], w, k)
  <2> TAKE k \in 1 .. n
  <2>1. CASE k = 1
    BY <1>5, <2>1
  <2>2. CASE k # 1
    <3>1. k - 1 \in 1 .. n /\ k \in Nat
      BY <1>2, <2>2
    <3>2. f[k][h[k - 1]] = FlagStep(h[k - 1], w, k)
      BY <1>5, <3>1
    <3> QED
      BY <1>5, <2>2, <3>2
  <2> QED
    BY <2>1, <2>2
<1>7. h = Def(h)
  BY <1>6 DEF x
<1>8. FlagWord(w) = read[n]
  BY DEF FlagWord
<1> HIDE DEF Def
<1>9. read = Def(read)
  BY <1>7, Zenon
<1> HIDE DEF read
<1>10. read = [i \in 1 .. n |-> IF i = 1 THEN x ELSE FlagStep(read[i - 1], w, i)]
  BY <1>9 DEF Def, x
<1> HIDE DEF n
<1>11. read[1] = x /\ \A k \in 2 .. n : read[k] = FlagStep(read[k - 1], w, k)
  <2>1. 1 \in 1 .. n
    BY <1>2
  <2>2. read[1] = x
    BY <1>10, <2>1
  <2>3. ASSUME NEW k \in 2 .. n PROVE read[k] = FlagStep(read[k - 1], w, k)
    <3>1. k \in 1 .. n /\ k # 1
      BY <1>2
    <3> QED
      BY <1>10, <3>1
  <2> QED
    BY <2>2, <2>3
<1>12. \A k \in 2 .. n : read[k - 1] \in S => read[k] \in S
  <2> TAKE k \in 2 .. n
  <2>1. k \in 1 .. n
    BY <1>2
  <2> QED
    BY <1>3, <1>11, <2>1
<1>13. read[n] \in S
  BY <1>1, <1>2, <1>11, <1>12, LastRow
<1> QED
  BY <1>8, <1>13 DEF S

-----------------------------------------------------------------------------
\* A line said it.
SaidIt(sd, key, ok) ==
    \E i \in DOMAIN sd : /\ sd[i].in = "global" /\ sd[i].line.is = "setting" /\ sd[i].line.key = key
                         /\ sd[i].line.val \in ok

\* What the file may still change.
FromFile(us, u, g, sd) ==
    /\ u \in Ids /\ g \in Ids
    /\ \A i \in DOMAIN us : us[i].flag = "u" => u = Users[us[i].op].uid /\ u \in Nat
    /\ \A i \in DOMAIN us : us[i].flag = "g" => g = Groups[us[i].op] /\ g \in Nat
    /\ u \in Nat => /\ g \in Nat
                    /\ \/ Uses(us, "g") \/ SaidIt(sd, "group", GroupsOf(g))
                       \/ \E w \in DOMAIN Users : u = Users[w].uid /\ g = Users[w].gid
    /\ u = -1 => ~SaidIt(sd, "user", DOMAIN Users)
    /\ u = -1 /\ g \in Nat => Uses(us, "g") \/ SaidIt(sd, "group", GroupsOf(g))

\* Every flag got its argument.
AllUsed(fl, us) == /\ fl \in Seq(ArgFlags) /\ us \in Seq(UsedArg)
                   /\ Len(fl) = Len(us) /\ \A i \in DOMAIN us : us[i].flag = fl[i]

RunInv ==
    /\ FileRead
    /\ phase = "args" => ArgState \in ArgRec /\ Told(ArgState) /\ said = <<>>
    /\ phase \notin {"args", "exit"} => AllUsed(flags, used) /\ FromFile(used, uid, gid, said)

LEMMA RunIs == RunInv => RunsAsTold
<1> SUFFICES ASSUME RunInv, phase \notin {"args", "exit", "undefined"}
    PROVE  /\ [i \in DOMAIN used |-> used[i].flag] = flags
           /\ "u" \in FlagsUsed => uid = Users[ArgOf("u")].uid
           /\ "g" \in FlagsUsed => gid = Groups[ArgOf("g")]
           /\ uid >= 0 => /\ gid >= 0
                          /\ "g" \in FlagsUsed \/ SaidGlobal("group", GroupsOf(gid)) # {}
                               \/ gid \in {Users[w].gid : w \in {w \in DOMAIN Users : Users[w].uid = uid}}
           /\ uid < 0 => "u" \notin FlagsUsed /\ SaidGlobal("user", DOMAIN Users) = {}
  BY DEF RunsAsTold
<1>1. AllUsed(flags, used) /\ FromFile(used, uid, gid, said)
  BY DEF RunInv
<1>2. \A f : f \in FlagsUsed <=> Uses(used, f)
  BY DEF FlagsUsed, Uses
<1>3. \A key, ok : SaidGlobal(key, ok) # {} <=> SaidIt(said, key, ok)
  <2> TAKE key, ok
  <2>1. SaidGlobal(key, ok) # {} => SaidIt(said, key, ok)
    BY DEF SaidGlobal, IsGlobal, SaidIt
  <2>2. ASSUME SaidIt(said, key, ok) PROVE SaidGlobal(key, ok) # {}
    <3>1. PICK i \in DOMAIN said : /\ said[i].in = "global" /\ said[i].line.is = "setting"
                                   /\ said[i].line.key = key /\ said[i].line.val \in ok
      BY <2>2 DEF SaidIt
    <3>2. said[i].line.val \in SaidGlobal(key, ok)
      BY <3>1 DEF SaidGlobal, IsGlobal
    <3> QED
      BY <3>2
  <2> QED
    BY <2>1, <2>2
<1>4. \A f : Uses(used, f) => \E i \in DOMAIN used : used[i].flag = f /\ ArgOf(f) = used[i].op
  BY DEF Uses, ArgOf
<1>5. [i \in DOMAIN used |-> used[i].flag] = flags
  BY <1>1 DEF AllUsed
<1>6. "u" \in FlagsUsed => uid = Users[ArgOf("u")].uid /\ uid \in Nat
  BY <1>1, <1>2, <1>4 DEF FromFile
<1>7. "g" \in FlagsUsed => gid = Groups[ArgOf("g")]
  BY <1>1, <1>2, <1>4 DEF FromFile
<1>8. ASSUME uid >= 0
      PROVE  /\ gid >= 0
             /\ "g" \in FlagsUsed \/ SaidGlobal("group", GroupsOf(gid)) # {}
                  \/ gid \in {Users[w].gid : w \in {w \in DOMAIN Users : Users[w].uid = uid}}
  <2>1. uid \in Nat
    BY <1>1, <1>8 DEF FromFile, Ids
  <2>2. gid >= 0
    BY <1>1, <2>1 DEF FromFile
  <2> QED
    BY <1>1, <1>2, <1>3, <2>1, <2>2 DEF FromFile
<1>9. ASSUME uid < 0 PROVE "u" \notin FlagsUsed /\ SaidGlobal("user", DOMAIN Users) = {}
  <2>1. uid = -1
    BY <1>1, <1>9 DEF FromFile, Ids
  <2>2. "u" \notin FlagsUsed
    BY <1>6, <2>1
  <2> QED
    BY <1>1, <1>3, <2>1, <2>2 DEF FromFile
<1> QED
  BY <1>5, <1>6, <1>7, <1>8, <1>9

\* A record of arguments is as good as the fields that matter.
LEMMA ToldFields ==
    ASSUME NEW a \in ArgRec, Told(a), a.ok
    PROVE  LET s == [queue |-> a.queue, seen |-> a.seen, uid |-> a.uid, gid |-> a.gid,
                     resolve |-> a.resolve, flags |-> a.flags, used |-> a.used,
                     ok |-> TRUE, stop |-> FALSE]
           IN s \in ArgRec /\ Told(s)
<1> DEFINE s == [queue |-> a.queue, seen |-> a.seen, uid |-> a.uid, gid |-> a.gid,
                 resolve |-> a.resolve, flags |-> a.flags, used |-> a.used,
                 ok |-> TRUE, stop |-> FALSE]
<1>1. s \in ArgRec
  BY DEF ArgRec
<1>2. /\ s.queue = a.queue /\ s.seen = a.seen /\ s.uid = a.uid /\ s.gid = a.gid
      /\ s.flags = a.flags /\ s.used = a.used
  OBVIOUS
<1> HIDE DEF s
<1>3. Told(s)
  BY <1>2 DEF Told
<1> QED
  BY <1>1, <1>3 DEF s

\* Before the command line is read nothing was used.
LEMMA RunInit == ServiceInit => RunInv
<1> SUFFICES ASSUME ServiceInit PROVE RunInv
  OBVIOUS
<1> DEFINE s == ArgState
<1>1. phase = "args" /\ said = <<>> /\ FileRead
  BY LimitsInit DEF ServiceInit, ConfigInit, LimitsInv
<1>2. s = [queue |-> <<>>, seen |-> {}, uid |-> -1, gid |-> -1, resolve |-> -1,
           flags |-> <<>>, used |-> <<>>, ok |-> TRUE, stop |-> FALSE]
  BY DEF ServiceInit, ConfigInit, ArgState
<1> HIDE DEF s
<1>3. s \in ArgRec
  BY <1>2 DEF ArgRec, Ids
<1>4. s.queue = <<>> /\ s.used = <<>> /\ s.flags = <<>> /\ s.uid = -1 /\ s.gid = -1
  BY <1>2
<1>5. InOrder(<<>>, <<>>, <<>>) /\ AsTold(<<>>, -1, -1)
  BY DEF InOrder, AsTold, Uses
<1>6. Told(s)
  BY <1>4, <1>5 DEF Told
<1> QED
  BY <1>1, <1>3, <1>6 DEF RunInv, s

\* A word of the command line.
LEMMA RunArgument ==
    ASSUME RunInv, NEW w \in Words, ReadArgument(w)
    PROVE  RunInv'
<1> DEFINE s == ArgState
           a == IF BeginsWithDash(w) THEN FlagWord(w)
                ELSE IF ~escapedash /\ needargs # <<>> THEN OptArg(ArgState, w)
                ELSE [ArgState EXCEPT !.ok = FALSE]
<1>1. phase = "args" /\ s \in ArgRec /\ Told(s) /\ said = <<>> /\ s.ok = TRUE
  <2>1. phase = "args"
    BY DEF ReadArgument
  <2> QED
    BY <2>1 DEF RunInv, ArgState
<1>2. FileRead' /\ said' = said
  BY DEF ReadArgument, RunInv, FileRead, listVars, serverVars
<1>3. SUFFICES phase' \in {"args", "exit"} /\ (phase' = "args" => ArgState' \in ArgRec /\ Told(ArgState'))
  BY <1>1, <1>2 DEF RunInv
<1>4. CASE BeginsWithDash(w) /\ w = <<"-", "-">>
  <2>1. UNCHANGED <<phase, runasVars, needargs, seen, flags, used>>
    BY <1>4 DEF ReadArgument
  <2>2. phase' = phase /\ ArgState' = ArgState
    BY <2>1 DEF ArgState, runasVars
  <2> QED
    BY <1>1, <2>2
<1>5. CASE ~(BeginsWithDash(w) /\ w = <<"-", "-">>)
  <2>1. /\ phase' = IF a.ok THEN "args" ELSE "exit"
        /\ needargs' = a.queue /\ seen' = a.seen
        /\ uid' = a.uid /\ gid' = a.gid /\ resolveHosts' = a.resolve
        /\ flags' = a.flags /\ used' = a.used
    BY <1>5 DEF ReadArgument
  <2>2. a \in ArgRec /\ Told(a)
    <3>1. CASE BeginsWithDash(w)
      <4>1. Len(w) > 0
        BY <3>1, WordAssumption DEF BeginsWithDash
      <4>2. FlagWord(w) \in ArgRec /\ Told(FlagWord(w))
        BY <1>1, <4>1, FlagWordTold
      <4> QED
        BY <3>1, <4>2
    <3>2. CASE ~BeginsWithDash(w) /\ ~escapedash /\ needargs # <<>>
      <4>1. w \in OpWords
        BY DEF OpWords
      <4>2. OptArg(s, w) \in ArgRec /\ Told(OptArg(s, w))
        <5> HIDE DEF s
        <5> QED
          BY <1>1, <4>1, OptArgTold
      <4> QED
        BY <3>2, <4>2
    <3>3. CASE ~BeginsWithDash(w) /\ ~(~escapedash /\ needargs # <<>>)
      <4>1. a = [s EXCEPT !.ok = FALSE]
        BY <3>3
      <4> HIDE DEF a, s
      <4>2. a \in ArgRec /\ a.ok = FALSE
        BY <1>1, <4>1, ArgChanges DEF ArgRec
      <4> QED
        BY <4>2 DEF Told
    <3> QED
      BY <3>1, <3>2, <3>3
  <2> HIDE DEF a
  <2>3. ASSUME a.ok PROVE ArgState' \in ArgRec /\ Told(ArgState')
    <3>1. ArgState' = [queue |-> a.queue, seen |-> a.seen, uid |-> a.uid, gid |-> a.gid,
                       resolve |-> a.resolve, flags |-> a.flags, used |-> a.used,
                       ok |-> TRUE, stop |-> FALSE]
      BY <2>1 DEF ArgState
    <3> QED
      BY <2>2, <2>3, <3>1, ToldFields
  <2> QED
    BY <2>1, <2>3
<1> QED
  BY <1>4, <1>5

\* The command line was read.
LEMMA RunArgumentsDone ==
    ASSUME RunInv, ArgumentsDone
    PROVE  RunInv'
<1> DEFINE s == ArgState
<1>1. phase = "args" /\ s \in ArgRec /\ Told(s) /\ said = <<>> /\ s.ok = TRUE
  <2>1. phase = "args"
    BY DEF ArgumentsDone
  <2> QED
    BY <2>1 DEF RunInv, ArgState
<1>2. /\ FileRead' /\ said' = said /\ flags' = flags /\ used' = used /\ uid' = uid /\ gid' = gid
      /\ phase' = IF needargs = <<>> THEN "file" ELSE "exit"
  BY DEF ArgumentsDone, RunInv, FileRead, listVars, serverVars, argVars, runasVars
<1>3. SUFFICES ASSUME needargs = <<>>
               PROVE  AllUsed(flags, used) /\ FromFile(used, uid, gid, said)
  BY <1>2 DEF RunInv, AllUsed, FromFile
<1>4. /\ s.queue = <<>> /\ s.used = used /\ s.flags = flags /\ s.uid = uid /\ s.gid = gid
  BY <1>3 DEF ArgState
<1> HIDE DEF s
<1>5. InOrder(flags, used, <<>>) /\ AsTold(used, uid, gid)
  BY <1>1, <1>4 DEF Told
<1>6. flags \in Seq(ArgFlags) /\ used \in Seq(UsedArg) /\ uid \in Ids /\ gid \in Ids
  BY <1>1, <1>4 DEF ArgRec
<1>7. AllUsed(flags, used)
  BY <1>5, <1>6 DEF AllUsed, InOrder
<1>8. \A key, ok : ~SaidIt(said, key, ok)
  BY <1>1 DEF SaidIt
<1>9. uid = -1 => ~Uses(used, "u")
  BY <1>5, UserAssumption DEF AsTold, Uses
<1>10. uid \in Nat => gid \in Nat
  <2>1. Uses(used, "g") => gid \in Nat
    BY <1>5, UserAssumption DEF AsTold, Uses
  <2>2. ~Uses(used, "g") /\ uid # -1 => gid \in Nat
    BY <1>5, UserAssumption DEF AsTold
  <2> QED
    BY <2>1, <2>2
<1>11. uid \in Nat => Uses(used, "g") \/ \E w \in DOMAIN Users : uid = Users[w].uid /\ gid = Users[w].gid
  BY <1>5 DEF AsTold
<1>12. uid = -1 /\ gid \in Nat => Uses(used, "g")
  BY <1>5, UserAssumption DEF AsTold
<1>13. /\ \A i \in DOMAIN used : used[i].flag = "u" => uid = Users[used[i].op].uid /\ uid \in Nat
       /\ \A i \in DOMAIN used : used[i].flag = "g" => gid = Groups[used[i].op] /\ gid \in Nat
  BY <1>5, UserAssumption DEF AsTold
<1> QED
  BY <1>6, <1>7, <1>8, <1>10, <1>11, <1>12, <1>13 DEF FromFile

\* What was said stays said, and one more thing may be.
LEMMA SaidItMore ==
    ASSUME NEW sd \in Seq(Entries), NEW e \in Entries, NEW key, NEW ok
    PROVE  SaidIt(Append(sd, e), key, ok) <=>
             SaidIt(sd, key, ok)
               \/ (e.in = "global" /\ e.line.is = "setting" /\ e.line.key = key /\ e.line.val \in ok)
<1> DEFINE sd2 == Append(sd, e)
           n == Len(sd)
<1>1. /\ n \in Nat /\ DOMAIN sd = 1 .. n /\ DOMAIN sd2 = 1 .. n + 1
      /\ sd2[n + 1] = e /\ \A i \in 1 .. n : sd2[i] = sd[i]
  OBVIOUS
<1> HIDE DEF sd2, n
<1>2. \A i \in DOMAIN sd2 : i = n + 1 \/ i \in DOMAIN sd
  BY <1>1
<1>3. n + 1 \in DOMAIN sd2 /\ \A i \in DOMAIN sd : i \in DOMAIN sd2 /\ sd2[i] = sd[i]
  BY <1>1
<1>4. SaidIt(sd2, key, ok) <=> SaidIt(sd, key, ok)
        \/ (e.in = "global" /\ e.line.is = "setting" /\ e.line.key = key /\ e.line.val \in ok)
  BY <1>1, <1>2, <1>3 DEF SaidIt
<1> QED
  BY <1>4 DEF sd2

\* A line that says no user and no group.
LEMMA RunOtherLine ==
    ASSUME NEW us \in Seq(UsedArg), NEW u, NEW g, NEW sd \in Seq(Entries), NEW e \in Entries, FromFile(us, u, g, sd),
           u = -1 => ~(e.in = "global" /\ e.line.is = "setting" /\ e.line.key = "user" /\ e.line.val \in DOMAIN Users)
    PROVE  FromFile(us, u, g, Append(sd, e))
BY SaidItMore DEF FromFile

\* A line of the file that says a user or a group.
LEMMA RunOption ==
    ASSUME NEW us \in Seq(UsedArg), NEW u, NEW g, NEW sd \in Seq(Entries), NEW e \in Entries, FromFile(us, u, g, sd),
           e.in = "global", e.line.is = "setting"
    PROVE  /\ e.line.key = "user" /\ u < 0 /\ e.line.val \in DOMAIN Users =>
                FromFile(us, Users[e.line.val].uid, IF g = -1 THEN Users[e.line.val].gid ELSE g, Append(sd, e))
           /\ e.line.key = "group" /\ g < 0 /\ e.line.val \in DOMAIN Groups =>
                FromFile(us, u, Groups[e.line.val], Append(sd, e))
<1> DEFINE sd2 == Append(sd, e)
<1>1. u \in Ids /\ g \in Ids
  BY DEF FromFile
<1>2. SaidIt(sd, "group", GroupsOf(g)) => SaidIt(sd2, "group", GroupsOf(g))
  BY SaidItMore
<1>3. ASSUME e.line.key = "user", u < 0, e.line.val \in DOMAIN Users
      PROVE  FromFile(us, Users[e.line.val].uid, IF g = -1 THEN Users[e.line.val].gid ELSE g, sd2)
  <2> DEFINE u2 == Users[e.line.val].uid
             g2 == IF g = -1 THEN Users[e.line.val].gid ELSE g
  <2>1. u = -1 /\ u2 \in Nat /\ g2 \in Nat
    BY <1>1, <1>3, UserAssumption DEF Ids
  <2>2. \A i \in DOMAIN us : us[i].flag # "u"
    BY <2>1 DEF FromFile
  <2>3. \A i \in DOMAIN us : us[i].flag = "g" => g2 = Groups[us[i].op]
    BY DEF FromFile
  <2>4. g # -1 => g2 = g /\ (Uses(us, "g") \/ SaidIt(sd2, "group", GroupsOf(g)))
    BY <1>1, <1>2, <2>1 DEF FromFile, Ids
  <2>5. g = -1 => g2 = Users[e.line.val].gid
    OBVIOUS
  <2> HIDE DEF g2
  <2> QED
    BY <1>3, <2>1, <2>2, <2>3, <2>4, <2>5 DEF FromFile, Ids
<1>4. ASSUME e.line.key = "group", g < 0, e.line.val \in DOMAIN Groups
      PROVE  FromFile(us, u, Groups[e.line.val], sd2)
  <2> DEFINE g2 == Groups[e.line.val]
  <2>1. g2 \in Nat /\ g \notin Nat /\ u = -1
    BY <1>1, <1>4, UserAssumption DEF Ids, FromFile
  <2>2. SaidIt(sd2, "group", GroupsOf(g2))
    BY <1>4, SaidItMore DEF GroupsOf
  <2>3. ~SaidIt(sd2, "user", DOMAIN Users)
    BY <1>4, <2>1, SaidItMore DEF FromFile
  <2>4. \A i \in DOMAIN us : us[i].flag # "g"
    BY <2>1 DEF FromFile
  <2>5. u \in Ids /\ g2 \in Ids /\ u \notin Nat
    BY <2>1 DEF Ids
  <2>6. \A i \in DOMAIN us : us[i].flag # "u"
    BY <2>1 DEF FromFile
  <2> HIDE DEF g2, sd2
  <2>7. FromFile(us, u, g2, sd2)
    BY <2>2, <2>3, <2>4, <2>5, <2>6 DEF FromFile
  <2> QED
    BY <2>7 DEF g2
<1> QED
  BY <1>3, <1>4

\* A line of the file.
LEMMA RunLine ==
    ASSUME RunInv, NEW l \in vocabulary, ReadLine(l)
    PROVE  RunInv'
<1> DEFINE e == [line |-> l, in |-> section]
           sd2 == Append(said, e)
<1>1. /\ FileRead /\ FileRead' /\ l \in Lines /\ phase = "file" /\ phase' = "file"
      /\ said' = sd2 /\ flags' = flags /\ used' = used
  BY LineTypes, LineIsRead DEF RunInv, argVars
<1>2. e \in Entries /\ said \in Seq(Entries) /\ section \in SectionNames
  BY <1>1 DEF Entries, FileRead
<1>3. AllUsed(flags, used) /\ FromFile(used, uid, gid, said) /\ used \in Seq(UsedArg)
  BY <1>1 DEF RunInv, AllUsed
<1>4. e.line = l /\ e.in = section
  OBVIOUS
<1> HIDE DEF e
<1>5. FromFile(used, uid', gid', sd2)
  <2>1. CASE UNCHANGED <<uid, gid>> /\ (uid = -1 => ~(section = "global" /\ l.is = "setting"
                                                      /\ l.key = "user" /\ l.val \in DOMAIN Users))
    BY <1>2, <1>3, <1>4, <2>1, RunOtherLine
  <2>2. CASE ~(l.is = "setting" /\ section = "global")
    <3>1. UNCHANGED <<uid, gid>>
      <4>1. l.is = "section" => UNCHANGED runasVars
        BY LineIsRead, <1>1 DEF ReadSection, RunInv
      <4>2. l.is = "skip" => UNCHANGED runasVars
        BY LineIsRead, <1>1
      <4>3. l.is = "setting" => UNCHANGED runasVars
        BY LineIsRead, <1>1, <1>2, <2>2 DEF ReadChecker, ReadRealm, ReadServer, SectionNames
      <4>4. l.is \in {"section", "setting", "skip"}
        BY LineIsRead, <1>1
      <4> QED
        BY <4>1, <4>2, <4>3, <4>4 DEF runasVars
    <3> QED
      BY <2>1, <2>2, <3>1
  <2>3. CASE l.is = "setting" /\ section = "global"
    <3> DEFINE asUser == IF l.key = "user" /\ MaySetUser THEN ParseUser(ArgState, l.val) ELSE ArgState
               a == IF l.key = "group" /\ gid < 0 THEN ParseGroup(ArgState, l.val) ELSE asUser
    <3>1. uid' = a.uid /\ gid' = a.gid
      BY LineIsRead, <1>1, <2>3 DEF ReadOption
    <3>2. \A x \in DOMAIN Users : LET b == ParseUser(ArgState, x)
                                  IN b.uid = Users[x].uid /\ b.gid = IF gid = -1 THEN Users[x].gid ELSE gid
      BY DEF ParseUser, ArgState
    <3>3. \A x : x \notin DOMAIN Users => ParseUser(ArgState, x).uid = uid /\ ParseUser(ArgState, x).gid = gid
      BY DEF ParseUser, ArgState
    <3>4. \A x \in DOMAIN Groups : ParseGroup(ArgState, x).uid = uid /\ ParseGroup(ArgState, x).gid = Groups[x]
      BY DEF ParseGroup, ArgState
    <3>5. \A x : x \notin DOMAIN Groups => ParseGroup(ArgState, x).uid = uid /\ ParseGroup(ArgState, x).gid = gid
      BY DEF ParseGroup, ArgState
    <3>6. ArgState.uid = uid /\ ArgState.gid = gid
      BY DEF ArgState
    <3>7. CASE l.key = "group" /\ gid < 0
      <4>1. a = ParseGroup(ArgState, l.val)
        BY <3>7
      <4> HIDE DEF a
      <4>2. CASE l.val \in DOMAIN Groups
        <5>1. uid' = uid /\ gid' = Groups[l.val]
          BY <3>1, <3>4, <4>1, <4>2
        <5> QED
          BY <1>2, <1>3, <1>4, <2>3, <3>7, <4>2, <5>1, RunOption
      <4>3. CASE l.val \notin DOMAIN Groups
        <5>1. uid' = uid /\ gid' = gid
          BY <3>1, <3>5, <4>1, <4>3
        <5> QED
          BY <2>1, <3>7, <5>1
      <4> QED
        BY <4>2, <4>3
    <3>8. CASE l.key = "user" /\ uid < 0
      <4>1. a = ParseUser(ArgState, l.val)
        BY <3>8 DEF MaySetUser
      <4> HIDE DEF a
      <4>2. CASE l.val \in DOMAIN Users
        <5>1. uid' = Users[l.val].uid /\ gid' = IF gid = -1 THEN Users[l.val].gid ELSE gid
          BY <3>1, <3>2, <4>1, <4>2
        <5>2. FromFile(used, Users[l.val].uid, IF gid = -1 THEN Users[l.val].gid ELSE gid, sd2)
          BY <1>2, <1>3, <1>4, <2>3, <3>8, <4>2, RunOption
        <5> QED
          BY <5>1, <5>2
      <4>3. CASE l.val \notin DOMAIN Users
        <5>1. uid' = uid /\ gid' = gid
          BY <3>1, <3>3, <4>1, <4>3
        <5> QED
          BY <2>1, <4>3, <5>1
      <4> QED
        BY <4>2, <4>3
    <3>9. CASE ~(l.key = "group" /\ gid < 0) /\ ~(l.key = "user" /\ uid < 0)
      <4>1. a = ArgState
        BY <3>9 DEF MaySetUser
      <4> HIDE DEF a
      <4>2. uid' = uid /\ gid' = gid
        BY <3>1, <3>6, <4>1
      <4> QED
        BY <2>1, <3>9, <4>2
    <3> QED
      BY <3>7, <3>8, <3>9
  <2> QED
    BY <2>2, <2>3
<1> HIDE DEF sd2
<1> QED
  BY <1>1, <1>3, <1>5 DEF RunInv

\* Every step keeps the invariant.
LEMMA RunKept ==
    ASSUME phase # "undefined" => RunInv, [ServiceNext]_serviceVars
    PROVE  phase' # "undefined" => RunInv'
<1> SUFFICES ASSUME phase' # "undefined" PROVE RunInv'
  OBVIOUS
<1>0. RunInv
  BY NoWayBack
<1>9. ASSUME NEW l \in vocabulary, ReadPastRoom(l) PROVE FALSE
  BY <1>9 DEF ReadPastRoom
<1> DEFINE Same == UNCHANGED <<vocabulary, said, section, sessionLimits, loginLimits, cfgRealms,
                               uid, gid, flags, used>>
<1>1. CASE UNCHANGED serviceVars
  <2>1. Same /\ phase' = phase /\ ArgState' = ArgState
    BY <1>1 DEF serviceVars, configVars, argVars, runasVars, listVars, serverVars, ArgState
  <2> QED
    BY <1>0, <2>1 DEF RunInv, FileRead, AllUsed, FromFile
<1>2. ASSUME NEW w \in Words, ReadArgument(w) PROVE RunInv'
  BY <1>0, <1>2, RunArgument
<1>3. CASE ArgumentsDone
  BY <1>0, <1>3, RunArgumentsDone
<1>4. ASSUME NEW l \in vocabulary, ReadLine(l) PROVE RunInv'
  BY <1>0, <1>4, RunLine
<1>5. ASSUME Same, phase \notin {"args", "exit"}, phase' \notin {"args", "exit"} PROVE RunInv'
  BY <1>0, <1>5 DEF RunInv, FileRead, AllUsed, FromFile
<1>6. ASSUME NEW up, Prestartup(up) PROVE RunInv'
  BY <1>5, <1>6 DEF Prestartup, argVars, runasVars, listVars, serverVars
<1>7. CASE PrestartupCrash
  BY <1>5, <1>7 DEF PrestartupCrash, argVars, runasVars, listVars, serverVars
<1>8. CASE Shutdown
  BY <1>5, <1>8 DEF Shutdown, argVars, runasVars, listVars, serverVars
<1> QED
  BY <1>1, <1>2, <1>3, <1>4, <1>6, <1>7, <1>8, <1>9 DEF ServiceNext

\* However the flags and their arguments are spread over the words of a command line,
\* swad goes on only if each flag was given its own argument, in order, by addArg() and
\* optArg(); it then runs as the user and the group they name, which readOption() cannot
\* change, and has a group, the user's own one by default, whenever it has a user.
THEOREM RunsAsToldCorrect == ServiceSpec => []RunsAsTold
<1> DEFINE Inv == phase # "undefined" => RunInv
<1>1. ServiceInit => Inv
  BY RunInit
<1>2. Inv /\ [ServiceNext]_serviceVars => Inv'
  BY RunKept
<1>3. Inv => RunsAsTold
  BY RunIs DEF RunsAsTold
<1> HIDE DEF Inv
<1> QED
  BY <1>1, <1>2, <1>3, PTL DEF ServiceSpec

-----------------------------------------------------------------------------
(* Realms.                                                                 *)

MakesRealm(e, name) == e.in = "realms" /\ e.line.is = "setting" /\ ~e.line.limit /\ e.line.key = name
MakesIn(sd, name) == {i \in DOMAIN sd : MakesRealm(sd[i], name)}
LimitsIn(sd, name) == {i \in DOMAIN sd : LimitsRealm(sd[i], name) /\ \E j \in MakesIn(sd, name) : j < i}

\* The limits in a list are the ones said in the lines of T, in their order.
LimitsAre(list, sd, T) == (\A i \in T : ~BadLimit(sd[i].line.val)) => InOrderOf(list, sd, T)

Named(cr, name) == {i \in DOMAIN cr : cr[i].name = name}

\* What is known of a realm is what the lines say.
RealmIs(cr, sd, name) ==
    /\ Named(cr, name) = {} <=> MakesIn(sd, name) = {}
    /\ MakesIn(sd, name) # {} => cr[Max(Named(cr, name))].checkers = sd[Max(MakesIn(sd, name))].line.val
    /\ (\A i, j \in MakesIn(sd, name) : i = j) =>
         /\ \A i, j \in Named(cr, name) : i = j
         /\ \A i \in Named(cr, name) : LimitsAre(cr[i].limits, sd, LimitsIn(sd, name))

\* The lines about a realm, after one line more.
LEMMA RealmLinesMore ==
    ASSUME NEW sd \in Seq(Entries), NEW e \in Entries, NEW name
    PROVE  LET n == Len(sd)
               sd2 == Append(sd, e)
           IN /\ n \in Nat /\ sd2[n + 1] = e /\ \A i \in 1 .. n : sd2[i] = sd[i]
              /\ MakesIn(sd, name) \subseteq 1 .. n /\ LimitsIn(sd, name) \subseteq 1 .. n
              /\ MakesIn(sd2, name) = IF MakesRealm(e, name) THEN MakesIn(sd, name) \cup {n + 1}
                                      ELSE MakesIn(sd, name)
              /\ LimitsIn(sd2, name) = IF LimitsRealm(e, name) /\ MakesIn(sd, name) # {}
                                         THEN LimitsIn(sd, name) \cup {n + 1} ELSE LimitsIn(sd, name)
<1> DEFINE n == Len(sd)
           sd2 == Append(sd, e)
           M == MakesIn(sd, name)
           M2 == MakesIn(sd2, name)
           L == LimitsIn(sd, name)
           L2 == LimitsIn(sd2, name)
<1>1. /\ n \in Nat /\ DOMAIN sd = 1 .. n /\ DOMAIN sd2 = 1 .. n + 1 /\ sd2[n + 1] = e
      /\ \A i \in 1 .. n : sd2[i] = sd[i]
  OBVIOUS
<1> HIDE DEF n, sd2
<1>2. /\ \A i : i \in 1 .. n + 1 <=> i \in 1 .. n \/ i = n + 1
      /\ n + 1 \notin 1 .. n
  BY <1>1
<1>3. M \subseteq 1 .. n /\ L \subseteq 1 .. n
  BY <1>1 DEF MakesIn, LimitsIn
<1>4. \A i : i \in M2 <=> i \in M \/ (i = n + 1 /\ MakesRealm(e, name))
  BY <1>1, <1>2 DEF MakesIn
<1> HIDE DEF M, M2
<1>5. \A i \in 1 .. n : ~(n + 1 < i) /\ i < n + 1
  BY <1>1
<1>6. ~(n + 1 < n + 1)
  BY <1>1
<1>7. \A i : i \in L2 <=> (i \in 1 .. n + 1 /\ LimitsRealm(sd2[i], name) /\ \E j \in M2 : j < i)
  BY <1>1 DEF LimitsIn, M2
<1>8. \A i : i \in L <=> (i \in 1 .. n /\ LimitsRealm(sd[i], name) /\ \E j \in M : j < i)
  BY <1>1 DEF LimitsIn, M
<1> HIDE DEF L, L2
<1>9. \A i \in 1 .. n : (\E j \in M2 : j < i) <=> (\E j \in M : j < i)
  BY <1>4, <1>5
<1>10. (\E j \in M2 : j < n + 1) <=> M # {}
  <2>1. \A j \in M : j \in M2 /\ j < n + 1
    BY <1>3, <1>4, <1>5
  <2>2. \A j \in M2 : j < n + 1 => j \in M
    BY <1>4, <1>6
  <2> QED
    BY <2>1, <2>2
<1>11. \A i : i \in L2 <=> i \in L \/ (i = n + 1 /\ LimitsRealm(e, name) /\ M # {})
  BY <1>1, <1>2, <1>7, <1>8, <1>9, <1>10
<1>12. M2 = IF MakesRealm(e, name) THEN M \cup {n + 1} ELSE M
  BY <1>4
<1>13. L2 = IF LimitsRealm(e, name) /\ M # {} THEN L \cup {n + 1} ELSE L
  BY <1>11
<1> QED
  BY <1>1, <1>3, <1>12, <1>13 DEF M, M2, L, L2, n, sd2

\* A line that comes after them does not change which limits were said.
LEMMA LimitsStay ==
    ASSUME NEW sd \in Seq(Entries), NEW e \in Entries, NEW list, NEW T, T \subseteq 1 .. Len(sd),
           LimitsAre(list, sd, T)
    PROVE  LimitsAre(list, Append(sd, e), T)
<1>1. \A i \in T : Append(sd, e)[i] = sd[i]
  OBVIOUS
<1> QED
  BY <1>1, InOrderStays DEF LimitsAre

\* The list of a realm's limits after one more line that limits it.
LEMMA LimitsMore ==
    ASSUME NEW sd \in Seq(Entries), NEW e \in Entries, NEW list \in Seq(LimitVals), NEW T, T \subseteq 1 .. Len(sd),
           LimitsAre(list, sd, T), NEW v \in LimitVals, ~BadLimit(e.line.val) => v = e.line.val
    PROVE  LimitsAre(Append(list, v), Append(sd, e), T \cup {Len(sd) + 1})
<1> SUFFICES ASSUME \A i \in T \cup {Len(sd) + 1} : ~BadLimit(Append(sd, e)[i].line.val)
             PROVE  InOrderOf(Append(list, v), Append(sd, e), T \cup {Len(sd) + 1})
  BY DEF LimitsAre
<1>1. Append(sd, e)[Len(sd) + 1] = e /\ \A i \in T : Append(sd, e)[i] = sd[i]
  OBVIOUS
<1>2. v = e.line.val /\ \A i \in T : ~BadLimit(sd[i].line.val)
  BY <1>1
<1> QED
  BY <1>2, InOrderMore DEF LimitsAre

\* The last realm of a name, if there is one.
LEMMA LastNamed ==
    ASSUME NEW cr \in Seq(CfgRealm), NEW name
    PROVE  /\ Named(cr, name) \subseteq 1 .. Len(cr)
           /\ Named(cr, name) # {} => Max(Named(cr, name)) \in Named(cr, name)
<1> DEFINE N == Named(cr, name)
<1>1. N \subseteq 1 .. Len(cr) /\ Len(cr) \in Nat
  BY DEF Named
<1> HIDE DEF N
<1>2. N # {} => Max(N) \in N
  BY <1>1, Extremes
<1> QED
  BY <1>1, <1>2 DEF N

\* A line that is not about a realm of this name, whatever else it changes.
LEMMA RealmElsewhere ==
    ASSUME NEW sd \in Seq(Entries), NEW e \in Entries, NEW name,
           NEW cr \in Seq(CfgRealm), NEW cr2, RealmIs(cr, sd, name),
           Named(cr2, name) = Named(cr, name), \A i \in Named(cr, name) : cr2[i] = cr[i],
           ~MakesRealm(e, name), ~LimitsRealm(e, name) \/ MakesIn(sd, name) = {}
    PROVE  RealmIs(cr2, Append(sd, e), name)
<1> DEFINE sd2 == Append(sd, e)
           n == Len(sd)
           M == MakesIn(sd, name)
           L == LimitsIn(sd, name)
           N == Named(cr, name)
<1>1. /\ n \in Nat /\ M \subseteq 1 .. n /\ L \subseteq 1 .. n
      /\ MakesIn(sd2, name) = M /\ LimitsIn(sd2, name) = L /\ \A i \in 1 .. n : sd2[i] = sd[i]
  BY RealmLinesMore
<1>2. M # {} => Max(M) \in 1 .. n
  BY <1>1, Extremes
<1>3. N # {} => Max(N) \in N
  BY LastNamed
<1>4. \A list : LimitsAre(list, sd, L) => LimitsAre(list, sd2, L)
  BY <1>1, LimitsStay
<1> HIDE DEF sd2, n, M, L, N
<1>5. Named(cr2, name) = N /\ \A i \in N : cr2[i] = cr[i]
  BY DEF N
<1>6. RealmIs(cr, sd, name) <=>
        /\ N = {} <=> M = {}
        /\ M # {} => cr[Max(N)].checkers = sd[Max(M)].line.val
        /\ (\A i, j \in M : i = j) => /\ \A i, j \in N : i = j
                                      /\ \A i \in N : LimitsAre(cr[i].limits, sd, L)
  BY DEF RealmIs, N, M, L
<1>7. RealmIs(cr2, sd2, name) <=>
        /\ N = {} <=> M = {}
        /\ M # {} => cr2[Max(N)].checkers = sd2[Max(M)].line.val
        /\ (\A i, j \in M : i = j) => /\ \A i, j \in N : i = j
                                      /\ \A i \in N : LimitsAre(cr2[i].limits, sd2, L)
  BY <1>1, <1>5 DEF RealmIs
<1> QED
  BY <1>1, <1>2, <1>3, <1>4, <1>5, <1>6, <1>7 DEF sd2

\* A line that makes a realm of this name.
LEMMA RealmMade ==
    ASSUME NEW sd \in Seq(Entries), NEW e \in Entries, NEW name,
           NEW cr \in Seq(CfgRealm), RealmIs(cr, sd, name), MakesRealm(e, name),
           NEW r \in CfgRealm, r.name = name, r.checkers = e.line.val, r.limits = <<>>
    PROVE  RealmIs(Append(cr, r), Append(sd, e), name)
<1> DEFINE sd2 == Append(sd, e)
           cr2 == Append(cr, r)
           n == Len(sd)
           m == Len(cr)
           M == MakesIn(sd, name)
           L == LimitsIn(sd, name)
           N == Named(cr, name)
<1>1. /\ n \in Nat /\ M \subseteq 1 .. n /\ sd2[n + 1] = e
      /\ MakesIn(sd2, name) = M \cup {n + 1}
      /\ LimitsIn(sd2, name) = L
  BY RealmLinesMore DEF MakesRealm, LimitsRealm
<1>2. /\ m \in Nat /\ cr2[m + 1] = r /\ \A i \in 1 .. m : cr2[i] = cr[i]
      /\ DOMAIN cr2 = 1 .. m + 1 /\ DOMAIN cr = 1 .. m
  OBVIOUS
<1>3. N \subseteq 1 .. m
  BY LastNamed
<1>4. M = {} => L = {}
  BY DEF LimitsIn
<1> HIDE DEF sd2, cr2, n, m
<1>5. Named(cr2, name) = N \cup {m + 1}
  <2>1. \A i : i \in 1 .. m + 1 <=> i \in 1 .. m \/ i = m + 1
    BY <1>2
  <2> QED
    BY <1>2, <2>1 DEF Named
<1> HIDE DEF M, L, N
<1>6. Max(M \cup {n + 1}) = n + 1 /\ Max(N \cup {m + 1}) = m + 1
  BY <1>1, <1>2, <1>3, MaxOfMore
<1>7. n + 1 \notin M
  BY <1>1
<1>8. (\A i, j \in M \cup {n + 1} : i = j) => M = {}
  BY <1>7
<1>9. M = {} => N = {}
  BY DEF RealmIs, M, N
<1>10. LimitsAre(<<>>, sd2, {})
  BY FS_EmptySet DEF LimitsAre, InOrderOf
<1>11. (M \cup {n + 1}) # {} /\ (N \cup {m + 1}) # {}
  OBVIOUS
<1>12. cr2[Max(N \cup {m + 1})].checkers = sd2[Max(M \cup {n + 1})].line.val
  BY <1>1, <1>2, <1>6
<1>13. ASSUME \A i, j \in M \cup {n + 1} : i = j
       PROVE  /\ \A i, j \in N \cup {m + 1} : i = j
              /\ \A i \in N \cup {m + 1} : LimitsAre(cr2[i].limits, sd2, L)
  <2>1. N = {} /\ L = {}
    BY <1>4, <1>8, <1>9, <1>13
  <2> QED
    BY <1>2, <1>10, <2>1
<1>14. RealmIs(cr2, sd2, name)
  BY <1>1, <1>5, <1>11, <1>12, <1>13 DEF RealmIs
<1> QED
  BY <1>14 DEF sd2, cr2

\* A line that limits the realm of this name that was made first.
LEMMA RealmLimited ==
    ASSUME NEW sd \in Seq(Entries), NEW e \in Entries, NEW name,
           NEW cr \in Seq(CfgRealm), RealmIs(cr, sd, name), LimitsRealm(e, name),
           NEW k \in Named(cr, name), NEW cr2 \in Seq(CfgRealm), Len(cr2) = Len(cr),
           \A i \in 1 .. Len(cr) : cr2[i].name = cr[i].name /\ cr2[i].checkers = cr[i].checkers,
           LimitsAre(cr[k].limits, sd, LimitsIn(sd, name)) =>
             LimitsAre(cr2[k].limits, Append(sd, e), LimitsIn(sd, name) \cup {Len(sd) + 1})
    PROVE  RealmIs(cr2, Append(sd, e), name)
<1> DEFINE sd2 == Append(sd, e)
           n == Len(sd)
           M == MakesIn(sd, name)
           L == LimitsIn(sd, name)
           N == Named(cr, name)
<1>1. N # {} /\ N \subseteq 1 .. Len(cr) /\ Max(N) \in N
  BY LastNamed
<1>2. M # {}
  BY <1>1 DEF RealmIs
<1>3. /\ n \in Nat /\ M \subseteq 1 .. n /\ L \subseteq 1 .. n
      /\ MakesIn(sd2, name) = M /\ \A i \in 1 .. n : sd2[i] = sd[i]
      /\ LimitsIn(sd2, name) = L \cup {n + 1}
  <2>1. ~MakesRealm(e, name)
    BY DEF MakesRealm, LimitsRealm
  <2> QED
    BY <1>2, <2>1, RealmLinesMore
<1>4. Max(M) \in 1 .. n
  BY <1>2, <1>3, Extremes
<1>5. Named(cr2, name) = N
  <2>1. DOMAIN cr = 1 .. Len(cr) /\ DOMAIN cr2 = 1 .. Len(cr)
    OBVIOUS
  <2> QED
    BY <2>1 DEF Named
<1> HIDE DEF sd2, n, M, L, N
<1>6. cr2[Max(N)].checkers = sd2[Max(M)].line.val
  <2>1. cr[Max(N)].checkers = sd[Max(M)].line.val
    BY <1>2 DEF RealmIs, M, N
  <2> QED
    BY <1>1, <1>3, <1>4, <2>1
<1>7. ASSUME \A i, j \in M : i = j
      PROVE  /\ \A i, j \in N : i = j
             /\ \A i \in N : LimitsAre(cr2[i].limits, sd2, L \cup {n + 1})
  <2>1. (\A i, j \in N : i = j) /\ \A i \in N : LimitsAre(cr[i].limits, sd, L)
    BY <1>7 DEF RealmIs, M, N, L
  <2>2. k \in N
    BY DEF N
  <2>3. LimitsAre(cr2[k].limits, sd2, L \cup {n + 1})
    BY <2>1, <2>2 DEF sd2, L, n
  <2> QED
    BY <2>1, <2>2, <2>3
<1>8. RealmIs(cr2, sd2, name)
  BY <1>1, <1>2, <1>3, <1>5, <1>6, <1>7 DEF RealmIs
<1> QED
  BY <1>8 DEF sd2

SaysChecker(e, name) == /\ e.in = "checkers" /\ e.line.is = "setting" /\ e.line.key = name
                        /\ e.line.val = "pam"
CfgChecker == [name : KeysRead, class : ValsRead]

CheckersAre(cc, sd) ==
    \A name : (\E i \in DOMAIN cc : cc[i].name = name /\ cc[i].class = "pam")
                <=> (\E i \in DOMAIN sd : SaysChecker(sd[i], name))

ListsRead == /\ FileRead /\ cfgCheckers \in Seq(CfgChecker) /\ CheckersAre(cfgCheckers, said)
             /\ \A name : RealmIs(cfgRealms, said, name)

\* A registered realm is what the lines say.
PassedOn(p, sd, r) ==
    /\ p.checkers = sd[Max(MakesIn(sd, r))].line.val
    /\ /\ Cardinality(MakesIn(sd, r)) = 1
       /\ \A i \in LimitsIn(sd, r) : ~BadLimit(sd[i].line.val)
       => InOrderOf(p.limits, sd, LimitsIn(sd, r))
Registers(rc, rr, sd) ==
    /\ \A name : name \in rc <=> \E i \in DOMAIN sd : SaysChecker(sd[i], name)
    /\ \A r : r \in DOMAIN rr <=> MakesIn(sd, r) # {}
    /\ \A r \in DOMAIN rr : PassedOn(rr[r], sd, r)

RealmsInv == ListsRead /\ (phase = "running" => Registers(regCheckers, regRealms, said))

\* The property, as a statement about the lines and what is registered alone.
LEMMA RealmsAre ==
    ASSUME phase = "running" => Registers(regCheckers, regRealms, said)
    PROVE  RealmsAsConfigured
<1> SUFFICES ASSUME phase = "running", Registers(regCheckers, regRealms, said)
             PROVE  RealmsAsConfigured
  BY DEF RealmsAsConfigured
<1>1. \A r : RealmLines(r) = MakesIn(said, r)
  BY DEF RealmLines, MakesIn, MakesRealm
<1>2. \A r : LimitLines(r) = LimitsIn(said, r)
  BY <1>1 DEF LimitLines, LimitsIn, LimitsRealm
<1>3. regCheckers = CheckersSaid
  <2>1. \A name : name \in CheckersSaid <=> \E i \in DOMAIN said : SaysChecker(said[i], name)
    BY DEF SaysChecker, CheckersSaid
  <2> QED
    BY <2>1 DEF Registers
<1>4. DOMAIN regRealms = RealmsSaid
  <2>1. \A r : r \in RealmsSaid <=> MakesIn(said, r) # {}
    BY <1>1 DEF MakesIn, MakesRealm, RealmsSaid
  <2> QED
    BY <2>1 DEF Registers
<1>5. ASSUME NEW r \in DOMAIN regRealms PROVE RealmAsSaid(r)
  <2> DEFINE M == RealmLines(r)
             L == LimitLines(r)
             p == regRealms[r]
  <2>1. PassedOn(p, said, r) /\ MakesIn(said, r) = M /\ LimitsIn(said, r) = L
    BY <1>1, <1>2 DEF Registers
  <2> HIDE DEF M, L, p
  <2>2. p.checkers = said[Max(M)].line.val
    BY <2>1 DEF PassedOn
  <2>3. ASSUME Cardinality(M) = 1, \A i \in L : ~BadLimit(said[i].line.val)
        PROVE  AsSaidIn(p.limits, L)
    BY <2>1, <2>3 DEF PassedOn, InOrderOf, AsSaidIn
  <2> QED
    BY <2>2, <2>3 DEF RealmAsSaid, M, L, p
<1> QED
  BY <1>3, <1>4, <1>5 DEF RealmsAsConfigured

\* The checkers, after one line more.
LEMMA CheckersMore ==
    ASSUME NEW sd \in Seq(Entries), NEW e \in Entries, NEW cc \in Seq(CfgChecker), CheckersAre(cc, sd)
    PROVE  /\ (\A name : ~SaysChecker(e, name)) => CheckersAre(cc, Append(sd, e))
           /\ \A c \in CfgChecker :
                (\A name : SaysChecker(e, name) <=> c.name = name /\ c.class = "pam")
                  => CheckersAre(Append(cc, c), Append(sd, e))
<1> DEFINE sd2 == Append(sd, e)
           n == Len(sd)
<1>1. /\ n \in Nat /\ DOMAIN sd = 1 .. n /\ DOMAIN sd2 = 1 .. n + 1 /\ sd2[n + 1] = e
      /\ \A i \in 1 .. n : sd2[i] = sd[i]
  OBVIOUS
<1> HIDE DEF sd2, n
<1>2. /\ \A i \in DOMAIN sd2 : i = n + 1 \/ i \in DOMAIN sd
      /\ n + 1 \in DOMAIN sd2 /\ \A i \in DOMAIN sd : i \in DOMAIN sd2 /\ sd2[i] = sd[i]
  BY <1>1
<1>3. \A name : (\E i \in DOMAIN sd2 : SaysChecker(sd2[i], name))
                  <=> (\E i \in DOMAIN sd : SaysChecker(sd[i], name)) \/ SaysChecker(e, name)
  BY <1>1, <1>2
<1>4. ASSUME \A name : ~SaysChecker(e, name) PROVE CheckersAre(cc, sd2)
  BY <1>3, <1>4 DEF CheckersAre
<1>5. ASSUME NEW c \in CfgChecker, \A name : SaysChecker(e, name) <=> c.name = name /\ c.class = "pam"
      PROVE  CheckersAre(Append(cc, c), sd2)
  <2> DEFINE cc2 == Append(cc, c)
             m == Len(cc)
  <2>1. /\ m \in Nat /\ DOMAIN cc = 1 .. m /\ DOMAIN cc2 = 1 .. m + 1 /\ cc2[m + 1] = c
        /\ \A i \in 1 .. m : cc2[i] = cc[i]
    OBVIOUS
  <2> HIDE DEF cc2, m
  <2>2. /\ \A i \in DOMAIN cc2 : i = m + 1 \/ i \in DOMAIN cc
        /\ m + 1 \in DOMAIN cc2 /\ \A i \in DOMAIN cc : i \in DOMAIN cc2 /\ cc2[i] = cc[i]
    BY <2>1
  <2>3. \A name : (\E i \in DOMAIN cc2 : cc2[i].name = name /\ cc2[i].class = "pam")
                    <=> (\E i \in DOMAIN cc : cc[i].name = name /\ cc[i].class = "pam")
                        \/ (c.name = name /\ c.class = "pam")
    BY <2>1, <2>2
  <2>4. CheckersAre(cc2, sd2)
    BY <1>3, <1>5, <2>3 DEF CheckersAre
  <2> QED
    BY <2>4 DEF cc2
<1> QED
  BY <1>4, <1>5 DEF sd2

\* At first nothing was said.
LEMMA RealmsInit == ServiceInit => RealmsInv
<1> SUFFICES ASSUME ServiceInit PROVE RealmsInv
  OBVIOUS
<1>1. phase = "args" /\ said = <<>> /\ cfgRealms = <<>> /\ cfgCheckers = <<>> /\ FileRead
  BY LimitsInit DEF ServiceInit, ConfigInit, LimitsInv
<1>2. cfgCheckers \in Seq(CfgChecker) /\ CheckersAre(cfgCheckers, said)
  BY <1>1 DEF CheckersAre
<1>3. ASSUME NEW name PROVE RealmIs(cfgRealms, said, name)
  <2>1. Named(<<>>, name) = {} /\ MakesIn(<<>>, name) = {}
    BY DEF Named, MakesIn
  <2> QED
    BY <1>1, <2>1 DEF RealmIs
<1> QED
  BY <1>1, <1>2, <1>3 DEF RealmsInv, ListsRead

\* A sequence with one element changed.
LEMMA ElementChanged ==
    ASSUME NEW S, NEW s \in Seq(S), NEW k \in 1 .. Len(s), NEW x \in S
    PROVE  LET t == [s EXCEPT ![k] = x]
           IN /\ Len(t) = Len(s) /\ DOMAIN t = DOMAIN s /\ t[k] = x
              /\ \A i \in 1 .. Len(s) : i # k => t[i] = s[i]
<1>1. s[k] \in S /\ Len(s) \in Nat /\ DOMAIN s = 1 .. Len(s)
  OBVIOUS
<1>2. [s EXCEPT ![k] = x] \in Seq(S)
  OBVIOUS
<1> QED
  BY <1>1, <1>2

\* A line of the file with settings of realms.
LEMMA RealmRead ==
    ASSUME ListsRead, NEW l \in Lines, l.is = "setting", section = "realms", ReadRealm(l),
           NEW e \in Entries, e.line = l, e.in = section, cfgRealms' \in Seq(CfgRealm), NEW name
    PROVE  RealmIs(cfgRealms', Append(said, e), name)
<1> DEFINE cr == cfgRealms
           cr2 == cfgRealms'
           k == RealmIndex(l.key)
<1>1. cr \in Seq(CfgRealm) /\ said \in Seq(Entries) /\ RealmIs(cr, said, name)
  BY DEF ListsRead, FileRead
<1>2. l.limit \in BOOLEAN
  BY LineAssumption DEF Lines
<1>3. CASE l.limit
  <2>1. IF k = 0 THEN cr2 = cr
        ELSE \E v \in RealmLimit(l.val) : cr2 = [cr EXCEPT ![k].limits = Append(@, v)]
    BY <1>3 DEF ReadRealm
  <2>2. ~MakesRealm(e, name)
    BY <1>3 DEF MakesRealm
  <2>3. LimitsRealm(e, name) <=> name = l.key
    BY <1>3 DEF LimitsRealm
  <2>4. k = IF Named(cr, l.key) = {} THEN 0 ELSE Min(Named(cr, l.key))
    BY DEF RealmIndex, Named
  <2>5. Named(cr, l.key) # {} => k \in Named(cr, l.key) /\ k # 0 /\ k \in 1 .. Len(cr)
    <3> DEFINE T == Named(cr, l.key)
               m == Len(cr)
    <3>1. T \subseteq 1 .. m /\ m \in Nat
      BY <1>1, LastNamed
    <3> HIDE DEF T, m
    <3>2. T # {} => Min(T) \in T
      BY <3>1, Extremes
    <3>3. T # {} => k = Min(T)
      BY <2>4 DEF T
    <3> HIDE DEF k
    <3>4. T # {} => k \in T /\ k # 0 /\ k \in 1 .. m
      <4>1. T # {} => k \in T /\ k \in 1 .. m
        BY <3>1, <3>2, <3>3
      <4>2. \A i \in 1 .. m : i # 0
        OBVIOUS
      <4> QED
        BY <4>1, <4>2
    <3> QED
      BY <3>4 DEF T, m
  <2>6. l.val \in LimitVals
    BY <1>3, LimitLineVal
  <2> HIDE DEF k
  <2>7. CASE Named(cr, l.key) = {}
    <3>1. cr2 = cr
      BY <2>1, <2>4, <2>7
    <3>2. name = l.key => MakesIn(said, name) = {}
      BY <1>1, <2>7 DEF RealmIs
    <3> QED
      BY <1>1, <2>2, <2>3, <3>1, <3>2, RealmElsewhere
  <2>8. CASE Named(cr, l.key) # {}
    <3>1. k # 0 /\ k \in Named(cr, l.key) /\ k \in 1 .. Len(cr)
      BY <2>5, <2>8
    <3>2. PICK v \in RealmLimit(l.val) : cr2 = [cr EXCEPT ![k].limits = Append(@, v)]
      BY <2>1, <2>8, <3>1
    <3>3. v \in LimitVals /\ (~BadLimit(l.val) => v = l.val)
      <4>1. v \in LimitVals /\ (l.val[1] > 0 /\ l.val[2] > 0 => v = l.val)
        BY <2>6, RealmLimitIs
      <4>2. l.val[1] \in Nat /\ l.val[2] \in Nat
        BY <2>6, LimitIs
      <4>3. ~BadLimit(l.val) => l.val[1] > 0 /\ l.val[2] > 0
        BY <4>2 DEF BadLimit
      <4> QED
        BY <4>1, <4>3
    <3>4. cr[k] \in CfgRealm /\ cr[k].limits \in Seq(LimitVals)
      <4>1. cr[k] \in CfgRealm
        <5> HIDE DEF cr
        <5> QED
          BY <1>1, <3>1
      <4> QED
        BY <4>1 DEF CfgRealm
    <3>5. /\ Len(cr2) = Len(cr) /\ DOMAIN cr2 = DOMAIN cr
          /\ \A i \in 1 .. Len(cr) : i # k => cr2[i] = cr[i]
          /\ cr2[k] = [cr[k] EXCEPT !.limits = Append(cr[k].limits, v)]
      <4> DEFINE x == [cr[k] EXCEPT !.limits = Append(cr[k].limits, v)]
      <4>1. cr2 = [cr EXCEPT ![k] = x]
        BY <3>2
      <4>2. Append(cr[k].limits, v) \in Seq(LimitVals)
        BY <3>3, <3>4
      <4>3. x \in CfgRealm
        BY <3>4, <4>2 DEF CfgRealm
      <4> HIDE DEF x, cr2, cr
      <4>4. /\ Len(cr2) = Len(cr) /\ DOMAIN cr2 = DOMAIN cr /\ cr2[k] = x
            /\ \A i \in 1 .. Len(cr) : i # k => cr2[i] = cr[i]
        BY <1>1, <3>1, <4>1, <4>3, ElementChanged
      <4> QED
        BY <4>4 DEF x
    <3>6. cr2[k].name = cr[k].name /\ cr2[k].checkers = cr[k].checkers /\ cr2[k].limits = Append(cr[k].limits, v)
      BY <3>4, <3>5 DEF CfgRealm
    <3> HIDE DEF cr2
    <3>7. CASE name # l.key
      <4>1. cr[k].name # name
        BY <3>1, <3>7 DEF Named
      <4>2. DOMAIN cr = 1 .. Len(cr)
        BY <1>1
      <4>3. \A i \in DOMAIN cr2 : cr2[i].name = name => i # k
        BY <3>6, <4>1
      <4>4. Named(cr2, name) = Named(cr, name)
        BY <3>5, <4>1, <4>2, <4>3 DEF Named
      <4>5. \A i \in Named(cr, name) : cr2[i] = cr[i]
        BY <3>5, <4>1, <4>2 DEF Named
      <4>6. RealmIs(cr2, Append(said, e), name)
        BY <1>1, <2>2, <2>3, <3>7, <4>4, <4>5, RealmElsewhere
      <4> QED
        BY <4>6 DEF cr2
    <3>8. CASE name = l.key
      <4>1. LimitsIn(said, name) \subseteq 1 .. Len(said)
        BY <1>1, RealmLinesMore
      <4>2. LimitsAre(cr[k].limits, said, LimitsIn(said, name)) =>
              LimitsAre(cr2[k].limits, Append(said, e), LimitsIn(said, name) \cup {Len(said) + 1})
        BY <1>1, <3>3, <3>4, <3>6, <4>1, LimitsMore
      <4>3. \A i \in 1 .. Len(cr) : cr2[i].name = cr[i].name /\ cr2[i].checkers = cr[i].checkers
        BY <3>5, <3>6
      <4>4. cr2 \in Seq(CfgRealm)
        BY DEF cr2
      <4>5. RealmIs(cr2, Append(said, e), name)
        BY <1>1, <2>3, <3>1, <3>5, <3>8, <4>2, <4>3, <4>4, RealmLimited
      <4> QED
        BY <4>5 DEF cr2
    <3> QED
      BY <3>7, <3>8
  <2> QED
    BY <2>7, <2>8
<1>4. CASE ~l.limit
  <2> DEFINE r == [name |-> l.key, checkers |-> l.val, limits |-> <<>>]
  <2>1. cr2 = Append(cr, r)
    BY <1>4 DEF ReadRealm
  <2>2. r \in CfgRealm /\ r.name = l.key /\ r.checkers = l.val /\ r.limits = <<>>
    BY DEF CfgRealm, KeysRead, ValsRead
  <2>3. ~LimitsRealm(e, name) /\ (MakesRealm(e, name) <=> name = l.key)
    BY <1>4 DEF LimitsRealm, MakesRealm
  <2> HIDE DEF r
  <2>4. CASE name = l.key
    BY <1>1, <2>1, <2>2, <2>3, <2>4, RealmMade
  <2>5. CASE name # l.key
    <3> DEFINE m == Len(cr)
    <3>1. /\ m \in Nat /\ cr2[m + 1] = r /\ \A i \in 1 .. m : cr2[i] = cr[i]
          /\ DOMAIN cr2 = 1 .. m + 1 /\ DOMAIN cr = 1 .. m
      BY <1>1, <2>1, <2>2
    <3> HIDE DEF m, cr2, cr
    <3>2. \A i : i \in 1 .. m + 1 <=> i \in 1 .. m \/ i = m + 1
      BY <3>1
    <3>3. Named(cr2, name) = Named(cr, name)
      BY <2>2, <2>5, <3>1, <3>2 DEF Named
    <3>4. \A i \in Named(cr, name) : cr2[i] = cr[i]
      BY <3>1 DEF Named
    <3>5. RealmIs(cr2, Append(said, e), name)
      BY <1>1, <2>3, <2>5, <3>3, <3>4, RealmElsewhere
    <3> QED
      BY <3>5 DEF cr2
  <2> QED
    BY <2>4, <2>5
<1> QED
  BY <1>2, <1>3, <1>4

\* A line of the file.
LEMMA RealmsLine ==
    ASSUME RealmsInv, NEW l \in vocabulary, ReadLine(l)
    PROVE  RealmsInv'
<1> DEFINE e == [line |-> l, in |-> section]
           sd2 == Append(said, e)
<1>1. /\ ListsRead /\ FileRead /\ FileRead' /\ l \in Lines /\ phase' = "file" /\ said' = sd2
      /\ l.is \in {"section", "setting", "skip"}
  BY LineTypes, LineIsRead DEF RealmsInv, ListsRead
<1>2. /\ e \in Entries /\ said \in Seq(Entries) /\ section \in SectionNames /\ cfgRealms \in Seq(CfgRealm)
      /\ cfgRealms' \in Seq(CfgRealm) /\ cfgCheckers \in Seq(CfgChecker) /\ CheckersAre(cfgCheckers, said)
      /\ \A name : RealmIs(cfgRealms, said, name)
  BY <1>1 DEF Entries, FileRead, ListsRead
<1>3. e.line = l /\ e.in = section
  OBVIOUS
<1> HIDE DEF e
<1>4. l.is = "setting" =>
        /\ section = "global" => ReadOption(l)
        /\ section = "checkers" => ReadChecker(l)
        /\ section = "realms" => ReadRealm(l)
        /\ section = "server" => ReadServer(l)
        /\ section = "invalid" => UNCHANGED listVars
  BY <1>1, LineIsRead
<1>5. l.is # "setting" => UNCHANGED listVars
  BY <1>1, LineIsRead DEF ReadSection
<1>6. \A name : RealmIs(cfgRealms', sd2, name)
  <2>1. CASE l.is = "setting" /\ section = "realms"
    BY <1>1, <1>2, <1>3, <1>4, <2>1, RealmRead
  <2>2. CASE ~(l.is = "setting" /\ section = "realms")
    <3>1. cfgRealms' = cfgRealms
      BY <1>2, <1>4, <1>5, <2>2 DEF listVars, ReadOption, ReadChecker, ReadServer, SectionNames
    <3>2. \A name : ~MakesRealm(e, name) /\ ~LimitsRealm(e, name)
      BY <1>3, <2>2 DEF MakesRealm, LimitsRealm
    <3> QED
      BY <1>2, <3>1, <3>2, RealmElsewhere
  <2> QED
    BY <2>1, <2>2
<1>7. cfgCheckers' \in Seq(CfgChecker) /\ CheckersAre(cfgCheckers', sd2)
  <2>1. CASE l.is = "setting" /\ section = "checkers"
    <3> DEFINE c == [name |-> l.key, class |-> l.val]
    <3>1. cfgCheckers' = Append(cfgCheckers, c)
      BY <1>4, <2>1 DEF ReadChecker
    <3>2. c \in CfgChecker /\ c.name = l.key /\ c.class = l.val
      BY <1>1 DEF CfgChecker, KeysRead, ValsRead
    <3> HIDE DEF c
    <3>3. \A name : SaysChecker(e, name) <=> c.name = name /\ c.class = "pam"
      BY <1>3, <2>1, <3>2 DEF SaysChecker
    <3>4. CheckersAre(Append(cfgCheckers, c), sd2)
      BY <1>2, <3>2, <3>3, CheckersMore
    <3>5. Append(cfgCheckers, c) \in Seq(CfgChecker)
      BY <1>2, <3>2
    <3> QED
      BY <3>1, <3>4, <3>5
  <2>2. CASE ~(l.is = "setting" /\ section = "checkers")
    <3>1. cfgCheckers' = cfgCheckers
      BY <1>2, <1>4, <1>5, <2>2 DEF listVars, ReadOption, ReadRealm, ReadServer, SectionNames
    <3>2. \A name : ~SaysChecker(e, name)
      BY <1>3, <2>2 DEF SaysChecker
    <3> QED
      BY <1>2, <3>1, <3>2, CheckersMore
  <2> QED
    BY <2>1, <2>2
<1> HIDE DEF sd2
<1> QED
  BY <1>1, <1>6, <1>7 DEF RealmsInv, ListsRead

\* What prestartup() passes on of a realm.
LEMMA RealmPassedOn ==
    ASSUME ListsRead, NEW r, Named(cfgRealms, r) # {}
    PROVE  PassedOn([checkers |-> cfgRealms[Registered(r)].checkers,
                     limits |-> InEffect(cfgRealms[Registered(r)].limits)], said, r)
<1> DEFINE N == Named(cfgRealms, r)
           M == MakesIn(said, r)
           L == LimitsIn(said, r)
           k == Registered(r)
           own == cfgRealms[k].limits
           list == InEffect(own)
           n == Len(said)
<1>1. cfgRealms \in Seq(CfgRealm) /\ said \in Seq(Entries) /\ RealmIs(cfgRealms, said, r)
  BY DEF ListsRead, FileRead
<1>2. k = Max(N) /\ k \in N /\ k \in 1 .. Len(cfgRealms)
  <2>1. k = Max(N)
    BY DEF Registered, Named
  <2>2. Max(N) \in N /\ N \subseteq 1 .. Len(cfgRealms)
    BY <1>1, LastNamed
  <2> HIDE DEF k, N
  <2> QED
    BY <2>1, <2>2
<1>3. own \in Seq(LimitVals)
  <2>1. cfgRealms[k] \in CfgRealm
    <3> HIDE DEF k
    <3> QED
      BY <1>1, <1>2
  <2> QED
    BY <2>1 DEF CfgRealm
<1>4. n \in Nat /\ L \subseteq 1 .. n /\ M \subseteq 1 .. n
  BY <1>1 DEF MakesIn, LimitsIn
<1>5. \A i \in L : said[i].line.val \in LimitVals
  <2> TAKE i \in L
  <2>1. said[i] \in Entries /\ LimitsRealm(said[i], r)
    BY <1>1, <1>4 DEF LimitsIn
  <2>2. said[i].line \in Lines
    BY <2>1 DEF Entries
  <2> QED
    BY <2>1, <2>2, LimitLineVal DEF LimitsRealm
<1> HIDE DEF k, M, L, N
<1>6. M # {} /\ cfgRealms[k].checkers = said[Max(M)].line.val
  BY <1>1, <1>2 DEF RealmIs, M, N
<1>7. ASSUME Cardinality(M) = 1, \A i \in L : ~BadLimit(said[i].line.val)
      PROVE  InOrderOf(list, said, L)
  <2>1. \A i, j \in M : i = j
    <3>1. IsFiniteSet(1 .. n) /\ IsFiniteSet(M)
      <4>1. IsFiniteSet(1 .. n)
        <5> HIDE DEF n
        <5> QED
          BY <1>4, FS_Interval
      <4> QED
        BY <1>4, <4>1, FS_Subset
    <3>2. \E x : M = {x}
      BY <1>7, <3>1, FS_Singleton
    <3> QED
      BY <3>2
  <2>2. LimitsAre(own, said, L)
    BY <1>1, <1>2, <2>1 DEF RealmIs, M, N, L
  <2>3. /\ Len(own) = Cardinality(L)
        /\ \A i \in L : own[Cardinality({j \in L : j <= i})] = said[i].line.val
    BY <1>7, <2>2 DEF LimitsAre, InOrderOf
  <2> HIDE DEF own
  <2>4. /\ Len(list) = Len(own)
        /\ \A x \in 1 .. Len(own) : list[x] = <<own[x][1] % 65536, own[x][2] % 65536>>
    BY <1>3 DEF InEffect
  <2> HIDE DEF list
  <2>5. ASSUME NEW i \in L
        PROVE  list[Cardinality({j \in L : j <= i})] = said[i].line.val
    <3> DEFINE x == Cardinality({j \in L : j <= i})
               v == said[i].line.val
    <3>1. x \in 1 .. Cardinality(L)
      BY <1>4, PositionsMore
    <3>2. own[x] = v
      BY <2>3
    <3>3. v = <<v[1], v[2]>> /\ v[1] \in Nat /\ v[2] \in Nat /\ v[2] < 65536
      BY <1>5, LimitIs DEF LimitVals
    <3>4. ~BadLimit(v)
      BY <1>7
    <3>5. v[1] < 65536
      BY <3>3, <3>4 DEF BadLimit
    <3>6. v[1] % 65536 = v[1] /\ v[2] % 65536 = v[2]
      BY <3>3, <3>5, NoWrap
    <3> HIDE DEF x, v
    <3>7. list[x] = <<v[1], v[2]>>
      BY <2>3, <2>4, <3>1, <3>2, <3>6
    <3> QED
      BY <3>3, <3>7 DEF x, v
  <2> QED
    BY <2>3, <2>4, <2>5 DEF InOrderOf
<1> DEFINE p == [checkers |-> cfgRealms[k].checkers, limits |-> list]
<1>8. p.checkers = cfgRealms[k].checkers /\ p.limits = list
  OBVIOUS
<1> HIDE DEF p, list
<1>9. MakesIn(said, r) = M /\ LimitsIn(said, r) = L
  BY DEF M, L
<1>10. PassedOn(p, said, r)
  BY <1>6, <1>7, <1>8, <1>9 DEF PassedOn
<1> QED
  BY <1>10 DEF p, list, own, k

\* prestartup() registers what was read.
LEMMA RealmsPrestartup ==
    ASSUME RealmsInv, NEW up, Prestartup(up)
    PROVE  RealmsInv'
<1>1. /\ ListsRead /\ said' = said
      /\ UNCHANGED <<vocabulary, section, sessionLimits, loginLimits, cfgRealms, cfgCheckers>>
      /\ regCheckers' = {cfgCheckers[i].name :
                           i \in {i \in DOMAIN cfgCheckers : cfgCheckers[i].class = "pam"}}
      /\ regRealms' = [name \in {cfgRealms[i].name : i \in DOMAIN cfgRealms} |->
                        [checkers |-> cfgRealms[Registered(name)].checkers,
                         limits   |-> InEffect(cfgRealms[Registered(name)].limits)]]
  BY DEF RealmsInv, Prestartup, listVars, serverVars
<1>2. ListsRead'
  BY <1>1 DEF ListsRead, FileRead
<1>3. \A name : name \in regCheckers' <=> \E i \in DOMAIN said : SaysChecker(said[i], name)
  <2> DEFINE K == {cfgCheckers[i].name : i \in {i \in DOMAIN cfgCheckers : cfgCheckers[i].class = "pam"}}
  <2>1. \A name : name \in K <=> \E i \in DOMAIN cfgCheckers : cfgCheckers[i].name = name /\ cfgCheckers[i].class = "pam"
    OBVIOUS
  <2> HIDE DEF K
  <2>2. regCheckers' = K
    BY <1>1 DEF K
  <2> QED
    BY <1>1, <2>1, <2>2 DEF ListsRead, CheckersAre
<1>4. \A r : r \in DOMAIN regRealms' <=> Named(cfgRealms, r) # {}
  BY <1>1 DEF Named
<1>5. \A r : r \in DOMAIN regRealms' <=> MakesIn(said, r) # {}
  <2>1. \A r : Named(cfgRealms, r) = {} <=> MakesIn(said, r) = {}
    BY <1>1 DEF ListsRead, RealmIs
  <2> QED
    BY <1>4, <2>1
<1>6. ASSUME NEW r \in DOMAIN regRealms' PROVE PassedOn(regRealms'[r], said, r)
  <2>1. regRealms'[r] = [checkers |-> cfgRealms[Registered(r)].checkers,
                         limits |-> InEffect(cfgRealms[Registered(r)].limits)]
    BY <1>1
  <2> QED
    BY <1>1, <1>4, <2>1, RealmPassedOn
<1> QED
  BY <1>1, <1>2, <1>3, <1>5, <1>6 DEF RealmsInv, Registers

\* Every step keeps the invariant.
LEMMA RealmsKept ==
    ASSUME phase # "undefined" => RealmsInv, [ServiceNext]_serviceVars
    PROVE  phase' # "undefined" => RealmsInv'
<1> SUFFICES ASSUME phase' # "undefined" PROVE RealmsInv'
  OBVIOUS
<1>0. RealmsInv
  BY NoWayBack
<1>9. ASSUME NEW l \in vocabulary, ReadPastRoom(l) PROVE FALSE
  BY <1>9 DEF ReadPastRoom
<1> DEFINE Same == UNCHANGED <<vocabulary, said, section, sessionLimits, loginLimits, cfgRealms, cfgCheckers>>
<1>1. CASE UNCHANGED serviceVars
  <2>1. Same /\ UNCHANGED <<phase, regCheckers, regRealms>>
    BY <1>1 DEF serviceVars, configVars, startVars, listVars, serverVars
  <2>2. ListsRead'
    BY <1>0, <2>1 DEF RealmsInv, ListsRead, FileRead
  <2> QED
    BY <1>0, <2>1, <2>2 DEF RealmsInv
<1>2. ASSUME Same, phase' # "running" PROVE RealmsInv'
  <2>1. ListsRead'
    BY <1>0, <1>2 DEF RealmsInv, ListsRead, FileRead
  <2> QED
    BY <1>2, <2>1 DEF RealmsInv
<1>3. ASSUME NEW w \in Words, ReadArgument(w) PROVE RealmsInv'
  <2>1. Same /\ phase' # "running"
    BY <1>3 DEF ReadArgument, listVars, serverVars
  <2> QED
    BY <1>2, <2>1
<1>4. CASE ArgumentsDone
  BY <1>2, <1>4 DEF ArgumentsDone, listVars, serverVars
<1>5. ASSUME NEW l \in vocabulary, ReadLine(l) PROVE RealmsInv'
  BY <1>0, <1>5, RealmsLine
<1>6. ASSUME NEW up, Prestartup(up) PROVE RealmsInv'
  BY <1>0, <1>6, RealmsPrestartup
<1>7. CASE PrestartupCrash
  BY <1>2, <1>7 DEF PrestartupCrash, listVars, serverVars
<1>8. CASE Shutdown
  BY <1>2, <1>8 DEF Shutdown, listVars, serverVars
<1> QED
  BY <1>1, <1>3, <1>4, <1>5, <1>6, <1>7, <1>8, <1>9 DEF ServiceNext

\* However often and in whatever order a file makes and limits realms, the realms
\* registered by prestartup() are the ones it makes, each with the checkers of its last
\* line and, if it is made once, with exactly its own limits in the order readRealm()
\* found them, and the checkers registered are the ones of the file.
THEOREM RealmsAsConfiguredCorrect == ServiceSpec => []RealmsAsConfigured
<1> DEFINE Inv == phase # "undefined" => RealmsInv
<1>1. ServiceInit => Inv
  BY RealmsInit
<1>2. Inv /\ [ServiceNext]_serviceVars => Inv'
  BY RealmsKept
<1>3. Inv => RealmsAsConfigured
  BY RealmsAre DEF RealmsInv, RealmsAsConfigured
<1> HIDE DEF Inv
<1> QED
  BY <1>1, <1>2, <1>3, PTL DEF ServiceSpec

=============================================================================
