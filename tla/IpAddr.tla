------------------------------ MODULE IpAddr --------------------------------
(***************************************************************************)
(* IP addresses (ipaddr.c): parsing, the canonical text, prefixes and the  *)
(* IPv4 address behind a NAT64 prefix.  swad logs addresses by their        *)
(* canonical text.                                                          *)
(*                                                                          *)
(* Symbols: a number stands for its digits, the three marks for themselves. *)
(* The sizes are scaled down: an IPv6 address has NWords words of two bytes, *)
(* an IPv4 address four bytes, and a byte ByteBits bits.                     *)
(***************************************************************************)
EXTENDS Texts, FiniteSets

CONSTANTS NWords,      \* 8
          ByteBits     \* 8

ASSUME AddrAssumption == NWords \in Nat \ {0, 1} /\ ByteBits \in Nat \ {0}

Byte == 2 ^ ByteBits
V4Bits == 4 * ByteBits
V6Bits == 2 * NWords * ByteBits
NoAddr == [proto |-> "none", data |-> <<>>, prefixlen |-> 0]
Dot == 1000
Colon == 1001
Slash == 1002
IsNum(x) == x < Dot
Words(n) == [i \in 1 .. n |-> 0]

\* parsev4(): four numbers with dots between them; <<>> if it is something else.
ParseV4(s) ==
    IF /\ Len(s) = 7
       /\ \A i \in {1, 3, 5, 7} : s[i] \in 0 .. Byte - 1
       /\ \A i \in {2, 4, 6} : s[i] = Dot
      THEN <<s[1], s[3], s[5], s[7]>> ELSE <<>>

ColonAt(s, i) == i <= Len(s) /\ s[i] = Colon

\* parsev6(): the words before the first "::" and, once it was seen, the words
\* after it; <<>> if there is anything else.  A trailing Colon is accepted, and so
\* are too few words.
ParseV6(s) ==
    LET loop[k \in 0 .. Len(s)] ==
            IF k = 0 THEN [pos |-> 1, head |-> <<>>, tail |-> <<>>, gap |-> FALSE, ok |-> TRUE]
            ELSE LET st == loop[k - 1]
                     i == st.pos
                     word == /\ i <= Len(s) /\ s[i] \in 0 .. Byte * Byte - 1
                             /\ i = Len(s) \/ ColonAt(s, i + 1)
                             /\ Len(st.head) + Len(st.tail) < NWords
                     next == IF ColonAt(s, i + 1) /\ ~ColonAt(s, i + 2) THEN i + 2 ELSE i + 1
                 IN IF i > Len(s) \/ ~st.ok THEN st
                    ELSE IF ~st.gap /\ ColonAt(s, i) /\ ColonAt(s, i + 1)
                      THEN [st EXCEPT !.gap = TRUE, !.pos = i + 2]
                    ELSE IF ~word THEN [st EXCEPT !.ok = FALSE]
                    ELSE IF st.gap THEN [st EXCEPT !.tail = Append(@, s[i]), !.pos = next]
                    ELSE [st EXCEPT !.head = Append(@, s[i]), !.pos = next]
        last == loop[Len(s)]
    IN IF last.ok THEN last.head \o Words(NWords - Len(last.head) - Len(last.tail)) \o last.tail
       ELSE <<>>

\* IpAddr_create()
IpAddr_create(s) ==
    LET slash == IndexOf(s, Slash)
        addr == SubSeq(s, 1, slash - 1)
        given == slash <= Len(s)
        Prefix(bits) == IF given THEN s[slash + 1] ELSE bits
        v4 == ParseV4(addr)
        v6 == ParseV6(addr)
    IN IF \/ Len(s) < 2
          \/ given /\ ~(Len(s) = slash + 1 /\ s[Len(s)] \in 0 .. V6Bits) THEN NoAddr
       ELSE IF v4 # <<>>
         THEN IF Prefix(V4Bits) > V4Bits THEN NoAddr
              ELSE [proto |-> "v4", data |-> v4, prefixlen |-> Prefix(V4Bits)]
       ELSE IF v6 # <<>> THEN [proto |-> "v6", data |-> v6, prefixlen |-> Prefix(V6Bits)]
       ELSE NoAddr

\* Mutant: zeros that are not adjacent count as one run.
GapOfAll(w) ==
    LET zeros == {i \in DOMAIN w : w[i] = 0}
    IN IF zeros = {} THEN <<1, 0>>
       ELSE <<CHOOSE i \in zeros : \A j \in zeros : i <= j, Cardinality(zeros)>>

\* The last run of zero words, as first index and length.
Gap(w) ==
    LET scan[i \in 0 .. Len(w)] ==
            IF i = 0 THEN <<1, 0>>
            ELSE LET g == scan[i - 1]
                 IN IF w[i] # 0 THEN g
                    ELSE IF i > g[1] + g[2] THEN <<i, 1>> ELSE <<g[1], g[2] + 1>>
    IN scan[Len(w)]

\* toString()
AddrString(a) ==
    LET w == a.data
        g == Gap(w)
        InGap(i) == g[1] <= i /\ i < g[1] + g[2]
        v6[i \in 0 .. Len(w)] ==
            IF i = 0 THEN <<>>
            ELSE IF InGap(i) THEN v6[i - 1] \o (IF i = g[1] THEN <<Colon, Colon>> ELSE <<>>)
            ELSE v6[i - 1] \o (IF i = 1 \/ InGap(i - 1) THEN <<>> ELSE <<Colon>>) \o <<w[i]>>
    IN IF a.proto = "v4"
         THEN <<w[1], Dot, w[2], Dot, w[3], Dot, w[4]>>
              \o (IF a.prefixlen < V4Bits THEN <<Slash, a.prefixlen>> ELSE <<>>)
         ELSE v6[Len(w)] \o (IF a.prefixlen < V6Bits THEN <<Slash, a.prefixlen>> ELSE <<>>)

\* The bytes of data[], which for IPv4 come after the room of the rest.
BytesOf(a) == IF a.proto = "v4" THEN Words(2 * NWords - 4) \o a.data
            ELSE [i \in 1 .. 2 * NWords |->
                    IF i % 2 = 1 THEN a.data[(i + 1) \div 2] \div Byte
                                 ELSE a.data[i \div 2] % Byte]

\* Mutant: the bits that are left over are not masked out.
MatchesBytes(a, p) ==
    /\ a.proto = p.proto /\ a.prefixlen >= p.prefixlen
    /\ \A i \in 1 .. p.prefixlen \div ByteBits : BytesOf(a)[i] = BytesOf(p)[i]

\* IpAddr_matches()
Matches(a, p) ==
    LET bytes == p.prefixlen \div ByteBits
        bits  == p.prefixlen % ByteBits
        Masked(x) == BytesOf(x)[bytes + 1] \div 2 ^ (ByteBits - bits)
    IN /\ a.proto = p.proto /\ a.prefixlen >= p.prefixlen
       /\ \A i \in 1 .. bytes : BytesOf(a)[i] = BytesOf(p)[i]
       /\ bits = 0 \/ Masked(a) = Masked(p)

\* IpAddr_nat64() with one prefix: the address behind it, or none.
Nat64(a, p) ==
    IF a.prefixlen = V6Bits /\ p.prefixlen = V6Bits - V4Bits /\ Matches(a, p)
      THEN [proto |-> "v4", data |-> SubSeq(BytesOf(a), 2 * NWords - 3, 2 * NWords),
            prefixlen |-> V4Bits]
      ELSE NoAddr

-----------------------------------------------------------------------------
(* Properties.                                                             *)

IsAddrText == kind = "addr" /\ \A i \in 2 .. Len(text) : ~(IsNum(text[i - 1]) /\ IsNum(text[i]))

\* The two correct forms of an IPv6 address: all words, or a gap.
NumbersOf(s) == SelectSeq(s, IsNum)
Alternate(s) == /\ \A i \in DOMAIN s : IF i % 2 = 1 THEN IsNum(s[i]) /\ s[i] < Byte * Byte ELSE s[i] = Colon
                /\ s = <<>> \/ Len(s) % 2 = 1
Gaps(s) == {i \in 1 .. Len(s) - 1 : s[i] = Colon /\ s[i + 1] = Colon}

\* A correct IPv6 address is read as what it means; and the canonical text of
\* any address that was accepted, with its prefix, is accepted again and means
\* the same address, whatever run of zeros it leaves out, at whichever end.
AddrMeans ==
    IsAddrText =>
        /\ LET a == IpAddr_create(text)
           IN a # NoAddr => IpAddr_create(AddrString(a)) = a
        /\ Alternate(text) /\ Len(NumbersOf(text)) = NWords =>
              IpAddr_create(text).data = NumbersOf(text)
        /\ \A i \in Gaps(text) :
              LET l == SubSeq(text, 1, i - 1)
                  r == SubSeq(text, i + 2, Len(text))
                  n == Len(NumbersOf(text))
              IN Alternate(l) /\ Alternate(r) /\ n < NWords =>
                   IpAddr_create(text).data = NumbersOf(l) \o Words(NWords - n) \o NumbersOf(r)

Bit(a, i) == (BytesOf(a)[(i - 1) \div ByteBits + 1] \div 2 ^ (ByteBits - 1 - ((i - 1) % ByteBits))) % 2

\* An IPv6 address is behind a prefix iff it begins with its bits, and behind a
\* NAT64 prefix it maps to the IPv4 address that the other bits are.
MatchesPrefix ==
    LET a == IpAddr_create(text)
    IN IsAddrText /\ a.proto = "v6" =>
         \A len \in 0 .. V6Bits, x \in {0, 1} :
             LET p == [proto |-> "v6", data |-> <<1>> \o Words(NWords - 2) \o <<x>>, prefixlen |-> len]
             IN /\ Matches(a, p) <=> /\ a.prefixlen >= len
                                     /\ \A i \in 1 .. len : Bit(a, i) = Bit(p, i)
                /\ Nat64(a, p) # NoAddr => \A i \in 1 .. V4Bits :
                      Bit(Nat64(a, p), V6Bits - V4Bits + i) = Bit(a, V6Bits - V4Bits + i)

=============================================================================
