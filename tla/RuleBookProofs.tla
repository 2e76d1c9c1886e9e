---------------------------- MODULE RuleBookProofs ----------------------------
(***************************************************************************)
(* The rule book, for any command lines, requests and frames and for       *)
(* addresses of up to 32 bits: the tables say what was asked for, the      *)
(* listings show it in the words it was asked in, and the program judges   *)
(* every frame by it.                                                      *)
(*                                                                         *)
(* The invariant is TypeOK and TablesAreBook: for every subject the tables *)
(* and the book hold the same rules.  A call changes one key of a table    *)
(* and one subject of the book, so what has to be known is that these two  *)
(* go together: a line becomes a request that says what the line says      *)
(* (LineSays), the request's key is listed in the words it was made from   *)
(* (CallOfAsk), and no two keys are listed alike (RowNamesKey).  The       *)
(* verdict follows in any state that satisfies the invariant: the longest  *)
(* prefix that covers an address is the smallest network that holds it     *)
(* (NetSpeaks), the probe that wins is the rule that outranks the others   *)
(* (PortSpeaks), and decide ranks the two (DecideByRank).                  *)
(***************************************************************************)
EXTENDS RuleTables, FiniteSetTheorems, WellFoundedInduction, TLAPS

(***************************************************************************)
(* Arithmetic.                                                             *)
(***************************************************************************)
\* A set of natural numbers has a least element.
LEMMA NatMin ==
    ASSUME NEW T, T \subseteq Nat, T # {}
    PROVE  \E x \in T : \A y \in T : x <= y
<1>1. IsWellFoundedOn(OpToRel(<, Nat), Nat)
  BY NatLessThanWellFounded
<1>2. PICK x \in T : \A y \in T : ~ (<<y, x>> \in OpToRel(<, Nat))
  BY <1>1, WFMin
<1>3. \A y \in T : ~ (y < x)
  BY <1>2 DEF OpToRel
<1> QED
  BY <1>3

\* The powers of two, up to the width of an address.
LEMMA Powers ==
    /\ \A n \in 0 .. 32 : 2 ^ n \in Nat \ {0}
    /\ \A n \in 0 .. 31 : 2 ^ (n + 1) = 2 * 2 ^ n
    /\ 2 ^ 0 = 1
<1> DEFINE pow == [n \in 0 .. 32 |-> 2 ^ n]
<1>1. \A n \in 0 .. 32 : pow[n] = 2 ^ n
  OBVIOUS
<1>2. /\ pow[0] = 1 /\ pow[1] = 2 /\ pow[2] = 4 /\ pow[3] = 8
      /\ pow[4] = 16 /\ pow[5] = 32 /\ pow[6] = 64 /\ pow[7] = 128
      /\ pow[8] = 256 /\ pow[9] = 512 /\ pow[10] = 1024 /\ pow[11] = 2048
      /\ pow[12] = 4096 /\ pow[13] = 8192 /\ pow[14] = 16384 /\ pow[15] = 32768
      /\ pow[16] = 65536 /\ pow[17] = 131072 /\ pow[18] = 262144
      /\ pow[19] = 524288 /\ pow[20] = 1048576 /\ pow[21] = 2097152
      /\ pow[22] = 4194304 /\ pow[23] = 8388608 /\ pow[24] = 16777216
      /\ pow[25] = 33554432 /\ pow[26] = 67108864 /\ pow[27] = 134217728
      /\ pow[28] = 268435456 /\ pow[29] = 536870912 /\ pow[30] = 1073741824
      /\ pow[31] = 2147483648 /\ pow[32] = 4294967296
  OBVIOUS
<1> HIDE DEF pow
<1>3. \A n \in 0 .. 32 : pow[n] \in Nat \ {0}
  BY <1>2
<1>4. \A n \in 0 .. 31 : pow[n + 1] = 2 * pow[n]
  BY <1>2
<1> QED
  BY <1>1, <1>2, <1>3, <1>4

\* What a quotient is.
LEMMA Quotient ==
    ASSUME NEW h \in Nat \ {0}, NEW a \in Nat, NEW q \in Nat
    PROVE  /\ a \div h \in Nat
           /\ a \div h = q <=> q * h <= a /\ a < q * h + h
OBVIOUS

(***************************************************************************)
(* Networks.                                                               *)
(***************************************************************************)
\* How many addresses share a prefix of n bits.
Span(n) == 2 ^ (AddrBits - n)

\* The keys of the trie: no host bits.
Prefix == {k \in [prefixlen : 0 .. AddrBits, data : Addr] :
                k.data = (k.data \div Span(k.prefixlen)) * Span(k.prefixlen)}
NetOf(k) == Net([form |-> "cidr", addr |-> k.data, len |-> k.prefixlen])

\* A greater power of two is a multiple of a smaller one.
LEMMA PowersGrow ==
    ASSUME NEW n \in 0 .. 32
    PROVE  \A m \in n .. 32 : /\ \E c \in Nat : 2 ^ m = c * 2 ^ n
                              /\ m > n => 2 ^ m > 2 ^ n
<1> DEFINE Good(m) == (\E c \in Nat : 2 ^ m = c * 2 ^ n) /\ (m > n => 2 ^ m > 2 ^ n)
           Bad == {m \in n .. 32 : ~ Good(m)}
<1> SUFFICES ASSUME Bad # {} PROVE FALSE
  OBVIOUS
<1>0. Bad \subseteq Nat
  OBVIOUS
<1>1. PICK m \in Bad : \A b \in Bad : m <= b
  <2> HIDE DEF Bad
  <2> QED
    BY <1>0, NatMin
<1>2. Good(n)
  <2>1. 2 ^ n \in Nat
    BY Powers
  <2>2. 2 ^ n = 1 * 2 ^ n
    BY <2>1
  <2> QED
    BY <2>2
<1>3. m \in n .. 32 /\ ~ Good(m) /\ m # n /\ m - 1 \in Nat
  <2>1. m # n
    BY <1>2
  <2> QED
    BY <2>1
<1>4. m - 1 \in n .. 32 /\ Good(m - 1)
  <2>1. m - 1 \in n .. 32
    BY <1>3
  <2>2. m \in Nat
    BY <1>3
  <2>3. m - 1 \notin Bad
    <3> HIDE DEF Bad
    <3> QED
      BY <1>1, <2>2
  <2> QED
    BY <2>1, <2>3
<1>5. 2 ^ m = 2 * 2 ^ (m - 1)
  <2>1. m - 1 \in 0 .. 31 /\ (m - 1) + 1 = m
    BY <1>3, <1>4
  <2> QED
    BY <2>1, Powers
<1>6. 2 ^ m \in Nat /\ 2 ^ (m - 1) \in Nat \ {0} /\ 2 ^ n \in Nat \ {0}
  <2>1. m \in 0 .. 32 /\ m - 1 \in 0 .. 32
    BY <1>3, <1>4
  <2> QED
    BY <2>1, Powers
<1>7. PICK c \in Nat : 2 ^ (m - 1) = c * 2 ^ n
  BY <1>4
<1>8. 2 ^ m = (2 * c) * 2 ^ n /\ 2 * c \in Nat
  <2>1. \A x, y \in Nat : 2 * (x * y) = (2 * x) * y
    OBVIOUS
  <2> QED
    BY <1>5, <1>6, <1>7, <2>1
<1>9. 2 ^ m > 2 ^ n
  BY <1>3, <1>4, <1>5, <1>6
<1> QED
  BY <1>3, <1>8, <1>9

\* A longer prefix has a smaller span, and spans divide the address space.
LEMMA Spans ==
    ASSUME NEW n \in 0 .. AddrBits
    PROVE  /\ Span(n) \in Nat \ {0}
           /\ \E c \in Nat : 2 ^ AddrBits = c * Span(n)
           /\ \A m \in 0 .. AddrBits : m < n => Span(n) < Span(m)
<1>1. AddrBits - n \in 0 .. 32 /\ AddrBits \in (AddrBits - n) .. 32
  BY WidthAssumption
<1>2. ASSUME NEW m \in 0 .. AddrBits, m < n
      PROVE  AddrBits - m \in (AddrBits - n) .. 32 /\ AddrBits - m > AddrBits - n
  BY <1>2, WidthAssumption
<1> QED
  BY <1>1, <1>2, Powers, PowersGrow DEF Span

\* A network is the interval that starts at its prefix.
LEMMA NetIsInterval ==
    ASSUME NEW k \in Prefix
    PROVE  /\ NetOf(k) = k.data .. k.data + Span(k.prefixlen) - 1
           /\ Cardinality(NetOf(k)) = Span(k.prefixlen)
           /\ k.data \in NetOf(k)
<1> DEFINE h == Span(k.prefixlen)
           d == k.data
           q == d \div h
<1>1. /\ h \in Nat \ {0} /\ d \in Nat /\ d < 2 ^ AddrBits /\ q \in Nat /\ d = q * h
  BY Spans, Powers, WidthAssumption, Quotient DEF Prefix, Addr
<1>2. PICK c \in Nat : 2 ^ AddrBits = c * h
  BY Spans DEF Prefix
<1>3. NetOf(k) = {a \in Addr : a \div h = q}
  BY DEF NetOf, Net, IsHost, Span
<1> HIDE DEF h, d, q
<1>4. d + h <= 2 ^ AddrBits
  <2>1. q * h < c * h
    BY <1>1, <1>2
  <2>2. q < c
    BY <1>1, <2>1
  <2>3. q + 1 <= c
    BY <1>1, <2>2
  <2>4. (q + 1) * h <= c * h
    BY <1>1, <2>3
  <2> QED
    BY <1>1, <1>2, <2>4
<1>5. 2 ^ AddrBits \in Nat
  BY Powers, WidthAssumption
<1>6. \A a \in Nat : a \div h = q <=> d <= a /\ a < d + h
  BY <1>1, Quotient
<1>7. NetOf(k) = d .. d + h - 1
  <2>1. \A a \in Nat : a \in Addr /\ a \div h = q <=> a \in d .. d + h - 1
    BY <1>1, <1>4, <1>5, <1>6 DEF Addr
  <2>2. d .. d + h - 1 \subseteq Nat /\ Addr \subseteq Nat
    BY <1>1 DEF Addr
  <2> QED
    BY <1>3, <2>1, <2>2
<1>8. Cardinality(d .. d + h - 1) = h
  <2>1. d \in Int /\ d + h - 1 \in Int /\ ~ (d > d + h - 1) /\ (d + h - 1) - d + 1 = h
    BY <1>1
  <2>2. \A x \in Int, y \in Int : ~ (x > y) => Cardinality(x .. y) = y - x + 1
    BY FS_Interval
  <2> QED
    BY <2>1, <2>2
<1>9. d \in d .. d + h - 1
  BY <1>1
<1> QED
  BY <1>7, <1>8, <1>9 DEF h, d

\* An address the prefix covers is in its network.
LEMMA CoversIsNet ==
    ASSUME NEW k \in Prefix, NEW a \in Addr
    PROVE  Covers(k, a) <=> a \in NetOf(k)
BY DEF Covers, NetOf, Net, IsHost

\* Two prefixes that cover an address are told apart by their lengths, and the
\* longer one has the smaller network.
LEMMA Nested ==
    ASSUME NEW j \in Prefix, NEW k \in Prefix
    PROVE  /\ Cardinality(NetOf(j)) <= Cardinality(NetOf(k)) <=> k.prefixlen <= j.prefixlen
           /\ \A a \in NetOf(j) \cap NetOf(k) : j.prefixlen = k.prefixlen => j = k
<1>1. /\ j.prefixlen \in 0 .. AddrBits /\ k.prefixlen \in 0 .. AddrBits
      /\ AddrBits \in 0 .. 32
  BY WidthAssumption DEF Prefix
<1>2. /\ Span(j.prefixlen) \in Nat /\ Span(k.prefixlen) \in Nat
      /\ j.prefixlen < k.prefixlen => Span(k.prefixlen) < Span(j.prefixlen)
      /\ k.prefixlen < j.prefixlen => Span(j.prefixlen) < Span(k.prefixlen)
  BY <1>1, Spans
<1>3. Span(j.prefixlen) <= Span(k.prefixlen) <=> k.prefixlen <= j.prefixlen
  <2>1. j.prefixlen = k.prefixlen => Span(j.prefixlen) = Span(k.prefixlen)
    OBVIOUS
  <2> QED
    BY <1>1, <1>2, <2>1
<1>4. ASSUME NEW a \in NetOf(j) \cap NetOf(k), j.prefixlen = k.prefixlen
      PROVE  j = k
  <2>1. a \div Span(j.prefixlen) = j.data \div Span(j.prefixlen)
    BY DEF NetOf, Net, IsHost, Span
  <2>2. a \div Span(k.prefixlen) = k.data \div Span(k.prefixlen)
    BY DEF NetOf, Net, IsHost, Span
  <2>3. j.data = k.data
    BY <1>4, <2>1, <2>2 DEF Prefix
  <2> QED
    BY <1>4, <2>3 DEF Prefix
<1> QED
  BY <1>3, <1>4, NetIsInterval

\* A network has one prefix.
LEMMA NetNamesPrefix ==
    ASSUME NEW j \in Prefix, NEW k \in Prefix, NetOf(j) = NetOf(k)
    PROVE  j = k
<1>1. j.data \in NetOf(j) \cap NetOf(k)
  BY NetIsInterval
<1>2. Span(j.prefixlen) = Span(k.prefixlen)
  BY NetIsInterval
<1>3. j.prefixlen \in 0 .. AddrBits /\ k.prefixlen \in 0 .. AddrBits /\ AddrBits \in 0 .. 32
  BY WidthAssumption DEF Prefix
<1>4. Span(j.prefixlen) \in Nat
  BY <1>3, Spans
<1>5. Cardinality(NetOf(j)) \in Nat
  BY <1>4, NetIsInterval
<1>6. j.prefixlen <= k.prefixlen /\ k.prefixlen <= j.prefixlen
  BY <1>5, Nested
<1> QED
  BY <1>1, <1>3, <1>6, Nested

\* The parser keeps the network of what it parses.
LEMMA ParseKeepsNet ==
    ASSUME NEW value, AddressOk(value), IsAddress(value)
    PROVE  /\ ParseIPOrCIDR(value) \in Prefix
           /\ NetOf(ParseIPOrCIDR(value)) = Net(value)
<1>0. AddrBits \in 0 .. 32 /\ 2 ^ AddrBits \in Nat
  BY WidthAssumption, Powers
<1>1. CASE value.form = "host"
  <2>1. value.addr \in Addr
    BY <1>1 DEF AddressOk
  <2>2. Span(AddrBits) = 1
    <3>1. AddrBits - AddrBits = 0
      BY <1>0
    <3> QED
      BY <3>1, Powers DEF Span
  <2>3. \A a \in Addr : a \div 1 = a /\ a * 1 = a
    BY DEF Addr
  <2>4. ParseIPOrCIDR(value) = [prefixlen |-> AddrBits, data |-> value.addr]
    BY <1>1 DEF ParseIPOrCIDR, IsHost
  <2>5. NetOf([prefixlen |-> AddrBits, data |-> value.addr]) = {a \in Addr : a \div 1 = value.addr \div 1}
    BY <2>2 DEF NetOf, Net, IsHost, Span
  <2>6. NetOf([prefixlen |-> AddrBits, data |-> value.addr]) = {value.addr}
    BY <2>1, <2>3, <2>5
  <2>7. [prefixlen |-> AddrBits, data |-> value.addr] \in Prefix
    BY <1>0, <2>1, <2>2, <2>3 DEF Prefix
  <2> QED
    BY <1>1, <2>4, <2>6, <2>7 DEF Net, IsHost
<1>2. CASE value.form = "cidr"
  <2> DEFINE h == Span(value.len)
             q == value.addr \div h
             k == [prefixlen |-> value.len, data |-> q * h]
  <2>1. value.addr \in Addr /\ value.len \in 0 .. AddrBits
    BY <1>2 DEF AddressOk
  <2>2. h \in Nat \ {0}
    BY <2>1, Spans
  <2>3. value.addr \in Nat /\ value.addr < 2 ^ AddrBits
    BY <1>0, <2>1 DEF Addr
  <2>4. ParseIPOrCIDR(value) = k
    BY <1>2 DEF ParseIPOrCIDR, IsHost, Span
  <2>5. NetOf(k) = {a \in Addr : a \div h = (q * h) \div h}
    BY DEF NetOf, Net, IsHost, Span
  <2>6. Net(value) = {a \in Addr : a \div h = q}
    BY <1>2 DEF Net, IsHost, Span
  <2> HIDE DEF h
  <2>7. q \in Nat /\ q * h <= value.addr
    BY <2>2, <2>3, Quotient
  <2> HIDE DEF q
  <2>8. q * h \in Nat
    BY <2>2, <2>7
  <2>9. (q * h) \div h = q
    BY <2>2, <2>7, <2>8, Quotient
  <2>10. q * h \in Addr
    BY <1>0, <2>3, <2>7, <2>8 DEF Addr
  <2>11. k \in Prefix
    BY <2>1, <2>9, <2>10 DEF Prefix, h
  <2> QED
    BY <2>4, <2>5, <2>6, <2>9, <2>11
<1> QED
  BY <1>1, <1>2 DEF IsAddress

(***************************************************************************)
(* Ports and protocols.                                                    *)
(***************************************************************************)
\* The keys of the port table.
PortKey == [protocol : {0, TCP, UDP}, dport : Port, sport : Port, dst : Addr]

\* Listings read back the number that was stored; the bytes of a frame give the
\* stored number of the port they spell.
LEMMA WirePorts ==
    /\ \A p \in Port : portToWire(p) \in Port /\ wireToPort(portToWire(p)) = p
    /\ \A w \in Port : wireToPort(w) \in Port /\ portToWire(wireToPort(w)) = w
    /\ \A bytes \in Byte \X Byte :
            LoadU16(bytes) \in Port /\ wireToPort(LoadU16(bytes)) = PortNumber(bytes)
    /\ \A w \in Port : wireToPort(w) = 0 <=> w = 0
<1>1. ASSUME NEW p \in Port
      PROVE  portToWire(p) \in Port /\ wireToPort(portToWire(p)) = p
  <2> DEFINE high == p \div 256
             low == p % 256
             w == high + 256 * low
  <2>1. high \in Byte /\ low \in Byte /\ p = 256 * high + low
    BY DEF Port, Byte
  <2>2. portToWire(p) = w
    BY Zenon DEF portToWire, LoadU16
  <2> HIDE DEF high, low
  <2>3. w \in Port /\ w % 256 = high /\ w \div 256 = low
    BY <2>1 DEF Port, Byte
  <2> QED
    BY <2>1, <2>2, <2>3 DEF wireToPort
<1>2. ASSUME NEW w \in Port
      PROVE  /\ wireToPort(w) \in Port /\ portToWire(wireToPort(w)) = w
             /\ wireToPort(w) = 0 <=> w = 0
  <2> DEFINE high == w % 256
             low == w \div 256
             p == 256 * high + low
  <2>1. high \in Byte /\ low \in Byte /\ w = high + 256 * low
    BY DEF Port, Byte
  <2>2. wireToPort(w) = p
    BY DEF wireToPort
  <2> HIDE DEF high, low
  <2>3. p \in Port /\ p % 256 = low /\ p \div 256 = high
    BY <2>1 DEF Port, Byte
  <2>4. p = 0 <=> w = 0
    BY <2>1 DEF Byte
  <2> QED
    BY <2>1, <2>2, <2>3, <2>4 DEF portToWire, LoadU16
<1>3. ASSUME NEW bytes \in Byte \X Byte
      PROVE  LoadU16(bytes) \in Port /\ wireToPort(LoadU16(bytes)) = PortNumber(bytes)
  <2>1. PICK high \in Byte, low \in Byte : bytes = <<high, low>>
    OBVIOUS
  <2>2. LoadU16(bytes) = high + 256 * low /\ PortNumber(bytes) = 256 * high + low
    BY <2>1 DEF LoadU16, PortNumber
  <2>3. /\ high + 256 * low \in Port
        /\ (high + 256 * low) % 256 = high /\ (high + 256 * low) \div 256 = low
    BY DEF Port, Byte
  <2> QED
    BY <2>2, <2>3 DEF wireToPort
<1> QED
  BY <1>1, <1>2, <1>3

\* A protocol's code is listed under its name.
LEMMA ProtocolCodes ==
    \A protocol : ValidProtocol(protocol) =>
        /\ protoToCode(protocol) \in {0, TCP, UDP}
        /\ codeToProto(protoToCode(protocol)) = protocol
<1>1. /\ protoToCode("") = 0 /\ protoToCode("tcp") = TCP /\ protoToCode("udp") = UDP
      /\ codeToProto(0) = "" /\ codeToProto(TCP) = "tcp" /\ codeToProto(UDP) = "udp"
  BY DEF protoToCode, codeToProto, TCP, UDP
<1> QED
  BY <1>1 DEF ValidProtocol

\* The key of a port rule is listed in the words it was made from ...
LEMMA PortKeyKeepsWords ==
    ASSUME NEW words, PortKeyOk(words), AddressOk(words.value), NamesPort(words),
           words.port \in Port, words.sport \in Port
    PROVE  newPortKey(words) \in PortKey /\ PortRow(newPortKey(words)) = Subject(words)
<1>1. words.value.addr \in Addr
  BY DEF PortKeyOk, IsHost, AddressOk
<1>2. /\ protoToCode(words.protocol) \in {0, TCP, UDP}
      /\ codeToProto(protoToCode(words.protocol)) = words.protocol
  BY ProtocolCodes DEF PortKeyOk
<1> QED
  BY <1>1, <1>2, WirePorts DEF newPortKey, PortKey, PortRow, Subject

\* ... and no other key is.
LEMMA PortRowNamesKey ==
    ASSUME NEW j \in PortKey, NEW k \in PortKey, PortRow(j) = PortRow(k)
    PROVE  j = k
<1>1. j.dport = k.dport /\ j.sport = k.sport /\ j.dst = k.dst
  BY WirePorts DEF PortRow, PortKey
<1>2. j.protocol = k.protocol
  <2>1. codeToProto(j.protocol) = codeToProto(k.protocol)
    BY DEF PortRow
  <2>2. \A c, d \in {0, TCP, UDP} : codeToProto(c) = codeToProto(d) => c = d
    BY DEF codeToProto, TCP, UDP
  <2>3. j.protocol \in {0, TCP, UDP} /\ k.protocol \in {0, TCP, UDP}
    BY DEF PortKey
  <2> QED
    BY <2>1, <2>2, <2>3
<1> QED
  BY <1>1, <1>2 DEF PortKey

(***************************************************************************)
(* What is asked.                                                          *)
(***************************************************************************)
\* The keys of a table, and how a listing shows one.
KeySpace(t) == IF t = "PORT" THEN PortKey ELSE Prefix
Row(t, k) == IF t = "PORT" THEN PortRow(k) ELSE NetRow(k)

\* No two keys are listed alike.
LEMMA RowNamesKey ==
    ASSUME NEW s \in Tables, NEW t \in Tables, NEW j \in KeySpace(s), NEW k \in KeySpace(t),
           Row(s, j) = Row(t, k)
    PROVE  s = t /\ j = k
<1>1. s = t
  BY DEF Tables, Row, PortRow, NetRow
<1>2. CASE t = "PORT"
  BY <1>1, <1>2, PortRowNamesKey DEF KeySpace, Row
<1>3. CASE t = "IP"
  <2>1. NetOf(j) = NetOf(k)
    BY <1>1, <1>3 DEF Row, NetRow, NetOf
  <2> QED
    BY <1>1, <1>3, <2>1, NetNamesPrefix DEF KeySpace
<1> QED
  BY <1>2, <1>3 DEF Tables

\* What a record says of a rule; two that say the same.
SaysRule(words) ==
    /\ words.port \in Port /\ words.sport \in Port /\ words.priority \in Nat
    /\ AddressOk(words.value)
SayTheSame(w, v) ==
    /\ w.value = v.value /\ w.protocol = v.protocol /\ w.port = v.port
    /\ w.sport = v.sport /\ w.action = v.action /\ w.priority = v.priority

KeyedCall(call) == call.kind \in {"put", "del"}

\* A call that names a rule comes of a request to block or unblock one.
LEMMA KeyedCallIs ==
    ASSUME NEW req, KeyedCall(handle(req))
    PROVE  LET call == handle(req) IN
           /\ req.command \in {"block", "unblock"}
           /\ \/ /\ call.table = "PORT" /\ call.key = newPortKey(req)
                 /\ NamesPort(req) /\ PortKeyOk(req)
              \/ /\ call.table = "IP" /\ call.key = ParseIPOrCIDR(req.value)
                 /\ ~ NamesPort(req) /\ IpKeyOk(req)
           /\ call.kind = "put" => call.val = RequestedRule(req)
<1>1. ASSUME req.command \notin {"block", "unblock"} PROVE FALSE
  BY <1>1 DEF handle, KeyedCall, SetDefault, Refused, ClearIP
<1>2. CASE req.command = "block"
  <2>1. handle(req) = Block(req)
    BY <1>2 DEF handle
  <2> QED
    BY <1>2, <2>1 DEF Block, Refused, KeyedCall
<1>3. CASE req.command = "unblock"
  <2>1. handle(req) = Unblock(req)
    BY <1>3 DEF handle
  <2> QED
    BY <1>3, <2>1 DEF Unblock, Refused, KeyedCall
<1> QED
  BY <1>1, <1>2, <1>3

(***************************************************************************)
(* Command lines.                                                          *)
(***************************************************************************)
\* What the first n tokens of a line make of the options, for every n.
Takes(line, t) ==
    t = [n \in 0 .. Len(line) |-> IF n = 0 THEN NoOptions ELSE Take(t[n - 1], line[n])]

\* A recursion over an initial segment has a solution.
LEMMA TakesUpTo ==
    ASSUME NEW line, NEW m \in Nat
    PROVE  \E t : t = [n \in 0 .. m |-> IF n = 0 THEN NoOptions ELSE Take(t[n - 1], line[n])]
<1> DEFINE Solves(t, k) ==
             t = [n \in 0 .. k |-> IF n = 0 THEN NoOptions ELSE Take(t[n - 1], line[n])]
           Bad == {k \in Nat : ~ \E t : Solves(t, k)}
<1> SUFFICES ASSUME Bad # {} PROVE FALSE
  OBVIOUS
<1>1. PICK k \in Bad : \A b \in Bad : k <= b
  <2>1. Bad \subseteq Nat
    OBVIOUS
  <2> HIDE DEF Bad
  <2> QED
    BY <2>1, NatMin
<1>2. k \in Nat /\ ~ \E t : Solves(t, k)
  OBVIOUS
<1>3. CASE k = 0
  <2>1. Solves([n \in 0 .. 0 |-> NoOptions], 0)
    OBVIOUS
  <2> QED
    BY <1>2, <1>3, <2>1
<1>4. CASE k # 0
  <2>1. k - 1 \in Nat /\ k - 1 \notin Bad
    <3>1. k - 1 \in Nat
      BY <1>2, <1>4
    <3> HIDE DEF Bad
    <3> QED
      BY <1>1, <1>2, <3>1
  <2>2. PICK g : Solves(g, k - 1)
    BY <2>1
  <2> DEFINE t == [n \in 0 .. k |-> IF n = 0 THEN NoOptions ELSE Take(g[n - 1], line[n])]
  <2>3. \A n \in 0 .. k - 1 :
            g[n] = IF n = 0 THEN NoOptions ELSE Take(g[n - 1], line[n])
    BY <2>2
  <2>4. \A n \in 0 .. k - 1 : t[n] = g[n]
    BY <1>2, <2>3
  <2>5. \A n \in 0 .. k : n # 0 => n - 1 \in 0 .. k - 1
    BY <1>2
  <2>6. \A n \in 0 .. k : n # 0 => t[n - 1] = g[n - 1]
    BY <2>4, <2>5
  <2>7. Solves(t, k)
    BY <2>6
  <2> QED
    BY <1>2, <2>7
<1> QED
  BY <1>3, <1>4

\* extractOptions is the end of such a recursion.
LEMMA ExtractTakes ==
    ASSUME NEW line, Len(line) \in Nat
    PROVE  \E t : Takes(line, t) /\ extractOptions(line) = t[Len(line)]
<1> DEFINE t == CHOOSE taken :
                    taken = [n \in 0 .. Len(line) |->
                                IF n = 0 THEN NoOptions ELSE Take(taken[n - 1], line[n])]
<1>1. extractOptions(line) = t[Len(line)]
  BY DEF extractOptions
<1>2. Takes(line, t)
  <2>1. \E s : Takes(line, s)
    BY TakesUpTo DEF Takes
  <2>2. t = CHOOSE s : Takes(line, s)
    BY DEF Takes
  <2> QED
    BY <2>1, <2>2
<1> QED
  BY <1>1, <1>2

IsArg(line, i) == "arg" \in DOMAIN line[i]
Numbers == {"dport", "sport", "priority"}

\* What an option says is what its last token says, or what goes without saying.
SaidUpTo(line, n, name, value) ==
    \/ value = NoOptions[name] /\ \A i \in 1 .. n : name \notin DOMAIN line[i]
    \/ \E i \in 1 .. n :
            /\ name \in DOMAIN line[i] /\ value = line[i][name]
            /\ \A j \in i + 1 .. n : name \notin DOMAIN line[j]

\* The words so far: none, one, or the second of them at its place.
WordsUpTo(line, n, args) ==
    \/ Len(args) = 0 /\ \A i \in 1 .. n : ~ IsArg(line, i)
    \/ Len(args) = 1 /\ \E i \in 1 .. n : /\ IsArg(line, i)
                                          /\ \A k \in 1 .. n : IsArg(line, k) => k = i
    \/ /\ Len(args) >= 2
       /\ \E i \in 1 .. n : \E j \in i + 1 .. n :
            /\ IsArg(line, i) /\ IsArg(line, j) /\ args[2] = line[j].arg
            /\ \A k \in 1 .. j - 1 : IsArg(line, k) => k = i

NumbersFit(opts) ==
    opts.dport \in Port /\ opts.sport \in Port /\ opts.priority \in Nat

Values(line) == {line[i].arg : i \in DOMAIN line}
OptionFields == {"args", "protocol", "action", "dport", "sport", "priority", "err"}

\* What has been made of the first n tokens is what they say, or an error.
Reflects(line, n, opts) ==
    /\ DOMAIN opts = OptionFields
    /\ opts = [name \in OptionFields |-> opts[name]]
    /\ opts.err \in BOOLEAN
    /\ ~ opts.err =>
        /\ opts.args \in Seq(Values(line))
        /\ NumbersFit(opts)
        /\ \A name \in Options : SaidUpTo(line, n, name, opts[name])
        /\ WordsUpTo(line, n, opts.args)

\* A token of a line has one name.
LEMMA TokenOfLine ==
    ASSUME NEW line \in Lines, NEW i \in 1 .. Len(line)
    PROVE  \E name : /\ DOMAIN line[i] = {name}
                     /\ name = "arg" => AddressOk(line[i].arg)
                     /\ name \in Numbers => line[i][name] \in Int
<1>1. i \in DOMAIN line
  BY LineAssumption
<1> QED
  BY <1>1, LineAssumption DEF Numbers

\* The parser of a number accepts it as it is, or not at all.
LEMMA ParsersKeepNumbers ==
    \A n \in Int : /\ parsePort(n) # NotANumber => parsePort(n) = n /\ n \in Port
                   /\ parsePriority(n) # NotANumber => parsePriority(n) = n /\ n \in Nat
BY DEF parsePort, parsePriority, NotANumber, Port

\* An option that is taken keeps what was said.
LEMMA OptionTaken ==
    ASSUME NEW token, NEW name, DOMAIN token = {name}, Acceptable(token),
           name \in Numbers => token[name] \in Int
    PROVE  /\ name \in Options
           /\ Parsed(token)[name] = token[name]
           /\ name \in {"dport", "sport"} => token[name] \in Port
           /\ name = "priority" => token[name] \in Nat
<1>1. name \in Options
  BY DEF Acceptable
<1>2. name \in Numbers => Parsed(token)[name] # NotANumber
  BY DEF Acceptable, Numbers
<1>3. CASE name \in {"dport", "sport"}
  <2>1. Parsed(token)[name] = parsePort(token[name])
    BY <1>3 DEF Parsed
  <2> QED
    BY <1>1, <1>2, <1>3, <2>1, ParsersKeepNumbers DEF Numbers
<1>4. CASE name = "priority"
  <2>1. Parsed(token)[name] = parsePriority(token[name])
    BY <1>4 DEF Parsed
  <2> QED
    BY <1>1, <1>2, <1>4, <2>1, ParsersKeepNumbers DEF Numbers
<1>5. CASE name \notin Numbers
  BY <1>1, <1>5 DEF Parsed, Numbers
<1> QED
  BY <1>3, <1>4, <1>5 DEF Numbers

\* Before the first token ...
LEMMA NoOptionsReflect ==
    ASSUME NEW line
    PROVE  Reflects(line, 0, NoOptions)
<1>1. DOMAIN NoOptions = OptionFields
  BY DEF NoOptions, OptionFields
<1>2. /\ NoOptions.err = FALSE /\ NoOptions.args = <<>>
      /\ NoOptions.dport = 0 /\ NoOptions.sport = 0 /\ NoOptions.priority = 0
  BY DEF NoOptions
<1>3. NoOptions = [name \in DOMAIN NoOptions |-> NoOptions[name]]
  BY DEF NoOptions
<1>4. NumbersFit(NoOptions)
  BY <1>2 DEF NumbersFit, Port
<1>5. \A name \in Options : SaidUpTo(line, 0, name, NoOptions[name])
  BY DEF SaidUpTo
<1>6. WordsUpTo(line, 0, NoOptions.args)
  BY <1>2 DEF WordsUpTo
<1>7. NoOptions.args \in Seq(Values(line)) /\ NoOptions.err \in BOOLEAN
  <2>1. <<>> \in Seq(Values(line)) /\ FALSE \in BOOLEAN
    OBVIOUS
  <2> QED
    BY <1>2, <2>1, Zenon
<1>8. NoOptions = [name \in OptionFields |-> NoOptions[name]]
  BY <1>1, <1>3, Zenon
<1> QED
  BY <1>1, <1>4, <1>5, <1>6, <1>7, <1>8 DEF Reflects

\* ... and from one to the next.
LEMMA TakeReflects ==
    ASSUME NEW line \in Lines, NEW n \in Nat, n + 1 \in 1 .. Len(line),
           NEW opts, Reflects(line, n, opts)
    PROVE  Reflects(line, n + 1, Take(opts, line[n + 1]))
<1> DEFINE token == line[n + 1]
           next == Take(opts, token)
<1>0. /\ DOMAIN opts = OptionFields
      /\ opts = [name \in OptionFields |-> opts[name]]
      /\ opts.err \in BOOLEAN
  BY DEF Reflects
<1>1. PICK name : /\ DOMAIN token = {name}
                  /\ name = "arg" => AddressOk(token.arg)
                  /\ name \in Numbers => token[name] \in Int
  BY TokenOfLine
<1>2. CASE opts.err
  BY <1>2 DEF Take, Reflects
<1>3. CASE ~ opts.err /\ name = "arg"
  <2>1. next = [opts EXCEPT !.args = Append(@, token.arg)]
    BY <1>1, <1>3 DEF Take
  <2>2. opts.args \in Seq(Values(line)) /\ token.arg \in Values(line)
    <3>1. n + 1 \in DOMAIN line
      BY LineAssumption
    <3> QED
      BY <1>3, <3>1 DEF Reflects, Values
  <2>3. /\ DOMAIN next = OptionFields /\ next.args = Append(opts.args, token.arg)
        /\ \A f \in OptionFields \ {"args"} : next[f] = opts[f]
        /\ next = [f \in OptionFields |-> next[f]]
    BY <1>0, <2>1 DEF OptionFields
  <2>4. next.args \in Seq(Values(line)) /\ Len(next.args) = Len(opts.args) + 1
        /\ Len(opts.args) \in Nat
        /\ \A i \in 1 .. Len(opts.args) : next.args[i] = opts.args[i]
        /\ next.args[Len(opts.args) + 1] = token.arg
    BY <2>2, <2>3
  <2>5. NumbersFit(next)
    BY <1>3, <2>3 DEF Reflects, NumbersFit, OptionFields
  <2>6. ASSUME NEW f \in Options PROVE SaidUpTo(line, n + 1, f, next[f])
    <3>1. f \notin DOMAIN line[n + 1] /\ next[f] = opts[f]
      BY <1>1, <1>3, <2>3 DEF Options, OptionFields
    <3>2. SaidUpTo(line, n, f, opts[f])
      BY <1>3 DEF Reflects
    <3> QED
      BY <3>1, <3>2 DEF SaidUpTo
  <2>7. WordsUpTo(line, n + 1, next.args)
    <3>1. IsArg(line, n + 1) /\ token.arg = line[n + 1].arg
      BY <1>1, <1>3 DEF IsArg
    <3>2. WordsUpTo(line, n, opts.args)
      BY <1>3 DEF Reflects
    <3> HIDE DEF next, token
    <3>3. CASE Len(opts.args) = 0
      <4>1. \A i \in 1 .. n : ~ IsArg(line, i)
        BY <3>2, <3>3 DEF WordsUpTo
      <4> QED
        BY <2>4, <3>1, <3>3, <4>1 DEF WordsUpTo
    <3>4. CASE Len(opts.args) = 1
      <4>1. PICK i \in 1 .. n : IsArg(line, i) /\ \A k \in 1 .. n : IsArg(line, k) => k = i
        BY <3>2, <3>4 DEF WordsUpTo
      <4>2. Len(next.args) = 2 /\ next.args[2] = line[n + 1].arg
        BY <2>4, <3>1, <3>4
      <4>3. n + 1 \in i + 1 .. n + 1 /\ i \in 1 .. n + 1 /\ 1 .. (n + 1) - 1 = 1 .. n
        OBVIOUS
      <4> QED
        BY <3>1, <4>1, <4>2, <4>3 DEF WordsUpTo
    <3>5. CASE Len(opts.args) >= 2
      <4>1. PICK i \in 1 .. n : \E j \in i + 1 .. n :
                /\ IsArg(line, i) /\ IsArg(line, j) /\ opts.args[2] = line[j].arg
                /\ \A k \in 1 .. j - 1 : IsArg(line, k) => k = i
        BY <3>2, <3>5 DEF WordsUpTo
      <4>2. PICK j \in i + 1 .. n :
                /\ IsArg(line, i) /\ IsArg(line, j) /\ opts.args[2] = line[j].arg
                /\ \A k \in 1 .. j - 1 : IsArg(line, k) => k = i
        BY <4>1
      <4>3. Len(next.args) >= 2 /\ next.args[2] = line[j].arg
        BY <2>4, <3>5, <4>2
      <4>4. i \in 1 .. n + 1 /\ j \in i + 1 .. n + 1
        OBVIOUS
      <4> QED
        BY <4>2, <4>3, <4>4 DEF WordsUpTo
    <3> QED
      BY <3>2, <3>3, <3>4, <3>5 DEF WordsUpTo
  <2> QED
    BY <1>0, <2>3, <2>4, <2>5, <2>6, <2>7 DEF Reflects, OptionFields
<1>4. CASE ~ opts.err /\ name # "arg" /\ Acceptable(token)
  <2>1. next = [f \in DOMAIN opts |->
                    IF f \in DOMAIN token THEN Parsed(token)[f] ELSE opts[f]]
    BY <1>1, <1>4 DEF Take
  <2>2. /\ name \in Options
        /\ Parsed(token)[name] = token[name]
        /\ name \in {"dport", "sport"} => token[name] \in Port
        /\ name = "priority" => token[name] \in Nat
    BY <1>1, <1>4, OptionTaken
  <2>3. /\ DOMAIN next = OptionFields /\ next[name] = token[name]
        /\ \A f \in OptionFields : f # name => next[f] = opts[f]
        /\ next = [f \in OptionFields |-> next[f]]
    BY <1>0, <1>1, <2>1, <2>2 DEF OptionFields, Options
  <2>4. next.args = opts.args /\ next.err = opts.err
    BY <2>2, <2>3 DEF Options, OptionFields
  <2>5. NumbersFit(next)
    <3>1. NumbersFit(opts)
      BY <1>4 DEF Reflects
    <3> QED
      BY <2>2, <2>3, <3>1 DEF NumbersFit, OptionFields
  <2>6. ASSUME NEW f \in Options PROVE SaidUpTo(line, n + 1, f, next[f])
    <3>1. CASE f = name
      <4>1. f \in DOMAIN line[n + 1] /\ next[f] = line[n + 1][f]
        BY <1>1, <2>3, <3>1
      <4>2. n + 1 \in 1 .. n + 1 /\ (n + 1) + 1 .. n + 1 = {}
        OBVIOUS
      <4> QED
        BY <4>1, <4>2 DEF SaidUpTo
    <3>2. CASE f # name
      <4>1. f \notin DOMAIN line[n + 1] /\ next[f] = opts[f]
        BY <1>1, <2>3, <3>2 DEF Options, OptionFields
      <4>2. SaidUpTo(line, n, f, opts[f])
        BY <1>4 DEF Reflects
      <4> QED
        BY <4>1, <4>2 DEF SaidUpTo
    <3> QED
      BY <3>1, <3>2
  <2>7. WordsUpTo(line, n + 1, opts.args)
    <3>1. ~ IsArg(line, n + 1)
      BY <1>1, <1>4 DEF IsArg
    <3>2. WordsUpTo(line, n, opts.args)
      BY <1>4 DEF Reflects
    <3> QED
      BY <3>1, <3>2 DEF WordsUpTo
  <2>8. opts.args \in Seq(Values(line))
    BY <1>4 DEF Reflects
  <2> QED
    BY <1>0, <2>3, <2>4, <2>5, <2>6, <2>7, <2>8 DEF Reflects
<1>5. CASE ~ opts.err /\ name # "arg" /\ ~ Acceptable(token)
  <2>1. next = [opts EXCEPT !.err = TRUE]
    BY <1>1, <1>5 DEF Take
  <2>2. DOMAIN next = OptionFields /\ next.err = TRUE /\ next = [f \in OptionFields |-> next[f]]
    BY <1>0, <2>1 DEF OptionFields
  <2> QED
    BY <2>2 DEF Reflects
<1> QED
  BY <1>2, <1>3, <1>4, <1>5

\* What is taken of a line reflects the line.
LEMMA ExtractReflects ==
    ASSUME NEW line \in Lines
    PROVE  Reflects(line, Len(line), extractOptions(line))
<1>1. Len(line) \in Nat
  BY LineAssumption
<1>2. PICK t : Takes(line, t) /\ extractOptions(line) = t[Len(line)]
  BY <1>1, ExtractTakes
<1>3. /\ t[0] = NoOptions
      /\ \A n \in 1 .. Len(line) : t[n] = Take(t[n - 1], line[n])
  BY <1>1, <1>2 DEF Takes
<1> DEFINE Bad == {n \in 0 .. Len(line) : ~ Reflects(line, n, t[n])}
<1>4. ASSUME Bad # {} PROVE FALSE
  <2>1. PICK n \in Bad : \A b \in Bad : n <= b
    <3>1. Bad \subseteq Nat
      OBVIOUS
    <3> HIDE DEF Bad
    <3> QED
      BY <1>4, <3>1, NatMin
  <2>2. n \in 0 .. Len(line) /\ ~ Reflects(line, n, t[n])
    OBVIOUS
  <2>3. n # 0
    BY <1>3, <2>2, NoOptionsReflect
  <2>4. n - 1 \in Nat /\ n - 1 \in 0 .. Len(line) /\ (n - 1) + 1 = n /\ n \in 1 .. Len(line)
    BY <1>1, <2>2, <2>3
  <2>5. Reflects(line, n - 1, t[n - 1])
    <3>1. n - 1 \notin Bad
      <4> HIDE DEF Bad
      <4> QED
        BY <2>1, <2>4
    <3> QED
      BY <2>4, <3>1
  <2>6. \A m \in Nat : m + 1 \in 1 .. Len(line) /\ Reflects(line, m, t[m]) =>
            Reflects(line, m + 1, Take(t[m], line[m + 1]))
    BY TakeReflects
  <2>7. Reflects(line, n, Take(t[n - 1], line[n]))
    BY <2>4, <2>5, <2>6
  <2> QED
    BY <1>3, <2>2, <2>4, <2>7
<1> QED
  BY <1>1, <1>2, <1>4

\* The value an option has is what the line says.
LEMMA OptionIsSaid ==
    ASSUME NEW line \in Lines, NEW name \in Options, NEW value,
           SaidUpTo(line, Len(line), name, value)
    PROVE  Said(line, name, NoOptions[name]) = value
<1>1. Len(line) \in Nat /\ DOMAIN line = 1 .. Len(line)
  BY LineAssumption
<1>2. CASE value = NoOptions[name] /\ \A i \in 1 .. Len(line) : name \notin DOMAIN line[i]
  BY <1>1, <1>2 DEF Said, At
<1>3. CASE \E i \in 1 .. Len(line) :
                /\ name \in DOMAIN line[i] /\ value = line[i][name]
                /\ \A j \in i + 1 .. Len(line) : name \notin DOMAIN line[j]
  <2>1. PICK i \in 1 .. Len(line) :
                /\ name \in DOMAIN line[i] /\ value = line[i][name]
                /\ \A j \in i + 1 .. Len(line) : name \notin DOMAIN line[j]
    BY <1>3
  <2> DEFINE last == CHOOSE k \in At(line, name) : \A j \in At(line, name) : j <= k
  <2>2. i \in At(line, name) /\ \A j \in At(line, name) : j \in Nat /\ j <= i
    BY <1>1, <2>1 DEF At
  <2>3. last \in At(line, name) /\ \A j \in At(line, name) : j <= last
    BY <2>2
  <2>4. last = i
    <3> HIDE DEF last
    <3> QED
      BY <2>2, <2>3
  <2> QED
    BY <2>1, <2>2, <2>4 DEF Said
<1> QED
  BY <1>2, <1>3 DEF SaidUpTo

\* The second word is the object of the line.
LEMMA SecondWordIsObject ==
    ASSUME NEW line \in Lines, NEW args, WordsUpTo(line, Len(line), args), Len(args) >= 2,
           Len(args) \in Nat
    PROVE  args[2] = Object(line) /\ AddressOk(args[2])
<1>1. Len(line) \in Nat /\ DOMAIN line = 1 .. Len(line)
  BY LineAssumption
<1>2. PICK i \in 1 .. Len(line), j \in 1 .. Len(line) :
            /\ i < j
            /\ IsArg(line, i) /\ IsArg(line, j) /\ args[2] = line[j].arg
            /\ \A k \in 1 .. j - 1 : IsArg(line, k) => k = i
  BY DEF WordsUpTo
<1> DEFINE A == At(line, "arg")
           Before(n) == {k \in A : k < n}
<1>3. /\ A \subseteq 1 .. Len(line) /\ i \in A /\ j \in A /\ i < j /\ i \in Nat /\ j \in Nat
      /\ \A k \in A : k \in Nat /\ (k < j => k = i)
  BY <1>1, <1>2 DEF At, IsArg
<1> HIDE DEF A
<1>4. ASSUME NEW n \in A
      PROVE  Cardinality(Before(n)) = 1 <=> \E x : Before(n) = {x}
  <2>1. IsFiniteSet(1 .. Len(line))
    BY <1>1, FS_Interval
  <2>2. IsFiniteSet(Before(n))
    BY <1>3, <2>1, FS_Subset
  <2> QED
    BY <2>2, FS_Singleton
<1>5. Before(j) = {i}
  BY <1>3
<1>6. ASSUME NEW n \in A, NEW x, Before(n) = {x} PROVE n = j
  <2>1. x \in A /\ x < n /\ n \in Nat /\ x \in Nat
    BY <1>3, <1>6
  <2>2. ~ (n < j)
    <3>1. SUFFICES ASSUME n < j PROVE FALSE
      OBVIOUS
    <3>2. n = i /\ x < j
      BY <1>3, <2>1, <3>1
    <3>3. x = i
      BY <1>3, <2>1, <3>2
    <3> QED
      BY <2>1, <3>2, <3>3
  <2>3. ~ (j < n)
    <3>1. SUFFICES ASSUME j < n PROVE FALSE
      OBVIOUS
    <3>2. i \in Before(n) /\ j \in Before(n)
      BY <1>3, <2>1, <3>1
    <3> QED
      BY <1>3, <1>6, <3>2
  <2> QED
    BY <1>3, <2>1, <2>2, <2>3
<1>7. ASSUME NEW n \in A
      PROVE  Cardinality(Before(n)) = 1 <=> n = j
  <2>1. n = j => Before(n) = {i}
    BY <1>5
  <2>2. Cardinality(Before(n)) = 1 <=> \E x : Before(n) = {x}
    BY <1>4
  <2>3. (\E x : Before(n) = {x}) => n = j
    BY <1>6
  <2> HIDE DEF Before
  <2> QED
    BY <2>1, <2>2, <2>3
<1>8. Object(line) = line[j].arg
  <2> DEFINE second == CHOOSE n \in A : Cardinality(Before(n)) = 1
  <2>1. second = j
    BY <1>3, <1>7
  <2>2. \E n \in A : Cardinality(Before(n)) = 1
    BY <1>3, <1>7
  <2>3. Object(line) = IF \E n \in A : Cardinality(Before(n)) = 1
                       THEN line[second].arg
                       ELSE [form |-> "word", text |-> ""]
    BY DEF Object, A
  <2> QED
    BY <2>1, <2>2, <2>3
<1>9. AddressOk(line[j].arg)
  <2>1. j \in 1 .. Len(line) /\ "arg" \in DOMAIN line[j]
    BY <1>1, <1>2 DEF IsArg
  <2> QED
    BY <2>1, TokenOfLine
<1> QED
  BY <1>2, <1>8, <1>9

\* What a rule is, whoever asked for it.
RuleType == [action : {"PASS", "DROP"}, priority : Nat]

\* What the client sends of a line is what the line says.
LEMMA LineSays ==
    ASSUME NEW line \in Sent
    PROVE  /\ RequestedRule(firewallctl(line)) \in RuleType
           /\ firewallctl(line).command \in {"block", "unblock"} =>
                /\ SaysRule(firewallctl(line))
                /\ SayTheSame(Words(line), firewallctl(line))
<1> DEFINE opts == extractOptions(line)
           req == firewallctl(line)
<1>1. line \in Lines /\ req # NotSent
  BY DEF Sent
<1>2. Reflects(line, Len(line), opts)
  BY <1>1, ExtractReflects
<1>3. \/ \E command, value : req = BareRequest(command, value)
                              /\ command \in BareCommands \cup {"default"}
      \/ /\ ~ opts.err /\ opts.args # <<>> /\ ~ (Len(opts.args) < 2)
         /\ req = [command |-> opts.args[1].text, value |-> opts.args[2],
                   protocol |-> opts.protocol, port |-> opts.dport, sport |-> opts.sport,
                   action |-> opts.action, priority |-> opts.priority]
  <2> HIDE DEF opts
  <2>1. req = IF opts.err \/ opts.args = <<>> THEN NotSent
        ELSE IF opts.args[1].form = "word" /\ opts.args[1].text \in BareCommands
        THEN BareRequest(opts.args[1].text, [form |-> "word", text |-> ""])
        ELSE IF Len(opts.args) < 2 THEN NotSent
        ELSE IF opts.args[1].form = "word" /\ opts.args[1].text \in {"default"}
        THEN BareRequest(opts.args[1].text, opts.args[2])
        ELSE IF opts.args[1].form = "word" /\ opts.args[1].text \in {"block", "unblock"}
        THEN [command |-> opts.args[1].text, value |-> opts.args[2],
              protocol |-> opts.protocol, port |-> opts.dport, sport |-> opts.sport,
              action |-> opts.action, priority |-> opts.priority]
        ELSE NotSent
    BY DEF firewallctl, opts
  <2> QED
    BY <1>1, <2>1
<1> HIDE DEF opts, req
<1>4. ASSUME NEW command, NEW value, req = BareRequest(command, value),
             command \in BareCommands \cup {"default"}
      PROVE  /\ RequestedRule(req) \in RuleType
             /\ req.command \notin {"block", "unblock"}
  <2>1. req.action = "" /\ req.command = command
    BY <1>4 DEF BareRequest
  <2> QED
    BY <1>4, <2>1 DEF RequestedRule, ParseAction, RuleType, BareCommands
<1>5. ASSUME ~ opts.err, ~ (Len(opts.args) < 2),
             req = [command |-> opts.args[1].text, value |-> opts.args[2],
                    protocol |-> opts.protocol, port |-> opts.dport, sport |-> opts.sport,
                    action |-> opts.action, priority |-> opts.priority]
      PROVE  RequestedRule(req) \in RuleType /\ SaysRule(req) /\ SayTheSame(Words(line), req)
  <2>1. /\ opts.args \in Seq(Values(line)) /\ NumbersFit(opts)
        /\ \A name \in Options : SaidUpTo(line, Len(line), name, opts[name])
        /\ WordsUpTo(line, Len(line), opts.args)
    BY <1>2, <1>5 DEF Reflects
  <2>2. Len(opts.args) \in Nat /\ Len(opts.args) >= 2
    BY <1>5, <2>1
  <2>3. opts.args[2] = Object(line) /\ AddressOk(opts.args[2])
    BY <1>1, <2>1, <2>2, SecondWordIsObject
  <2>4. \A name \in Options : Said(line, name, NoOptions[name]) = opts[name]
    BY <1>1, <2>1, OptionIsSaid
  <2>5. /\ NoOptions["protocol"] = "" /\ NoOptions["action"] = ""
        /\ NoOptions["dport"] = 0 /\ NoOptions["sport"] = 0 /\ NoOptions["priority"] = 0
    BY DEF NoOptions
  <2>6. /\ Said(line, "protocol", "") = opts.protocol /\ Said(line, "action", "") = opts.action
        /\ Said(line, "dport", 0) = opts.dport /\ Said(line, "sport", 0) = opts.sport
        /\ Said(line, "priority", 0) = opts.priority
    BY <2>4, <2>5 DEF Options
  <2>7. SayTheSame(Words(line), req)
    BY <1>5, <2>3, <2>6 DEF SayTheSame, Words
  <2>8. req.priority \in Nat /\ SaysRule(req)
    BY <1>5, <2>1, <2>3 DEF SaysRule, NumbersFit
  <2>9. RequestedRule(req) \in RuleType
    BY <2>8 DEF RequestedRule, ParseAction, RuleType
  <2> QED
    BY <2>7, <2>8, <2>9
<1> QED
  BY <1>3, <1>4, <1>5 DEF req

\* So for whatever is asked: a request's words are its own.
LEMMA AskSays ==
    ASSUME NEW ask \in Asks
    PROVE  /\ RequestedRule(ask.req) \in RuleType
           /\ ask.req.command \in {"block", "unblock"} =>
                SaysRule(ask.req) /\ SayTheSame(ask.words, ask.req)
<1>1. CASE \E line \in Sent : ask = [req |-> firewallctl(line), words |-> Words(line)]
  BY <1>1, LineSays
<1>2. CASE \E req \in Requests : ask = [req |-> req, words |-> req]
  <2>1. PICK req \in Requests : ask = [req |-> req, words |-> req]
    BY <1>2
  <2>2. req.priority \in Nat /\ SaysRule(req)
    BY RequestAssumption DEF SaysRule
  <2>3. RequestedRule(req) \in RuleType
    BY <2>2 DEF RequestedRule, ParseAction, RuleType
  <2> QED
    BY <2>1, <2>2, <2>3 DEF SayTheSame
<1> QED
  BY <1>1, <1>2 DEF Asks

LEMMA RulesAreRules == Rule \subseteq RuleType
BY AskSays DEF Rule

\* A call changes the entry of one key, and the key is listed in the words of
\* whoever asked.
LEMMA CallOfAsk ==
    ASSUME NEW ask \in Asks, KeyedCall(handle(ask.req))
    PROVE  LET call == handle(ask.req) IN
           /\ call.table \in Tables
           /\ call.key \in Keys(call.table)
           /\ call.key \in KeySpace(call.table)
           /\ Row(call.table, call.key) = Subject(ask.words)
           /\ call.kind = "put" =>
                call.val \in Rule /\ call.val = RequestedRule(ask.words)
<1> DEFINE req == ask.req
           call == handle(req)
<1>1. /\ req.command \in {"block", "unblock"}
      /\ \/ /\ call.table = "PORT" /\ call.key = newPortKey(req)
            /\ NamesPort(req) /\ PortKeyOk(req)
         \/ /\ call.table = "IP" /\ call.key = ParseIPOrCIDR(req.value)
            /\ ~ NamesPort(req) /\ IpKeyOk(req)
      /\ call.kind = "put" => call.val = RequestedRule(req)
  BY KeyedCallIs
<1>2. SaysRule(req) /\ SayTheSame(ask.words, req)
  BY <1>1, AskSays
<1>3. Subject(ask.words) = Subject(req) /\ RequestedRule(ask.words) = RequestedRule(req)
  BY <1>2 DEF SayTheSame, Subject, NamesPort, RequestedRule
<1>4. RequestedRule(req) \in Rule
  BY DEF Rule
<1>5. call.table \in Tables
  BY <1>1 DEF Tables
<1>6. call \in KeyedCalls(call.table)
  BY DEF KeyedCalls, KeyedCall
<1>7. call.key \in Keys(call.table)
  BY <1>6 DEF Keys
<1> HIDE DEF call
<1>8. call.key \in KeySpace(call.table) /\ Row(call.table, call.key) = Subject(req)
  <2>1. CASE call.table = "PORT"
    <3>1. NamesPort(req) /\ PortKeyOk(req) /\ call.key = newPortKey(req)
      BY <1>1, <2>1
    <3>2. newPortKey(req) \in PortKey /\ PortRow(newPortKey(req)) = Subject(req)
      BY <1>2, <3>1, PortKeyKeepsWords DEF SaysRule
    <3> QED
      BY <2>1, <3>1, <3>2 DEF KeySpace, Row
  <2>2. CASE call.table = "IP"
    <3>1. ~ NamesPort(req) /\ IpKeyOk(req) /\ call.key = ParseIPOrCIDR(req.value)
      BY <1>1, <2>2
    <3>2. /\ ParseIPOrCIDR(req.value) \in Prefix
          /\ NetOf(ParseIPOrCIDR(req.value)) = Net(req.value)
      BY <1>2, <3>1, ParseKeepsNet DEF SaysRule, IpKeyOk
    <3>3. NetRow(call.key) = Subject(req)
      BY <3>1, <3>2 DEF NetRow, NetOf, Subject
    <3> QED
      BY <2>2, <3>1, <3>2, <3>3 DEF KeySpace, Row
  <2> QED
    BY <1>1, <2>1, <2>2
<1> QED
  BY <1>1, <1>3, <1>4, <1>5, <1>7, <1>8 DEF call

\* The keys of the calls are keys of the tables.
LEMMA KeysAreKeys ==
    ASSUME NEW t \in Tables
    PROVE  Keys(t) \subseteq KeySpace(t)
<1> SUFFICES ASSUME NEW k \in Keys(t) PROVE k \in KeySpace(t)
  OBVIOUS
<1>1. PICK ask \in Asks : /\ KeyedCall(handle(ask.req))
                          /\ handle(ask.req).table = t /\ handle(ask.req).key = k
  BY DEF Keys, KeyedCalls, KeyedCall
<1> QED
  BY <1>1, CallOfAsk

(***************************************************************************)
(* The listings and the book.                                              *)
(***************************************************************************)
\* A rule and its subject, on the tables and in the book.
OnTables(s, r) == \E t \in Tables : \E k \in Stored(t) : s = Row(t, k) /\ r = rules[t][k]
InBook(s, r) == \E e \in book : s = e.subject /\ r = e.rule

TablesAreBook == \A s, r : OnTables(s, r) <=> InBook(s, r)

\* What ListingByTheBook says of sets of rows, subject by subject.
LEMMA ListingMeans ==
    ListingByTheBook <=> TablesAreBook
<1> DEFINE Pages == {[subject |-> e.subject, rule |-> e.rule] : e \in book}
           Rows == Listed \cup ListedNets
<1>1. \A s, r : OnTables(s, r) <=> [subject |-> s, rule |-> r] \in Rows
  <2> SUFFICES ASSUME NEW s, NEW r
               PROVE  OnTables(s, r) <=> [subject |-> s, rule |-> r] \in Rows
    OBVIOUS
  <2>1. OnTables(s, r) <=>
            \/ \E k \in Stored("PORT") : s = PortRow(k) /\ r = rules["PORT"][k]
            \/ \E k \in Stored("IP") : s = NetRow(k) /\ r = rules["IP"][k]
    BY DEF OnTables, Tables, Row
  <2>2. [subject |-> s, rule |-> r] \in Listed <=>
            \E k \in Stored("PORT") : s = PortRow(k) /\ r = rules["PORT"][k]
    BY DEF Listed
  <2>3. [subject |-> s, rule |-> r] \in ListedNets <=>
            \E k \in Stored("IP") : s = NetRow(k) /\ r = rules["IP"][k]
    BY DEF ListedNets
  <2> QED
    BY <2>1, <2>2, <2>3, Zenon
<1>2. \A s, r : InBook(s, r) <=> [subject |-> s, rule |-> r] \in Pages
  BY DEF InBook
<1>3. \A x \in Rows \cup Pages : \E s, r : x = [subject |-> s, rule |-> r]
  BY DEF Listed, ListedNets
<1>4. ListingByTheBook <=> Rows = Pages
  BY DEF ListingByTheBook
<1> HIDE DEF Rows, Pages
<1>5. Rows = Pages <=> \A s, r : [subject |-> s, rule |-> r] \in Rows
                                    <=> [subject |-> s, rule |-> r] \in Pages
  <2>1. ASSUME \A s, r : [subject |-> s, rule |-> r] \in Rows
                            <=> [subject |-> s, rule |-> r] \in Pages
        PROVE  Rows = Pages
    <3>1. \A x \in Rows : x \in Pages
      BY <1>3, <2>1
    <3>2. \A x \in Pages : x \in Rows
      BY <1>3, <2>1
    <3> QED
      BY <3>1, <3>2
  <2>2. ASSUME Rows = Pages
        PROVE  \A s, r : [subject |-> s, rule |-> r] \in Rows
                            <=> [subject |-> s, rule |-> r] \in Pages
    BY <2>2
  <2> QED
    BY <2>1, <2>2
<1> QED
  BY <1>1, <1>2, <1>4, <1>5 DEF TablesAreBook

LEMMA ListingMeansNext ==
    ListingByTheBook' <=> TablesAreBook'
<1> QED
  BY ListingMeans, PTL

\* A write changes one entry.
LEMMA WriteOne ==
    ASSUME TypeOK, NEW t0 \in Tables, NEW k0 \in Keys(t0), NEW v \in Rule \cup {NoRule},
           rules' = [rules EXCEPT ![t0][k0] = v]
    PROVE  /\ DOMAIN rules' = Tables
           /\ \A t \in Tables : rules'[t] \in [Keys(t) -> Rule \cup {NoRule}]
           /\ \A t \in Tables : \A k \in Keys(t) :
                rules'[t][k] = IF t = t0 /\ k = k0 THEN v ELSE rules[t][k]
<1>1. \A t \in Tables : rules[t] \in [Keys(t) -> Rule \cup {NoRule}]
  BY DEF TypeOK
<1>2. /\ DOMAIN rules' = Tables
      /\ \A t \in Tables : t # t0 => rules'[t] = rules[t]
      /\ rules'[t0] = [rules[t0] EXCEPT ![k0] = v]
  BY Zenon DEF TypeOK
<1>3. /\ rules'[t0] \in [Keys(t0) -> Rule \cup {NoRule}]
      /\ \A k \in Keys(t0) : rules'[t0][k] = IF k = k0 THEN v ELSE rules[t0][k]
  BY <1>1, <1>2
<1> QED
  BY <1>1, <1>2, <1>3

\* It changes what the tables say of one subject.
LEMMA WriteRow ==
    ASSUME TypeOK, NEW t0 \in Tables, NEW k0 \in Keys(t0), NEW v \in Rule \cup {NoRule},
           rules' = [rules EXCEPT ![t0][k0] = v], NEW s, NEW r
    PROVE  OnTables(s, r)' <=> IF s = Row(t0, k0) THEN r = v /\ Matched(v)
                               ELSE OnTables(s, r)
<1>1. \A t \in Tables : \A k \in Keys(t) :
        rules'[t][k] = IF t = t0 /\ k = k0 THEN v ELSE rules[t][k]
  BY WriteOne
<1>2. OnTables(s, r)' <=> \E t \in Tables : \E k \in Keys(t) :
                            Matched(rules'[t][k]) /\ s = Row(t, k) /\ r = rules'[t][k]
  BY DEF OnTables, Stored
<1>3. OnTables(s, r) <=> \E t \in Tables : \E k \in Keys(t) :
                            Matched(rules[t][k]) /\ s = Row(t, k) /\ r = rules[t][k]
  BY DEF OnTables, Stored
<1>4. \A t \in Tables : \A k \in Keys(t) : Row(t, k) = Row(t0, k0) => t = t0 /\ k = k0
  <2> SUFFICES ASSUME NEW t \in Tables, NEW k \in Keys(t), Row(t, k) = Row(t0, k0)
               PROVE  t = t0 /\ k = k0
    OBVIOUS
  <2>1. k \in KeySpace(t) /\ k0 \in KeySpace(t0)
    BY KeysAreKeys
  <2> QED
    BY <2>1, RowNamesKey
<1>5. CASE s = Row(t0, k0)
  BY <1>1, <1>2, <1>4, <1>5
<1>6. CASE s # Row(t0, k0)
  BY <1>1, <1>2, <1>3, <1>6
<1> QED
  BY <1>5, <1>6

\* A block puts one key and enters one subject ...
LEMMA BlockKeeps ==
    ASSUME TypeOK, TablesAreBook, NEW ask \in Asks, BlockRule(ask)
    PROVE  TypeOK' /\ TablesAreBook'
<1>1. PICK call : call = handle(ask.req)
  OBVIOUS
<1>2. KeyedCall(call) /\ call.kind = "put"
  BY <1>1 DEF BlockRule, KeyedCall
<1>3. /\ call.table \in Tables /\ call.key \in Keys(call.table)
      /\ Row(call.table, call.key) = Subject(ask.words)
      /\ call.val \in Rule /\ call.val = RequestedRule(ask.words)
  BY <1>1, <1>2, CallOfAsk
<1>4. /\ rules' = [rules EXCEPT ![call.table][call.key] = call.val]
      /\ book' = Without(Subject(ask.words)) \cup {Entry(ask.words)}
      /\ UNCHANGED firewall_config
  BY <1>1 DEF BlockRule
<1>5. /\ DOMAIN rules' = Tables
      /\ \A t \in Tables : rules'[t] \in [Keys(t) -> Rule \cup {NoRule}]
  BY <1>3, <1>4, WriteOne
<1>6. \A e \in book' : e.rule \in Rule
  BY <1>3, <1>4 DEF Without, Entry, TypeOK
<1>7. TypeOK'
  BY <1>4, <1>5, <1>6 DEF TypeOK
<1>8. ASSUME NEW s, NEW r PROVE OnTables(s, r)' <=> InBook(s, r)'
  <2>1. Matched(call.val)
    BY <1>3, RuleAssumption DEF Matched
  <2>2. OnTables(s, r)' <=> IF s = Subject(ask.words) THEN r = call.val /\ Matched(call.val)
                            ELSE OnTables(s, r)
    <3>1. call.val \in Rule \cup {NoRule} /\ rules' = [rules EXCEPT ![call.table][call.key] = call.val]
      BY <1>3, <1>4
    <3>2. OnTables(s, r)' <=> IF s = Row(call.table, call.key) THEN r = call.val /\ Matched(call.val)
                              ELSE OnTables(s, r)
      BY <1>3, <3>1, WriteRow
    <3> QED
      BY <1>3, <3>2
  <2>3. PICK page : page = Entry(ask.words)
    OBVIOUS
  <2>4. page.subject = Subject(ask.words) /\ page.rule = call.val
    BY <1>3, <2>3 DEF Entry
  <2>5. book' = Without(Subject(ask.words)) \cup {page}
    BY <1>4, <2>3
  <2>6. InBook(s, r)' <=> IF s = Subject(ask.words) THEN r = call.val
                          ELSE InBook(s, r)
    BY <2>4, <2>5 DEF InBook, Without
  <2> QED
    BY <2>1, <2>2, <2>6 DEF TablesAreBook
<1> QED
  BY <1>7, <1>8 DEF TablesAreBook

\* ... and an unblock deletes one and strikes one out.
LEMMA UnblockKeeps ==
    ASSUME TypeOK, TablesAreBook, NEW ask \in Asks, UnblockRule(ask)
    PROVE  TypeOK' /\ TablesAreBook'
<1>1. PICK call : call = handle(ask.req)
  OBVIOUS
<1>2. KeyedCall(call)
  BY <1>1 DEF UnblockRule, KeyedCall
<1>3. /\ call.table \in Tables /\ call.key \in Keys(call.table)
      /\ Row(call.table, call.key) = Subject(ask.words)
  BY <1>1, <1>2, CallOfAsk
<1>4. /\ rules' = [rules EXCEPT ![call.table][call.key] = NoRule]
      /\ book' = Without(Subject(ask.words))
      /\ UNCHANGED firewall_config
  BY <1>1 DEF UnblockRule
<1>5. /\ DOMAIN rules' = Tables
      /\ \A t \in Tables : rules'[t] \in [Keys(t) -> Rule \cup {NoRule}]
  BY <1>3, <1>4, WriteOne
<1>6. TypeOK'
  BY <1>4, <1>5 DEF TypeOK, Without
<1>7. ASSUME NEW s, NEW r PROVE OnTables(s, r)' <=> InBook(s, r)'
  <2>1. OnTables(s, r)' <=> IF s = Subject(ask.words) THEN r = NoRule /\ Matched(NoRule)
                            ELSE OnTables(s, r)
    BY <1>3, <1>4, WriteRow
  <2>2. InBook(s, r)' <=> s # Subject(ask.words) /\ InBook(s, r)
    BY <1>4 DEF InBook, Without
  <2> QED
    BY <2>1, <2>2 DEF TablesAreBook, Matched
<1> QED
  BY <1>6, <1>7 DEF TablesAreBook

\* Empty tables and an empty book say the same: nothing.
LEMMA EmptyAgrees ==
    ASSUME rules = [t \in Tables |-> Empty(t)], book = {}, firewall_config \in {"ALLOW", "DENY"}
    PROVE  TypeOK /\ TablesAreBook
<1>1. \A t \in Tables : \A k \in Keys(t) : ~ Matched(rules[t][k])
  BY DEF Empty, Matched
<1>2. TablesAreBook
  BY <1>1 DEF TablesAreBook, OnTables, Stored, InBook
<1> QED
  BY <1>2 DEF TypeOK, Empty

\* Also after a clear.
LEMMA EmptyAgreesNext ==
    rules' = [t \in Tables |-> Empty(t)] /\ book' = {} /\ firewall_config' \in {"ALLOW", "DENY"}
    => TypeOK' /\ TablesAreBook'
<1>1. \A t \in Tables : \A k \in Keys(t) :
        rules' = [u \in Tables |-> Empty(u)] => ~ Matched(rules'[t][k])
  BY DEF Empty, Matched
<1>2. rules' = [t \in Tables |-> Empty(t)] /\ book' = {} => TablesAreBook'
  BY <1>1 DEF TablesAreBook, OnTables, Stored, InBook
<1> QED
  BY <1>2 DEF TypeOK, Empty

\* The tables, as the listings show them, are the book.
LEMMA BookIsKept ==
    Spec => [](TypeOK /\ TablesAreBook)
<1>1. Init => TypeOK /\ TablesAreBook
  BY EmptyAgrees DEF Init
<1>2. TypeOK /\ TablesAreBook /\ [Next]_vars => TypeOK' /\ TablesAreBook'
  <2> SUFFICES ASSUME TypeOK, TablesAreBook, [Next]_vars PROVE TypeOK' /\ TablesAreBook'
    OBVIOUS
  <2>1. ASSUME NEW ask \in Asks, BlockRule(ask) PROVE TypeOK' /\ TablesAreBook'
    BY <2>1, BlockKeeps
  <2>2. ASSUME NEW ask \in Asks, UnblockRule(ask) PROVE TypeOK' /\ TablesAreBook'
    BY <2>2, UnblockKeeps
  <2>3. ASSUME NEW ask \in Asks, SetPolicy(ask) PROVE TypeOK' /\ TablesAreBook'
    <3>1. firewall_config' \in {"ALLOW", "DENY"}
      <4>1. handle(ask.req) = SetDefault(ask.req) /\ handle(ask.req).kind = "setdefault"
        BY <2>3 DEF SetPolicy, handle, Block, Unblock, Refused, ClearIP
      <4> QED
        BY <2>3, <4>1 DEF SetPolicy, SetDefault, ParseDefaultPolicy, Refused
    <3>2. UNCHANGED <<rules, book>>
      BY <2>3 DEF SetPolicy
    <3> QED
      BY <3>1, <3>2 DEF TypeOK, TablesAreBook, OnTables, Stored, InBook
  <2>4. ASSUME NEW ask \in Asks, ClearRules(ask) PROVE TypeOK' /\ TablesAreBook'
    BY <2>4, EmptyAgreesNext DEF ClearRules, TypeOK
  <2>5. CASE UNCHANGED vars
    BY <2>5 DEF vars, TypeOK, TablesAreBook, OnTables, Stored, InBook
  <2> QED
    BY <2>1, <2>2, <2>3, <2>4, <2>5 DEF Next
<1> QED
  BY <1>1, <1>2, PTL DEF Spec

(***************************************************************************)
(* The verdict and the book: rules on addresses.                           *)
(***************************************************************************)
\* What is stored under a key.
LEMMA StoredIs ==
    ASSUME TypeOK, NEW t \in Tables, NEW k \in Stored(t)
    PROVE  /\ k \in KeySpace(t) /\ k \in Keys(t) /\ k \in DOMAIN rules[t]
           /\ rules[t][k] \in RuleType /\ Matched(rules[t][k])
<1>1. k \in Keys(t) /\ Matched(rules[t][k])
  BY DEF Stored
<1>2. rules[t] \in [Keys(t) -> Rule \cup {NoRule}]
  BY DEF TypeOK
<1> QED
  BY <1>1, <1>2, KeysAreKeys, RulesAreRules DEF Matched

LEMMA DomainsAreKeys ==
    ASSUME TypeOK, NEW t \in Tables
    PROVE  DOMAIN rules[t] = Keys(t)
BY DEF TypeOK

\* The page of a stored key and the stored key of a page.
LEMMA NetPages ==
    ASSUME TypeOK, TablesAreBook
    PROVE  /\ \A e \in book : e.subject.about = "net" =>
                \E k \in Stored("IP") : e.subject.net = NetOf(k) /\ e.rule = rules["IP"][k]
           /\ \A k \in Stored("IP") : \E e \in book :
                /\ e.subject.about = "net" /\ e.subject.net = NetOf(k)
                /\ e.rule = rules["IP"][k]
<1>1. ASSUME NEW e \in book, e.subject.about = "net"
      PROVE  \E k \in Stored("IP") : e.subject.net = NetOf(k) /\ e.rule = rules["IP"][k]
  <2>1. OnTables(e.subject, e.rule)
    BY DEF TablesAreBook, InBook
  <2>2. PICK t \in Tables : \E k \in Stored(t) : e.subject = Row(t, k) /\ e.rule = rules[t][k]
    BY <2>1 DEF OnTables
  <2>3. t = "IP"
    BY <1>1, <2>2 DEF Tables, Row, PortRow
  <2>4. PICK k \in Stored("IP") : e.subject = NetRow(k) /\ e.rule = rules["IP"][k]
    BY <2>2, <2>3 DEF Row
  <2> QED
    BY <2>4 DEF NetRow, NetOf
<1>2. ASSUME NEW k \in Stored("IP")
      PROVE  \E e \in book : /\ e.subject.about = "net" /\ e.subject.net = NetOf(k)
                             /\ e.rule = rules["IP"][k]
  <2>1. OnTables(NetRow(k), rules["IP"][k])
    BY DEF OnTables, Tables, Row
  <2>2. PICK e \in book : e.subject = NetRow(k) /\ e.rule = rules["IP"][k]
    BY <2>1 DEF TablesAreBook, InBook
  <2> QED
    BY <2>2 DEF NetRow, NetOf
<1> QED
  BY <1>1, <1>2

LEMMA PortPages ==
    ASSUME TypeOK, TablesAreBook
    PROVE  /\ \A e \in book : e.subject.about = "port" =>
                \E k \in Stored("PORT") : e.subject = PortRow(k) /\ e.rule = rules["PORT"][k]
           /\ \A k \in Stored("PORT") : \E e \in book :
                e.subject = PortRow(k) /\ e.rule = rules["PORT"][k]
<1>1. ASSUME NEW e \in book, e.subject.about = "port"
      PROVE  \E k \in Stored("PORT") : e.subject = PortRow(k) /\ e.rule = rules["PORT"][k]
  <2>1. OnTables(e.subject, e.rule)
    BY DEF TablesAreBook, InBook
  <2>2. PICK t \in Tables : \E k \in Stored(t) : e.subject = Row(t, k) /\ e.rule = rules[t][k]
    BY <2>1 DEF OnTables
  <2>3. t = "PORT"
    BY <1>1, <2>2 DEF Tables, Row, NetRow
  <2> QED
    BY <2>2, <2>3 DEF Row
<1>2. ASSUME NEW k \in Stored("PORT")
      PROVE  \E e \in book : e.subject = PortRow(k) /\ e.rule = rules["PORT"][k]
  <2>1. OnTables(PortRow(k), rules["PORT"][k])
    BY DEF OnTables, Tables, Row
  <2> QED
    BY <2>1 DEF TablesAreBook, InBook
<1> QED
  BY <1>1, <1>2

\* Of prefixes that cover an address one is longest.
LEMMA LongestIs ==
    ASSUME NEW a \in Addr, NEW hits, hits \subseteq Prefix, hits # {},
           \A k \in hits : a \in NetOf(k)
    PROVE  /\ Longest(hits) \in hits
           /\ \A k \in hits : k.prefixlen <= Longest(hits).prefixlen
<1> DEFINE Rest == {AddrBits - k.prefixlen : k \in hits}
<1>1. \A k \in hits : k.prefixlen \in 0 .. AddrBits
  BY DEF Prefix
<1>2. AddrBits \in Nat
  BY WidthAssumption
<1>3. Rest \subseteq Nat /\ Rest # {}
  BY <1>1, <1>2
<1>4. PICK r \in Rest : \A s \in Rest : r <= s
  <2> HIDE DEF Rest
  <2> QED
    BY <1>3, NatMin
<1>5. PICK best \in hits : r = AddrBits - best.prefixlen
  OBVIOUS
<1>6. \A k \in hits : k.prefixlen <= best.prefixlen
  <2> SUFFICES ASSUME NEW k \in hits PROVE k.prefixlen <= best.prefixlen
    OBVIOUS
  <2>1. AddrBits - best.prefixlen <= AddrBits - k.prefixlen
    BY <1>4, <1>5
  <2> QED
    BY <1>1, <1>2, <2>1
<1> QED
  BY <1>6 DEF Longest

\* The rule of the longest prefix is the rule of the smallest network.
LEMMA NetSpeaks ==
    ASSUME TypeOK, TablesAreBook, NEW a \in Addr
    PROVE  LET r == LpmLookup(rules["IP"], a) IN
           /\ NetEntries(a) = {} <=> ~ Matched(r)
           /\ \A e \in NetEntries(a) : e.rule = r
           /\ Matched(r) => r \in RuleType
<1> DEFINE hits == LpmHits(rules["IP"], a)
           holding == {e \in book : e.subject.about = "net" /\ a \in e.subject.net}
<1>0. "IP" \in Tables
  BY DEF Tables
<1>1. hits = {k \in Stored("IP") : a \in NetOf(k)}
  <2>1. DOMAIN rules["IP"] = Keys("IP")
    BY <1>0, DomainsAreKeys
  <2>2. \A k \in Keys("IP") : Covers(k, a) <=> a \in NetOf(k)
    BY <1>0, KeysAreKeys, CoversIsNet DEF KeySpace
  <2> QED
    BY <2>1, <2>2 DEF LpmHits, Stored
<1>2. \A k \in Stored("IP") : k \in Prefix /\ rules["IP"][k] \in RuleType /\ Matched(rules["IP"][k])
  BY <1>0, StoredIs DEF KeySpace
<1>3. \A e \in holding : \E k \in hits : e.subject.net = NetOf(k) /\ e.rule = rules["IP"][k]
  BY <1>1, NetPages
<1>4. \A k \in hits : \E e \in holding : e.subject.net = NetOf(k) /\ e.rule = rules["IP"][k]
  BY <1>1, NetPages
<1>5. NetEntries(a) = {e \in holding : \A f \in holding :
                            Cardinality(e.subject.net) <= Cardinality(f.subject.net)}
  BY DEF NetEntries
<1>6. hits \subseteq Prefix /\ \A k \in hits : a \in NetOf(k) /\ k \in Stored("IP")
  BY <1>1, <1>2
<1> HIDE DEF hits, holding
<1>7. CASE hits = {}
  <2>1. NetEntries(a) = {}
    BY <1>3, <1>5, <1>7
  <2>2. LpmLookup(rules["IP"], a) = NoRule
    BY <1>7 DEF LpmLookup, hits
  <2> QED
    BY <2>1, <2>2 DEF Matched
<1>8. CASE hits # {}
  <2> DEFINE best == Longest(hits)
  <2>1. best \in hits /\ \A k \in hits : k.prefixlen <= best.prefixlen
    BY <1>6, <1>8, LongestIs
  <2> HIDE DEF best
  <2>2. LpmLookup(rules["IP"], a) = rules["IP"][best]
    BY <1>8 DEF LpmLookup, hits, best
  <2>3. rules["IP"][best] \in RuleType /\ Matched(rules["IP"][best])
    BY <1>2, <1>6, <2>1
  <2>4. PICK page \in holding : page.subject.net = NetOf(best) /\ page.rule = rules["IP"][best]
    BY <1>4, <2>1
  <2>5. page \in NetEntries(a)
    <3> SUFFICES ASSUME NEW f \in holding
                 PROVE  Cardinality(page.subject.net) <= Cardinality(f.subject.net)
      BY <1>5
    <3>1. PICK k \in hits : f.subject.net = NetOf(k)
      BY <1>3
    <3>2. k.prefixlen <= best.prefixlen /\ k \in Prefix /\ best \in Prefix
      BY <1>6, <2>1
    <3> QED
      BY <2>4, <3>1, <3>2, Nested
  <2>6. ASSUME NEW e \in NetEntries(a) PROVE e.rule = rules["IP"][best]
    <3>1. e \in holding /\ Cardinality(e.subject.net) <= Cardinality(page.subject.net)
      BY <1>5
    <3>2. PICK k \in hits : e.subject.net = NetOf(k) /\ e.rule = rules["IP"][k]
      BY <1>3, <3>1
    <3>3. k \in Prefix /\ best \in Prefix /\ a \in NetOf(k) \cap NetOf(best)
      BY <1>6, <2>1
    <3>4. best.prefixlen <= k.prefixlen /\ k.prefixlen <= best.prefixlen
      BY <2>1, <2>4, <3>1, <3>2, <3>3, Nested
    <3>5. k.prefixlen = best.prefixlen
      BY <3>3, <3>4, WidthAssumption DEF Prefix
    <3>6. k = best
      BY <3>3, <3>5, Nested
    <3> QED
      BY <3>2, <3>6
  <2> QED
    BY <2>2, <2>3, <2>5, <2>6
<1> QED
  BY <1>7, <1>8

(***************************************************************************)
(* The verdict and the book: rules on ports.                               *)
(***************************************************************************)
\* What the probes up to the n-th leave: the first of those with the greatest
\* priority, if any of them matches.
BestOf(table, info, n, best) ==
    LET r(i) == HashLookup(table, ProbeKey(i, info))
    IN  \/ best = NoRule /\ \A i \in 1 .. n : ~ Matched(r(i))
        \/ \E m \in 1 .. n :
            /\ best = r(m) /\ Matched(r(m))
            /\ \A i \in 1 .. n : Matched(r(i)) =>
                r(i).priority <= r(m).priority /\ (i < m => r(i).priority < r(m).priority)

\* A probe more.
LEMMA NextProbe ==
    ASSUME NEW table, NEW info, NEW n \in 0 .. 3, NEW best, BestOf(table, info, n, best),
           \A i \in Probes : Matched(HashLookup(table, ProbeKey(i, info))) =>
                                HashLookup(table, ProbeKey(i, info)).priority \in Nat
    PROVE  BestOf(table, info, n + 1,
                  TRY_LOOKUP(best, HashLookup(table, ProbeKey(n + 1, info))))
<1> DEFINE r(i) == HashLookup(table, ProbeKey(i, info))
           next == TRY_LOOKUP(best, r(n + 1))
<1>0. /\ n \in Nat /\ n + 1 \in Probes /\ n + 1 \in 1 .. n + 1
      /\ \A i \in 1 .. n + 1 : i \in Probes /\ (i \in 1 .. n \/ i = n + 1)
      /\ \A i \in 1 .. n : i \in 1 .. n + 1 /\ i < n + 1 /\ i \in Nat
  BY DEF Probes
<1>1. \A i \in Probes : Matched(r(i)) => r(i).priority \in Nat
  OBVIOUS
<1>2. \/ best = NoRule /\ \A i \in 1 .. n : ~ Matched(r(i))
      \/ \E m \in 1 .. n :
            /\ best = r(m) /\ Matched(r(m))
            /\ \A i \in 1 .. n : Matched(r(i)) =>
                r(i).priority <= r(m).priority /\ (i < m => r(i).priority < r(m).priority)
  BY DEF BestOf
<1>3. next = IF Matched(r(n + 1)) /\ (~ Matched(best) \/ r(n + 1).priority > best.priority)
             THEN r(n + 1) ELSE best
  BY DEF TRY_LOOKUP
<1> HIDE DEF r, next
<1>4. \/ next = NoRule /\ \A i \in 1 .. n + 1 : ~ Matched(r(i))
      \/ \E m \in 1 .. n + 1 :
            /\ next = r(m) /\ Matched(r(m))
            /\ \A i \in 1 .. n + 1 : Matched(r(i)) =>
                r(i).priority <= r(m).priority /\ (i < m => r(i).priority < r(m).priority)
  <2>1. CASE best = NoRule /\ \A i \in 1 .. n : ~ Matched(r(i))
    <3>1. CASE Matched(r(n + 1))
      <4>1. next = r(n + 1)
        BY <1>3, <2>1, <3>1 DEF Matched
      <4>2. \A i \in 1 .. n + 1 : Matched(r(i)) =>
                r(i).priority <= r(n + 1).priority /\ ~ (i < n + 1)
        BY <1>0, <1>1, <2>1, <3>1
      <4> QED
        BY <1>0, <3>1, <4>1, <4>2
    <3>2. CASE ~ Matched(r(n + 1))
      BY <1>0, <1>3, <2>1, <3>2
    <3> QED
      BY <3>1, <3>2
  <2>2. ASSUME NEW m \in 1 .. n, best = r(m), Matched(r(m)),
               \A i \in 1 .. n : Matched(r(i)) =>
                r(i).priority <= r(m).priority /\ (i < m => r(i).priority < r(m).priority)
        PROVE  \E k \in 1 .. n + 1 :
                /\ next = r(k) /\ Matched(r(k))
                /\ \A i \in 1 .. n + 1 : Matched(r(i)) =>
                    r(i).priority <= r(k).priority /\ (i < k => r(i).priority < r(k).priority)
    <3>0. m \in 1 .. n + 1 /\ m \in Probes /\ r(m).priority \in Nat /\ m < n + 1
      BY <1>0, <1>1, <2>2
    <3>1. CASE Matched(r(n + 1)) /\ r(n + 1).priority > r(m).priority
      <4>1. next = r(n + 1)
        BY <1>3, <2>2, <3>1
      <4>2. \A i \in 1 .. n + 1 : Matched(r(i)) =>
                /\ r(i).priority <= r(n + 1).priority
                /\ i < n + 1 => r(i).priority < r(n + 1).priority
        BY <1>0, <1>1, <2>2, <3>0, <3>1
      <4> QED
        BY <1>0, <3>1, <4>1, <4>2
    <3>2. CASE ~ (Matched(r(n + 1)) /\ r(n + 1).priority > r(m).priority)
      <4>1. next = r(m)
        BY <1>3, <2>2, <3>2
      <4>2. \A i \in 1 .. n + 1 : Matched(r(i)) =>
                r(i).priority <= r(m).priority /\ (i < m => r(i).priority < r(m).priority)
        BY <1>0, <1>1, <2>2, <3>0, <3>2
      <4> QED
        BY <2>2, <3>0, <4>1, <4>2
    <3> QED
      BY <3>1, <3>2
  <2> QED
    BY <1>2, <2>1, <2>2
<1> QED
  BY <1>4 DEF BestOf, r, next

\* port_rule_action returns the first of the matches with the greatest priority.
LEMMA ProbesFindBest ==
    ASSUME NEW table, NEW info,
           \A i \in Probes : Matched(HashLookup(table, ProbeKey(i, info))) =>
                                HashLookup(table, ProbeKey(i, info)).priority \in Nat
    PROVE  BestOf(table, info, 4, port_rule_action(table, info))
<1> DEFINE Probe(best, i) == TRY_LOOKUP(best, HashLookup(table, ProbeKey(i, info)))
<1>1. BestOf(table, info, 0, NoRule)
  BY DEF BestOf
<1>2. ASSUME NEW n \in 0 .. 3, NEW best, BestOf(table, info, n, best)
      PROVE  BestOf(table, info, n + 1, Probe(best, n + 1))
  BY <1>2, NextProbe
<1> HIDE DEF Probe
<1>3. BestOf(table, info, 1, Probe(NoRule, 1))
  <2>1. 0 \in 0 .. 3 /\ 0 + 1 = 1
    OBVIOUS
  <2> QED
    BY <1>1, <1>2, <2>1
<1>4. BestOf(table, info, 2, Probe(Probe(NoRule, 1), 2))
  <2>1. 1 \in 0 .. 3 /\ 1 + 1 = 2
    OBVIOUS
  <2> QED
    BY <1>3, <1>2, <2>1
<1>5. BestOf(table, info, 3, Probe(Probe(Probe(NoRule, 1), 2), 3))
  <2>1. 2 \in 0 .. 3 /\ 2 + 1 = 3
    OBVIOUS
  <2> QED
    BY <1>4, <1>2, <2>1
<1>6. BestOf(table, info, 4, Probe(Probe(Probe(Probe(NoRule, 1), 2), 3), 4))
  <2>1. 3 \in 0 .. 3 /\ 3 + 1 = 4
    OBVIOUS
  <2> QED
    BY <1>5, <1>2, <2>1
<1> QED
  BY <1>6 DEF port_rule_action, Probe

\* What the program reads of a frame is what a client would write of it.
LEMMA FrameInWords ==
    ASSUME NEW frame \in Frames
    PROVE  LET info == parse_packet(frame) IN
           /\ info.protocol = frame.protocol
           /\ info.saddr = frame.saddr /\ info.daddr = frame.daddr
           /\ info.saddr \in Addr /\ info.daddr \in Addr
           /\ info.dport \in Port /\ wireToPort(info.dport) = DportOf(frame)
           /\ info.sport \in Port /\ wireToPort(info.sport) = SportOf(frame)
<1>1. /\ frame.saddr \in Addr /\ frame.daddr \in Addr
      /\ frame.sport \in Byte \X Byte /\ frame.dport \in Byte \X Byte
  BY FrameAssumption
<1>2. 0 \in Port /\ wireToPort(0) = 0
  <2>1. 0 \in Port
    BY DEF Port
  <2> QED
    BY <2>1, WirePorts
<1>3. /\ LoadU16(frame.dport) \in Port /\ wireToPort(LoadU16(frame.dport)) = PortNumber(frame.dport)
      /\ LoadU16(frame.sport) \in Port /\ wireToPort(LoadU16(frame.sport)) = PortNumber(frame.sport)
  BY <1>1, WirePorts
<1> QED
  BY <1>1, <1>2, <1>3 DEF parse_packet, DportOf, SportOf

\* Does a rule's subject, in words, speak of the frame?
Speaks(s, frame) ==
    /\ s.protocol = ProtocolName(frame)
    /\ s.port \in {0, DportOf(frame)}
    /\ s.sport \in {0, SportOf(frame)}
    /\ s.dst = frame.daddr

\* How many fields of a key are exact, the destination port first.
ExactIn(k) == (IF k.dport # 0 THEN 2 ELSE 0) + (IF k.sport # 0 THEN 1 ELSE 0)

\* The keys of the rules that speak of a frame are the keys it is probed with.
LEMMA SpeakersAreProbed ==
    ASSUME NEW frame \in Frames, NEW k \in PortKey
    PROVE  Speaks(PortRow(k), frame) <=>
                \E i \in Probes : k = ProbeKey(i, parse_packet(frame))
<1> DEFINE info == parse_packet(frame)
<1>1. /\ info.protocol = frame.protocol /\ info.daddr = frame.daddr
      /\ info.dport \in Port /\ wireToPort(info.dport) = DportOf(frame)
      /\ info.sport \in Port /\ wireToPort(info.sport) = SportOf(frame)
  BY FrameInWords
<1> HIDE DEF info
<1>2. k.protocol \in {0, TCP, UDP} /\ k.dport \in Port /\ k.sport \in Port
      /\ k = [protocol |-> k.protocol, dport |-> k.dport, sport |-> k.sport, dst |-> k.dst]
  BY DEF PortKey
<1>3. codeToProto(k.protocol) = ProtocolName(frame) <=> k.protocol = frame.protocol
  <2>1. CASE k.protocol = 0
    BY <2>1 DEF codeToProto, ProtocolName, TCP, UDP
  <2>2. CASE k.protocol = TCP
    BY <2>2 DEF codeToProto, ProtocolName, TCP, UDP
  <2>3. CASE k.protocol = UDP
    BY <2>3 DEF codeToProto, ProtocolName, TCP, UDP
  <2> QED
    BY <1>2, <2>1, <2>2, <2>3
<1>4. \A v, w \in Port : /\ wireToPort(v) = wireToPort(w) <=> v = w
                         /\ wireToPort(v) = 0 <=> v = 0
  BY WirePorts
<1>5. Speaks(PortRow(k), frame) <=>
        /\ k.protocol = info.protocol /\ k.dst = info.daddr
        /\ k.dport \in {0, info.dport} /\ k.sport \in {0, info.sport}
  BY <1>1, <1>2, <1>3, <1>4 DEF Speaks, PortRow
<1>6. (\E i \in Probes : k = ProbeKey(i, info)) <=>
        /\ k.protocol = info.protocol /\ k.dst = info.daddr
        /\ k.dport \in {0, info.dport} /\ k.sport \in {0, info.sport}
  <2>1. \A i \in Probes : k = ProbeKey(i, info) <=>
            /\ k.protocol = info.protocol /\ k.dst = info.daddr
            /\ k.dport = (IF i \in {1, 2} THEN info.dport ELSE 0)
            /\ k.sport = (IF i \in {1, 3} THEN info.sport ELSE 0)
    BY <1>2 DEF ProbeKey
  <2>2. Probes = {1, 2, 3, 4}
    BY DEF Probes
  <2> QED
    BY <2>1, <2>2
<1> QED
  BY <1>5, <1>6 DEF info

\* They are probed from the most specific on (a key that is probed twice counts
\* where it is probed first), and no two are equally specific.
LEMMA ProbesByRank ==
    ASSUME NEW info, info.dport \in Port, info.sport \in Port,
           NEW i \in Probes, NEW j \in Probes
    PROVE  /\ i <= j => \/ ExactIn(ProbeKey(i, info)) >= ExactIn(ProbeKey(j, info))
                       \/ \E l \in Probes : l < i /\ ProbeKey(l, info) = ProbeKey(j, info)
           /\ ExactIn(ProbeKey(i, info)) = ExactIn(ProbeKey(j, info)) =>
                ProbeKey(i, info) = ProbeKey(j, info)
<1> DEFINE d == info.dport
           s == info.sport
           D == IF d # 0 THEN 2 ELSE 0
           S == IF s # 0 THEN 1 ELSE 0
           key(n) == ProbeKey(n, info)
<1>1. d \in Int /\ s \in Int
  BY DEF Port
<1>2. /\ key(1).dport = d /\ key(1).sport = s /\ key(2).dport = d /\ key(2).sport = 0
      /\ key(3).dport = 0 /\ key(3).sport = s /\ key(4).dport = 0 /\ key(4).sport = 0
  BY DEF ProbeKey
<1>3. ASSUME NEW m \in Probes, NEW n \in Probes,
             key(m).dport = key(n).dport, key(m).sport = key(n).sport
      PROVE  key(m) = key(n)
  BY <1>3 DEF ProbeKey
<1> HIDE DEF d, s, key
<1>4. ExactIn(key(1)) = D + S /\ ExactIn(key(2)) = D /\ ExactIn(key(3)) = S /\ ExactIn(key(4)) = 0
  BY <1>1, <1>2 DEF ExactIn
<1>5. D \in {0, 2} /\ S \in {0, 1} /\ (D = 0 => d = 0) /\ (S = 0 => s = 0)
  OBVIOUS
<1> HIDE DEF D, S
<1>6. /\ S = 0 => key(1) = key(2) /\ key(3) = key(4)
      /\ D = 0 => key(1) = key(3) /\ key(2) = key(4)
  BY <1>2, <1>3, <1>5 DEF Probes
<1>7. i \in {1, 2, 3, 4} /\ j \in {1, 2, 3, 4} /\ Probes = {1, 2, 3, 4}
  BY DEF Probes
<1>8. i <= j => \/ ExactIn(key(i)) >= ExactIn(key(j))
                \/ \E l \in Probes : l < i /\ key(l) = key(j)
  BY <1>4, <1>5, <1>6, <1>7
<1>9. ExactIn(key(i)) = ExactIn(key(j)) => key(i) = key(j)
  BY <1>4, <1>5, <1>6, <1>7
<1> QED
  BY <1>8, <1>9 DEF key

\* The rule the probes find is the one that outranks all that speak.
LEMMA PortSpeaks ==
    ASSUME TypeOK, TablesAreBook, NEW frame \in Frames
    PROVE  LET r == PortRule(frame)
               ranked == {e \in PortEntries(frame) : \A f \in PortEntries(frame) : Outranks(e, f)}
           IN  /\ ranked = {} <=> ~ Matched(r)
               /\ \A e \in ranked : e.rule = r
               /\ Matched(r) => r \in RuleType
<1> DEFINE info == parse_packet(frame)
           table == rules["PORT"]
           key(i) == ProbeKey(i, info)
           r(i) == HashLookup(table, key(i))
           best == PortRule(frame)
           entries == PortEntries(frame)
           ranked == {e \in entries : \A f \in entries : Outranks(e, f)}
<1>0. "PORT" \in Tables /\ info.dport \in Port /\ info.sport \in Port
  BY FrameInWords DEF Tables
<1>1. \A k \in Stored("PORT") : k \in PortKey /\ table[k] \in RuleType /\ Matched(table[k])
  BY <1>0, StoredIs DEF KeySpace
<1>2. \A i \in Probes : Matched(r(i)) <=> key(i) \in Stored("PORT")
  <2>1. DOMAIN table = Keys("PORT")
    BY <1>0, DomainsAreKeys
  <2> QED
    BY <2>1 DEF HashLookup, Stored, Matched
<1>3. \A i \in Probes : key(i) \in Stored("PORT") => r(i) = table[key(i)] /\ r(i) \in RuleType
  <2>1. DOMAIN table = Keys("PORT")
    BY <1>0, DomainsAreKeys
  <2> QED
    BY <1>1, <2>1 DEF HashLookup, Stored
<1>4. \A e \in entries : \E i \in Probes : /\ key(i) \in Stored("PORT")
                                           /\ e.subject = PortRow(key(i)) /\ e.rule = r(i)
  <2> SUFFICES ASSUME NEW e \in entries
               PROVE  \E i \in Probes : /\ key(i) \in Stored("PORT")
                                        /\ e.subject = PortRow(key(i)) /\ e.rule = r(i)
    OBVIOUS
  <2>1. e \in book /\ e.subject.about = "port" /\ Speaks(e.subject, frame)
    BY DEF PortEntries, Speaks
  <2>2. PICK k \in Stored("PORT") : e.subject = PortRow(k) /\ e.rule = table[k]
    BY <2>1, PortPages
  <2>3. k \in PortKey
    BY <1>1
  <2>4. PICK i \in Probes : k = key(i)
    BY <2>1, <2>2, <2>3, SpeakersAreProbed
  <2> QED
    BY <1>3, <2>2, <2>4
<1>5. \A i \in Probes : key(i) \in Stored("PORT") =>
        \E e \in entries : e.subject = PortRow(key(i)) /\ e.rule = r(i)
  <2> SUFFICES ASSUME NEW i \in Probes, key(i) \in Stored("PORT")
               PROVE  \E e \in entries : e.subject = PortRow(key(i)) /\ e.rule = r(i)
    OBVIOUS
  <2>1. PICK e \in book : e.subject = PortRow(key(i)) /\ e.rule = table[key(i)]
    BY PortPages
  <2>2. key(i) \in PortKey
    BY <1>1
  <2>3. Speaks(PortRow(key(i)), frame)
    BY <2>2, SpeakersAreProbed
  <2>4. e.subject.about = "port"
    BY <2>1 DEF PortRow
  <2>5. e \in entries
    BY <2>1, <2>3, <2>4 DEF PortEntries, Speaks
  <2> QED
    BY <1>3, <2>1, <2>5
\* Specificity is counted on the words as it is on the key.
<1>6. \A e, i : i \in Probes /\ key(i) \in Stored("PORT") /\ e.subject = PortRow(key(i)) =>
                    Specificity(e) = ExactIn(key(i)) /\ ExactIn(key(i)) \in Nat
  <2> SUFFICES ASSUME NEW e, NEW i \in Probes, key(i) \in Stored("PORT"),
                      e.subject = PortRow(key(i))
               PROVE  Specificity(e) = ExactIn(key(i)) /\ ExactIn(key(i)) \in Nat
    OBVIOUS
  <2>1. key(i).dport \in Port /\ key(i).sport \in Port
    BY <1>1 DEF PortKey
  <2>2. /\ e.subject.port = wireToPort(key(i).dport)
        /\ e.subject.sport = wireToPort(key(i).sport)
    BY DEF PortRow
  <2>3. /\ e.subject.port = 0 <=> key(i).dport = 0
        /\ e.subject.sport = 0 <=> key(i).sport = 0
    BY <2>1, <2>2, WirePorts
  <2> HIDE DEF key
  <2> QED
    BY <2>3 DEF Specificity, ExactIn
<1>7. \/ best = NoRule /\ \A i \in Probes : ~ Matched(r(i))
      \/ \E m \in Probes :
            /\ best = r(m) /\ Matched(r(m))
            /\ \A i \in Probes : Matched(r(i)) =>
                r(i).priority <= r(m).priority /\ (i < m => r(i).priority < r(m).priority)
  <2>1. \A i \in Probes : Matched(r(i)) => r(i).priority \in Nat
    BY <1>2, <1>3 DEF RuleType
  <2>2. BestOf(table, info, 4, best)
    BY <2>1, ProbesFindBest DEF PortRule
  <2> QED
    BY <2>2 DEF BestOf, Probes
<1> HIDE DEF info, table, key, r, best, entries
<1>8. CASE best = NoRule /\ \A i \in Probes : ~ Matched(r(i))
  <2>1. entries = {}
    BY <1>2, <1>4, <1>8
  <2> QED
    BY <1>8, <2>1 DEF Matched, best, entries
<1>9. ASSUME NEW m \in Probes, best = r(m), Matched(r(m)),
             \A i \in Probes : Matched(r(i)) =>
                r(i).priority <= r(m).priority /\ (i < m => r(i).priority < r(m).priority)
      PROVE  /\ ranked # {} /\ Matched(best) /\ best \in RuleType
             /\ \A e \in ranked : e.rule = best
  <2>1. key(m) \in Stored("PORT") /\ r(m) \in RuleType
    BY <1>2, <1>3, <1>9
  <2>2. PICK page \in entries : page.subject = PortRow(key(m)) /\ page.rule = r(m)
    BY <1>5, <2>1
  <2>3. Specificity(page) = ExactIn(key(m)) /\ ExactIn(key(m)) \in Nat
    BY <1>6, <2>1, <2>2
  <2>4. ASSUME NEW f \in entries PROVE Outranks(page, f)
    <3>1. PICK i \in Probes : /\ key(i) \in Stored("PORT")
                              /\ f.subject = PortRow(key(i)) /\ f.rule = r(i)
      BY <1>4
    <3>2. Matched(r(i)) /\ r(i) \in RuleType
      BY <1>2, <1>3, <3>1
    <3>3. r(i).priority \in Nat /\ r(m).priority \in Nat /\ r(i).priority <= r(m).priority
      BY <1>9, <2>1, <3>2 DEF RuleType
    <3>4. CASE r(i).priority # r(m).priority
      BY <2>2, <3>1, <3>3, <3>4 DEF Outranks
    <3>5. CASE r(i).priority = r(m).priority
      <4>1. ~ (i < m)
        BY <1>9, <3>2, <3>3, <3>5
      <4>2. m <= i
        BY <4>1 DEF Probes
      <4>3. \A l \in Probes : l < m => key(l) # key(i)
        <5> SUFFICES ASSUME NEW l \in Probes, l < m, key(l) = key(i) PROVE FALSE
          OBVIOUS
        <5>1. r(l) = r(i)
          BY DEF r
        <5> QED
          BY <1>9, <3>2, <3>3, <3>5, <5>1
      <4>4. ExactIn(key(m)) >= ExactIn(key(i))
        BY <1>0, <4>2, <4>3, ProbesByRank DEF key
      <4>5. Specificity(f) = ExactIn(key(i))
        BY <1>6, <3>1
      <4> QED
        BY <2>2, <2>3, <3>1, <3>5, <4>4, <4>5 DEF Outranks
    <3> QED
      BY <3>4, <3>5
  <2>5. page \in ranked
    BY <2>4
  <2>6. ASSUME NEW e \in ranked PROVE e.rule = best
    <3>1. e \in entries /\ Outranks(e, page) /\ Outranks(page, e)
      BY <2>4
    <3>2. PICK i \in Probes : /\ key(i) \in Stored("PORT")
                              /\ e.subject = PortRow(key(i)) /\ e.rule = r(i)
      BY <1>4, <3>1
    <3>3. r(i) \in RuleType /\ r(i).priority \in Nat /\ r(m).priority \in Nat
      BY <1>3, <2>1, <3>2 DEF RuleType
    <3>4. Specificity(e) = ExactIn(key(i)) /\ ExactIn(key(i)) \in Nat
      BY <1>6, <3>2
    <3>5. ExactIn(key(i)) = ExactIn(key(m))
      <4>1. \/ r(i).priority > r(m).priority
            \/ r(i).priority = r(m).priority /\ ExactIn(key(i)) >= ExactIn(key(m))
        BY <2>2, <2>3, <3>1, <3>2, <3>4 DEF Outranks
      <4>2. \/ r(m).priority > r(i).priority
            \/ r(m).priority = r(i).priority /\ ExactIn(key(m)) >= ExactIn(key(i))
        BY <2>2, <2>3, <3>1, <3>2, <3>4 DEF Outranks
      <4> QED
        BY <2>3, <3>3, <3>4, <4>1, <4>2
    <3>6. key(i) = key(m)
      BY <1>0, <3>5, ProbesByRank DEF key
    <3> QED
      BY <1>9, <3>2, <3>6 DEF r
  <2> QED
    BY <1>9, <2>1, <2>5, <2>6
<1> QED
  <2>1. CASE \E m \in Probes :
                /\ best = r(m) /\ Matched(r(m))
                /\ \A i \in Probes : Matched(r(i)) =>
                    r(i).priority <= r(m).priority /\ (i < m => r(i).priority < r(m).priority)
    <3>1. /\ ranked # {} /\ Matched(best) /\ best \in RuleType
          /\ \A e \in ranked : e.rule = best
      BY <1>9, <2>1
    <3> QED
      BY <3>1 DEF best, entries
  <2> QED
    BY <1>7, <1>8, <2>1

(***************************************************************************)
(* The verdict.                                                            *)
(***************************************************************************)
\* Who speaks for a frame: the rules the program found.
LEMMA SpeakersAreFound ==
    ASSUME TypeOK, TablesAreBook, NEW frame \in Frames
    PROVE  /\ Speakers(frame) = {r \in {IpRule(frame), PortRule(frame)} : Matched(r)}
           /\ Matched(IpRule(frame)) => IpRule(frame) \in RuleType
           /\ Matched(PortRule(frame)) => PortRule(frame) \in RuleType
<1> DEFINE src == LpmLookup(rules["IP"], frame.saddr)
           dst == LpmLookup(rules["IP"], frame.daddr)
           ip == IF NetEntries(frame.saddr) # {}
                 THEN NetEntries(frame.saddr) ELSE NetEntries(frame.daddr)
           port == {e \in PortEntries(frame) : \A f \in PortEntries(frame) : Outranks(e, f)}
<1>1. frame.saddr \in Addr /\ frame.daddr \in Addr
  BY FrameAssumption
<1>2. IpRule(frame) = IF Matched(src) THEN src ELSE dst
  BY DEF IpRule, ip_block_action, parse_packet
<1>3. /\ NetEntries(frame.saddr) = {} <=> ~ Matched(src)
      /\ \A e \in NetEntries(frame.saddr) : e.rule = src
      /\ Matched(src) => src \in RuleType
  BY <1>1, NetSpeaks
<1>4. /\ NetEntries(frame.daddr) = {} <=> ~ Matched(dst)
      /\ \A e \in NetEntries(frame.daddr) : e.rule = dst
      /\ Matched(dst) => dst \in RuleType
  BY <1>1, NetSpeaks
<1> HIDE DEF src, dst
<1>5. /\ ip = {} <=> ~ Matched(IpRule(frame))
      /\ \A e \in ip : e.rule = IpRule(frame)
      /\ Matched(IpRule(frame)) => IpRule(frame) \in RuleType
  BY <1>2, <1>3, <1>4
<1>6. /\ port = {} <=> ~ Matched(PortRule(frame))
      /\ \A e \in port : e.rule = PortRule(frame)
      /\ Matched(PortRule(frame)) => PortRule(frame) \in RuleType
  BY PortSpeaks
<1>7. Speakers(frame) = {e.rule : e \in ip \cup port}
  BY DEF Speakers
<1> HIDE DEF ip, port
<1>8. Speakers(frame) = {r \in {IpRule(frame), PortRule(frame)} : Matched(r)}
  BY <1>5, <1>6, <1>7
<1> QED
  BY <1>5, <1>6, <1>8

\* The decision table, the program's and the book's.
LEMMA DecideByRank ==
    ASSUME NEW ip, NEW port, NEW def,
           Matched(ip) => ip \in RuleType, Matched(port) => port \in RuleType
    PROVE  LET speakers == {r \in {ip, port} : Matched(r)}
               top == {r \in speakers : \A s \in speakers : s.priority <= r.priority}
           IN  decide(ip, port, def) =
                    IF speakers = {} THEN ByDefault(def)
                    ELSE IF \E r \in top : r.action = "DROP" THEN "DROP" ELSE "PASS"
<1> DEFINE speakers == {r \in {ip, port} : Matched(r)}
           top == {r \in speakers : \A s \in speakers : s.priority <= r.priority}
           verdict == IF \E r \in top : r.action = "DROP" THEN "DROP" ELSE "PASS"
<1>1. CASE ~ Matched(ip) /\ ~ Matched(port)
  <2>1. speakers = {}
    BY <1>1
  <2> QED
    BY <1>1, <2>1 DEF decide
<1>2. ASSUME NEW r \in RuleType, speakers = {r}
      PROVE  r.action = verdict
  <2>1. top = {r}
    BY <1>2 DEF RuleType
  <2> HIDE DEF top
  <2> QED
    BY <1>2, <2>1 DEF RuleType
<1>3. CASE Matched(ip) /\ ~ Matched(port)
  <2>1. speakers = {ip}
    BY <1>3
  <2>2. decide(ip, port, def) = ip.action
    BY <1>3 DEF decide
  <2>3. ip.action = verdict
    BY <1>2, <1>3, <2>1
  <2> QED
    BY <2>1, <2>2, <2>3
<1>4. CASE ~ Matched(ip) /\ Matched(port)
  <2>1. speakers = {port}
    BY <1>4
  <2>2. decide(ip, port, def) = port.action
    BY <1>4 DEF decide
  <2>3. port.action = verdict
    BY <1>2, <1>4, <2>1
  <2> QED
    BY <2>1, <2>2, <2>3
<1>5. CASE Matched(ip) /\ Matched(port)
  <2>1. speakers = {ip, port}
    BY <1>5
  <2>2. /\ ip.priority \in Nat /\ port.priority \in Nat
        /\ ip.action \in {"PASS", "DROP"} /\ port.action \in {"PASS", "DROP"}
    BY <1>5 DEF RuleType
  <2>3. decide(ip, port, def) =
            IF ip.priority # port.priority
            THEN IF ip.priority > port.priority THEN ip.action ELSE port.action
            ELSE IF "DROP" \in {ip.action, port.action} THEN "DROP" ELSE "PASS"
    BY <1>5 DEF decide
  <2>4. top = {r \in {ip, port} : ip.priority <= r.priority /\ port.priority <= r.priority}
    BY <2>1
  <2>5. CASE ip.priority > port.priority
    <3>1. top = {ip}
      BY <2>2, <2>4, <2>5
    <3> HIDE DEF top
    <3> QED
      BY <2>1, <2>2, <2>3, <2>5, <3>1
  <2>6. CASE port.priority > ip.priority
    <3>1. top = {port}
      BY <2>2, <2>4, <2>6
    <3> HIDE DEF top
    <3> QED
      BY <2>1, <2>2, <2>3, <2>6, <3>1
  <2>7. CASE ip.priority = port.priority
    <3>1. top = {ip, port}
      BY <2>2, <2>4, <2>7
    <3> HIDE DEF top
    <3> QED
      BY <2>1, <2>2, <2>3, <2>7, <3>1
  <2> QED
    BY <2>2, <2>5, <2>6, <2>7
<1> QED
  BY <1>1, <1>3, <1>4, <1>5

\* The verdict follows from the invariant.
LEMMA VerdictFollows ==
    TypeOK /\ TablesAreBook => VerdictByTheBook
<1> SUFFICES ASSUME TypeOK, TablesAreBook, NEW frame \in Frames
             PROVE  firewall_prog(frame) = ByTheBook(frame)
  BY DEF VerdictByTheBook
<1>1. CASE HasIpHeader(frame)
  <2>1. /\ Speakers(frame) = {r \in {IpRule(frame), PortRule(frame)} : Matched(r)}
        /\ Matched(IpRule(frame)) => IpRule(frame) \in RuleType
        /\ Matched(PortRule(frame)) => PortRule(frame) \in RuleType
    BY SpeakersAreFound
  <2>2. firewall_prog(frame) = decide(IpRule(frame), PortRule(frame), firewall_config)
    BY <1>1 DEF firewall_prog
  <2> DEFINE top == {r \in Speakers(frame) : \A s \in Speakers(frame) : s.priority <= r.priority}
  <2>3. ByTheBook(frame) = IF Speakers(frame) = {} THEN ByDefault(firewall_config)
                           ELSE IF \E r \in top : r.action = "DROP" THEN "DROP" ELSE "PASS"
    BY <1>1 DEF ByTheBook
  <2>4. decide(IpRule(frame), PortRule(frame), firewall_config)
            = IF Speakers(frame) = {} THEN ByDefault(firewall_config)
              ELSE IF \E r \in top : r.action = "DROP" THEN "DROP" ELSE "PASS"
    BY <2>1, DecideByRank
  <2> QED
    BY <2>2, <2>3, <2>4
<1>2. CASE ~ HasIpHeader(frame)
  BY <1>2 DEF firewall_prog, ByTheBook
<1> QED
  BY <1>1, <1>2

(***************************************************************************)
(* The theorems.                                                           *)
(***************************************************************************)
\* The tables hold rules and the book says so, whatever the command lines, the
\* requests and the frames.
THEOREM RuleTablesTyped == Spec => []TypeOK
BY BookIsKept, PTL

\* list and listports (ListBlockedRules, PortPolicyManager.List) print every
\* rule in force, in the words it was asked for in, and nothing else.
THEOREM ListingsAreTheBook == Spec => []ListingByTheBook
BY BookIsKept, ListingMeans, PTL

\* The verdict of firewall_prog on any frame is the verdict of the rules as the
\* clients asked for them.
THEOREM VerdictsAreByTheBook == Spec => []VerdictByTheBook
BY BookIsKept, VerdictFollows, PTL
===============================================================================
