--------------------------- MODULE Admission_proofs ---------------------------
(***************************************************************************)
(* Proofs about admission, for every scenario of profiles, secrets and     *)
(* shoots: what was admitted can be reconciled, what was built is what the *)
(* shoot says, zones are placed, addresses fit, and clients agree.         *)
(***************************************************************************)
EXTENDS AdmissionProps, TLAPS, FiniteSetTheorems

-----------------------------------------------------------------------------
(* Bytes and powers of two.                                                *)

\* How many values of a byte a prefix can leave to hosts.
Shares == {1, 2, 4, 8, 16, 32, 64, 128, 256}

Two(n) == 2 ^ n

\* The powers that a byte, and up to three more, leave to hosts.
LEMMA Powers ==
  ASSUME NEW n \in 0..8
  PROVE  /\ Two(n) \in Shares
         /\ Two(n + 8) = 256 * Two(n)
         /\ Two(n + 16) = 65536 * Two(n)
         /\ Two(n + 24) = 16777216 * Two(n)
         /\ n >= 4 <=> Two(n) > 10
<1>1. CASE n = 0
  BY <1>1, SMT DEF Shares, Two
<1>2. CASE n = 1
  BY <1>2, SMT DEF Shares, Two
<1>3. CASE n = 2
  BY <1>3, SMT DEF Shares, Two
<1>4. CASE n = 3
  BY <1>4, SMT DEF Shares, Two
<1>5. CASE n = 4
  BY <1>5, SMT DEF Shares, Two
<1>6. CASE n = 5
  BY <1>6, SMT DEF Shares, Two
<1>7. CASE n = 6
  BY <1>7, SMT DEF Shares, Two
<1>8. CASE n = 7
  BY <1>8, SMT DEF Shares, Two
<1>9. CASE n = 8
  BY <1>9, SMT DEF Shares, Two
<1> QED BY <1>1, <1>2, <1>3, <1>4, <1>5, <1>6, <1>7, <1>8, <1>9, SMT

\* What byte k leaves to hosts.
LEMMA HostValuesOf ==
  ASSUME NEW p \in 0..32, NEW k \in 1..4
  PROVE  /\ 8 * k - p <= 0 => HostValues(p, k) = 1
         /\ 8 * k - p >= 8 => HostValues(p, k) = 256
         /\ 8 * k - p \in 0..8 => HostValues(p, k) = Two(8 * k - p)
         /\ HostValues(p, k) \in Shares
<1> DEFINE bits == 8 * k - p
           n == IF bits < 0 THEN 0 ELSE IF bits > 8 THEN 8 ELSE bits
<1>1. HostValues(p, k) = Two(n)
  BY DEF HostValues, Two
<1>2. /\ n \in 0..8 /\ (bits <= 0 => n = 0) /\ (bits >= 8 => n = 8)
      /\ (bits \in 0..8 => n = bits)
  OBVIOUS
<1>3. Two(0) = 1 /\ Two(8) = 256
  BY DEF Two
<1> HIDE DEF n, bits
<1>4. Two(n) \in Shares
  BY <1>2, Powers
<1> QED BY <1>1, <1>2, <1>3, <1>4 DEF bits

\* A prefix ends in one of the bytes: the ones before it are all of the network,
\* those behind it all of the host.
LEMMA PrefixEnds ==
  ASSUME NEW p \in 0..32
  PROVE  /\ \A k \in 1..4 : HostValues(p, k) \in Shares
         /\ p \in 24..32 => /\ HostValues(p, 1) = 1 /\ HostValues(p, 2) = 1
                            /\ HostValues(p, 3) = 1
                            /\ Two(32 - p) = HostValues(p, 4)
         /\ p \in 16..24 => /\ HostValues(p, 1) = 1 /\ HostValues(p, 2) = 1
                            /\ HostValues(p, 4) = 256
                            /\ Two(32 - p) = 256 * HostValues(p, 3)
         /\ p \in 8..16  => /\ HostValues(p, 1) = 1
                            /\ HostValues(p, 3) = 256 /\ HostValues(p, 4) = 256
                            /\ Two(32 - p) = 65536 * HostValues(p, 2)
         /\ p \in 0..8   => /\ HostValues(p, 2) = 256
                            /\ HostValues(p, 3) = 256 /\ HostValues(p, 4) = 256
                            /\ Two(32 - p) = 16777216 * HostValues(p, 1)
         /\ p <= 28 <=> HostValues(p, 4) > 10
<1>1. \A k \in 1..4 : HostValues(p, k) \in Shares
  BY HostValuesOf, SMT
<1>2. ASSUME p \in 24..32
      PROVE  /\ HostValues(p, 1) = 1 /\ HostValues(p, 2) = 1 /\ HostValues(p, 3) = 1
             /\ Two(32 - p) = HostValues(p, 4)
             /\ p <= 28 <=> HostValues(p, 4) > 10
  <2>1. PICK n \in 0..8 : n = 32 - p
    BY <1>2, SMT
  <2>2. HostValues(p, 1) = 1 /\ HostValues(p, 2) = 1 /\ HostValues(p, 3) = 1
    BY <1>2, HostValuesOf, SMT
  <2>3. 8 * 4 - p = n
    BY <2>1, SMT
  <2>4. HostValues(p, 4) = Two(n)
    BY <2>3, HostValuesOf, SMT
  <2>5. n >= 4 <=> Two(n) > 10
    BY Powers, SMT
  <2> QED BY <2>1, <2>2, <2>4, <2>5, SMT
<1>3. ASSUME p \in 16..24
      PROVE  /\ HostValues(p, 1) = 1 /\ HostValues(p, 2) = 1 /\ HostValues(p, 4) = 256
             /\ Two(32 - p) = 256 * HostValues(p, 3)
  <2>1. PICK n \in 0..8 : n = 24 - p
    BY <1>3, SMT
  <2>2. HostValues(p, 1) = 1 /\ HostValues(p, 2) = 1 /\ HostValues(p, 4) = 256
    BY <1>3, HostValuesOf, SMT
  <2>3. 8 * 3 - p = n /\ 32 - p = n + 8
    BY <2>1, SMT
  <2>4. HostValues(p, 3) = Two(n)
    BY <2>3, HostValuesOf, SMT
  <2>5. Two(n + 8) = 256 * Two(n)
    BY Powers, SMT
  <2> QED BY <2>2, <2>3, <2>4, <2>5, SMT
<1>4. ASSUME p \in 8..16
      PROVE  /\ HostValues(p, 1) = 1 /\ HostValues(p, 3) = 256 /\ HostValues(p, 4) = 256
             /\ Two(32 - p) = 65536 * HostValues(p, 2)
  <2>1. PICK n \in 0..8 : n = 16 - p
    BY <1>4, SMT
  <2>2. HostValues(p, 1) = 1 /\ HostValues(p, 3) = 256 /\ HostValues(p, 4) = 256
    BY <1>4, HostValuesOf, SMT
  <2>3. 8 * 2 - p = n /\ 32 - p = n + 16
    BY <2>1, SMT
  <2>4. HostValues(p, 2) = Two(n)
    BY <2>3, HostValuesOf, SMT
  <2>5. Two(n + 16) = 65536 * Two(n)
    BY Powers, SMT
  <2> QED BY <2>2, <2>3, <2>4, <2>5, SMT
<1>5. ASSUME p \in 0..8
      PROVE  /\ HostValues(p, 2) = 256 /\ HostValues(p, 3) = 256 /\ HostValues(p, 4) = 256
             /\ Two(32 - p) = 16777216 * HostValues(p, 1)
  <2>1. PICK n \in 0..8 : n = 8 - p
    BY <1>5, SMT
  <2>2. HostValues(p, 2) = 256 /\ HostValues(p, 3) = 256 /\ HostValues(p, 4) = 256
    BY <1>5, HostValuesOf, SMT
  <2>3. 8 * 1 - p = n /\ 32 - p = n + 24
    BY <2>1, SMT
  <2>4. HostValues(p, 1) = Two(n)
    BY <2>3, HostValuesOf, SMT
  <2>5. Two(n + 24) = 16777216 * Two(n)
    BY Powers, SMT
  <2> QED BY <2>2, <2>3, <2>4, <2>5, SMT
<1>6. p \in 0..23 => HostValues(p, 4) = 256
  BY HostValuesOf, SMT
<1>7. p <= 28 <=> HostValues(p, 4) > 10
  BY <1>2, <1>6, SMT
<1> QED BY <1>1, <1>2, <1>3, <1>4, <1>5, <1>7, SMT

\* A byte with the network's part of one and a host's part of its own.
LEMMA BytesCompose ==
  ASSUME NEW h \in Shares, NEW a \in Byte, NEW r \in 0..(h - 1)
  PROVE  /\ (a - (a % h)) + r \in Byte
         /\ ((a - (a % h)) + r) % h = r
         /\ ((a - (a % h)) + r) - (((a - (a % h)) + r) % h) = a - (a % h)
<1>1. CASE h = 1
  BY <1>1 DEF Byte
<1>2. CASE h = 2
  BY <1>2 DEF Byte
<1>3. CASE h = 4
  BY <1>3 DEF Byte
<1>4. CASE h = 8
  BY <1>4 DEF Byte
<1>5. CASE h = 16
  BY <1>5 DEF Byte
<1>6. CASE h = 32
  BY <1>6 DEF Byte
<1>7. CASE h = 64
  BY <1>7 DEF Byte
<1>8. CASE h = 128
  BY <1>8 DEF Byte
<1>9. CASE h = 256
  BY <1>9 DEF Byte
<1> QED BY <1>1, <1>2, <1>3, <1>4, <1>5, <1>6, <1>7, <1>8, <1>9 DEF Shares

\* The numbers that newDHCPConfig asks for, against what a byte leaves to hosts.
LEMMA IndexInByte ==
  ASSUME NEW h \in Shares
  PROVE  /\ 0 - (0 % h) = 0 /\ 255 % h = h - 1
         /\ \A n \in {0, 1, 2, 10} : n - (n % h) = 0 <=> n < h
<1>1. 0 - (0 % h) = 0 /\ 255 % h = h - 1
  BY DEF Shares
<1>2. \A n \in {0, 1, 2, 10} : n - (n % h) = 0 <=> n < h
  BY DEF Shares
<1> QED BY <1>1, <1>2

\* They fit into the last byte.
LEMMA IndexBytes ==
  \A n \in {0, 1, 2, 10} : /\ DeltaByte(n, 1) = 0 /\ DeltaByte(n, 2) = 0
                           /\ DeltaByte(n, 3) = 0 /\ DeltaByte(n, 4) = n
<1>1. 256 ^ 0 = 1 /\ 256 ^ 1 = 256 /\ 256 ^ 2 = 65536 /\ 256 ^ 3 = 16777216
  BY SMT
<1>2. /\ \A n \in {0, 1, 2, 10} : (n \div 16777216) % 256 = 0
      /\ \A n \in {0, 1, 2, 10} : (n \div 65536) % 256 = 0
      /\ \A n \in {0, 1, 2, 10} : (n \div 256) % 256 = 0
      /\ \A n \in {0, 1, 2, 10} : (n \div 1) % 256 = n
  BY SMT
<1> QED BY <1>1, <1>2, SMT DEF DeltaByte

\* The host's part of byte k of an address with one of these numbers.
HostPart(prefix, index, k) ==
  IF index = -1 THEN HostValues(prefix, k) - 1 ELSE IF k = 4 THEN index ELSE 0

\* cidrHost gives an address of the network with that number, if there are as many.
LEMMA HostOf ==
  ASSUME NEW net \in [address : Address, prefix : 0..32], NEW index \in {1, 2, 10, -1}
  PROVE  LET a == cidrHost(net, index) IN
         /\ index >= HostValues(net.prefix, 4) => a = OutOfRange
         /\ index < HostValues(net.prefix, 4) =>
              /\ a \in Address
              /\ \A k \in 1..4 :
                   /\ Host(a[k], net.prefix, k) = HostPart(net.prefix, index, k)
                   /\ Network(a[k], net.prefix, k) = Network(net.address[k], net.prefix, k)
<1> DEFINE p == net.prefix
           n == Distance(index)
           h(k) == HostValues(p, k)
           a == cidrHost(net, index)
<1>1. p \in 0..32 /\ net.address \in Address /\ \A k \in 1..4 : net.address[k] \in Byte
  BY DEF Address
<1>2. \A k \in 1..4 : h(k) \in Shares /\ h(k) \in 1..256
  BY <1>1, PrefixEnds DEF Shares
<1>3. n \in {0, 1, 2, 10} /\ (index = -1 => n = 0) /\ (index # -1 => n = index)
  BY DEF Distance
<1> HIDE DEF n
<1>4. \A k \in 1..4 : DeltaByte(n, k) = IF k = 4 THEN n ELSE 0
  BY <1>3, IndexBytes
<1>5. (\E k \in 1..4 : Network(DeltaByte(n, k), p, k) # 0) <=> n >= h(4)
  <2>1. \A k \in 1..4 : Network(DeltaByte(n, k), p, k) = IF k = 4 THEN n - (n % h(4)) ELSE 0
    BY <1>2, <1>4, IndexInByte DEF Network
  <2>2. n - (n % h(4)) = 0 <=> n < h(4)
    BY <1>2, <1>3, IndexInByte
  <2> QED BY <1>2, <1>3, <2>1, <2>2
<1>6. n >= h(4) <=> index >= h(4)
  BY <1>2, <1>3
<1>7. a = IF \E k \in 1..4 : Network(DeltaByte(n, k), p, k) # 0 THEN OutOfRange
          ELSE [k \in 1..4 |->
                  Network(net.address[k], p, k)
                  + (IF index < 0 THEN Host(255 - DeltaByte(n, k), p, k)
                     ELSE DeltaByte(n, k))]
  BY DEF cidrHost, n
<1>8. ASSUME index < h(4)
      PROVE  /\ a \in Address
             /\ \A k \in 1..4 : /\ Host(a[k], p, k) = HostPart(p, index, k)
                                /\ Network(a[k], p, k) = Network(net.address[k], p, k)
  <2>1. \A k \in 1..4 : HostPart(p, index, k) \in 0..(h(k) - 1)
    BY <1>2, <1>8 DEF HostPart
  <2>2. \A k \in 1..4 : (IF index < 0 THEN Host(255 - DeltaByte(n, k), p, k)
                         ELSE DeltaByte(n, k)) = HostPart(p, index, k)
    <3> TAKE k \in 1..4
    <3>1. CASE index = -1
      <4>1. DeltaByte(n, k) = 0
        BY <1>3, <1>4, <3>1
      <4>2. Host(255 - DeltaByte(n, k), p, k) = h(k) - 1
        BY <1>2, <4>1, IndexInByte DEF Host
      <4> QED BY <3>1, <4>2 DEF HostPart
    <3>2. CASE index # -1
      BY <1>3, <1>4, <3>2 DEF HostPart
    <3> QED BY <3>1, <3>2
  <2>3. a = [k \in 1..4 |-> Network(net.address[k], p, k) + HostPart(p, index, k)]
    <3>1. ~(\E k \in 1..4 : Network(DeltaByte(n, k), p, k) # 0)
      BY <1>2, <1>3, <1>5, <1>6, <1>8
    <3> QED BY <1>7, <2>2, <3>1
  <2> HIDE DEF a, p
  <2>4. ASSUME NEW k \in 1..4
        PROVE  /\ a[k] \in Byte
               /\ Host(a[k], p, k) = HostPart(p, index, k)
               /\ Network(a[k], p, k) = Network(net.address[k], p, k)
    <3>1. a[k] = (net.address[k] - (net.address[k] % h(k))) + HostPart(p, index, k)
      BY <2>3 DEF Network
    <3>2. PICK r \in 0..(h(k) - 1) : r = HostPart(p, index, k)
      BY <2>1
    <3>3. /\ (net.address[k] - (net.address[k] % h(k))) + r \in Byte
          /\ ((net.address[k] - (net.address[k] % h(k))) + r) % h(k) = r
          /\ ((net.address[k] - (net.address[k] % h(k))) + r)
               - (((net.address[k] - (net.address[k] % h(k))) + r) % h(k))
             = net.address[k] - (net.address[k] % h(k))
      BY <1>1, <1>2, BytesCompose
    <3> QED BY <3>1, <3>2, <3>3 DEF Host, Network
  <2>5. a \in Address
    BY <2>3, <2>4 DEF Address
  <2> QED BY <2>4, <2>5
<1>9. index >= h(4) => a = OutOfRange
  BY <1>5, <1>6, <1>7
<1> QED BY <1>8, <1>9

\* The settings of DHCP, for every network.
LEMMA SettingsFit ==
  ASSUME NEW net \in [address : Address, prefix : 0..32]
  PROVE  LET d == DHCPConfig(net)
             n == [f \in DOMAIN d |-> HostNumber(d[f], net.prefix)]
         IN  /\ HasDHCPConfig(net) <=> net.prefix <= 28
             /\ HasDHCPConfig(net) =>
                  /\ \A f \in DOMAIN d : /\ d[f] \in Address
                                         /\ SameNetwork(d[f], net.address, net.prefix)
                  /\ n = [gateway |-> 1, server |-> 2, start |-> 10, end |-> Size(net) - 1]
                  /\ n.server < n.start /\ n.start <= n.end
             /\ ~HasDHCPConfig(net) => Size(net) <= 10
<1> DEFINE p == net.prefix
           d == DHCPConfig(net)
           n == [f \in DOMAIN d |-> HostNumber(d[f], p)]
           h(k) == HostValues(p, k)
<1>1. p \in 0..32
  BY SMT
<1>2. \A k \in 1..4 : h(k) \in Shares /\ h(k) \in 1..256
  BY <1>1, PrefixEnds, SMT DEF Shares
<1>3. p <= 28 <=> h(4) > 10
  BY <1>1, PrefixEnds, SMT
<1>4. /\ DOMAIN d = {"gateway", "server", "start", "end"}
      /\ DOMAIN Indices = {"gateway", "server", "start", "end"}
      /\ \A f \in DOMAIN d : d[f] = cidrHost(net, Indices[f])
      /\ \A f \in DOMAIN d : Indices[f] \in {1, 2, 10, -1}
  BY SMT DEF DHCPConfig, Indices
<1>5. HasDHCPConfig(net) <=> h(4) > 10
  <2>1. ASSUME h(4) > 10 PROVE HasDHCPConfig(net)
    <3> SUFFICES ASSUME NEW f \in DOMAIN Indices PROVE cidrHost(net, Indices[f]) # OutOfRange
      BY SMT DEF HasDHCPConfig
    <3>1. Indices[f] < h(4) /\ Indices[f] \in {1, 2, 10, -1}
      BY <1>2, <1>4, <2>1, SMT
    <3>2. cidrHost(net, Indices[f]) \in Address
      BY <3>1, HostOf, SMT
    <3> QED BY <3>2, SMT DEF Address, Byte, OutOfRange
  <2>2. ASSUME ~(h(4) > 10) PROVE ~HasDHCPConfig(net)
    <3>1. Indices["start"] = 10 /\ "start" \in DOMAIN Indices
      BY SMT DEF Indices
    <3>2. cidrHost(net, 10) = OutOfRange
      BY <1>2, <2>2, HostOf, SMT
    <3> QED BY <3>1, <3>2, SMT DEF HasDHCPConfig
  <2> QED BY <2>1, <2>2, SMT
<1> HIDE DEF p
<1>6. ASSUME h(4) > 10
      PROVE  /\ \A f \in DOMAIN d : d[f] \in Address /\ SameNetwork(d[f], net.address, p)
             /\ n = [gateway |-> 1, server |-> 2, start |-> 10, end |-> Size(net) - 1]
             /\ n.server < n.start /\ n.start <= n.end
  <2>1. \A f \in DOMAIN d :
          /\ d[f] \in Address
          /\ \A k \in 1..4 : /\ Host(d[f][k], p, k) = HostPart(p, Indices[f], k)
                             /\ Network(d[f][k], p, k) = Network(net.address[k], p, k)
    <3> TAKE f \in DOMAIN d
    <3>1. Indices[f] < h(4) /\ Indices[f] \in {1, 2, 10, -1} /\ d[f] = cidrHost(net, Indices[f])
      BY <1>2, <1>4, <1>6, SMT
    <3> QED BY <3>1, HostOf, SMT DEF p
  <2>2. \A f \in DOMAIN d :
          HostNumber(d[f], p) =
            HostPart(p, Indices[f], 1) * 16777216 + HostPart(p, Indices[f], 2) * 65536
            + HostPart(p, Indices[f], 3) * 256 + HostPart(p, Indices[f], 4)
    <3>1. 256 ^ 2 = 65536 /\ 256 ^ 3 = 16777216
      BY SMT
    <3> HIDE DEF d
    <3> QED BY <2>1, <3>1, SMT DEF HostNumber
  <2>3. \A f \in {"gateway", "server", "start"} : HostNumber(d[f], p) = Indices[f]
    <3>1. \A f \in {"gateway", "server", "start"} : Indices[f] \in {1, 2, 10}
      BY SMT DEF Indices
    <3> HIDE DEF d
    <3> QED BY <1>4, <2>2, <3>1, SMT DEF HostPart
  <2>4. /\ Size(net) \in Nat
        /\ (h(1) - 1) * 16777216 + (h(2) - 1) * 65536 + (h(3) - 1) * 256 + (h(4) - 1)
             = Size(net) - 1
    <3>1. Size(net) = Two(32 - p)
      BY SMT DEF Size, p, Two
    <3>2. CASE p \in 24..32
      BY <1>1, <1>2, <3>1, <3>2, PrefixEnds, SMT
    <3>3. CASE p \in 16..24
      BY <1>1, <1>2, <3>1, <3>3, PrefixEnds, SMT
    <3>4. CASE p \in 8..16
      BY <1>1, <1>2, <3>1, <3>4, PrefixEnds, SMT
    <3>5. CASE p \in 0..8
      BY <1>1, <1>2, <3>1, <3>5, PrefixEnds, SMT
    <3> QED BY <1>1, <3>2, <3>3, <3>4, <3>5, SMT
  <2>5. HostNumber(d["end"], p) = Size(net) - 1
    <3>1. Indices["end"] = -1
      BY SMT DEF Indices
    <3> HIDE DEF d
    <3> QED BY <1>4, <2>2, <2>4, <3>1, SMT DEF HostPart
  <2>6. n = [gateway |-> 1, server |-> 2, start |-> 10, end |-> Size(net) - 1]
    <3> HIDE DEF d
    <3> QED BY <1>4, <2>3, <2>5, SMT DEF Indices
  <2>7. 10 <= Size(net) - 1
    <3>1. h(1) \in 1..256 /\ h(2) \in 1..256 /\ h(3) \in 1..256 /\ h(4) \in 11..256
      BY <1>2, <1>6, SMT
    <3>2. PICK w \in 1..256 : w = h(1)
      BY <3>1
    <3>3. PICK x \in 1..256 : x = h(2)
      BY <3>1
    <3>4. PICK y \in 1..256 : y = h(3)
      BY <3>1
    <3>5. PICK z \in 11..256 : z = h(4)
      BY <3>1
    <3>6. (w - 1) * 16777216 + (x - 1) * 65536 + (y - 1) * 256 + (z - 1) = Size(net) - 1
      BY <2>4, <3>2, <3>3, <3>4, <3>5, SMT
    <3>7. PICK s \in Nat : s = Size(net)
      BY <2>4, SMT
    <3> QED BY <3>6, <3>7, SMT
  <2>8. \A f \in DOMAIN d : SameNetwork(d[f], net.address, p)
    BY <2>1, SMT DEF SameNetwork
  <2> HIDE DEF d, n
  <2> QED BY <2>1, <2>6, <2>7, <2>8, SMT
<1>7. ASSUME ~(h(4) > 10) PROVE Size(net) <= 10
  <2>1. p \in 24..32
    BY <1>1, <1>3, <1>7, SMT
  <2>2. Size(net) = h(4)
    <3>1. Size(net) = Two(32 - p)
      BY SMT DEF Size, p, Two
    <3> QED BY <1>1, <2>1, <3>1, PrefixEnds, SMT
  <2> QED BY <1>2, <1>7, <2>2, SMT
<1> HIDE DEF d, n
<1> QED BY <1>3, <1>5, <1>6, <1>7, SMT DEF d, n, p

-----------------------------------------------------------------------------
(* The invariant.                                                          *)

\* What is stored or about to be was admitted, and goes with all that was made of it.
ScenarioInv ==
  /\ world \in World /\ profile \in world.profiles
  /\ \A s \in {creating, shoot} \ {NoShoot} : s \in world.shoots /\ validateShoot(s)
  /\ creating # NoShoot => ~Exists
  /\ ~Exists => seed = NoShoot /\ status = NoStatus

\* The seed may be behind, but not with what cannot change.
SeedInv ==
  seed # NoShoot =>
    /\ seed.profile \in world.profiles
    /\ seed.shoot \in world.shoots /\ validateShoot(seed.shoot)
    /\ seed.shoot.network = shoot.network /\ seed.shoot.gateway = shoot.gateway

PlacedFrom(p) ==
  /\ Readable(p) /\ status.nsxt.host \in DOMAIN p.regions
  /\ status.zones = ZoneConfigs(p.regions[status.nsxt.host])

StatusInv ==
  status # NoStatus =>
    /\ status.network = shoot.network /\ status.gateway = shoot.gateway
    /\ \E p \in world.profiles : PlacedFrom(p)

\* The secret can only go bad behind the back of the webhooks.
SecretInv ==
  ~raced =>
    /\ creating # NoShoot \/ Exists => ValidateCloudProviderSecret(secret)
    /\ seed # NoShoot => ValidateCloudProviderSecret(seed.secret)

IInv == raced \in BOOLEAN /\ ScenarioInv /\ SeedInv /\ StatusInv /\ SecretInv

\* A configuration that is admitted, or an update of it.
LEMMA Admitted ==
  /\ \A s : validateShootCreation(s) => validateShoot(s) /\ ValidateCloudProviderSecret(secret)
  /\ \A old, new : validateShootUpdate(old, new) =>
       validateShoot(new) /\ new.network = old.network /\ new.gateway = old.gateway
BY DEF validateShootCreation, validateShootUpdate, ValidateNetworkingUpdate,
       ValidateInfrastructureConfigUpdate

\* What is prepared of the seed.
LEMMA PrepareOk ==
  ASSUME NEW c, Prepare(c) \in {"ok", "network"}
  PROVE  /\ Readable(c.profile) /\ c.shoot.region \in DOMAIN c.profile.regions
         /\ ExtractCredentials(c.secret)
         /\ createConnector(NewNSXTConfig(c)) # Refused
<1>1. c.profile.given = "missing" \/ Readable(c.profile)
  BY DEF Prepare
<1>2. ExtractCredentials(c.secret)
  BY <1>1 DEF Prepare
<1>3. c.profile.given # "missing"
  BY <1>2 DEF Prepare, Readable
<1>4. c.shoot.region \in DOMAIN c.profile.regions
  BY <1>1, <1>2, <1>3 DEF Prepare
<1>5. createConnector(NewNSXTConfig(c)) # Refused
  BY <1>1, <1>2, <1>3, <1>4 DEF Prepare
<1> QED BY <1>1, <1>2, <1>3, <1>4, <1>5

\* The fields of an NSX-T configuration that is made from credentials.
LEMMA ConfigFields ==
  ASSUME NEW data, NEW region, NEW insecure, NEW remote
  PROVE  LET c == NSXTConfig(data, region, insecure, remote) IN
         /\ c = [host |-> region, insecure |-> insecure, remote |-> remote,
                 user |-> NameIn(data, "nsxt"), password |-> NameIn(data, "nsxt"),
                 cert |-> "", key |-> "", ca |-> "", token |-> "", authHost |-> ""]
         /\ NameIn(data, "nsxt") = IF data["nsxt"] = "empty" THEN "" ELSE data["nsxt"]
BY DEF NSXTConfig, Config, AccountOf, NameIn

\* At the beginning there is neither shoot nor seed.
LEMMA InitIInv == PInit => IInv
BY DEF PInit, Init, IInv, ScenarioInv, SeedInv, StatusInv, SecretInv, Exists

\* The history variable, in a step that keeps what is watched or not.
LEMMA WatchRaced ==
  ASSUME Watch
  PROVE  /\ raced' \in BOOLEAN
         /\ ~raced' => \/ ~(creating' # NoShoot \/ shoot' # NoShoot)
                       \/ ~raced /\ (UNCHANGED secret \/ cached \/ (creating = NoShoot /\ ~Exists))
<1>1. raced' \in BOOLEAN
  BY Zenon DEF Watch
<1> QED BY <1>1 DEF Watch

\* Every step keeps the invariant.
LEMMA NextKeeps == IInv /\ [PNext]_propVars => IInv'
<1> SUFFICES ASSUME IInv, [PNext]_propVars PROVE IInv'
  OBVIOUS
<1> USE DEF IInv
<1>1. CASE UNCHANGED propVars
  BY <1>1 DEF propVars, vars, ScenarioInv, SeedInv, StatusInv, SecretInv, Exists, PlacedFrom
<1>2. CASE ProfileChanges /\ Watch
  <2>1. /\ UNCHANGED <<world, secret, shoot, creating, cached, seed, status>>
        /\ profile' \in world.profiles
    BY <1>2 DEF ProfileChanges
  <2>2. ScenarioInv' /\ SeedInv' /\ StatusInv'
    BY <2>1 DEF ScenarioInv, SeedInv, StatusInv, Exists, PlacedFrom
  <2>3. SecretInv'
    BY <1>2, <2>1, WatchRaced DEF SecretInv, ScenarioInv, Exists
  <2> QED BY <1>2, <2>2, <2>3, WatchRaced
<1>3. CASE SecretChanges /\ Watch
  <2>1. /\ UNCHANGED <<world, profile, shoot, creating, cached, seed, status>>
        /\ cached => ValidateCloudProviderSecret(secret')
    BY <1>3 DEF SecretChanges
  <2>2. ScenarioInv' /\ SeedInv' /\ StatusInv'
    BY <2>1 DEF ScenarioInv, SeedInv, StatusInv, Exists, PlacedFrom
  <2>3. SecretInv'
    BY <1>3, <2>1, WatchRaced DEF SecretInv, ScenarioInv, Exists
  <2> QED BY <1>3, <2>2, <2>3, WatchRaced
<1>4. CASE RequestShoot /\ Watch
  <2>1. PICK s \in world.shoots : validateShootCreation(s) /\ creating' = s
    BY <1>4 DEF RequestShoot
  <2>2. /\ UNCHANGED <<world, profile, secret, shoot, cached, seed, status>>
        /\ ~Exists /\ seed = NoShoot
    BY <1>4 DEF RequestShoot
  <2>3. validateShoot(s) /\ ValidateCloudProviderSecret(secret)
    BY <2>1, Admitted
  <2>4. ScenarioInv' /\ SeedInv' /\ StatusInv'
    BY <2>1, <2>2, <2>3 DEF ScenarioInv, SeedInv, StatusInv, Exists, PlacedFrom
  <2>5. SecretInv'
    BY <2>2, <2>3 DEF SecretInv, ValidateCloudProviderSecret
  <2> QED BY <1>4, <2>4, <2>5, WatchRaced
<1>5. CASE StoreShoot /\ Watch
  <2>1. /\ UNCHANGED <<world, profile, secret, cached, seed, status>>
        /\ creating # NoShoot /\ shoot' = creating /\ creating' = NoShoot
    BY <1>5 DEF StoreShoot
  <2>2. seed = NoShoot /\ status = NoStatus
    BY <2>1 DEF ScenarioInv
  <2>3. ScenarioInv' /\ SeedInv' /\ StatusInv'
    BY <2>1, <2>2 DEF ScenarioInv, SeedInv, StatusInv, Exists
  <2>4. SecretInv'
    BY <1>5, <2>1, <2>2, WatchRaced DEF SecretInv, ValidateCloudProviderSecret
  <2> QED BY <1>5, <2>3, <2>4, WatchRaced
<1>6. CASE CacheCatchesUp /\ Watch
  <2>1. UNCHANGED <<world, profile, secret, shoot, creating, seed, status>>
    BY <1>6 DEF CacheCatchesUp
  <2>2. ScenarioInv' /\ SeedInv' /\ StatusInv'
    BY <2>1 DEF ScenarioInv, SeedInv, StatusInv, Exists, PlacedFrom
  <2>3. SecretInv'
    BY <1>6, <2>1, WatchRaced DEF SecretInv, ScenarioInv, Exists
  <2> QED BY <1>6, <2>2, <2>3, WatchRaced
<1>7. CASE UpdateShoot /\ Watch
  <2>1. PICK s \in world.shoots : validateShootUpdate(shoot, s) /\ shoot' = s
    BY <1>7 DEF UpdateShoot
  <2>2. /\ UNCHANGED <<world, profile, secret, creating, cached, seed, status>>
        /\ Exists
    BY <1>7 DEF UpdateShoot
  <2>3. validateShoot(s) /\ s.network = shoot.network /\ s.gateway = shoot.gateway
    BY <2>1, Admitted
  <2>4. s # NoShoot
    BY WorldAssumption DEF ScenarioInv, NoShoot
  <2>5. ScenarioInv' /\ SeedInv' /\ StatusInv'
    BY <2>1, <2>2, <2>3, <2>4 DEF ScenarioInv, SeedInv, StatusInv, Exists, PlacedFrom
  <2>6. SecretInv'
    BY <1>7, <2>1, <2>2, <2>4, WatchRaced DEF SecretInv, Exists
  <2> QED BY <1>7, <2>5, <2>6, WatchRaced
<1>8. CASE Sync /\ Watch
  <2>1. /\ UNCHANGED <<world, profile, secret, shoot, creating, cached, status>>
        /\ Exists /\ seed' = [profile |-> profile, shoot |-> shoot, secret |-> secret]
    BY <1>8 DEF Sync
  <2>2. /\ seed'.profile = profile /\ seed'.shoot = shoot /\ seed'.secret = secret
        /\ shoot \in world.shoots /\ validateShoot(shoot)
    BY <2>1 DEF ScenarioInv, Exists
  <2>3. ScenarioInv' /\ StatusInv'
    BY <2>1 DEF ScenarioInv, StatusInv, Exists, PlacedFrom
  <2>4. SeedInv'
    BY <2>1, <2>2 DEF SeedInv, ScenarioInv
  <2>5. SecretInv'
    BY <1>8, <2>1, <2>2, WatchRaced DEF SecretInv, Exists
  <2> QED BY <1>8, <2>3, <2>4, <2>5, WatchRaced
<1>9. CASE Reconcile /\ Watch
  <2>1. /\ UNCHANGED <<world, profile, secret, shoot, creating, cached, seed>>
        /\ Exists /\ seed # NoShoot
        /\ \/ status' \in {status, NoStatus}
           \/ /\ Prepare(seed) \in {"ok", "network"}
              /\ \E started, state : status' = Spec_(seed, started, state)
    BY <1>9, Zenon DEF Reconcile
  <2>2. ScenarioInv' /\ SeedInv'
    BY <2>1 DEF ScenarioInv, SeedInv, Exists
  <2>3. SecretInv'
    BY <1>9, <2>1, WatchRaced DEF SecretInv, Exists
  <2>4. CASE status' \in {status, NoStatus}
    BY <1>9, <2>1, <2>2, <2>3, <2>4, WatchRaced DEF StatusInv, PlacedFrom
  <2>5. ASSUME Prepare(seed) \in {"ok", "network"},
               NEW started, NEW state, status' = Spec_(seed, started, state)
        PROVE  IInv'
    <3>1. Readable(seed.profile) /\ seed.shoot.region \in DOMAIN seed.profile.regions
      BY <2>5, PrepareOk
    <3>2. /\ status'.gateway = seed.shoot.gateway /\ status'.network = seed.shoot.network
          /\ status'.nsxt = NewNSXTConfig(seed)
          /\ status'.zones = ZoneConfigs(seed.profile.regions[seed.shoot.region])
      BY <2>5 DEF Spec_
    <3>3. status'.nsxt.host = seed.shoot.region
      <4>1. NewNSXTConfig(seed).host = seed.shoot.region
        BY DEF NewNSXTConfig, NSXTConfig, Config
      <4> QED BY <3>2, <4>1
    <3>4. StatusInv'
      BY <2>1, <3>1, <3>2, <3>3 DEF StatusInv, PlacedFrom, SeedInv
    <3> QED BY <1>9, <2>2, <2>3, <3>4, WatchRaced
  <2> QED BY <2>1, <2>4, <2>5
<1>10. CASE DeleteShoot /\ Watch
  <2>1. /\ UNCHANGED <<world, profile, secret, creating, cached>> /\ Exists
        /\ shoot' = NoShoot /\ seed' = NoShoot /\ status' = NoStatus
    BY <1>10 DEF DeleteShoot
  <2>2. creating = NoShoot
    BY <2>1 DEF ScenarioInv
  <2> QED BY <1>10, <2>1, <2>2, WatchRaced DEF ScenarioInv, SeedInv, StatusInv, SecretInv, Exists
<1> QED BY <1>1, <1>2, <1>3, <1>4, <1>5, <1>6, <1>7, <1>8, <1>9, <1>10 DEF PNext

\* So it holds at every state.
THEOREM Invariance == PSpec => []IInv
<1> QED BY InitIInv, NextKeeps, PTL DEF PSpec

-----------------------------------------------------------------------------
(* What it gives.                                                          *)

\* BuiltFromShoot: the network and the gateway of what was built are those of
\* the shoot, through all updates that are admitted (ValidateNetworkingUpdate,
\* ValidateInfrastructureConfigUpdate).
THEOREM BuiltAsAsked == PSpec => []BuiltFromShoot
<1>1. IInv => BuiltFromShoot
  BY DEF IInv, StatusInv, BuiltFromShoot
<1> QED BY <1>1, Invariance, PTL

\* Where the data stores of a zone come from, one by one.
LEMMA DatastoreIsOf ==
  ASSUME NEW region, NEW zone
  PROVE  LET d == DatastoreOf(region, zone) IN
         /\ zone.datastore # "nil" => d[1] = zone.datastore /\ d[2] = "nil"
         /\ zone.datastore = "nil" /\ zone.datastoreCluster # "nil" =>
              d[1] = "nil" /\ d[2] = zone.datastoreCluster
         /\ zone.datastore = "nil" /\ zone.datastoreCluster = "nil" =>
              d[1] = region.datastore /\ d[2] = region.datastoreCluster
<1>1. CASE zone.datastore # "nil"
  <2>1. DatastoreOf(region, zone) = <<zone.datastore, "nil">>
    BY <1>1 DEF DatastoreOf
  <2> QED BY <1>1, <2>1
<1>2. CASE zone.datastore = "nil" /\ zone.datastoreCluster # "nil"
  <2>1. DatastoreOf(region, zone) = <<"nil", zone.datastoreCluster>>
    BY <1>2 DEF DatastoreOf
  <2> QED BY <1>2, <2>1
<1>3. CASE zone.datastore = "nil" /\ zone.datastoreCluster = "nil"
  <2>1. DatastoreOf(region, zone) = <<region.datastore, region.datastoreCluster>>
    BY <1>3 DEF DatastoreOf
  <2> QED BY <1>3, <2>1
<1> QED BY <1>1, <1>2, <1>3

\* ZonesArePlaced: the zones of a valid profile are placed, unless they name an
\* empty string (ValidateCloudProfileConfig, makeProviderInfrastructureStatus).
THEOREM PlacedZones == PSpec => []ZonesArePlaced
<1>1. IInv => ZonesArePlaced
  <2> SUFFICES ASSUME IInv, status # NoStatus PROVE ZonesArePlaced
    BY DEF ZonesArePlaced
  <2>1. PICK p \in world.profiles : PlacedFrom(p)
    BY DEF IInv, StatusInv
  <2>2. PICK region : region = p.regions[status.nsxt.host]
    OBVIOUS
  <2>3. status.zones = ZoneConfigs(region) /\ ValidRegion(p, region)
    BY <2>1, <2>2 DEF PlacedFrom, Readable, ValidateCloudProfileConfig
  <2>4. ASSUME NEW z \in DOMAIN region.zones
        PROVE  LET zone == region.zones[z]
                   placed == status.zones[z]
                   disks == {placed.datastore, placed.datastoreCluster}
               IN
               /\ placed.compute # ""
               /\ zone.datacenter # "" => placed.datacenter # ""
               /\ "" \notin {zone.datastore, zone.datastoreCluster} =>
                   /\ disks # {""}
                   /\ \/ "" \in disks
                      \/ disks = {region.datastore, region.datastoreCluster}
    <3> DEFINE zone == region.zones[z]
               placed == status.zones[z]
    <3>1. ValidZone(region, zone)
      BY <2>3 DEF ValidRegion
    <3>2. /\ placed.datacenter = safe(DatacenterOf(region, zone))
          /\ placed.compute = safe(zone.compute)
          /\ placed.datastore = safe(DatastoreOf(region, zone)[1])
          /\ placed.datastoreCluster = safe(DatastoreOf(region, zone)[2])
      BY <2>3 DEF ZoneConfigs
    <3> HIDE DEF zone, placed
    <3>3. placed.compute # "" /\ (zone.datacenter # "" => placed.datacenter # "")
      BY <3>1, <3>2 DEF ValidZone, isSet, safe, DatacenterOf
    <3>4. ASSUME zone.datastore # "", zone.datastoreCluster # ""
          PROVE  LET disks == {placed.datastore, placed.datastoreCluster} IN
                 /\ disks # {""}
                 /\ "" \in disks \/ disks = {region.datastore, region.datastoreCluster}
      <4>1. CASE zone.datastore # "nil"
        BY <3>2, <3>4, <4>1, DatastoreIsOf DEF safe
      <4>2. CASE zone.datastore = "nil" /\ zone.datastoreCluster # "nil"
        <5>1. /\ placed.datastore = safe("nil")
              /\ placed.datastoreCluster = safe(zone.datastoreCluster)
          BY <3>2, <4>2, DatastoreIsOf
        <5> QED BY <3>4, <4>2, <5>1 DEF safe
      <4>3. CASE zone.datastore = "nil" /\ zone.datastoreCluster = "nil"
        <5>1. /\ placed.datastore = safe(region.datastore)
              /\ placed.datastoreCluster = safe(region.datastoreCluster)
          BY <3>2, <4>3, DatastoreIsOf
        <5>2. isSet(region.datastore) \/ isSet(region.datastoreCluster)
          BY <3>1, <4>3 DEF ValidZone, isSet
        <5> QED BY <5>1, <5>2 DEF isSet, safe
      <4> QED BY <4>1, <4>2, <4>3
    <3> QED BY <3>3, <3>4 DEF zone, placed
  <2>5. DOMAIN status.zones = DOMAIN region.zones
    BY <2>3 DEF ZoneConfigs
  <2> QED BY <2>1, <2>2, <2>4, <2>5 DEF ZonesArePlaced, PlacedFrom
<1> QED BY <1>1, Invariance, PTL

\* AddressesFit: for every network that a shoot can have (newDHCPConfig).
THEOREM AddressesAlwaysFit == PSpec => []AddressesFit
<1>1. IInv => AddressesFit
  <2> SUFFICES ASSUME IInv, NEW s \in {shoot, creating} \ {NoShoot}
               PROVE  LET net == s.network
                          d   == DHCPConfig(net)
                          n   == [f \in DOMAIN d |-> HostNumber(d[f], net.prefix)]
                      IN  IF HasDHCPConfig(net)
                          THEN /\ \A f \in DOMAIN d :
                                    /\ d[f] \in Address
                                    /\ SameNetwork(d[f], net.address, net.prefix)
                               /\ n = [gateway |-> 1, server |-> 2, start |-> 10,
                                       end |-> Size(net) - 1]
                               /\ n.server < n.start /\ n.start <= n.end
                          ELSE Size(net) <= 10
    BY DEF AddressesFit
  <2>1. s \in world.shoots /\ s.network.prefix # -1 /\ world \in World
    BY DEF IInv, ScenarioInv, validateShoot, ValidateNetworking
  <2>2. s.network \in [address : Address, prefix : -1..32]
    BY <2>1, WorldAssumption
  <2>3. s.network.prefix \in 0..32
    BY <2>1, <2>2
  <2>4. s.network \in [address : Address, prefix : 0..32]
    BY <2>2, <2>3
  <2>5. PICK net \in [address : Address, prefix : 0..32] : net = s.network
    BY <2>4
  <2> QED BY <2>5, SettingsFit
<1> QED BY <1>1, Invariance, PTL

-----------------------------------------------------------------------------
(* Reconciliation of what was admitted.                                    *)

\* Each component has an account that is there.
LEMMA ValidSecrets ==
  ASSUME NEW data, ValidateCloudProviderSecret(data)
  PROVE  /\ ExtractCredentials(data)
         /\ \A a \in {"mcm", "ccm", "csi"} : AccountOf(data, a) \in Extracted(data)
         /\ NameIn(data, "nsxt") = data["nsxt"] /\ data["nsxt"] # ""
<1>1. "vsphere" \in Extracted(data) /\ "nsxt" \in Extracted(data) /\ data["nsxt"] \in Account
  BY DEF ValidateCloudProviderSecret, Extracted, Accounts
<1>2. \A a \in {"mcm", "ccm", "csi"} : AccountOf(data, a) \in Extracted(data)
  BY <1>1 DEF AccountOf
<1>3. ExtractCredentials(data)
  <2>1. \A a \in {"mcm", "ccm", "csi"} : {a, "vsphere"} \cap Extracted(data) # {}
    BY <1>1
  <2> QED BY <1>1, <2>1 DEF ExtractCredentials
<1>4. data["nsxt"] # "empty" /\ data["nsxt"] # ""
  BY <1>1, AccountAssumption
<1> QED BY <1>2, <1>3, <1>4 DEF NameIn

\* What the clients are, of a configuration without files.
LEMMA ClientsOf ==
  ASSUME NEW c, c.cert = "", c.token = ""
  PROVE  /\ "" \notin {c.user, c.password} /\ c.user \notin Rejected =>
              createConnector(c) = Client(c, c.ca, "password", c.user)
         /\ "" \in {c.user, c.password} \/ c.user \in Rejected => createConnector(c) = Refused
         /\ createNSXClient(c) = Client(c, c.ca, "password", c.user)
<1> DEFINE ctx == createSecurityContext(c)
<1>1. "" \notin {c.user, c.password} =>
        ctx = [scheme |-> "password", principal |-> c.user]
  BY DEF createSecurityContext
<1>2. "" \in {c.user, c.password} => ctx = Refused
  BY DEF createSecurityContext
<1>3. [scheme |-> "password", principal |-> c.user] # Refused
  BY DEF Refused
<1>4. createConnector(c) = IF ~getConnectorTLSConfig(c) \/ ctx = Refused THEN Refused
                           ELSE IF ctx.principal \in Rejected THEN Refused
                           ELSE Client(c, c.ca, ctx.scheme, ctx.principal)
  BY DEF createConnector
<1>5. getConnectorTLSConfig(c)
  BY DEF getConnectorTLSConfig
<1>6. createNSXClient(c) = Client(c, c.ca, "password", c.user)
  BY DEF createNSXClient
<1>7. ASSUME "" \notin {c.user, c.password}
      PROVE  createConnector(c) = IF c.user \in Rejected THEN Refused
                                  ELSE Client(c, c.ca, "password", c.user)
  <2>1. ctx = [scheme |-> "password", principal |-> c.user]
    BY <1>1, <1>7
  <2> HIDE DEF ctx
  <2>2. ctx.scheme = "password" /\ ctx.principal = c.user /\ ctx # Refused
    BY <1>3, <2>1
  <2> QED BY <1>4, <1>5, <2>2
<1> QED BY <1>2, <1>4, <1>6, <1>7

\* A client is not a refusal, and its parts can be told.
LEMMA ClientParts ==
  ASSUME NEW c, NEW a, NEW s, NEW p
  PROVE  /\ Client(c, a, s, p) # Refused
         /\ Client(c, a, s, p).scheme = s
         /\ Client(c, a, s, p).trust = Trust(c.insecure, a)
BY DEF Client, Refused

\* Authorities only matter to those who verify.
LEMMA TrustIsSame ==
  ASSUME NEW c, NEW a, NEW b, NEW s, NEW p
  PROVE  Client(c, a, s, p) = Client(c, b, s, p) <=> (c.insecure \/ a = b)
<1>1. ASSUME Client(c, a, s, p) = Client(c, b, s, p), ~c.insecure PROVE a = b
  <2>1. Trust(c.insecure, a) = Trust(c.insecure, b)
    BY <1>1, ClientParts
  <2> QED BY <1>1, <2>1, Zenon DEF Trust
<1>2. ASSUME c.insecure \/ a = b PROVE Client(c, a, s, p) = Client(c, b, s, p)
  <2>1. Trust(c.insecure, a) = Trust(c.insecure, b)
    BY <1>2, Zenon DEF Trust
  <2> QED BY <2>1 DEF Client
<1> QED BY <1>1, <1>2

\* AdmittedReconciles: prepareReconcile succeeds for what was admitted, with an
\* account that NSX-T accepts, and every component has its account
\* (validateShootSecret, the secret webhook's Handle, ExtractCredentials and its
\* accessors, createConnector, newDHCPConfig).
THEOREM AdmittedCanReconcile == PSpec => []AdmittedReconciles
<1>1. IInv => AdmittedReconciles
  <2> SUFFICES ASSUME IInv, seed # NoShoot, ~raced, Readable(seed.profile),
                      seed.secret["nsxt"] \notin Rejected,
                      seed.shoot.region \in DOMAIN seed.profile.regions,
                      seed.shoot.network.prefix <= 28
               PROVE  /\ Prepare(seed) = "ok"
                      /\ \A a \in {"mcm", "ccm", "csi"} :
                            AccountOf(seed.secret, a) \in Extracted(seed.secret)
    BY DEF AdmittedReconciles
  <2>1. ValidateCloudProviderSecret(seed.secret)
    BY DEF IInv, SecretInv
  <2>2. createConnector(NewNSXTConfig(seed)) # Refused
    <3>1. PICK c : c = NewNSXTConfig(seed)
      OBVIOUS
    <3>2. c.cert = "" /\ c.token = "" /\ c.user = seed.secret["nsxt"] /\ c.password = c.user
      <4>1. NameIn(seed.secret, AccountOf(seed.secret, "nsxt")) = seed.secret["nsxt"]
        BY <2>1, ValidSecrets DEF AccountOf
      <4> QED BY <3>1, <4>1 DEF NewNSXTConfig, NSXTConfig, Config
    <3>3. createConnector(c) # Refused
      <4>1. c.user # "" /\ c.user \notin Rejected
        BY <2>1, <3>2, ValidSecrets
      <4>2. createConnector(c) = Client(c, c.ca, "password", c.user)
        BY <3>2, <4>1, ClientsOf
      <4> QED BY <4>2, ClientParts
    <3> QED BY <3>1, <3>3
  <2>3. HasDHCPConfig(seed.shoot.network)
    <3>1. seed.shoot \in world.shoots /\ world \in World /\ seed.shoot.network.prefix # -1
      BY DEF IInv, ScenarioInv, SeedInv, validateShoot, ValidateNetworking
    <3>2. seed.shoot.network \in [address : Address, prefix : -1..32]
      BY <3>1, WorldAssumption
    <3>3. seed.shoot.network.prefix \in 0..32
      BY <3>1, <3>2
    <3>4. PICK net \in [address : Address, prefix : 0..32] : net = seed.shoot.network
      BY <3>2, <3>3
    <3> QED BY <3>4, SettingsFit
  <2>4. seed.profile.given = "config"
    BY DEF Readable
  <2> QED BY <2>1, <2>2, <2>3, <2>4, ValidSecrets DEF Prepare
<1> QED BY <1>1, Invariance, PTL

-----------------------------------------------------------------------------
(* Clients.                                                                *)

\* How often clients agree.
LEMMA AllAlike ==
  ASSUME NEW a, NEW b, NEW d
  PROVE  Cardinality({a, b, d}) = 1 <=> a = b /\ b = d
<1>1. IsFiniteSet({a, b, d}) /\ Cardinality({a}) = 1
  <2>1. IsFiniteSet({a, b, d})
    <3>1. IsFiniteSet({a} \cup {b})
      BY FS_Singleton, FS_AddElement
    <3>2. IsFiniteSet(({a} \cup {b}) \cup {d})
      BY <3>1, FS_AddElement
    <3>3. ({a} \cup {b}) \cup {d} = {a, b, d}
      OBVIOUS
    <3> QED BY <3>2, <3>3
  <2> QED BY <2>1, FS_Singleton
<1>2. ASSUME a = b, b = d PROVE Cardinality({a, b, d}) = 1
  <2>1. {a, b, d} = {a}
    BY <1>2
  <2> QED BY <1>1, <2>1
<1>3. ASSUME Cardinality({a, b, d}) = 1 PROVE a = b /\ b = d
  <2>1. PICK x : {a, b, d} = {x}
    BY <1>1, <1>3, FS_Singleton
  <2> QED BY <2>1
<1> QED BY <1>2, <1>3

\* Which configurations every client understands.
Plain(c) ==
  /\ c.cert = "" /\ c.token = ""
  /\ "" \notin {c.user, c.password} /\ c.user \notin Rejected
  /\ c.ca = "" \/ c.insecure

LEMMA AlikeIff == ASSUME NEW c PROVE Cardinality(Clients(c)) = 1 <=> Plain(c)
<1> DEFINE a == createConnector(c)
           b == createNSXClient(c)
           d == DestroyAll(c)
<1>1. Cardinality(Clients(c)) = 1 <=> a = b /\ b = d
  BY AllAlike DEF Clients
<1>2. d = IF "" \in {c.user, c.password} THEN Client(c, "", "none", "")
          ELSE Client(c, "", "password", c.user)
  BY DEF DestroyAll
<1> HIDE DEF a, b, d
<1>0. d # Refused /\ d.scheme \in {"none", "password"}
  <2>1. /\ Client(c, "", "none", "") # Refused
        /\ Client(c, "", "none", "").scheme = "none"
        /\ Client(c, "", "password", c.user) # Refused
        /\ Client(c, "", "password", c.user).scheme = "password"
    BY DEF Client, Refused
  <2>2. d \in {Client(c, "", "none", ""), Client(c, "", "password", c.user)}
    BY <1>2
  <2> QED BY <2>1, <2>2
<1>3. CASE c.cert # ""
  <2>1. b = IF c.key = "" THEN Refused ELSE Client(c, c.ca, "certificate", c.cert)
    BY <1>3 DEF createNSXClient, b
  <2>2. b # Refused => b.scheme = "certificate"
    <3>1. Client(c, c.ca, "certificate", c.cert).scheme = "certificate"
      BY ClientParts
    <3> QED BY <2>1, <3>1
  <2>3. b # d
    BY <1>0, <2>2
  <2> QED BY <1>1, <1>3, <2>3 DEF Plain
<1>4. CASE c.cert = "" /\ c.token # ""
  <2> DEFINE ctx == createSecurityContext(c)
             token == getAPIToken(c)
  <2>1. ctx = IF c.authHost = "" \/ token = "" THEN Refused
              ELSE [scheme |-> "oauth", principal |-> token]
    BY <1>4 DEF createSecurityContext
  <2>2. \/ a = Refused
        \/ ctx # Refused /\ a = Client(c, c.ca, ctx.scheme, ctx.principal)
    BY DEF createConnector, a
  <2> HIDE DEF ctx, token
  <2>3. ASSUME a # Refused PROVE a.scheme = "oauth"
    <3>1. ctx # Refused /\ a = Client(c, c.ca, ctx.scheme, ctx.principal)
      BY <2>2, <2>3
    <3>2. ctx = [scheme |-> "oauth", principal |-> token]
      BY <2>1, <3>1
    <3>3. ctx.scheme = "oauth"
      BY <3>2
    <3> QED BY <3>1, <3>3, ClientParts
  <2>4. a # d
    BY <1>0, <2>3
  <2> QED BY <1>1, <1>4, <2>4 DEF Plain
<1>5. CASE c.cert = "" /\ c.token = ""
  <2>1. b = Client(c, c.ca, "password", c.user)
    BY <1>5, ClientsOf DEF b
  <2>2. CASE "" \in {c.user, c.password} \/ c.user \in Rejected
    <3>1. a = Refused
      BY <1>5, <2>2, ClientsOf DEF a
    <3>2. a # b
      BY <2>1, <3>1, ClientParts
    <3> QED BY <1>1, <2>2, <3>2 DEF Plain
  <2>3. CASE "" \notin {c.user, c.password} /\ c.user \notin Rejected
    <3>1. a = b
      BY <1>5, <2>1, <2>3, ClientsOf DEF a
    <3>2. d = Client(c, "", "password", c.user)
      BY <1>2, <2>3
    <3>3. b = d <=> (c.insecure \/ c.ca = "")
      <4>1. Client(c, c.ca, "password", c.user) = Client(c, "", "password", c.user)
              <=> (c.insecure \/ c.ca = "")
        <5>1. PICK none, scheme : none = "" /\ scheme = "password"
          OBVIOUS
        <5>2. Client(c, c.ca, scheme, c.user) = Client(c, none, scheme, c.user)
                <=> (c.insecure \/ c.ca = none)
          BY TrustIsSame
        <5> QED BY <5>1, <5>2
      <4> QED BY <2>1, <3>2, <4>1
    <3> QED BY <1>1, <1>5, <2>3, <3>1, <3>3 DEF Plain
  <2> QED BY <2>2, <2>3
<1> QED BY <1>3, <1>4, <1>5

\* A configuration is a function of its fields.
Fields == {"host", "insecure", "remote", "user", "password", "cert", "key", "ca", "token",
           "authHost"}

LEMMA ConfigIsFunction ==
  \A h, i, r, u, p : Config(h, i, r, u, p) = [f \in Fields |-> Config(h, i, r, u, p)[f]]
BY DEF Config, Fields

\* The flag for remote authentication is one of them.
LEMMA LocalOnly ==
  ASSUME NEW h, NEW i, NEW r, NEW u, NEW v, NEW c, c = Config(h, i, r, u, u)
  PROVE  [c EXCEPT !.remote = v] = Config(h, i, v, u, u)
<1> DEFINE d == Config(h, i, v, u, u)
<1>1. c = [f \in Fields |-> c[f]] /\ d = [f \in Fields |-> d[f]]
  BY ConfigIsFunction
<1>2. /\ c["host"] = d["host"] /\ c["insecure"] = d["insecure"]
      /\ c["user"] = d["user"] /\ c["password"] = d["password"]
      /\ c["cert"] = d["cert"] /\ c["key"] = d["key"] /\ c["ca"] = d["ca"]
      /\ c["token"] = d["token"] /\ c["authHost"] = d["authHost"]
  BY DEF Config
<1>3. d["remote"] = v /\ "remote" \in Fields
  BY DEF Config, Fields
<1> HIDE DEF d
<1>4. \A f \in Fields \ {"remote"} : c[f] = d[f]
  BY <1>2 DEF Fields
<1>5. [c EXCEPT !.remote = v] = [f \in Fields |-> IF f = "remote" THEN v ELSE c[f]]
  BY <1>1
<1>6. [c EXCEPT !.remote = v] = d
  BY <1>1, <1>3, <1>4, <1>5
<1> QED BY <1>6 DEF d

\* The region that infra-cli settles on, for the shoot's region and for none.
LEMMA OneRegion ==
  ASSUME IsFiniteSet(DOMAIN profile.regions), Readable(profile),
         NEW own \in DOMAIN profile.regions,
         NEW region \in {own, ""}, fillHost(region) \in DOMAIN profile.regions
  PROVE  fillHost(region) = own
<1>1. "" \notin DOMAIN profile.regions
  BY DEF Readable, ValidateCloudProfileConfig
<1>2. CASE region = own
  BY <1>1, <1>2 DEF fillHost
<1>3. CASE region = ""
  <2>1. Cardinality(DOMAIN profile.regions) = 1 /\ fillHost(region) = OnlyRegion
    BY <1>1, <1>3 DEF fillHost
  <2>2. PICK x : DOMAIN profile.regions = {x}
    BY <2>1, FS_Singleton
  <2>3. OnlyRegion \in DOMAIN profile.regions
    BY <2>1
  <2> QED BY <2>1, <2>2, <2>3
<1> QED BY <1>2, <1>3

\* ClientsAlike: the connections for a shoot agree, and so do those of infra-cli
\* if the garden's binding has the same account (NewNSXTConfig, BuildConfigFile
\* and the three clients).
THEOREM ClientsAgree == PSpec => []ClientsAlike
<1>1. IInv => ClientsAlike
  <2>1. \A c \in ConfigFiles :
          Cardinality(Clients(c)) = 1 <=>
             /\ c.cert = "" /\ c.token = ""
             /\ "" \notin {c.user, c.password} /\ c.user \notin Rejected
             /\ c.ca = "" \/ c.insecure
    BY AlikeIff DEF Plain
  <2>2. ASSUME IInv, Exists, profile.type = "vsphere"
        PROVE  LET now == [profile |-> profile, shoot |-> shoot, secret |-> secret]
                   built == {BuildConfigFile(region) : region \in {shoot.region, ""}}
               IN  Prepare(now) = "ok" =>
                     LET c == NewNSXTConfig(now) IN
                     /\ Cardinality(Clients(c)) = 1
                     /\ \A cli \in {b \in built : b.kind = "config"} :
                           /\ cli.nsxt.host = c.host /\ cli.nsxt.insecure = c.insecure
                           /\ Head(world.garden)["nsxt"] = secret["nsxt"] =>
                                Clients(cli.nsxt) = Clients([c EXCEPT !.remote = FALSE])
    <3> DEFINE now == [profile |-> profile, shoot |-> shoot, secret |-> secret]
               built == {BuildConfigFile(region) : region \in {shoot.region, ""}}
               own == shoot.region
               user == NameIn(secret, "nsxt")
    <3> SUFFICES ASSUME Prepare(now) = "ok"
                 PROVE  LET c == NewNSXTConfig(now) IN
                        /\ Cardinality(Clients(c)) = 1
                        /\ \A cli \in {b \in built : b.kind = "config"} :
                              /\ cli.nsxt.host = c.host /\ cli.nsxt.insecure = c.insecure
                              /\ Head(world.garden)["nsxt"] = secret["nsxt"] =>
                                   Clients(cli.nsxt) = Clients([c EXCEPT !.remote = FALSE])
      OBVIOUS
    <3>1. now.profile = profile /\ now.shoot = shoot /\ now.secret = secret
      OBVIOUS
    <3>2. Readable(profile) /\ own \in DOMAIN profile.regions
          /\ createConnector(NewNSXTConfig(now)) # Refused
      <4> HIDE DEF now
      <4> QED BY <3>1, PrepareOk
    <3>3. PICK c : c = NewNSXTConfig(now)
      OBVIOUS
    <3>4. c = Config(own, profile.regions[own].insecure, profile.regions[own].remoteAuth,
                     user, user)
      BY <3>1, <3>3 DEF NewNSXTConfig, NSXTConfig, AccountOf
    <3> HIDE DEF now, own, user
    <3>5. /\ c.cert = "" /\ c.token = "" /\ c.ca = "" /\ c.user = user /\ c.password = user
          /\ c.host = own /\ c.insecure = profile.regions[own].insecure
      BY <3>4 DEF Config
    <3>6. user # "" /\ user \notin Rejected
      BY <3>2, <3>3, <3>5, ClientsOf
    <3>7. Cardinality(Clients(c)) = 1
      BY <3>5, <3>6, AlikeIff DEF Plain
    <3>8. [c EXCEPT !.remote = FALSE]
            = Config(own, profile.regions[own].insecure, FALSE, user, user)
      <4>1. PICK i, r : c = Config(own, i, r, user, user)
                        /\ i = profile.regions[own].insecure
        BY <3>4
      <4>2. [c EXCEPT !.remote = FALSE] = Config(own, i, FALSE, user, user)
        <5>1. \A v : [c EXCEPT !.remote = v] = Config(own, i, v, user, user)
          BY <4>1, LocalOnly
        <5> QED BY <5>1
      <4> QED BY <4>1, <4>2
    <3>9. ASSUME NEW region \in {own, ""}, BuildConfigFile(region).kind = "config"
          PROVE  LET built_ == BuildConfigFile(region).nsxt IN
                 /\ built_.host = c.host /\ built_.insecure = c.insecure
                 /\ Head(world.garden)["nsxt"] = secret["nsxt"] =>
                      built_ = [c EXCEPT !.remote = FALSE]
      <4> DEFINE host == fillHost(region)
                 failed == [kind |-> "error"]
                 theirs == NameIn(Head(world.garden), "nsxt")
                 found == [kind |-> "config",
                           nsxt |-> NSXTConfig(Head(world.garden), host,
                                               profile.regions[host].insecure, FALSE)]
                 missing == \/ ~Readable(profile) \/ host \notin DOMAIN profile.regions
                            \/ Len(world.garden) # 1
                            \/ Head(world.garden)["nsxt"] \in {"missing", "half"}
      <4>1. CASE missing
        <5>1. BuildConfigFile(region) = failed
          BY <2>2, <4>1 DEF BuildConfigFile
        <5>2. failed.kind = "error"
          OBVIOUS
        <5> HIDE DEF failed
        <5>3. BuildConfigFile(region).kind = "error"
          BY <5>1, <5>2
        <5> QED BY <3>9, <5>3
      <4>2. CASE ~missing
        <5>1. BuildConfigFile(region) = found
          BY <2>2, <4>2 DEF BuildConfigFile
        <5>2. host = own
          <6>1. profile \in world.profiles /\ world \in World
            BY <2>2 DEF IInv, ScenarioInv
          <6>2. IsFiniteSet(DOMAIN profile.regions)
            BY <6>1, WorldAssumption
          <6> QED BY <3>2, <3>9, <4>2, <6>2, OneRegion
        <5>3. found.nsxt = Config(own, profile.regions[own].insecure, FALSE, theirs, theirs)
          BY <5>2 DEF NSXTConfig, AccountOf
        <5>4. Head(world.garden)["nsxt"] = secret["nsxt"] => theirs = user
          BY DEF NameIn, user
        <5>5. \A i : Config(own, i, FALSE, theirs, theirs).host = own
                     /\ Config(own, i, FALSE, theirs, theirs).insecure = i
          BY DEF Config
        <5> HIDE DEF found, theirs
        <5>6. found.nsxt.host = own /\ found.nsxt.insecure = profile.regions[own].insecure
          BY <5>3, <5>5, Zenon
        <5> QED BY <3>5, <3>8, <5>1, <5>3, <5>4, <5>6
      <4> QED BY <4>1, <4>2
    <3>10. ASSUME NEW cli \in {b \in built : b.kind = "config"}
           PROVE  /\ cli.nsxt.host = c.host /\ cli.nsxt.insecure = c.insecure
                  /\ Head(world.garden)["nsxt"] = secret["nsxt"] =>
                       Clients(cli.nsxt) = Clients([c EXCEPT !.remote = FALSE])
      <4>1. PICK region \in {own, ""} : cli = BuildConfigFile(region)
        BY DEF own
      <4> QED BY <3>9, <4>1
    <3> QED BY <3>3, <3>7, <3>10
  <2> QED BY <2>1, <2>2 DEF ClientsAlike
<1> QED BY <1>1, Invariance, PTL
=============================================================================
