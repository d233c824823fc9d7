------------------------------ MODULE UdpDatagram ------------------------------
(***************************************************************************)
(* The IPv6/UDP datagram that carries the answer of a simulated host into  *)
(* the mesh, and its checksum.  The node drops a datagram whose checksum   *)
(* is wrong, so what is made here is compared with what a receiver         *)
(* verifies.  An address is the sum of its eight 16-bit words.             *)
(***************************************************************************)
EXTENDS Naturals, Sequences, FiniteSets

CONSTANTS
    AddrSums,      \* sums of the words of an address
    Ports, Bytes,  \* ports and the bytes of the payload
    MaxPayload     \* bound: the length of the payload

VARIABLES src, dst, srcPort, dstPort, payload

vars == <<src, dst, srcPort, dstPort, payload>>

NextHeaderUdp == 17
Word == 65536

\* serializeUdpHeader, as words.
SerializeUdpHeader(h) == <<h.SrcPort, h.DstPort, h.Length, h.Checksum>>

\* Mutant: the last byte of an odd payload is left out.
PayloadWordEven(data, i) == IF 2 * i <= Len(data) THEN 256 * data[2 * i - 1] + data[2 * i] ELSE 0

\* Word i of the payload; a last byte that is alone is the high half of its word.
PayloadWord(data, i) == 256 * data[2 * i - 1] + IF 2 * i <= Len(data) THEN data[2 * i] ELSE 0

SumTo(f(_), n) == LET s[i \in 0..n] == IF i = 0 THEN 0 ELSE s[i - 1] + f(i) IN s[n]
SumWords(data) == SumTo(LAMBDA i : PayloadWord(data, i), (Len(data) + 1) \div 2)

\* The loop that adds the carries until the sum fits a word.
Fold(sum) ==
    LET once(x) == (x \div Word) + (x % Word)
    IN IF sum < Word THEN sum ELSE IF once(sum) < Word THEN once(sum) ELSE once(once(sum))

\* ^sum, with zero replaced as it means "no checksum".
Complement(sum) == IF sum = Word - 1 THEN Word - 1 ELSE (Word - 1) - sum

\* The sum of the pseudo-header: the addresses, the length of the datagram, the next header.
PseudoHeader(s, d, length) == s + d + length + NextHeaderUdp

\* calcUdpChecksum of the header h with the payload data.
CalcUdpChecksum(s, d, h, data) ==
    LET ws == SerializeUdpHeader([h EXCEPT !.Checksum = 0])
    IN Complement(Fold(PseudoHeader(s, d, Len(data) + 8) + SumTo(LAMBDA i : ws[i], 4) + SumWords(data)))

\* createIp6UdpDatagram: the fields of its headers.
CreateIp6UdpDatagram(sp, dp, s, d, data) ==
    LET h == [SrcPort |-> sp, DstPort |-> dp, Length |-> Len(data) + 8, Checksum |-> 0]
    IN [Src |-> s, Dst |-> d, PayloadLen |-> Len(data) + 8,
        udp |-> [h EXCEPT !.Checksum = CalcUdpChecksum(s, d, h, data)], data |-> data]

Datagram == CreateIp6UdpDatagram(dstPort, srcPort, dst, src, payload)

TypeOK == Datagram.udp.Checksum \in 0..(Word - 1) /\ payload \in Seq(Bytes)

Init ==
    /\ src \in AddrSums /\ dst \in AddrSums /\ srcPort \in Ports /\ dstPort \in Ports
    /\ payload = <<>>

\* A longer answer.
Next ==
    /\ Len(payload) < MaxPayload
    /\ \E b \in Bytes : payload' = Append(payload, b)
    /\ UNCHANGED <<src, dst, srcPort, dstPort>>

Spec == Init /\ [][Next]_vars

\* What a receiver computes over a datagram: all words with the checksum, in ones' complement.
Verified(m) ==
    LET total == m.Src + m.Dst + m.PayloadLen + NextHeaderUdp + m.udp.SrcPort + m.udp.DstPort
                 + m.udp.Length + m.udp.Checksum
                 + SumTo(LAMBDA i : m.data[i] * (IF i % 2 = 1 THEN 256 ELSE 1), Len(m.data))
    IN total % (Word - 1) = 0

\* The receiver accepts the datagram, whatever the carries, the ports and the parity of the length.
Accepted == Verified(Datagram)

\* The checksum is never 0, which stands for "no checksum" and is not allowed over IPv6.
NeverZero == Datagram.udp.Checksum # 0
====
