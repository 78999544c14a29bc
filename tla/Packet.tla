-------------------------------- MODULE Packet --------------------------------
(***************************************************************************)
(* The rewriting of one IPv4 packet (src/packet.rs).  A packet is reduced  *)
(* to what the code looks at and changes: four lengths and numbers of its  *)
(* header, the word with TTL and protocol, the checksum, and the sum of    *)
(* all other header words.  Lengths count 16-bit words.                    *)
(***************************************************************************)
EXTENDS Integers

CONSTANTS
    Byte,       \* 256
    MinHeader   \* words of a header without options: 10

Word == Byte * Byte
HeaderMax == 3 * MinHeader  \* ihl is four bits of 32-bit words: 60 bytes

ASSUME PacketAssumption ==
    /\ Byte \in Nat \ {0} /\ MinHeader \in Nat /\ MinHeader >= 2
    /\ HeaderMax <= Word

PacketType ==
    [version : Nat, ihl : 0 .. HeaderMax, total : Nat, len : Nat, ttl : 0 .. (Byte - 1),
     proto : 0 .. (Byte - 1), check : 0 .. (Word - 1), rest : 0 .. (HeaderMax - 2) * (Word - 1)]

\* The sum of all words of the header.
HeaderSum(p) == p.rest + p.ttl * Byte + p.proto + p.check

\* while sum >> 16 != 0 { sum = (sum & 0xffff) + (sum >> 16) }: a header has
\* fewer words than a word has values, so the second turn is the last.
Carry(sum) == (sum % Word) + (sum \div Word)
\* Mutant: the carry is added once.
FoldOnce(sum) == Carry(sum) % Word
Fold(sum) == Carry(Carry(sum))
Complement(w) == Word - 1 - w

\* A receiver takes a header whose words, checksum included, sum up to ones.
ChecksumValid(p) == Fold(HeaderSum(p)) = Word - 1

Rewritable(p, ttl) ==
    /\ p.len >= MinHeader /\ p.version = 4 /\ ttl # 0
    /\ p.ihl >= MinHeader /\ p.ihl <= p.len /\ p.total >= p.ihl /\ p.total <= p.len
    /\ p.ttl # ttl
\* Mutant: the old checksum is summed up too.
RewriteStale(p, ttl) ==
    LET marked == [p EXCEPT !.ttl = ttl]
    IN [marked EXCEPT !.check = Complement(Fold(HeaderSum(marked)))]
Rewrite(p, ttl) ==
    LET cleared == [p EXCEPT !.ttl = ttl, !.check = 0]
    IN [cleared EXCEPT !.check = Complement(Fold(HeaderSum(cleared)))]
===============================================================================
