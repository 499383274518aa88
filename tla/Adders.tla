------------------------------- MODULE Adders -------------------------------
(***************************************************************************)
(* The three sixteen-bit adders of src/ECE385_3 (wpsass2, pw16).  A bit is *)
(* 0 or 1, a nibble or a word is a number; an adder yields its carry out   *)
(* as the bit above the sum.                                               *)
(***************************************************************************)
EXTENDS Integers

Bits == {0, 1}
Bit(a, n) == (a \div n) % 2                          \* n a power of two
Nibble(a, n) == (a \div n) % 16

XorGate(x, y) == (x + y) % 2
AndGate(x, y) == x * y
OrGate(x, y)  == IF x + y = 0 THEN 0 ELSE 1

fullCarry(x, y, z) == OrGate(AndGate(x, y), OrGate(AndGate(y, z), AndGate(x, z)))
fullSum(x, y, z)   == XorGate(x, XorGate(y, z))

Joined(s0, s1, s2, s3) == s0 + 2 * s1 + 4 * s2 + 8 * s3

ADDER4(a, b, c_in) ==
    LET A(i) == Bit(a, i)
        B(i) == Bit(b, i)
        c1 == fullCarry(A(1), B(1), c_in)
        c2 == fullCarry(A(2), B(2), c1)
        c3 == fullCarry(A(4), B(4), c2)
    IN  Joined(fullSum(A(1), B(1), c_in), fullSum(A(2), B(2), c1),
               fullSum(A(4), B(4), c2), fullSum(A(8), B(8), c3))
        + 16 * fullCarry(A(8), B(8), c3)

(* The sum for either carry, and the choice between them. *)
SADDER4(a, b, c_in) == IF c_in = 0 THEN ADDER4(a, b, 0) ELSE ADDER4(a, b, 1)

(* Lookahead: which bits propagate a carry and which generate one. *)
P(a, b, i) == XorGate(Bit(a, i), Bit(b, i))
G(a, b, i) == AndGate(Bit(a, i), Bit(b, i))

Carry1(g0, p0, c) == OrGate(g0, AndGate(p0, c))
Carry2(g0, p0, g1, p1, c) == OrGate(g1, OrGate(AndGate(p1, g0), AndGate(p1, AndGate(p0, c))))
Carry3(g0, p0, g1, p1, g2, p2, c) ==
    OrGate(g2, OrGate(AndGate(p2, g1), OrGate(AndGate(p2, AndGate(p1, g0)), AndGate(p2, AndGate(p1, AndGate(p0, c))))))

PG(a, b) == AndGate(P(a, b, 8), AndGate(P(a, b, 4), AndGate(P(a, b, 2), P(a, b, 1))))
(* Fault: the group's carry forgets the lowest bits. *)
GGShort(a, b) == OrGate(G(a, b, 8), AndGate(G(a, b, 4), P(a, b, 8)))
GG(a, b) == Carry3(G(a, b, 2), P(a, b, 2), G(a, b, 4), P(a, b, 4), G(a, b, 8), P(a, b, 8),
                   G(a, b, 1))

LADDER4(a, b, c_in) ==
    LET C0 == Carry1(G(a, b, 1), P(a, b, 1), c_in)
        C1 == Carry2(G(a, b, 1), P(a, b, 1), G(a, b, 2), P(a, b, 2), c_in)
        C2 == Carry3(G(a, b, 1), P(a, b, 1), G(a, b, 2), P(a, b, 2), G(a, b, 4), P(a, b, 4),
                     c_in)
    IN  Joined(fullSum(Bit(a, 1), Bit(b, 1), c_in), fullSum(Bit(a, 2), Bit(b, 2), C0),
               fullSum(Bit(a, 4), Bit(b, 4), C1), fullSum(Bit(a, 8), Bit(b, 8), C2))
-----------------------------------------------------------------------------
(* Four nibbles in a row, each taking the carry of the one below. *)
Chain(Adder(_, _, _), a, b, cin) ==
    LET s0 == Adder(Nibble(a, 1), Nibble(b, 1), cin)
        s1 == Adder(Nibble(a, 16), Nibble(b, 16), s0 \div 16)
        s2 == Adder(Nibble(a, 256), Nibble(b, 256), s1 \div 16)
        s3 == Adder(Nibble(a, 4096), Nibble(b, 4096), s2 \div 16)
    IN  (s0 % 16) + 16 * (s1 % 16) + 256 * (s2 % 16) + 4096 * s3

ripple_adder(a, b, cin) == Chain(ADDER4, a, b, cin)
select_adder(a, b, cin) == Chain(SADDER4, a, b, cin)

lookahead_adder(a, b, cin) ==
    LET p(i) == PG(Nibble(a, i), Nibble(b, i))
        g(i) == GG(Nibble(a, i), Nibble(b, i))
        s(i, c) == LADDER4(Nibble(a, i), Nibble(b, i), c)
        CC0 == Carry1(g(1), p(1), cin)
        CC1 == Carry2(g(1), p(1), g(16), p(16), cin)
        CC2 == Carry3(g(1), p(1), g(16), p(16), g(256), p(256), cin)
        cout == OrGate(g(4096), AndGate(p(4096), CC2))
    IN  s(1, cin) + 16 * s(16, CC0) + 256 * s(256, CC1) + 4096 * s(4096, CC2) + 65536 * cout
=============================================================================
