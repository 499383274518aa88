---------------------------- MODULE AddersProofs -----------------------------
(***************************************************************************)
(* All three adders add: for all words and both carries the result, its    *)
(* carry out as bit sixteen, is the sum.  From gates to full adders, to    *)
(* nibbles, to words; then the accumulator that uses one of them.          *)
(***************************************************************************)
EXTENDS Accumulator, TLAPS

NibbleRange == 0 .. 15
WordRange == {w \in Nat : w < 65536}
-----------------------------------------------------------------------------
(* A bit of a number is 0 or 1.                                            *)
LEMMA BitIsBit ==
  ASSUME NEW a \in Nat, NEW n \in {1, 2, 4, 8}
  PROVE  Bit(a, n) \in Bits
BY DEF Bit, Bits

(* A nibble is the sum of its four bits.                                   *)
LEMMA NibbleOfBits ==
  ASSUME NEW a \in NibbleRange
  PROVE  a = Bit(a, 1) + 2 * Bit(a, 2) + 4 * Bit(a, 4) + 8 * Bit(a, 8)
BY DEF Bit, NibbleRange

(* The gates return bits.                                                  *)
LEMMA GatesReturnBits ==
  ASSUME NEW x \in Bits, NEW y \in Bits
  PROVE  XorGate(x, y) \in Bits /\ AndGate(x, y) \in Bits /\ OrGate(x, y) \in Bits
<1>1. x \in {0, 1} /\ y \in {0, 1} BY DEF Bits
<1>2. CASE x = 0 BY <1>1, <1>2 DEF XorGate, AndGate, OrGate, Bits
<1>3. CASE x = 1 BY <1>1, <1>3 DEF XorGate, AndGate, OrGate, Bits
<1> QED BY <1>1, <1>2, <1>3

(* base_adder_modules.sv:1-5: a full adder counts its inputs.              *)
LEMMA FullAdderCounts ==
  ASSUME NEW x \in Bits, NEW y \in Bits, NEW z \in Bits
  PROVE  /\ fullSum(x, y, z) \in Bits /\ fullCarry(x, y, z) \in Bits
         /\ fullSum(x, y, z) + 2 * fullCarry(x, y, z) = x + y + z
<1>1. x \in {0, 1} /\ y \in {0, 1} /\ z \in {0, 1} BY DEF Bits
<1>2. CASE x = 0 BY <1>1, <1>2 DEF fullSum, fullCarry, XorGate, AndGate, OrGate, Bits
<1>3. CASE x = 1 BY <1>1, <1>3 DEF fullSum, fullCarry, XorGate, AndGate, OrGate, Bits
<1> QED BY <1>1, <1>2, <1>3

(* The same with a number, 0 or 1, for each output.                        *)
LEMMA FullAdder ==
  ASSUME NEW x \in Bits, NEW y \in Bits, NEW z \in Bits
  PROVE  \E s \in Bits, c \in Bits :
            s = fullSum(x, y, z) /\ c = fullCarry(x, y, z) /\ s + 2 * c = x + y + z
BY FullAdderCounts

(* Four bits in a row.                                                     *)
LEMMA Split ==
  ASSUME NEW a \in NibbleRange
  PROVE  \E a0 \in Bits, a1 \in Bits, a2 \in Bits, a3 \in Bits :
            /\ a0 = Bit(a, 1) /\ a1 = Bit(a, 2) /\ a2 = Bit(a, 4) /\ a3 = Bit(a, 8)
            /\ a = a0 + 2 * a1 + 4 * a2 + 8 * a3
<1>1. a \in Nat BY DEF NibbleRange
<1>2. /\ Bit(a, 1) \in Bits /\ Bit(a, 2) \in Bits
      /\ Bit(a, 4) \in Bits /\ Bit(a, 8) \in Bits
  BY <1>1, BitIsBit
<1> QED BY <1>2, NibbleOfBits

(* base_adder_modules.sv:7-18: four full adders in a row add two nibbles.  *)
LEMMA RippleNibble ==
  ASSUME NEW a \in NibbleRange, NEW b \in NibbleRange, NEW c \in Bits
  PROVE  ADDER4(a, b, c) = a + b + c
<1>2. PICK a0 \in Bits, a1 \in Bits, a2 \in Bits, a3 \in Bits :
        /\ a0 = Bit(a, 1) /\ a1 = Bit(a, 2) /\ a2 = Bit(a, 4) /\ a3 = Bit(a, 8)
        /\ a = a0 + 2 * a1 + 4 * a2 + 8 * a3
  BY Split
<1>3. PICK b0 \in Bits, b1 \in Bits, b2 \in Bits, b3 \in Bits :
        /\ b0 = Bit(b, 1) /\ b1 = Bit(b, 2) /\ b2 = Bit(b, 4) /\ b3 = Bit(b, 8)
        /\ b = b0 + 2 * b1 + 4 * b2 + 8 * b3
  BY Split
<1>4. PICK s0 \in Bits, c1 \in Bits :
        s0 = fullSum(a0, b0, c) /\ c1 = fullCarry(a0, b0, c) /\ s0 + 2 * c1 = a0 + b0 + c
  BY FullAdder
<1>5. PICK s1 \in Bits, c2 \in Bits :
        s1 = fullSum(a1, b1, c1) /\ c2 = fullCarry(a1, b1, c1) /\ s1 + 2 * c2 = a1 + b1 + c1
  BY FullAdder
<1>6. PICK s2 \in Bits, c3 \in Bits :
        s2 = fullSum(a2, b2, c2) /\ c3 = fullCarry(a2, b2, c2) /\ s2 + 2 * c3 = a2 + b2 + c2
  BY FullAdder
<1>7. PICK s3 \in Bits, c4 \in Bits :
        s3 = fullSum(a3, b3, c3) /\ c4 = fullCarry(a3, b3, c3) /\ s3 + 2 * c4 = a3 + b3 + c3
  BY FullAdder
<1>8. ADDER4(a, b, c) = s0 + 2 * s1 + 4 * s2 + 8 * s3 + 16 * c4
  BY <1>2, <1>3, <1>4, <1>5, <1>6, <1>7 DEF ADDER4, Joined
<1>9. s0 + 2 * s1 + 4 * s2 + 8 * s3 + 16 * c4
        = (a0 + 2 * a1 + 4 * a2 + 8 * a3) + (b0 + 2 * b1 + 4 * b2 + 8 * b3) + c
  BY <1>4, <1>5, <1>6, <1>7 DEF Bits
<1> QED BY <1>2, <1>3, <1>8, <1>9

(* base_adder_modules.sv:45-72: choosing between two sums changes nothing. *)
LEMMA SelectNibble ==
  ASSUME NEW a \in NibbleRange, NEW b \in NibbleRange, NEW c \in Bits
  PROVE  SADDER4(a, b, c) = a + b + c
BY RippleNibble DEF SADDER4, Bits
-----------------------------------------------------------------------------
(* The laws of the gates the lookahead rests on.                           *)
LEMMA GateLaws ==
  ASSUME NEW x \in Bits
  PROVE  /\ AndGate(0, x) = 0 /\ AndGate(1, x) = x
         /\ OrGate(0, x) = x /\ OrGate(x, 0) = x /\ OrGate(1, x) = 1
<1>1. x \in {0, 1} BY DEF Bits
<1> QED BY <1>1 DEF AndGate, OrGate

(* OrGate associates.                                                     *)
LEMMA OrAssociates ==
  ASSUME NEW x \in Bits, NEW y \in Bits, NEW z \in Bits
  PROVE  OrGate(x, OrGate(y, z)) = OrGate(OrGate(x, y), z)
<1>1. OrGate(y, z) \in Bits BY GatesReturnBits
<1>2. CASE x = 0 BY <1>1, <1>2, GateLaws
<1>3. CASE x = 1 BY <1>1, <1>3, GateLaws
<1> QED BY <1>2, <1>3 DEF Bits

(* AndGate distributes over OrGate.                                        *)
LEMMA AndDistributes ==
  ASSUME NEW p \in Bits, NEW x \in Bits, NEW y \in Bits
  PROVE  AndGate(p, OrGate(x, y)) = OrGate(AndGate(p, x), AndGate(p, y))
<1>1. OrGate(x, y) \in Bits BY GatesReturnBits
<1>2. 0 \in Bits BY DEF Bits
<1>3. CASE p = 0 BY <1>1, <1>2, <1>3, GateLaws
<1>4. CASE p = 1 BY <1>1, <1>4, GateLaws
<1> QED BY <1>3, <1>4 DEF Bits

(* A carry is generated, or propagated: what the full adder's carry is.    *)
LEMMA CarryIsLookedAhead ==
  ASSUME NEW x \in Bits, NEW y \in Bits, NEW z \in Bits
  PROVE  Carry1(AndGate(x, y), XorGate(x, y), z) = fullCarry(x, y, z)
<1>1. x \in {0, 1} /\ y \in {0, 1} /\ z \in {0, 1} BY DEF Bits
<1>2. CASE x = 0 BY <1>1, <1>2 DEF Carry1, fullCarry, XorGate, AndGate, OrGate
<1>3. CASE x = 1 BY <1>1, <1>3 DEF Carry1, fullCarry, XorGate, AndGate, OrGate
<1> QED BY <1>1, <1>2, <1>3

(* The wide carries are the narrow one repeated.                           *)
Repeats2(g0, p0, g1, p1, c) ==
    Carry2(g0, p0, g1, p1, c) = Carry1(g1, p1, Carry1(g0, p0, c))
Repeats3(g0, p0, g1, p1, g2, p2, c) ==
    Carry3(g0, p0, g1, p1, g2, p2, c) = Carry1(g2, p2, Carry1(g1, p1, Carry1(g0, p0, c)))

(* Carry2 repeats Carry1.                                                  *)
LEMMA TwoCarries ==
  ASSUME NEW g0 \in Bits, NEW p0 \in Bits, NEW g1 \in Bits, NEW p1 \in Bits, NEW c \in Bits
  PROVE  Repeats2(g0, p0, g1, p1, c)
<1>1. AndGate(p0, c) \in Bits /\ AndGate(p1, g0) \in Bits
  BY GatesReturnBits
<1>2. OrGate(g0, AndGate(p0, c)) \in Bits BY <1>1, GatesReturnBits
<1>3. AndGate(p1, OrGate(g0, AndGate(p0, c)))
        = OrGate(AndGate(p1, g0), AndGate(p1, AndGate(p0, c)))
  BY <1>1, AndDistributes
<1> QED BY <1>2, <1>3 DEF Carry1, Carry2, Repeats2

(* Carry3 repeats it twice.                                                *)
LEMMA ThreeCarries ==
  ASSUME NEW g0 \in Bits, NEW p0 \in Bits, NEW g1 \in Bits, NEW p1 \in Bits,
         NEW g2 \in Bits, NEW p2 \in Bits, NEW c \in Bits
  PROVE  Repeats3(g0, p0, g1, p1, g2, p2, c)
<1>1. AndGate(p0, c) \in Bits /\ AndGate(p1, g0) \in Bits
  BY GatesReturnBits
<1>2. AndGate(p1, AndGate(p0, c)) \in Bits BY <1>1, GatesReturnBits
<1>3. OrGate(AndGate(p1, g0), AndGate(p1, AndGate(p0, c))) \in Bits
  BY <1>1, <1>2, GatesReturnBits
<1>4. AndGate(p2, OrGate(g1, OrGate(AndGate(p1, g0), AndGate(p1, AndGate(p0, c)))))
        = OrGate(AndGate(p2, g1),
                 AndGate(p2, OrGate(AndGate(p1, g0), AndGate(p1, AndGate(p0, c)))))
  BY <1>3, AndDistributes
<1>5. AndGate(p2, OrGate(AndGate(p1, g0), AndGate(p1, AndGate(p0, c))))
        = OrGate(AndGate(p2, AndGate(p1, g0)), AndGate(p2, AndGate(p1, AndGate(p0, c))))
  BY <1>1, <1>2, AndDistributes
<1>6. Carry3(g0, p0, g1, p1, g2, p2, c) = Carry1(g2, p2, Carry2(g0, p0, g1, p1, c))
  BY <1>4, <1>5 DEF Carry1, Carry2, Carry3
<1>7. Repeats2(g0, p0, g1, p1, c) BY TwoCarries
<1> QED BY <1>6, <1>7 DEF Repeats2, Repeats3

(* A group generates and propagates a carry the way a bit does.            *)
LEMMA GroupCarries ==
  ASSUME NEW g \in Bits, NEW p \in Bits, NEW h \in Bits, NEW r \in Bits, NEW c \in Bits
  PROVE  /\ Carry1(g, p, h) \in Bits /\ AndGate(p, r) \in Bits
         /\ Carry1(Carry1(g, p, h), AndGate(p, r), c) = Carry1(g, p, Carry1(h, r, c))
<1>1. /\ AndGate(p, h) \in Bits /\ AndGate(r, c) \in Bits /\ AndGate(p, r) \in Bits
  BY GatesReturnBits
<1>2. OrGate(g, AndGate(p, h)) \in Bits BY <1>1, GatesReturnBits
<1>3. AndGate(p, OrGate(h, AndGate(r, c))) = OrGate(AndGate(p, h), AndGate(p, AndGate(r, c)))
  BY <1>1, AndDistributes
<1>4. AndGate(AndGate(p, r), c) = AndGate(p, AndGate(r, c))
  <2>1. 0 \in Bits BY DEF Bits
  <2>2. CASE p = 0 BY <1>1, <2>1, <2>2, GateLaws
  <2>3. CASE p = 1 BY <1>1, <2>3, GateLaws
  <2> QED BY <2>2, <2>3 DEF Bits
<1>5. AndGate(p, AndGate(r, c)) \in Bits BY <1>1, GatesReturnBits
<1>6. OrGate(g, OrGate(AndGate(p, h), AndGate(p, AndGate(r, c))))
        = OrGate(OrGate(g, AndGate(p, h)), AndGate(p, AndGate(r, c)))
  BY <1>1, <1>5, OrAssociates
<1> QED BY <1>1, <1>2, <1>3, <1>4, <1>6 DEF Carry1

(* base_adder_modules.sv:75-115: the lookahead adder of a nibble, and its  *)
(* group signals.                                                          *)
LEMMA LookaheadNibble ==
  ASSUME NEW a \in NibbleRange, NEW b \in NibbleRange, NEW c \in Bits
  PROVE  /\ GG(a, b) \in Bits /\ PG(a, b) \in Bits
         /\ Carry1(GG(a, b), PG(a, b), c) \in Bits
         /\ LADDER4(a, b, c) \in NibbleRange
         /\ LADDER4(a, b, c) + 16 * Carry1(GG(a, b), PG(a, b), c) = a + b + c
<1>2. PICK a0 \in Bits, a1 \in Bits, a2 \in Bits, a3 \in Bits :
        /\ a0 = Bit(a, 1) /\ a1 = Bit(a, 2) /\ a2 = Bit(a, 4) /\ a3 = Bit(a, 8)
        /\ a = a0 + 2 * a1 + 4 * a2 + 8 * a3
  BY Split
<1>3. PICK b0 \in Bits, b1 \in Bits, b2 \in Bits, b3 \in Bits :
        /\ b0 = Bit(b, 1) /\ b1 = Bit(b, 2) /\ b2 = Bit(b, 4) /\ b3 = Bit(b, 8)
        /\ b = b0 + 2 * b1 + 4 * b2 + 8 * b3
  BY Split
<1>4. PICK s0 \in Bits, c1 \in Bits :
        s0 = fullSum(a0, b0, c) /\ c1 = fullCarry(a0, b0, c) /\ s0 + 2 * c1 = a0 + b0 + c
  BY FullAdder
<1>5. PICK s1 \in Bits, c2 \in Bits :
        s1 = fullSum(a1, b1, c1) /\ c2 = fullCarry(a1, b1, c1) /\ s1 + 2 * c2 = a1 + b1 + c1
  BY FullAdder
<1>6. PICK s2 \in Bits, c3 \in Bits :
        s2 = fullSum(a2, b2, c2) /\ c3 = fullCarry(a2, b2, c2) /\ s2 + 2 * c3 = a2 + b2 + c2
  BY FullAdder
<1>7. PICK s3 \in Bits, c4 \in Bits :
        s3 = fullSum(a3, b3, c3) /\ c4 = fullCarry(a3, b3, c3) /\ s3 + 2 * c4 = a3 + b3 + c3
  BY FullAdder
<1>8. PICK g0 \in Bits, g1 \in Bits, g2 \in Bits, g3 \in Bits,
           p0 \in Bits, p1 \in Bits, p2 \in Bits, p3 \in Bits :
        /\ g0 = AndGate(a0, b0) /\ p0 = XorGate(a0, b0)
        /\ g1 = AndGate(a1, b1) /\ p1 = XorGate(a1, b1)
        /\ g2 = AndGate(a2, b2) /\ p2 = XorGate(a2, b2)
        /\ g3 = AndGate(a3, b3) /\ p3 = XorGate(a3, b3)
  BY GatesReturnBits
<1>9. /\ g0 = G(a, b, 1) /\ g1 = G(a, b, 2) /\ g2 = G(a, b, 4) /\ g3 = G(a, b, 8)
      /\ p0 = P(a, b, 1) /\ p1 = P(a, b, 2) /\ p2 = P(a, b, 4) /\ p3 = P(a, b, 8)
  BY <1>2, <1>3, <1>8 DEF G, P
<1>10. /\ c1 = Carry1(g0, p0, c) /\ c2 = Carry1(g1, p1, c1)
       /\ c3 = Carry1(g2, p2, c2) /\ c4 = Carry1(g3, p3, c3)
  <2>1. c1 = Carry1(g0, p0, c) BY <1>4, <1>8, CarryIsLookedAhead
  <2>2. c2 = Carry1(g1, p1, c1) BY <1>5, <1>8, CarryIsLookedAhead
  <2>3. c3 = Carry1(g2, p2, c2) BY <1>6, <1>8, CarryIsLookedAhead
  <2>4. c4 = Carry1(g3, p3, c3) BY <1>7, <1>8, CarryIsLookedAhead
  <2> QED BY <2>1, <2>2, <2>3, <2>4
<1>11. c2 = Carry2(g0, p0, g1, p1, c) /\ c3 = Carry3(g0, p0, g1, p1, g2, p2, c)
  <2>1. Repeats2(g0, p0, g1, p1, c) BY TwoCarries
  <2>2. Repeats3(g0, p0, g1, p1, g2, p2, c) BY ThreeCarries
  <2> QED BY <1>10, <2>1, <2>2 DEF Repeats2, Repeats3
<1>12. LADDER4(a, b, c) = s0 + 2 * s1 + 4 * s2 + 8 * s3
  BY <1>2, <1>3, <1>4, <1>5, <1>6, <1>7, <1>9, <1>10, <1>11 DEF LADDER4, Joined
<1>13. /\ GG(a, b) = Carry1(g3, p3, Carry1(g2, p2, Carry1(g1, p1, g0)))
       /\ PG(a, b) = AndGate(p3, AndGate(p2, AndGate(p1, p0)))
  <2>1. Repeats3(g1, p1, g2, p2, g3, p3, g0) BY ThreeCarries
  <2> QED BY <1>9, <2>1 DEF Repeats3, GG, PG
<1>14. /\ Carry1(g1, p1, g0) \in Bits /\ AndGate(p1, p0) \in Bits
       /\ Carry1(Carry1(g1, p1, g0), AndGate(p1, p0), c) = c2
  BY <1>10, GroupCarries
<1>15. /\ Carry1(g2, p2, Carry1(g1, p1, g0)) \in Bits /\ AndGate(p2, AndGate(p1, p0)) \in Bits
       /\ Carry1(Carry1(g2, p2, Carry1(g1, p1, g0)), AndGate(p2, AndGate(p1, p0)), c) = c3
  BY <1>10, <1>14, GroupCarries
<1>16. /\ GG(a, b) \in Bits /\ PG(a, b) \in Bits
       /\ Carry1(GG(a, b), PG(a, b), c) = c4
  BY <1>10, <1>13, <1>15, GroupCarries
<1>17. s0 + 2 * s1 + 4 * s2 + 8 * s3 + 16 * c4
        = (a0 + 2 * a1 + 4 * a2 + 8 * a3) + (b0 + 2 * b1 + 4 * b2 + 8 * b3) + c
  BY <1>4, <1>5, <1>6, <1>7 DEF Bits
<1>18. s0 + 2 * s1 + 4 * s2 + 8 * s3 \in NibbleRange
  BY DEF Bits, NibbleRange
<1> QED BY <1>2, <1>3, <1>12, <1>16, <1>17, <1>18
-----------------------------------------------------------------------------
(* A word is the sum of its nibbles.                                       *)
LEMMA NibblesOfWord ==
  ASSUME NEW w \in WordRange
  PROVE  \E n0 \in NibbleRange, n1 \in NibbleRange, n2 \in NibbleRange, n3 \in NibbleRange :
            /\ n0 = Nibble(w, 1) /\ n1 = Nibble(w, 16)
            /\ n2 = Nibble(w, 256) /\ n3 = Nibble(w, 4096)
            /\ w = n0 + 16 * n1 + 256 * n2 + 4096 * n3
<1>1. w \in Nat /\ w < 65536 BY DEF WordRange
<1>2. /\ Nibble(w, 1) \in NibbleRange /\ Nibble(w, 16) \in NibbleRange
      /\ Nibble(w, 256) \in NibbleRange /\ Nibble(w, 4096) \in NibbleRange
  BY <1>1 DEF Nibble, NibbleRange
<1>3. w = Nibble(w, 1) + 16 * Nibble(w, 16) + 256 * Nibble(w, 256) + 4096 * Nibble(w, 4096)
  BY <1>1 DEF Nibble
<1> QED BY <1>2, <1>3

(* One nibble's sum, as the nibble that stays and the carry that goes on.  *)
LEMMA NibbleSum ==
  ASSUME NEW m \in NibbleRange, NEW n \in NibbleRange, NEW c \in Bits
  PROVE  \E s \in NibbleRange, d \in Bits :
            s = (m + n + c) % 16 /\ d = (m + n + c) \div 16 /\ s + 16 * d = m + n + c
<1>1. m + n + c \in 0 .. 31 BY DEF Bits, NibbleRange
<1>2. /\ (m + n + c) % 16 \in 0 .. 15 /\ (m + n + c) \div 16 \in {0, 1}
      /\ ((m + n + c) % 16) + 16 * ((m + n + c) \div 16) = m + n + c
  BY <1>1
<1> QED BY <1>2 DEF Bits, NibbleRange

(* adders.sv: for all words and either carry, the carry-ripple adder adds. *)
THEOREM RippleAdds ==
  \A a, b \in WordRange, cin \in Bits : ripple_adder(a, b, cin) = a + b + cin
<1> SUFFICES ASSUME NEW a \in WordRange, NEW b \in WordRange, NEW cin \in Bits
             PROVE  ripple_adder(a, b, cin) = a + b + cin
  OBVIOUS
<1>1. PICK a0 \in NibbleRange, a1 \in NibbleRange, a2 \in NibbleRange, a3 \in NibbleRange :
        /\ a0 = Nibble(a, 1) /\ a1 = Nibble(a, 16) /\ a2 = Nibble(a, 256) /\ a3 = Nibble(a, 4096)
        /\ a = a0 + 16 * a1 + 256 * a2 + 4096 * a3
  BY NibblesOfWord
<1>2. PICK b0 \in NibbleRange, b1 \in NibbleRange, b2 \in NibbleRange, b3 \in NibbleRange :
        /\ b0 = Nibble(b, 1) /\ b1 = Nibble(b, 16) /\ b2 = Nibble(b, 256) /\ b3 = Nibble(b, 4096)
        /\ b = b0 + 16 * b1 + 256 * b2 + 4096 * b3
  BY NibblesOfWord
<1>3. PICK s0 \in NibbleRange, c1 \in Bits :
        s0 = (a0 + b0 + cin) % 16 /\ c1 = (a0 + b0 + cin) \div 16 /\ s0 + 16 * c1 = a0 + b0 + cin
  BY NibbleSum
<1>4. PICK s1 \in NibbleRange, c2 \in Bits :
        s1 = (a1 + b1 + c1) % 16 /\ c2 = (a1 + b1 + c1) \div 16 /\ s1 + 16 * c2 = a1 + b1 + c1
  BY NibbleSum
<1>5. PICK s2 \in NibbleRange, c3 \in Bits :
        s2 = (a2 + b2 + c2) % 16 /\ c3 = (a2 + b2 + c2) \div 16 /\ s2 + 16 * c3 = a2 + b2 + c2
  BY NibbleSum
<1>6. /\ ADDER4(a0, b0, cin) % 16 = s0 /\ ADDER4(a0, b0, cin) \div 16 = c1
      /\ ADDER4(a1, b1, c1) % 16 = s1 /\ ADDER4(a1, b1, c1) \div 16 = c2
      /\ ADDER4(a2, b2, c2) % 16 = s2 /\ ADDER4(a2, b2, c2) \div 16 = c3
  <2>1. /\ ADDER4(a0, b0, cin) = a0 + b0 + cin /\ ADDER4(a1, b1, c1) = a1 + b1 + c1
        /\ ADDER4(a2, b2, c2) = a2 + b2 + c2
    BY RippleNibble
  <2> QED BY <1>3, <1>4, <1>5, <2>1
<1>7. ripple_adder(a, b, cin) = s0 + 16 * s1 + 256 * s2 + 4096 * ADDER4(a3, b3, c3)
  BY <1>1, <1>2, <1>6 DEF ripple_adder, Chain
<1>8. ADDER4(a3, b3, c3) = a3 + b3 + c3
  BY RippleNibble
<1>9. s0 + 16 * s1 + 256 * s2 + 4096 * (a3 + b3 + c3)
        = (a0 + 16 * a1 + 256 * a2 + 4096 * a3) + (b0 + 16 * b1 + 256 * b2 + 4096 * b3) + cin
  BY <1>3, <1>4, <1>5 DEF Bits, NibbleRange
<1> QED BY <1>1, <1>2, <1>7, <1>8, <1>9

(* So does the carry-select adder, which is the ripple one, nibble by      *)
(* nibble.                                                                 *)
THEOREM SelectAdds ==
  \A a, b \in WordRange, cin \in Bits : select_adder(a, b, cin) = a + b + cin
<1> SUFFICES ASSUME NEW a \in WordRange, NEW b \in WordRange, NEW cin \in Bits
             PROVE  select_adder(a, b, cin) = a + b + cin
  OBVIOUS
<1>1. PICK a0 \in NibbleRange, a1 \in NibbleRange, a2 \in NibbleRange, a3 \in NibbleRange :
        /\ a0 = Nibble(a, 1) /\ a1 = Nibble(a, 16) /\ a2 = Nibble(a, 256) /\ a3 = Nibble(a, 4096)
        /\ a = a0 + 16 * a1 + 256 * a2 + 4096 * a3
  BY NibblesOfWord
<1>2. PICK b0 \in NibbleRange, b1 \in NibbleRange, b2 \in NibbleRange, b3 \in NibbleRange :
        /\ b0 = Nibble(b, 1) /\ b1 = Nibble(b, 16) /\ b2 = Nibble(b, 256) /\ b3 = Nibble(b, 4096)
        /\ b = b0 + 16 * b1 + 256 * b2 + 4096 * b3
  BY NibblesOfWord
<1>3. PICK c1 \in Bits : c1 = (a0 + b0 + cin) \div 16
  BY NibbleSum
<1>4. PICK c2 \in Bits : c2 = (a1 + b1 + c1) \div 16
  BY NibbleSum
<1>5. PICK c3 \in Bits : c3 = (a2 + b2 + c2) \div 16
  BY NibbleSum
<1>6. /\ ADDER4(a0, b0, cin) \div 16 = c1
      /\ ADDER4(a1, b1, c1) \div 16 = c2
      /\ ADDER4(a2, b2, c2) \div 16 = c3
  BY <1>3, <1>4, <1>5, RippleNibble
<1>7. /\ SADDER4(a0, b0, cin) = ADDER4(a0, b0, cin) /\ SADDER4(a1, b1, c1) = ADDER4(a1, b1, c1)
      /\ SADDER4(a2, b2, c2) = ADDER4(a2, b2, c2) /\ SADDER4(a3, b3, c3) = ADDER4(a3, b3, c3)
  BY RippleNibble, SelectNibble
<1>8. select_adder(a, b, cin) = ripple_adder(a, b, cin)
  BY <1>1, <1>2, <1>6, <1>7 DEF select_adder, ripple_adder, Chain
<1> QED BY <1>8, RippleAdds

(* And the carry-lookahead adder, which takes the carries from the group   *)
(* signals of the nibbles below.                                           *)
THEOREM LookaheadAdds ==
  \A a, b \in WordRange, cin \in Bits : lookahead_adder(a, b, cin) = a + b + cin
<1> SUFFICES ASSUME NEW a \in WordRange, NEW b \in WordRange, NEW cin \in Bits
             PROVE  lookahead_adder(a, b, cin) = a + b + cin
  OBVIOUS
<1>1. PICK a0 \in NibbleRange, a1 \in NibbleRange, a2 \in NibbleRange, a3 \in NibbleRange :
        /\ a0 = Nibble(a, 1) /\ a1 = Nibble(a, 16) /\ a2 = Nibble(a, 256) /\ a3 = Nibble(a, 4096)
        /\ a = a0 + 16 * a1 + 256 * a2 + 4096 * a3
  BY NibblesOfWord
<1>2. PICK b0 \in NibbleRange, b1 \in NibbleRange, b2 \in NibbleRange, b3 \in NibbleRange :
        /\ b0 = Nibble(b, 1) /\ b1 = Nibble(b, 16) /\ b2 = Nibble(b, 256) /\ b3 = Nibble(b, 4096)
        /\ b = b0 + 16 * b1 + 256 * b2 + 4096 * b3
  BY NibblesOfWord
<1>3. PICK s0 \in NibbleRange, c1 \in Bits :
        /\ s0 = LADDER4(a0, b0, cin) /\ c1 = Carry1(GG(a0, b0), PG(a0, b0), cin)
        /\ s0 + 16 * c1 = a0 + b0 + cin
  BY LookaheadNibble
<1>4. PICK s1 \in NibbleRange, c2 \in Bits :
        /\ s1 = LADDER4(a1, b1, c1) /\ c2 = Carry1(GG(a1, b1), PG(a1, b1), c1)
        /\ s1 + 16 * c2 = a1 + b1 + c1
  BY LookaheadNibble
<1>5. PICK s2 \in NibbleRange, c3 \in Bits :
        /\ s2 = LADDER4(a2, b2, c2) /\ c3 = Carry1(GG(a2, b2), PG(a2, b2), c2)
        /\ s2 + 16 * c3 = a2 + b2 + c2
  BY LookaheadNibble
<1>6. PICK s3 \in NibbleRange, c4 \in Bits :
        /\ s3 = LADDER4(a3, b3, c3) /\ c4 = Carry1(GG(a3, b3), PG(a3, b3), c3)
        /\ s3 + 16 * c4 = a3 + b3 + c3
  BY LookaheadNibble
<1>7. /\ GG(a0, b0) \in Bits /\ PG(a0, b0) \in Bits /\ GG(a1, b1) \in Bits /\ PG(a1, b1) \in Bits
      /\ GG(a2, b2) \in Bits /\ PG(a2, b2) \in Bits
  BY LookaheadNibble
<1>8. /\ c2 = Carry2(GG(a0, b0), PG(a0, b0), GG(a1, b1), PG(a1, b1), cin)
      /\ c3 = Carry3(GG(a0, b0), PG(a0, b0), GG(a1, b1), PG(a1, b1), GG(a2, b2), PG(a2, b2), cin)
  <2>1. Repeats2(GG(a0, b0), PG(a0, b0), GG(a1, b1), PG(a1, b1), cin)
    BY <1>7, TwoCarries
  <2>2. Repeats3(GG(a0, b0), PG(a0, b0), GG(a1, b1), PG(a1, b1), GG(a2, b2), PG(a2, b2), cin)
    BY <1>7, ThreeCarries
  <2> QED BY <1>3, <1>4, <1>5, <2>1, <2>2 DEF Repeats2, Repeats3
<1>9. c4 = OrGate(GG(a3, b3), AndGate(PG(a3, b3), c3))
  BY <1>6 DEF Carry1
<1>10. lookahead_adder(a, b, cin) = s0 + 16 * s1 + 256 * s2 + 4096 * s3 + 65536 * c4
  <2>1. s0 = LADDER4(a0, b0, cin) /\ s1 = LADDER4(a1, b1, c1) /\ s2 = LADDER4(a2, b2, c2)
        /\ s3 = LADDER4(a3, b3, c3)
    BY <1>3, <1>4, <1>5, <1>6
  <2>2. c1 = Carry1(GG(a0, b0), PG(a0, b0), cin)
    BY <1>3
  <2>3. lookahead_adder(a, b, cin)
          = LADDER4(a0, b0, cin)
            + 16 * LADDER4(a1, b1, Carry1(GG(a0, b0), PG(a0, b0), cin))
            + 256 * LADDER4(a2, b2, Carry2(GG(a0, b0), PG(a0, b0), GG(a1, b1), PG(a1, b1), cin))
            + 4096 * LADDER4(a3, b3, Carry3(GG(a0, b0), PG(a0, b0), GG(a1, b1), PG(a1, b1),
                                            GG(a2, b2), PG(a2, b2), cin))
            + 65536 * OrGate(GG(a3, b3), AndGate(PG(a3, b3),
                        Carry3(GG(a0, b0), PG(a0, b0), GG(a1, b1), PG(a1, b1),
                               GG(a2, b2), PG(a2, b2), cin)))
    BY <1>1, <1>2 DEF lookahead_adder
  <2> QED BY <2>1, <2>2, <2>3, <1>8, <1>9
<1>12. s0 + 16 * s1 + 256 * s2 + 4096 * s3 + 65536 * c4
        = (a0 + 16 * a1 + 256 * a2 + 4096 * a3) + (b0 + 16 * b1 + 256 * b2 + 4096 * b3) + cin
  BY <1>3, <1>4, <1>5, <1>6 DEF Bits, NibbleRange
<1> QED BY <1>1, <1>2, <1>10, <1>12
-----------------------------------------------------------------------------
(* What the accumulator keeps true: an addition is remembered only while   *)
(* Run is still down, in the state that waits for its release.             *)
AccInvariant ==
    /\ Out \in Nat
    /\ acc_state \in {"A", "B", "C"}
    /\ acc_state # "C" => added = FALSE

(* AccSwitches and register are words, so that all adders give their sum.     *)
LEMMA SumOfWords ==
  ASSUME AccSwitches \subseteq WordRange, Out \in Nat, NEW SW \in AccSwitches
  PROVE  Total(SW) = SW + (Out % 65536) /\ Total(SW) \in Nat
<1>1. SW \in WordRange /\ SW \in Nat BY DEF WordRange
<1>2. Out % 65536 \in WordRange /\ Out % 65536 \in Nat BY DEF WordRange
<1>3. 0 \in Bits BY DEF Bits
<1>4. Total(SW) = SW + (Out % 65536) + 0 BY <1>1, <1>2, <1>3, RippleAdds DEF Total
<1> QED BY <1>1, <1>2, <1>4

(* The invariant holds at the start and over every edge.                   *)
LEMMA AccInductive ==
  ASSUME AccSwitches \subseteq WordRange
  PROVE  /\ AccInit => AccInvariant
         /\ AccInvariant /\ [AccNext]_accVars => AccInvariant'
<1>1. AccInit => AccInvariant BY DEF AccInit, AccInvariant
<1>2. ASSUME AccInvariant, [AccNext]_accVars PROVE AccInvariant'
  <2>1. CASE UNCHANGED accVars BY <1>2, <2>1 DEF AccInvariant, accVars
  <2>2. ASSUME NEW Run \in BOOLEAN, NEW SW \in AccSwitches, Edge(Run, SW) PROVE AccInvariant'
    <3>1. Out' \in Nat BY <1>2, <2>2, SumOfWords DEF Edge, AccInvariant
    <3>2. acc_state' \in {"A", "B", "C"} BY <1>2, <2>2 DEF Edge, AccInvariant, next_state
    <3>3. acc_state' # "C" => added' = FALSE
      BY <1>2, <2>2 DEF Edge, AccInvariant, next_state, Load
    <3> QED BY <3>1, <3>2, <3>3 DEF AccInvariant
  <2> QED BY <1>2, <2>1, <2>2 DEF AccNext
<1> QED BY <1>1, <1>2

(* adder_toplevel.sv:47-51: whenever the control unit loads a sum, the     *)
(* other two adders would have given the same, for all switches.           *)
THEOREM AddersAlwaysAgree ==
  ASSUME AccSwitches \subseteq WordRange
  PROVE  AccSpec => []AddersAgree
<1>1. AccInvariant => AddersAgree
  <2> SUFFICES ASSUME AccInvariant, Load, NEW SW \in AccSwitches, NEW cin \in Bits
               PROVE  /\ lookahead_adder(SW, Out % 65536, cin) = ripple_adder(SW, Out % 65536, cin)
                      /\ select_adder(SW, Out % 65536, cin) = ripple_adder(SW, Out % 65536, cin)
    BY DEF AddersAgree
  <2>1. SW \in WordRange OBVIOUS
  <2>2. Out % 65536 \in WordRange BY DEF AccInvariant, WordRange
  <2> QED BY <2>1, <2>2, RippleAdds, SelectAdds, LookaheadAdds
<1> QED BY <1>1, AccInductive, PTL DEF AccSpec

(* control.sv:23-29: however long Run is held down, one addition.          *)
THEOREM RunAddsOnce ==
  ASSUME AccSwitches \subseteq WordRange
  PROVE  AccSpec => AddsOnce
<1>1. ASSUME AccInvariant, [AccNext]_accVars, Out' # Out
      PROVE  \/ Reset /\ Out' = 0
             \/ ~added /\ \E SW \in AccSwitches : Out' = SW + (Out % 65536)
  <2>1. PICK Run \in BOOLEAN, SW \in AccSwitches : Edge(Run, SW) BY <1>1 DEF AccNext, accVars
  <2>2. CASE Reset BY <2>1, <2>2 DEF Edge
  <2>3. CASE ~Reset
    <3>1. Load /\ Out' = Total(SW) BY <1>1, <2>1, <2>3 DEF Edge
    <3>2. Out' = SW + (Out % 65536) BY <1>1, <3>1, SumOfWords DEF AccInvariant
    <3>3. ~added BY <1>1, <3>1 DEF AccInvariant, Load
    <3> QED BY <3>2, <3>3
  <2> QED BY <2>2, <2>3
<1> QED BY <1>1, AccInductive, PTL DEF AccSpec, AddsOnce

(* The register and its carry are seventeen bits.                          *)
THEOREM AccTypes ==
  ASSUME AccSwitches \subseteq WordRange
  PROVE  AccSpec => []AccTypeOK
<1>1. AccInit => AccTypeOK
  <2> SUFFICES ASSUME AccInit PROVE AccTypeOK OBVIOUS
  <2>1. Out \in Sums BY SMT DEF AccInit, Sums
  <2> QED BY <2>1 DEF AccInit, AccTypeOK
<1>2. ASSUME AccInvariant, AccTypeOK, [AccNext]_accVars PROVE AccTypeOK'
  <2>1. CASE UNCHANGED accVars BY <1>2, <2>1 DEF AccTypeOK, accVars
  <2>2. ASSUME NEW Run \in BOOLEAN, NEW SW \in AccSwitches, Edge(Run, SW) PROVE AccTypeOK'
    <3>1. acc_state' \in {"A", "B", "C"} BY <1>2, AccInductive DEF AccInvariant
    <3>2. Out' \in Sums
      <4>1. SW \in Nat /\ SW < 65536 BY DEF WordRange
      <4>2. Total(SW) = SW + (Out % 65536) BY <1>2, SumOfWords DEF AccInvariant
      <4>3. Total(SW) \in Sums BY <1>2, <4>1, <4>2, SMT DEF AccInvariant, Sums
      <4>4. 0 \in Sums BY SMT DEF Sums
      <4> QED BY <1>2, <2>2, <4>3, <4>4 DEF Edge, AccTypeOK
    <3>3. Reset' \in BOOLEAN /\ added' \in BOOLEAN BY <1>2, <2>2 DEF Edge, AccTypeOK, Load
    <3> QED BY <3>1, <3>2, <3>3 DEF AccTypeOK
  <2> QED BY <1>2, <2>1, <2>2 DEF AccNext
<1> QED BY <1>1, <1>2, AccInductive, PTL DEF AccSpec
=============================================================================
