---------------------------- MODULE ProtocolProofs ----------------------------
(***************************************************************************)
(* Proofs about the protocol library, for frames of every length: what the *)
(* CRC accepts and what damage it notices.                                 *)
(***************************************************************************)
EXTENDS Protocol, TLAPS, WellFoundedInduction

-----------------------------------------------------------------------------
(* Induction and folds *)

\* A nonempty set of numbers has one below which there is none.
LEMMA LeastNumber ==
    ASSUME NEW S, S \subseteq Nat, S # {}
    PROVE  \E m \in S : \A n \in S : m <= n
<1>. DEFINE less == {ss \in Nat \X Nat : ss[1] < ss[2]}
<1>1. IsWellFoundedOn(less, Nat) BY NatLessThanWellFounded DEF OpToRel
<1>2. PICK m \in S : \A n \in S : <<n, m>> \notin less
    <2>. HIDE DEF less
    <2>. QED BY <1>1, WFMin
<1>3. ASSUME NEW n \in S PROVE m <= n
    <2>1. n \in Nat /\ m \in Nat OBVIOUS
    <2>2. <<n, m>> \in Nat \X Nat /\ <<n, m>>[1] = n /\ <<n, m>>[2] = m BY <2>1
    <2>3. ~(n < m) BY <1>2, <2>2
    <2>. QED BY <2>1, <2>3
<1>. QED BY <1>3

\* A set with 0, and with the successor of every number up to limit in it, has them all.
LEMMA NumbersUpTo ==
    ASSUME NEW S, NEW limit \in Nat, 0 \in S, \A n \in 0 .. limit - 1 : n \in S => n + 1 \in S
    PROVE  \A n \in 0 .. limit : n \in S
<1>. DEFINE missing == {n \in 0 .. limit : n \notin S}
<1>. SUFFICES ASSUME missing # {} PROVE FALSE OBVIOUS
<1>1. missing \subseteq Nat OBVIOUS
<1>2. PICK m \in missing : \A n \in missing : m <= n BY <1>1, LeastNumber
<1>3. m \in Nat /\ m # 0 /\ m <= limit /\ m \notin S OBVIOUS
<1>4. m - 1 \in 0 .. limit - 1 /\ m - 1 \in 0 .. limit BY <1>3
<1>5. m - 1 \in S
    <2>. SUFFICES ASSUME m - 1 \notin S PROVE FALSE OBVIOUS
    <2>1. m - 1 \in missing BY <1>4
    <2>. QED BY <1>2, <1>3, <2>1
<1>. QED BY <1>3, <1>4, <1>5

\* The greatest of the numbers up to limit.
LEMMA GreatestUpTo ==
    ASSUME NEW limit \in Nat, NEW s \in SUBSET (1 .. limit), limit \in s
    PROVE  Max(s) = limit
<1>1. \A y \in s : limit >= y OBVIOUS
<1>2. Max(s) \in s /\ \A y \in s : Max(s) >= y
    <2>1. \E x \in s : \A y \in s : x >= y BY <1>1
    <2>. QED BY <2>1 DEF Max
<1>. DEFINE m == Max(s)
<1>3. m \in s /\ m >= limit BY <1>2
<1>. HIDE DEF m
<1>4. m \in 1 .. limit BY <1>3
<1>5. m = limit BY <1>3, <1>4
<1>. QED BY <1>5 DEF m

\* A set of them that is not empty has a greatest one.
LEMMA GreatestIn ==
    ASSUME NEW limit \in Nat, NEW s \in SUBSET (1 .. limit), s # {}
    PROVE  Max(s) \in s
<1>. DEFINE below == {limit - x : x \in s}
<1>1. \A x \in s : x \in 1 .. limit OBVIOUS
<1>2. below \subseteq Nat /\ below # {}
    <2>1. \A x \in s : limit - x \in Nat BY <1>1
    <2>2. PICK x \in s : TRUE OBVIOUS
    <2>. QED BY <2>1, <2>2
<1>3. PICK m \in below : \A n \in below : m <= n BY <1>2, LeastNumber
<1>4. PICK x \in s : m = limit - x OBVIOUS
<1>5. \A y \in s : x >= y
    <2>. SUFFICES ASSUME NEW y \in s PROVE x >= y OBVIOUS
    <2>1. limit - y \in below OBVIOUS
    <2>2. limit - x <= limit - y BY <1>3, <1>4, <2>1
    <2>. QED BY <1>1, <2>2
<1>. QED BY <1>5 DEF Max

\* iter says what comes out for every part of a sequence when its entries are added up from
\* base by step.
Folds(iter, A, step, base, seq) ==
    /\ iter \in [SUBSET (1 .. Len(seq)) -> A]
    /\ \A s \in SUBSET (1 .. Len(seq)) :
          iter[s] = IF s = {} THEN base ELSE step[<<iter[s \ {Max(s)}], seq[Max(s)]>>]

\* Whatever is added up, there is such a function.
LEMMA FoldExists ==
    ASSUME NEW A, NEW B, NEW step \in [A \X B -> A], NEW base \in A, NEW seq \in Seq(B)
    PROVE  \E iter : Folds(iter, A, step, base, seq)
<1>. DEFINE Partial(iter, k) ==
        /\ iter \in [SUBSET (1 .. k) -> A]
        /\ \A s \in SUBSET (1 .. k) :
              iter[s] = IF s = {} THEN base ELSE step[<<iter[s \ {Max(s)}], seq[Max(s)]>>]
<1>. DEFINE Reached == {k \in Nat : \E iter : Partial(iter, k)}
<1>1. 0 \in Reached
    <2>. DEFINE iter == [s \in SUBSET (1 .. 0) |-> base]
    <2>1. \A s \in SUBSET (1 .. 0) : s = {} OBVIOUS
    <2>2. Partial(iter, 0) BY <2>1
    <2>. QED BY <2>2
<1>2. ASSUME NEW k \in 0 .. Len(seq) - 1, k \in Reached PROVE k + 1 \in Reached
    <2>1. PICK g : Partial(g, k) BY <1>2
    <2>2. k \in Nat /\ k + 1 \in 1 .. Len(seq) OBVIOUS
    <2>3. seq[k + 1] \in B BY <2>2
    <2>. DEFINE iter == [s \in SUBSET (1 .. k + 1) |->
                            IF k + 1 \in s THEN step[<<g[s \ {k + 1}], seq[k + 1]>>] ELSE g[s]]
    <2>4. ASSUME NEW s \in SUBSET (1 .. k + 1), k + 1 \in s
          PROVE  s \ {k + 1} \in SUBSET (1 .. k) /\ g[s \ {k + 1}] \in A
        <3>1. s \ {k + 1} \in SUBSET (1 .. k) BY <2>2
        <3>. QED BY <2>1, <3>1
    <2>5. ASSUME NEW s \in SUBSET (1 .. k + 1), k + 1 \notin s
          PROVE  s \in SUBSET (1 .. k) /\ g[s] \in A
        <3>1. s \in SUBSET (1 .. k) BY <2>2, <2>5
        <3>. QED BY <2>1, <3>1
    <2>6. ASSUME NEW s \in SUBSET (1 .. k + 1)
          PROVE  iter[s] \in A
        <3>1. CASE k + 1 \in s BY <2>3, <2>4, <3>1
        <3>2. CASE k + 1 \notin s BY <2>5, <3>2
        <3>. QED BY <3>1, <3>2
    <2>7. ASSUME NEW s \in SUBSET (1 .. k + 1)
          PROVE  iter[s] = IF s = {} THEN base ELSE step[<<iter[s \ {Max(s)}], seq[Max(s)]>>]
        <3>1. CASE k + 1 \in s
            <4>1. Max(s) = k + 1 BY <2>2, <3>1, GreatestUpTo
            <4>2. s \ {k + 1} \in SUBSET (1 .. k + 1) /\ k + 1 \notin s \ {k + 1} OBVIOUS
            <4>3. iter[s \ {k + 1}] = g[s \ {k + 1}] BY <4>2
            <4>. QED BY <3>1, <4>1, <4>3
        <3>2. CASE k + 1 \notin s
            <4>1. g[s] = IF s = {} THEN base ELSE step[<<g[s \ {Max(s)}], seq[Max(s)]>>]
                BY <2>1, <2>5, <3>2
            <4>2. s \ {Max(s)} \in SUBSET (1 .. k + 1) /\ k + 1 \notin s \ {Max(s)} BY <3>2
            <4>3. iter[s \ {Max(s)}] = g[s \ {Max(s)}] BY <4>2
            <4>. QED BY <3>2, <4>1, <4>3
        <3>. QED BY <3>1, <3>2
    <2>8. iter \in [SUBSET (1 .. k + 1) -> A] BY <2>6
    <2>. HIDE DEF iter
    <2>9. Partial(iter, k + 1) BY <2>7, <2>8
    <2>. HIDE DEF Partial
    <2>. QED BY <2>2, <2>9
<1>. HIDE DEF Reached
<1>3. Len(seq) \in Nat OBVIOUS
<1>4. \A k \in 0 .. Len(seq) : k \in Reached BY <1>1, <1>2, <1>3, NumbersUpTo
<1>5. Len(seq) \in Reached BY <1>3, <1>4
<1>6. PICK iter : Partial(iter, Len(seq)) BY <1>5 DEF Reached
<1>. QED BY <1>6 DEF Folds

-----------------------------------------------------------------------------
(* One round of the CRC *)

Register == SUBSET (0 .. 15)

\* The ones of a register, n positions further down.
Down(register, n) == {i - n : i \in register}

\* What is in one register or in the other.
LEMMA XorFacts ==
    ASSUME NEW a, NEW b, NEW c
    PROVE  /\ \A i : i \in Xor(a, b) <=> (i \in a <=> i \notin b)
           /\ Xor(Xor(a, b), b) = a /\ Xor(a, {}) = a /\ Xor(a, a) = {}
           /\ Xor(Xor(a, b), c) = Xor(Xor(a, c), b)
BY DEF Xor

LEMMA XorApart ==
    ASSUME NEW a, NEW b, NEW c, Xor(a, c) = Xor(b, c)
    PROVE  a = b
BY DEF Xor

\* The register loses its lowest position and gains none.
LEMMA ShiftFacts ==
    ASSUME NEW a \in Register
    PROVE  /\ ShiftRight(a) \in SUBSET (0 .. 14)
           /\ \A i \in 0 .. 14 : i \in ShiftRight(a) <=> i + 1 \in a
<1>1. \A i \in a : i \in 0 .. 15 BY DEF Register
<1>2. ASSUME NEW i \in ShiftRight(a) PROVE i \in 0 .. 14 /\ i + 1 \in a
    <2>1. PICK j \in a \ {0} : i = j - 1 BY DEF ShiftRight
    <2>2. j \in 0 .. 15 /\ j # 0 BY <1>1
    <2>. QED BY <2>1, <2>2
<1>3. ASSUME NEW i \in 0 .. 14, i + 1 \in a PROVE i \in ShiftRight(a)
    <2>1. i + 1 \in a \ {0} /\ i = (i + 1) - 1 BY <1>3
    <2>. QED BY <2>1 DEF ShiftRight
<1>. QED BY <1>2, <1>3

\* A round keeps the register within its sixteen bits.
LEMMA DivideType ==
    ASSUME NEW a \in Register
    PROVE  DivideBit(a) \in Register
<1>1. ShiftRight(a) \in SUBSET (0 .. 14) BY ShiftFacts
<1>. QED BY <1>1 DEF DivideBit, Register, Xor

\* A round tells every two registers apart: the bit that falls out at the bottom is the one
\* that shows at the top.
LEMMA DivideApart ==
    ASSUME NEW a \in Register, NEW b \in Register, DivideBit(a) = DivideBit(b)
    PROVE  a = b
<1>1. ShiftRight(a) \in SUBSET (0 .. 14) /\ ShiftRight(b) \in SUBSET (0 .. 14) BY ShiftFacts
<1>2. (0 \in a <=> 15 \in DivideBit(a)) /\ (0 \in b <=> 15 \in DivideBit(b))
    BY <1>1 DEF DivideBit, Xor
<1>3. 0 \in a <=> 0 \in b BY <1>2
<1>4. ShiftRight(a) = ShiftRight(b)
    <2>. DEFINE taps == {15, 13, 0}
    <2>1. CASE 0 \in a
        <3>1. DivideBit(a) = Xor(ShiftRight(a), taps) /\ DivideBit(b) = Xor(ShiftRight(b), taps)
            BY <1>3, <2>1 DEF DivideBit
        <3>. HIDE DEF taps
        <3>2. Xor(ShiftRight(a), taps) = Xor(ShiftRight(b), taps) BY <3>1
        <3>. QED BY <3>2, XorApart
    <2>2. CASE 0 \notin a BY <1>3, <2>2 DEF DivideBit
    <2>. QED BY <2>1, <2>2
<1>5. ASSUME NEW i \in 0 .. 15 PROVE i \in a <=> i \in b
    <2>1. CASE i = 0 BY <1>3, <2>1
    <2>2. CASE i # 0
        <3>1. i - 1 \in 0 .. 14 /\ (i - 1) + 1 = i BY <2>2
        <3>. QED BY <1>4, <3>1, ShiftFacts
    <2>. QED BY <2>1, <2>2
<1>. QED BY <1>5 DEF Register

\* What is above the lowest bit moves down without a trace of it.
LEMMA DivideOver ==
    ASSUME NEW a \in Register, NEW b \in SUBSET (1 .. 15)
    PROVE  DivideBit(Xor(a, b)) = Xor(DivideBit(a), Down(b, 1))
<1>1. Xor(a, b) \in Register /\ b \in Register BY DEF Register, Xor
<1>2. 0 \in Xor(a, b) <=> 0 \in a BY DEF Xor
<1>3. ShiftRight(b) = Down(b, 1)
    <2>1. b \ {0} = b OBVIOUS
    <2>. QED BY <2>1 DEF ShiftRight, Down
<1>4. ShiftRight(Xor(a, b)) = Xor(ShiftRight(a), ShiftRight(b))
    <2>1. /\ ShiftRight(a) \in SUBSET (0 .. 14) /\ ShiftRight(b) \in SUBSET (0 .. 14)
          /\ ShiftRight(Xor(a, b)) \in SUBSET (0 .. 14)
        BY <1>1, ShiftFacts
    <2>2. ASSUME NEW i \in 0 .. 14
          PROVE  i \in ShiftRight(Xor(a, b)) <=> i \in Xor(ShiftRight(a), ShiftRight(b))
        <3>1. /\ i \in ShiftRight(Xor(a, b)) <=> i + 1 \in Xor(a, b)
              /\ i \in ShiftRight(a) <=> i + 1 \in a
              /\ i \in ShiftRight(b) <=> i + 1 \in b
            BY <1>1, ShiftFacts
        <3>. QED BY <3>1 DEF Xor
    <2>3. Xor(ShiftRight(a), ShiftRight(b)) \in SUBSET (0 .. 14) BY <2>1 DEF Xor
    <2>. QED BY <2>1, <2>2, <2>3
<1>. QED BY <1>2, <1>3, <1>4, XorFacts DEF DivideBit

-----------------------------------------------------------------------------
(* Eight rounds: a byte *)

Eight(c) ==
    DivideBit(DivideBit(DivideBit(DivideBit(DivideBit(DivideBit(DivideBit(DivideBit(c))))))))

\* A byte, too, keeps the register within bounds and tells every two of them apart.
LEMMA EightType ==
    ASSUME NEW a \in Register
    PROVE  Eight(a) \in Register
BY DivideType DEF Eight

LEMMA EightApart ==
    ASSUME NEW a \in Register, NEW b \in Register, Eight(a) = Eight(b)
    PROVE  a = b
BY DivideType, DivideApart DEF Eight

\* The upper eight bits come down as they are.
LEMMA EightOver ==
    ASSUME NEW a \in Register, NEW b \in SUBSET (8 .. 15)
    PROVE  Eight(Xor(a, b)) = Xor(Eight(a), Down(b, 8))
<1>1. /\ Down(b, 1) \in SUBSET (7 .. 14) /\ Down(b, 2) \in SUBSET (6 .. 13)
      /\ Down(b, 3) \in SUBSET (5 .. 12) /\ Down(b, 4) \in SUBSET (4 .. 11)
      /\ Down(b, 5) \in SUBSET (3 .. 10) /\ Down(b, 6) \in SUBSET (2 .. 9)
      /\ Down(b, 7) \in SUBSET (1 .. 8)
    BY DEF Down
<1>2. ASSUME NEW n \in 0 .. 7
      PROVE  Down(Down(b, n), 1) = Down(b, n + 1)
    <2>1. \A i \in b : i \in Nat /\ (i - n) - 1 = i - (n + 1) OBVIOUS
    <2>. QED BY <2>1 DEF Down
<1>. DEFINE a1 == DivideBit(a)
<1>. DEFINE a2 == DivideBit(a1)
<1>. DEFINE a3 == DivideBit(a2)
<1>. DEFINE a4 == DivideBit(a3)
<1>. DEFINE a5 == DivideBit(a4)
<1>. DEFINE a6 == DivideBit(a5)
<1>. DEFINE a7 == DivideBit(a6)
<1>3. /\ a1 \in Register /\ a2 \in Register /\ a3 \in Register /\ a4 \in Register
      /\ a5 \in Register /\ a6 \in Register /\ a7 \in Register
    BY DivideType
<1>4. Eight(a) = DivideBit(a7) BY DEF Eight
<1>5. DivideBit(Xor(a, b)) = Xor(a1, Down(b, 1)) BY DivideOver
<1>. HIDE DEF a1, a2, a3, a4, a5, a6, a7
<1>6. DivideBit(Xor(a1, Down(b, 1))) = Xor(a2, Down(b, 2)) BY <1>1, <1>2, <1>3, DivideOver DEF a2
<1>7. DivideBit(Xor(a2, Down(b, 2))) = Xor(a3, Down(b, 3)) BY <1>1, <1>2, <1>3, DivideOver DEF a3
<1>8. DivideBit(Xor(a3, Down(b, 3))) = Xor(a4, Down(b, 4)) BY <1>1, <1>2, <1>3, DivideOver DEF a4
<1>9. DivideBit(Xor(a4, Down(b, 4))) = Xor(a5, Down(b, 5)) BY <1>1, <1>2, <1>3, DivideOver DEF a5
<1>10. DivideBit(Xor(a5, Down(b, 5))) = Xor(a6, Down(b, 6)) BY <1>1, <1>2, <1>3, DivideOver DEF a6
<1>11. DivideBit(Xor(a6, Down(b, 6))) = Xor(a7, Down(b, 7)) BY <1>1, <1>2, <1>3, DivideOver DEF a7
<1>12. DivideBit(Xor(a7, Down(b, 7))) = Xor(DivideBit(a7), Down(b, 8))
    BY <1>1, <1>2, <1>3, DivideOver
<1>. QED BY <1>4, <1>5, <1>6, <1>7, <1>8, <1>9, <1>10, <1>11, <1>12 DEF Eight

\* The rounds of the inner loop are eight.
Rounds == <<1, 2, 3, 4, 5, 6, 7, 8>>
Divided(c) == FoldLeft(LAMBDA r, round : DivideBit(r), c, Rounds)

LEMMA DividedIs ==
    ASSUME NEW c
    PROVE  Divided(c) =
             (CHOOSE iter : iter = [s \in SUBSET DOMAIN Rounds |->
                 IF s = {} THEN c ELSE DivideBit(iter[s \ {Max(s)}])])[DOMAIN Rounds]
BY Zenon DEF Divided, FoldLeft, MapThenFoldSet

LEMMA DividedEight ==
    ASSUME NEW c \in Register
    PROVE  Divided(c) = Eight(c)
<1>. DEFINE step == [p \in Register \X Nat |-> DivideBit(p[1])]
<1>. DEFINE After(iter) == [s \in SUBSET DOMAIN Rounds |->
                              IF s = {} THEN c ELSE DivideBit(iter[s \ {Max(s)}])]
<1>1. Rounds \in Seq(Nat) /\ Len(Rounds) = 8 /\ DOMAIN Rounds = 1 .. 8 BY DEF Rounds
<1>2. \A p \in Register \X Nat : p[1] \in Register OBVIOUS
<1>3. step \in [Register \X Nat -> Register] BY <1>2, DivideType
<1>4. PICK g \in [SUBSET (1 .. 8) -> Register] :
          \A s \in SUBSET (1 .. 8) :
              g[s] = IF s = {} THEN c ELSE step[<<g[s \ {Max(s)}], Rounds[Max(s)]>>]
    <2>. HIDE DEF step
    <2>1. PICK g : Folds(g, Register, step, c, Rounds) BY <1>1, <1>3, FoldExists
    <2>. QED BY <1>1, <2>1 DEF Folds
<1>5. ASSUME NEW s \in SUBSET (1 .. 8)
      PROVE  g[s] = IF s = {} THEN c ELSE DivideBit(g[s \ {Max(s)}])
    <2>1. CASE s = {} BY <1>4, <2>1
    <2>2. CASE s # {}
        <3>1. Max(s) \in 1 .. 8
            <4>1. 8 \in Nat /\ s \in SUBSET (1 .. 8) OBVIOUS
            <4>2. Max(s) \in s BY <2>2, <4>1, GreatestIn
            <4>. QED BY <4>2
        <3>2. Rounds[Max(s)] \in Nat
            <4>1. PICK m \in 1 .. 8 : m = Max(s) BY <3>1
            <4>2. Rounds[m] = m BY DEF Rounds
            <4>. QED BY <4>1, <4>2
        <3>3. s \ {Max(s)} \in SUBSET (1 .. 8) OBVIOUS
        <3>4. g[s \ {Max(s)}] \in Register BY <1>4, <3>3
        <3>5. g[s] = step[<<g[s \ {Max(s)}], Rounds[Max(s)]>>] BY <1>4, <2>2
        <3>. QED BY <2>2, <3>2, <3>4, <3>5
    <2>. QED BY <2>1, <2>2
<1>6. g = After(g) BY <1>1, <1>4, <1>5
<1>7. PICK iter : iter = After(iter) /\ Divided(c) = iter[1 .. 8]
    <2>. DEFINE iter == CHOOSE i : i = After(i)
    <2>1. iter = After(iter) BY <1>6
    <2>2. Divided(c) = iter[1 .. 8] BY <1>1, DividedIs
    <2>. QED BY <2>1, <2>2
<1>8. \A s \in SUBSET (1 .. 8) : iter[s] = IF s = {} THEN c ELSE DivideBit(iter[s \ {Max(s)}])
    BY <1>1, <1>7
<1>9. iter[1 .. 0] = c
    <2>1. 1 .. 0 = {} OBVIOUS
    <2>. QED BY <1>8, <2>1
<1>10. ASSUME NEW k \in 0 .. 7 PROVE iter[1 .. k + 1] = DivideBit(iter[1 .. k])
    <2>1. 1 .. k + 1 \in SUBSET (1 .. 8) /\ 1 .. k + 1 # {} OBVIOUS
    <2>2. Max(1 .. k + 1) = k + 1 BY GreatestUpTo
    <2>3. (1 .. k + 1) \ {k + 1} = 1 .. k OBVIOUS
    <2>. QED BY <1>8, <2>1, <2>2, <2>3
<1>11. /\ iter[1 .. 1] = DivideBit(c) /\ iter[1 .. 2] = DivideBit(iter[1 .. 1])
       /\ iter[1 .. 3] = DivideBit(iter[1 .. 2]) /\ iter[1 .. 4] = DivideBit(iter[1 .. 3])
       /\ iter[1 .. 5] = DivideBit(iter[1 .. 4]) /\ iter[1 .. 6] = DivideBit(iter[1 .. 5])
       /\ iter[1 .. 7] = DivideBit(iter[1 .. 6]) /\ iter[1 .. 8] = DivideBit(iter[1 .. 7])
    BY <1>9, <1>10
<1>. QED BY <1>7, <1>11 DEF Eight

-----------------------------------------------------------------------------
(* The CRC, byte by byte *)

LEMMA CrcIs ==
    ASSUME NEW data
    PROVE  crc16_modbus(data) =
             (CHOOSE iter : iter = [s \in SUBSET DOMAIN data |->
                 IF s = {} THEN 0 .. 15
                 ELSE Divided(Xor(iter[s \ {Max(s)}], Bits(data[Max(s)])))])[DOMAIN data]
BY Zenon DEF crc16_modbus, Divided, Rounds, FoldLeft, MapThenFoldSet

\* The register after a byte.
Taken(c, byte) == Eight(Xor(c, Bits(byte)))

LEMMA TakenType ==
    ASSUME NEW c \in Register, NEW byte
    PROVE  Xor(c, Bits(byte)) \in Register /\ Taken(c, byte) \in Register
<1>1. PICK b \in SUBSET (0 .. 7) : b = Bits(byte) BY DEF Bits
<1>2. Xor(c, b) \in Register BY DEF Register, Xor
<1>. QED BY <1>1, <1>2, EightType DEF Taken

\* st is the register after each byte of data.
Registers(st, data) ==
    /\ st \in [0 .. Len(data) -> Register]
    /\ st[0] = 0 .. 15
    /\ \A k \in 0 .. Len(data) - 1 : st[k + 1] = Taken(st[k], data[k + 1])

LEMMA RegistersAt ==
    ASSUME NEW data, NEW st, Registers(st, data), NEW n \in Nat, n = Len(data), NEW j \in 0 .. n - 1
    PROVE  st[j] \in Register /\ st[j + 1] = Taken(st[j], data[j + 1])
<1>1. j \in 0 .. n BY SMT
<1>2. st \in [0 .. n -> Register] BY DEF Registers
<1>3. \A k \in 0 .. n - 1 : st[k + 1] = Taken(st[k], data[k + 1]) BY DEF Registers
<1>. QED BY <1>1, <1>2, <1>3

\* The CRC is the register after the last byte.
LEMMA CrcRegisters ==
    ASSUME NEW data \in Seq(Byte)
    PROVE  \E st : Registers(st, data) /\ crc16_modbus(data) = st[Len(data)]
<1>. DEFINE step == [p \in Register \X Byte |-> Taken(p[1], p[2])]
<1>. DEFINE After(iter) == [s \in SUBSET DOMAIN data |->
                              IF s = {} THEN 0 .. 15
                              ELSE Divided(Xor(iter[s \ {Max(s)}], Bits(data[Max(s)])))]
<1>1. PICK n \in Nat : n = Len(data) OBVIOUS
<1>2. DOMAIN data = 1 .. n /\ \A i \in 1 .. n : data[i] \in Byte BY <1>1
<1>3. step \in [Register \X Byte -> Register]
    <2>1. \A p \in Register \X Byte : p[1] \in Register OBVIOUS
    <2>. QED BY <2>1, TakenType
<1>4. 0 .. 15 \in Register BY DEF Register
<1>5. PICK g \in [SUBSET (1 .. n) -> Register] :
          \A s \in SUBSET (1 .. n) :
              g[s] = IF s = {} THEN 0 .. 15 ELSE step[<<g[s \ {Max(s)}], data[Max(s)]>>]
    <2>. HIDE DEF step
    <2>1. PICK g : Folds(g, Register, step, 0 .. 15, data) BY <1>3, <1>4, FoldExists
    <2>. QED BY <1>1, <2>1 DEF Folds
<1>6. ASSUME NEW s \in SUBSET (1 .. n)
      PROVE  g[s] = IF s = {} THEN 0 .. 15 ELSE Divided(Xor(g[s \ {Max(s)}], Bits(data[Max(s)])))
    <2>1. CASE s = {} BY <1>5, <2>1
    <2>2. CASE s # {}
        <3>1. Max(s) \in 1 .. n
            <4>1. Max(s) \in s BY <2>2, GreatestIn
            <4>. QED BY <4>1
        <3>2. data[Max(s)] \in Byte BY <1>2, <3>1
        <3>3. s \ {Max(s)} \in SUBSET (1 .. n) OBVIOUS
        <3>4. g[s \ {Max(s)}] \in Register BY <1>5, <3>3
        <3>5. g[s] = step[<<g[s \ {Max(s)}], data[Max(s)]>>] BY <1>5, <2>2
        <3>6. g[s] = Taken(g[s \ {Max(s)}], data[Max(s)]) BY <3>2, <3>4, <3>5
        <3>. QED BY <2>2, <3>4, <3>6, TakenType, DividedEight DEF Taken
    <2>. QED BY <2>1, <2>2
<1>7. g = After(g) BY <1>2, <1>5, <1>6
<1>8. PICK iter : iter = After(iter) /\ crc16_modbus(data) = iter[1 .. n]
    <2>. DEFINE iter == CHOOSE i : i = After(i)
    <2>1. iter = After(iter) BY <1>7
    <2>2. crc16_modbus(data) = iter[1 .. n] BY <1>2, CrcIs
    <2>. QED BY <2>1, <2>2
<1>9. \A s \in SUBSET (1 .. n) :
          iter[s] = IF s = {} THEN 0 .. 15
                    ELSE Divided(Xor(iter[s \ {Max(s)}], Bits(data[Max(s)])))
    BY <1>2, <1>8
<1>10. iter[1 .. 0] = 0 .. 15
    <2>1. 1 .. 0 = {} OBVIOUS
    <2>. QED BY <1>9, <2>1
<1>11. ASSUME NEW k \in 0 .. n - 1
       PROVE  iter[1 .. k + 1] = Divided(Xor(iter[1 .. k], Bits(data[k + 1])))
    <2>0. k \in Nat /\ k + 1 \in Nat /\ k + 1 <= n OBVIOUS
    <2>1. 1 .. k + 1 \in SUBSET (1 .. n) /\ k + 1 \in 1 .. k + 1 BY <2>0
    <2>2. Max(1 .. k + 1) = k + 1 BY <2>0, <2>1, GreatestUpTo
    <2>3. (1 .. k + 1) \ {k + 1} = 1 .. k OBVIOUS
    <2>. QED BY <1>9, <2>1, <2>2, <2>3
<1>12. \A k \in 0 .. n : iter[1 .. k] \in Register
    <2>. DEFINE typed == {k \in 0 .. n : iter[1 .. k] \in Register}
    <2>1. 0 \in typed
        <3>1. 0 \in 0 .. n BY <1>1
        <3>. QED BY <1>4, <1>10, <3>1
    <2>2. ASSUME NEW k \in 0 .. n - 1, k \in typed PROVE k + 1 \in typed
        <3>1. k + 1 \in 0 .. n /\ iter[1 .. k] \in Register BY <2>2
        <3>2. Divided(Xor(iter[1 .. k], Bits(data[k + 1]))) \in Register
            BY <3>1, TakenType, DividedEight, EightType
        <3>. QED BY <1>11, <3>1, <3>2
    <2>. HIDE DEF typed
    <2>3. \A k \in 0 .. n : k \in typed BY <2>1, <2>2, NumbersUpTo
    <2>. QED BY <2>3 DEF typed
<1>13. ASSUME NEW k \in 0 .. n - 1
       PROVE  iter[1 .. k + 1] = Taken(iter[1 .. k], data[k + 1])
    <2>1. k \in 0 .. n /\ iter[1 .. k] \in Register BY <1>12
    <2>. QED BY <1>11, <2>1, TakenType, DividedEight DEF Taken
<1>. DEFINE st == [k \in 0 .. n |-> iter[1 .. k]]
<1>14. st \in [0 .. n -> Register] /\ st[0] = 0 .. 15 /\ crc16_modbus(data) = st[n]
    <2>1. 0 \in 0 .. n /\ n \in 0 .. n BY <1>1
    <2>2. st \in [0 .. n -> Register] BY <1>12
    <2>3. st[0] = iter[1 .. 0] /\ st[n] = iter[1 .. n] BY <2>1
    <2>. QED BY <1>8, <1>10, <2>2, <2>3
<1>15. \A k \in 0 .. n - 1 : st[k + 1] = Taken(st[k], data[k + 1])
    <2>. SUFFICES ASSUME NEW k \in 0 .. n - 1 PROVE st[k + 1] = Taken(st[k], data[k + 1]) OBVIOUS
    <2>1. k \in 0 .. n /\ k + 1 \in 0 .. n OBVIOUS
    <2>. QED BY <1>13, <2>1
<1>. HIDE DEF st
<1>16. Registers(st, data) BY <1>1, <1>14, <1>15 DEF Registers
<1>. QED BY <1>1, <1>14, <1>16

-----------------------------------------------------------------------------
(* Bytes and their bits *)

Weighed(a0, a1, a2, a3, a4, a5, a6, a7) ==
    a0 + 2 * a1 + 4 * a2 + 8 * a3 + 16 * a4 + 32 * a5 + 64 * a6 + 128 * a7

LEMMA WeighedIsByte ==
    ASSUME NEW a0 \in {0, 1}, NEW a1 \in {0, 1}, NEW a2 \in {0, 1}, NEW a3 \in {0, 1},
           NEW a4 \in {0, 1}, NEW a5 \in {0, 1}, NEW a6 \in {0, 1}, NEW a7 \in {0, 1}
    PROVE  Weighed(a0, a1, a2, a3, a4, a5, a6, a7) \in Byte
BY DEF Weighed, Byte

\* The powers of two that weigh the bits of a byte.
LEMMA Weights ==
    /\ 2 ^ 0 = 1 /\ 2 ^ 1 = 2 /\ 2 ^ 2 = 4 /\ 2 ^ 3 = 8
    /\ 2 ^ 4 = 16 /\ 2 ^ 5 = 32 /\ 2 ^ 6 = 64 /\ 2 ^ 7 = 128
OBVIOUS

\* The digits of a number are those it is weighed from.
LEMMA WeighedDigits ==
    ASSUME NEW a0 \in {0, 1}, NEW a1 \in {0, 1}, NEW a2 \in {0, 1}, NEW a3 \in {0, 1},
           NEW a4 \in {0, 1}, NEW a5 \in {0, 1}, NEW a6 \in {0, 1}, NEW a7 \in {0, 1},
           NEW x, x = Weighed(a0, a1, a2, a3, a4, a5, a6, a7)
    PROVE  /\ (x \div 1) % 2 = a0 /\ (x \div 2) % 2 = a1
           /\ (x \div 4) % 2 = a2 /\ (x \div 8) % 2 = a3
           /\ (x \div 16) % 2 = a4 /\ (x \div 32) % 2 = a5
           /\ (x \div 64) % 2 = a6 /\ (x \div 128) % 2 = a7
<1>1. x \in Int BY DEF Weighed
<1>2. (x \div 1) % 2 = a0 BY DEF Weighed
<1>3. (x \div 2) % 2 = a1 BY DEF Weighed
<1>4. (x \div 4) % 2 = a2 BY DEF Weighed
<1>5. (x \div 8) % 2 = a3 BY DEF Weighed
<1>6. (x \div 16) % 2 = a4 BY DEF Weighed
<1>7. (x \div 32) % 2 = a5 BY DEF Weighed
<1>8. (x \div 64) % 2 = a6 BY DEF Weighed
<1>9. (x \div 128) % 2 = a7 BY DEF Weighed
<1>. QED BY <1>2, <1>3, <1>4, <1>5, <1>6, <1>7, <1>8, <1>9

\* A byte is weighed from its digits.
LEMMA ByteIsWeighed ==
    ASSUME NEW x \in Byte
    PROVE  x = Weighed(x % 2, (x \div 2) % 2, (x \div 4) % 2, (x \div 8) % 2,
                       (x \div 16) % 2, (x \div 32) % 2, (x \div 64) % 2, (x \div 128) % 2)
BY DEF Weighed, Byte

\* No two bytes have the same bits.
LEMMA BitsApart ==
    ASSUME NEW x \in Byte, NEW y \in Byte, Bits(x) = Bits(y)
    PROVE  x = y
<1>1. \A i \in 0 .. 7 : (x \div 2 ^ i) % 2 = 1 <=> (y \div 2 ^ i) % 2 = 1 BY DEF Bits
<1>2. /\ (x \div 1) % 2 = 1 <=> (y \div 1) % 2 = 1
      /\ (x \div 2) % 2 = 1 <=> (y \div 2) % 2 = 1
      /\ (x \div 4) % 2 = 1 <=> (y \div 4) % 2 = 1
      /\ (x \div 8) % 2 = 1 <=> (y \div 8) % 2 = 1
      /\ (x \div 16) % 2 = 1 <=> (y \div 16) % 2 = 1
      /\ (x \div 32) % 2 = 1 <=> (y \div 32) % 2 = 1
      /\ (x \div 64) % 2 = 1 <=> (y \div 64) % 2 = 1
      /\ (x \div 128) % 2 = 1 <=> (y \div 128) % 2 = 1
    BY <1>1, Weights
<1>3. x \in 0 .. 255 /\ y \in 0 .. 255 /\ x \div 1 = x /\ y \div 1 = y BY DEF Byte
<1>4. /\ x % 2 = y % 2 /\ (x \div 2) % 2 = (y \div 2) % 2
      /\ (x \div 4) % 2 = (y \div 4) % 2 /\ (x \div 8) % 2 = (y \div 8) % 2
      /\ (x \div 16) % 2 = (y \div 16) % 2 /\ (x \div 32) % 2 = (y \div 32) % 2
      /\ (x \div 64) % 2 = (y \div 64) % 2 /\ (x \div 128) % 2 = (y \div 128) % 2
    BY <1>2, <1>3
<1>. QED BY <1>4, ByteIsWeighed

\* The eight positions of a register from first on make a byte, and are its bits.
LEMMA ByteAtFacts ==
    ASSUME NEW r, NEW first \in Nat
    PROVE  /\ ByteAt(r, first) \in Byte
           /\ \A i \in 0 .. 7 : i \in Bits(ByteAt(r, first)) <=> first + i \in r
<1>. DEFINE a(i) == IF first + i \in r THEN 1 ELSE 0
<1>. DEFINE x == Weighed(a(0), a(1), a(2), a(3), a(4), a(5), a(6), a(7))
<1>1. ByteAt(r, first) = x BY DEF ByteAt, Weighed
<1>2. \A i : a(i) \in {0, 1} /\ (a(i) = 1 <=> first + i \in r) OBVIOUS
<1>. HIDE DEF a
<1>3. x \in Byte BY <1>2, WeighedIsByte
<1>4. /\ (x \div 1) % 2 = a(0) /\ (x \div 2) % 2 = a(1)
      /\ (x \div 4) % 2 = a(2) /\ (x \div 8) % 2 = a(3)
      /\ (x \div 16) % 2 = a(4) /\ (x \div 32) % 2 = a(5)
      /\ (x \div 64) % 2 = a(6) /\ (x \div 128) % 2 = a(7)
    BY <1>2, WeighedDigits
<1>. HIDE DEF x
<1>5. ASSUME NEW i \in 0 .. 7 PROVE i \in Bits(x) <=> a(i) = 1
    <2>1. i \in Bits(x) <=> (x \div 2 ^ i) % 2 = 1 BY DEF Bits
    <2>2. CASE i = 0 BY <1>4, <2>1, <2>2, Weights
    <2>3. CASE i = 1 BY <1>4, <2>1, <2>3, Weights
    <2>4. CASE i = 2 BY <1>4, <2>1, <2>4, Weights
    <2>5. CASE i = 3 BY <1>4, <2>1, <2>5, Weights
    <2>6. CASE i = 4 BY <1>4, <2>1, <2>6, Weights
    <2>7. CASE i = 5 BY <1>4, <2>1, <2>7, Weights
    <2>8. CASE i = 6 BY <1>4, <2>1, <2>8, Weights
    <2>9. CASE i = 7 BY <1>4, <2>1, <2>9, Weights
    <2>. QED BY <2>2, <2>3, <2>4, <2>5, <2>6, <2>7, <2>8, <2>9
<1>. QED BY <1>1, <1>2, <1>3, <1>5

-----------------------------------------------------------------------------
(* What the CRC accepts *)

\* Two bytes side by side in a register, the low one first.
Wide(low, high) == Bits(low) \cup {i + 8 : i \in Bits(high)}

LEMMA WideFacts ==
    ASSUME NEW low, NEW high
    PROVE  /\ Wide(low, high) \in Register
           /\ \A i \in 0 .. 7 : (i \in Wide(low, high) <=> i \in Bits(low))
                                /\ (i + 8 \in Wide(low, high) <=> i \in Bits(high))
           /\ Wide(low, high) = Xor(Bits(low), {i + 8 : i \in Bits(high)})
           /\ {i + 8 : i \in Bits(high)} \in SUBSET (8 .. 15)
           /\ Down({i + 8 : i \in Bits(high)}, 8) = Bits(high)
<1>1. PICK b \in SUBSET (0 .. 7) : b = Bits(low) BY DEF Bits
<1>2. PICK t \in SUBSET (0 .. 7) : t = Bits(high) BY DEF Bits
<1>. DEFINE up == {i + 8 : i \in t}
<1>3. \A i \in t : i \in 0 .. 7 OBVIOUS
<1>4. \A i \in up : i \in 8 .. 15 /\ i - 8 \in t BY <1>3
<1>5. \A i \in 0 .. 7 : i \in t <=> i + 8 \in up BY <1>3, <1>4
<1>6. up \in SUBSET (8 .. 15) BY <1>4
<1>7. Down(up, 8) = t
    <2>1. \A i \in t : i + 8 \in up /\ i = (i + 8) - 8 BY <1>3
    <2>2. Down(up, 8) \subseteq t BY <1>4 DEF Down
    <2>3. \A i \in t : i \in Down(up, 8) BY <2>1 DEF Down
    <2>. QED BY <2>2, <2>3
<1>8. Wide(low, high) = b \cup up BY <1>1, <1>2 DEF Wide
<1>9. up = {i + 8 : i \in Bits(high)} BY <1>2
<1>. HIDE DEF up
<1>10. b \cup up \in Register BY <1>6 DEF Register
<1>11. b \cap up = {} BY <1>6
<1>12. b \cup up = Xor(b, up) BY <1>11 DEF Xor
<1>13. \A i \in 0 .. 7 : (i \in b \cup up <=> i \in b) /\ (i + 8 \in b \cup up <=> i \in t)
    <2>. SUFFICES ASSUME NEW i \in 0 .. 7
                  PROVE  (i \in b \cup up <=> i \in b) /\ (i + 8 \in b \cup up <=> i \in t)
        OBVIOUS
    <2>1. i \notin up /\ i + 8 \notin b BY <1>6
    <2>. QED BY <1>5, <2>1
<1>. QED BY <1>1, <1>2, <1>6, <1>7, <1>8, <1>9, <1>10, <1>12, <1>13

\* Two bytes are taken as if both were there at the start.
LEMMA TwoTaken ==
    ASSUME NEW c \in Register, NEW low, NEW high
    PROVE  Taken(Taken(c, low), high) = Eight(Eight(Xor(c, Wide(low, high))))
<1>. DEFINE up == {i + 8 : i \in Bits(high)}
<1>. DEFINE a == Xor(c, Bits(low))
<1>1. a \in Register BY TakenType
<1>2. up \in SUBSET (8 .. 15) /\ Down(up, 8) = Bits(high) BY WideFacts
<1>3. Wide(low, high) = Xor(Bits(low), up) BY WideFacts
<1>4. Xor(c, Wide(low, high)) = Xor(a, up) BY <1>3 DEF Xor
<1>5. Taken(c, low) = Eight(a) BY DEF Taken
<1>. HIDE DEF up, a
<1>6. Eight(Xor(a, up)) = Xor(Eight(a), Bits(high)) BY <1>1, <1>2, EightOver
<1>. QED BY <1>4, <1>5, <1>6 DEF Taken

\* No two pairs of bytes take the register to the same place.
LEMMA TwoApart ==
    ASSUME NEW c \in Register,
           NEW low1 \in Byte, NEW high1 \in Byte, NEW low2 \in Byte, NEW high2 \in Byte,
           Taken(Taken(c, low1), high1) = Taken(Taken(c, low2), high2)
    PROVE  low1 = low2 /\ high1 = high2
<1>. DEFINE w1 == Wide(low1, high1)
<1>. DEFINE w2 == Wide(low2, high2)
<1>1. w1 \in Register /\ w2 \in Register BY WideFacts
<1>2. Eight(Eight(Xor(c, w1))) = Eight(Eight(Xor(c, w2))) BY TwoTaken
<1>. HIDE DEF w1, w2
<1>3. Xor(c, w1) \in Register /\ Xor(c, w2) \in Register BY <1>1 DEF Register, Xor
<1>4. Xor(c, w1) = Xor(c, w2) BY <1>2, <1>3, EightType, EightApart
<1>5. w1 = w2 BY <1>4 DEF Xor
<1>6. \A i \in 0 .. 7 : /\ i \in Bits(low1) <=> i \in Bits(low2)
                        /\ i \in Bits(high1) <=> i \in Bits(high2)
    <2>1. \A i \in 0 .. 7 : /\ i \in w1 <=> i \in Bits(low1)
                            /\ i + 8 \in w1 <=> i \in Bits(high1)
        BY WideFacts DEF w1
    <2>2. \A i \in 0 .. 7 : /\ i \in w2 <=> i \in Bits(low2)
                            /\ i + 8 \in w2 <=> i \in Bits(high2)
        BY WideFacts DEF w2
    <2>. QED BY <1>5, <2>1, <2>2
<1>7. \A byte : Bits(byte) \subseteq 0 .. 7 BY DEF Bits
<1>8. Bits(low1) = Bits(low2) /\ Bits(high1) = Bits(high2) BY <1>6, <1>7
<1>. QED BY <1>8, BitsApart

\* An empty register stays so.
LEMMA EightNothing == Eight({}) = {}
<1>1. DivideBit({}) = {} BY DEF DivideBit, ShiftRight
<1>. QED BY <1>1 DEF Eight

\* The registers of sequences that begin alike begin alike.
LEMMA SameStart ==
    ASSUME NEW data1, NEW data2, NEW st1, NEW st2, Registers(st1, data1), Registers(st2, data2),
           NEW m \in Nat, Len(data1) \in Nat, Len(data2) \in Nat, m <= Len(data1), m <= Len(data2),
           \A i \in 1 .. m : data1[i] = data2[i]
    PROVE  \A j \in 0 .. m : st1[j] = st2[j]
<1>. DEFINE same == {j \in 0 .. m : st1[j] = st2[j]}
<1>1. 0 \in same
    <2>1. st1[0] = st2[0] BY DEF Registers
    <2>2. 0 \in 0 .. m OBVIOUS
    <2>. QED BY <2>1, <2>2
<1>2. ASSUME NEW j \in 0 .. m - 1, j \in same PROVE j + 1 \in same
    <2>1. j \in 0 .. Len(data1) - 1 /\ j \in 0 .. Len(data2) - 1 /\ j + 1 \in 1 .. m OBVIOUS
    <2>2. st1[j + 1] = Taken(st1[j], data1[j + 1]) /\ st2[j + 1] = Taken(st2[j], data2[j + 1])
        BY <2>1 DEF Registers
    <2>. QED BY <1>2, <2>1, <2>2
<1>. HIDE DEF same
<1>3. \A j \in 0 .. m : j \in same BY <1>1, <1>2, NumbersUpTo
<1>. QED BY <1>3 DEF same

\* A frame is accepted exactly if its CRC with the two CRC bytes taken in is zero.
LEMMA Residue ==
    ASSUME NEW frame \in Seq(Byte), Len(frame) >= 4
    PROVE  verify_crc(frame) <=> crc16_modbus(frame) = {}
<1>1. PICK n \in Nat : n = Len(frame) OBVIOUS
<1>. DEFINE payload == SubSeq(frame, 1, n - 2)
<1>2. /\ payload \in Seq(Byte) /\ Len(payload) = n - 2
      /\ \A i \in 1 .. n - 2 : payload[i] = frame[i]
    BY <1>1
<1>3. PICK st : Registers(st, frame) /\ crc16_modbus(frame) = st[n] BY <1>1, CrcRegisters
<1>. HIDE DEF payload
<1>4. PICK sp : Registers(sp, payload) /\ crc16_modbus(payload) = sp[n - 2]
    BY <1>2, CrcRegisters
<1>5. n - 2 \in Nat /\ n - 2 \in 0 .. n - 2 BY <1>1
<1>6. st[n - 2] = sp[n - 2]
    <2>1. PICK m \in Nat : m = n - 2 BY <1>5
    <2>2. m <= Len(frame) /\ m <= Len(payload) /\ \A i \in 1 .. m : frame[i] = payload[i]
        BY <1>1, <1>2, <2>1
    <2>3. Len(frame) \in Nat /\ Len(payload) \in Nat BY <1>1, <1>2, <1>5
    <2>4. \A j \in 0 .. m : st[j] = sp[j] BY <1>3, <1>4, <2>2, <2>3, SameStart
    <2>. QED BY <2>1, <2>4
<1>. DEFINE c == st[n - 2]
<1>. DEFINE low == frame[n - 1]
<1>. DEFINE high == frame[n]
<1>7. c \in Register BY <1>1, <1>3 DEF Registers
<1>8. st[n] = Taken(Taken(c, low), high)
    <2>1. n - 2 \in 0 .. n - 1 /\ n - 1 \in 0 .. n - 1 /\ (n - 2) + 1 = n - 1 /\ (n - 1) + 1 = n
        BY <1>1
    <2>2. st[n - 1] = Taken(st[n - 2], frame[n - 1]) BY <1>1, <1>3, <2>1, RegistersAt
    <2>3. st[n] = Taken(st[n - 1], frame[n]) BY <1>1, <1>3, <2>1, RegistersAt
    <2>. QED BY <2>2, <2>3
<1>9. verify_crc(frame) <=> Wide(low, high) = crc16_modbus(payload)
    BY <1>1 DEF verify_crc, Wide, payload
<1>10. verify_crc(frame) <=> Wide(low, high) = c BY <1>4, <1>6, <1>9
<1>. HIDE DEF c, low, high
<1>11. st[n] = Eight(Eight(Xor(c, Wide(low, high)))) BY <1>7, <1>8, TwoTaken
<1>12. PICK w \in Register : w = Wide(low, high) BY WideFacts
<1>13. Xor(c, w) \in Register /\ {} \in Register BY <1>7 DEF Register, Xor
<1>14. Eight(Eight(Xor(c, w))) = {} <=> Xor(c, w) = {}
    BY <1>13, EightType, EightApart, EightNothing
<1>15. Xor(c, w) = {} <=> c = w BY DEF Xor
<1>. QED BY <1>3, <1>10, <1>11, <1>12, <1>14, <1>15

\* What append_crc has finished verify_crc accepts: the code appends and verifies with the
\* same register, and this says that the low byte is the one it verifies as the low one.
THEOREM AppendedVerifies ==
    ASSUME NEW payload \in Seq(Byte), Len(payload) >= 2
    PROVE  append_crc(payload) \in Seq(Byte) /\ verify_crc(append_crc(payload))
<1>. DEFINE crc == crc16_modbus(payload)
<1>. DEFINE low == ByteAt(crc, 0)
<1>. DEFINE high == ByteAt(crc, 8)
<1>. DEFINE frame == append_crc(payload)
<1>1. PICK n \in Nat : n = Len(payload) OBVIOUS
<1>2. crc \in Register
    <2>1. PICK st : Registers(st, payload) /\ crc16_modbus(payload) = st[n] BY <1>1, CrcRegisters
    <2>2. n \in 0 .. n OBVIOUS
    <2>. QED BY <1>1, <2>1, <2>2 DEF Registers
<1>3. frame = payload \o <<low, high>> BY DEF append_crc
<1>4. low \in Byte /\ high \in Byte BY ByteAtFacts
<1>5. Wide(low, high) = crc
    <2>1. \A i \in 0 .. 7 : (i \in Wide(low, high) <=> i \in crc)
                            /\ (i + 8 \in Wide(low, high) <=> i + 8 \in crc)
        <3>. SUFFICES ASSUME NEW i \in 0 .. 7
                      PROVE  (i \in Wide(low, high) <=> i \in crc)
                             /\ (i + 8 \in Wide(low, high) <=> i + 8 \in crc)
            OBVIOUS
        <3>1. (i \in Bits(low) <=> 0 + i \in crc) /\ (i \in Bits(high) <=> 8 + i \in crc)
            BY ByteAtFacts
        <3>2. 0 + i = i /\ 8 + i = i + 8 OBVIOUS
        <3>. HIDE DEF crc, low, high
        <3>. QED BY <3>1, <3>2, WideFacts
    <2>2. Wide(low, high) \in Register BY WideFacts
    <2>. HIDE DEF crc, low, high
    <2>3. ASSUME NEW i \in 0 .. 15 PROVE i \in Wide(low, high) <=> i \in crc
        <3>1. CASE i <= 7 BY <2>1, <3>1
        <3>2. CASE i > 7
            <4>1. i - 8 \in 0 .. 7 /\ (i - 8) + 8 = i BY <3>2
            <4>. QED BY <2>1, <4>1
        <3>. QED BY <3>1, <3>2
    <2>. QED BY <1>2, <2>2, <2>3 DEF Register
<1>. HIDE DEF low, high
<1>6. /\ frame \in Seq(Byte) /\ Len(frame) = n + 2 /\ frame[n + 1] = low /\ frame[n + 2] = high
      /\ SubSeq(frame, 1, n) = payload
    BY <1>1, <1>3, <1>4
<1>. HIDE DEF crc, frame
<1>7. /\ Len(frame) >= 4 /\ Len(frame) - 1 = n + 1 /\ Len(frame) - 2 = n BY <1>1, <1>6
<1>8. frame[Len(frame) - 1] = low /\ frame[Len(frame)] = high
      /\ SubSeq(frame, 1, Len(frame) - 2) = payload
    BY <1>6, <1>7
<1>9. verify_crc(frame) BY <1>5, <1>7, <1>8 DEF verify_crc, Wide, crc
<1>. QED BY <1>6, <1>9 DEF frame

\* The CRC notices every damage that stays within two neighbouring bytes, wherever it is in
\* the frame, the CRC bytes included: of two frames that differ in no other byte verify_crc
\* accepts at most one.
THEOREM BurstNoticed ==
    ASSUME NEW sent \in Seq(Byte), NEW frame \in Seq(Byte), Len(frame) = Len(sent),
           NEW k \in 1 .. Len(sent) - 1,
           \A i \in 1 .. Len(sent) : i \in {k, k + 1} \/ frame[i] = sent[i],
           verify_crc(sent), verify_crc(frame)
    PROVE  frame = sent
<1>1. PICK n \in Nat : n = Len(sent) /\ n = Len(frame) OBVIOUS
<1>2. n >= 4 BY <1>1 DEF verify_crc
<1>3. PICK st1 : Registers(st1, sent) /\ st1[n] = {} BY <1>1, <1>2, CrcRegisters, Residue
<1>4. PICK st2 : Registers(st2, frame) /\ st2[n] = {} BY <1>1, <1>2, CrcRegisters, Residue
<1>5. k \in 1 .. n - 1 /\ k - 1 \in Nat /\ k - 1 <= n BY <1>1
<1>6. st1[k - 1] = st2[k - 1]
    <2>1. \A i \in 1 .. k - 1 : sent[i] = frame[i] BY <1>1
    <2>2. \A j \in 0 .. k - 1 : st1[j] = st2[j] BY <1>1, <1>3, <1>4, <1>5, <2>1, SameStart
    <2>. QED BY <1>5, <2>2
<1>7. \A j \in 0 .. n - 1 : /\ st1[j] \in Register /\ st2[j] \in Register
                            /\ st1[j + 1] = Taken(st1[j], sent[j + 1])
                            /\ st2[j + 1] = Taken(st2[j], frame[j + 1])
    BY <1>1, <1>3, <1>4, RegistersAt
\* Behind the two bytes every register is known from the next one.
<1>8. st1[k + 1] = st2[k + 1]
    <2>. DEFINE same == {j \in 0 .. n - (k + 1) : st1[n - j] = st2[n - j]}
    <2>1. 0 \in same
        <3>1. n - 0 = n /\ 0 \in 0 .. n - (k + 1) BY <1>5
        <3>. QED BY <1>3, <1>4, <3>1
    <2>2. ASSUME NEW j \in 0 .. n - (k + 1) - 1, j \in same PROVE j + 1 \in same
        <3>. DEFINE m == n - (j + 1)
        <3>1. /\ m \in 0 .. n - 1 /\ m + 1 = n - j /\ m + 1 \in 1 .. n
              /\ m + 1 # k /\ m + 1 # k + 1 /\ j + 1 \in 0 .. n - (k + 1)
            BY <1>5
        <3>2. st1[n - j] = st2[n - j] BY <2>2
        <3>. HIDE DEF m
        <3>3. sent[m + 1] = frame[m + 1] BY <1>1, <3>1
        <3>4. Taken(st1[m], sent[m + 1]) = Taken(st2[m], sent[m + 1]) BY <1>7, <3>1, <3>2, <3>3
        <3>5. st1[m] \in Register /\ st2[m] \in Register BY <1>7, <3>1
        <3>6. Xor(st1[m], Bits(sent[m + 1])) = Xor(st2[m], Bits(sent[m + 1]))
            BY <3>4, <3>5, TakenType, EightApart DEF Taken
        <3>7. st1[m] = st2[m] BY <3>6, XorApart
        <3>. QED BY <3>1, <3>7 DEF m
    <2>3. n - (k + 1) \in Nat BY <1>5
    <2>. HIDE DEF same
    <2>4. \A j \in 0 .. n - (k + 1) : j \in same BY <2>1, <2>2, <2>3, NumbersUpTo
    <2>5. n - (k + 1) \in same BY <2>3, <2>4
    <2>6. n - (n - (k + 1)) = k + 1 BY <1>5
    <2>. QED BY <2>5, <2>6 DEF same
<1>9. /\ k - 1 \in 0 .. n - 1 /\ k \in 0 .. n - 1 /\ (k - 1) + 1 = k
      /\ k \in 1 .. n /\ k + 1 \in 1 .. n
    BY <1>5
<1>10. /\ Taken(Taken(st1[k - 1], sent[k]), sent[k + 1])
            = Taken(Taken(st1[k - 1], frame[k]), frame[k + 1])
       /\ st1[k - 1] \in Register
    BY <1>6, <1>7, <1>8, <1>9
<1>11. sent[k] \in Byte /\ sent[k + 1] \in Byte /\ frame[k] \in Byte /\ frame[k + 1] \in Byte
    BY <1>1, <1>9
<1>12. sent[k] = frame[k] /\ sent[k + 1] = frame[k + 1] BY <1>10, <1>11, TwoApart
<1>13. \A i \in 1 .. n : sent[i] = frame[i] BY <1>1, <1>12
<1>. QED BY <1>1, <1>13
===============================================================================
