----------------------------- MODULE Karatsuba ------------------------------
(***************************************************************************)
(* karatsuba of gf2x.go, on one memory: a slice is the address where it    *)
(* begins, and slices overlap as they do in the code.  The product of the  *)
(* high halves is written into the output itself, the sums of the halves   *)
(* and their product into a workspace that every level of the recursion    *)
(* uses from the place where the level above stops.                        *)
(***************************************************************************)
EXTENDS Gf2x, Sequences

Memory == Seq(SUBSET Bit)
Call   == [memory : Memory, o : Nat, a : Nat, b : Nat, stack : Nat]

\* memory[x] ^= f(x) for the addresses x of a set.
Xored(memory, where, f(_)) ==
    [x \in DOMAIN memory |-> IF x \in where THEN Xor(memory[x], f(x)) ELSE memory[x]]

Slice(from, len) == from .. from + len - 1

\* Mutant of karatsubaAdd1: the odd word out is not copied.
skipsOddWord(memory, alh, blh, a, b, sizeL, sizeH) ==
    [x \in DOMAIN memory |->
        CASE x \in Slice(alh, sizeH) ->
                Xor(memory[a + x - alh], memory[a + sizeL + x - alh])
          [] x \in Slice(blh, sizeH) ->
                Xor(memory[b + x - blh], memory[b + sizeL + x - blh])
          [] OTHER -> memory[x]]

\* alh and blh get the sums of the halves of a and of b.
karatsubaAdd1(memory, alh, blh, a, b, sizeL, sizeH) ==
    [x \in DOMAIN memory |->
        CASE x \in Slice(alh, sizeH) ->
                Xor(memory[a + x - alh], memory[a + sizeL + x - alh])
          [] x \in Slice(blh, sizeH) ->
                Xor(memory[b + x - blh], memory[b + sizeL + x - blh])
          [] sizeH < sizeL /\ x = alh + sizeH -> memory[a + sizeH]
          [] sizeH < sizeL /\ x = blh + sizeH -> memory[b + sizeH]
          [] OTHER -> memory[x]]

karatsubaAdd2(memory, o, tmp1, tmp2, sizeL, sizeH) ==
    LET low  == Xored(memory, Slice(tmp1, 2 * sizeL), LAMBDA x : memory[o + x - tmp1])
        high == Xored(low, Slice(tmp1, 2 * sizeH), LAMBDA x : low[tmp2 + x - tmp1])
    IN  Xored(high, Slice(o + sizeL, 2 * sizeL), LAMBDA x : high[tmp1 + x - o - sizeL])

\* nextStack
workspace(stack, sizeL) == stack + 4 * sizeL

\* The memory after a call on operands of `size` words; karatsubaOf is that of smaller ones.
level(karatsubaOf, size, call) ==
    LET memory == call.memory
        o == call.o
        a == call.a
        b == call.b
        stack == call.stack
        sizeH == size \div 2
        sizeL == (size + 1) \div 2
        alh   == stack
        blh   == stack + sizeL
        tmp1  == stack + 2 * sizeL
        tmp2  == o + 2 * sizeL
        then(m, out, x, y, k) ==
            karatsubaOf[k][[memory |-> m, o |-> out, a |-> x, b |-> y,
                            stack |-> workspace(stack, sizeL)]]
        m1 == then(memory, o, a, b, sizeL)
        m2 == then(m1, tmp2, a + sizeL, b + sizeL, sizeH)
        m3 == karatsubaAdd1(m2, alh, blh, a, b, sizeL, sizeH)
        m4 == then(m3, tmp1, alh, blh, sizeL)
        c  == baseMul(memory[a], memory[b])
    IN  IF size = 1 THEN [memory EXCEPT ![o] = c[0], ![o + 1] = c[1]]
        ELSE karatsubaAdd2(m4, o, tmp1, tmp2, sizeL, sizeH)

karatsuba[size \in Nat \ {0}] == [call \in Call |-> level(karatsuba, size, call)]

\* How many words of the workspace karatsuba uses on operands of `size` words.
used[size \in Nat] ==
    IF size <= 1 THEN 0
    ELSE LET sizeL == (size + 1) \div 2 IN workspace(0, sizeL) + used[sizeL]

\* Mutant of stackWords: twice the operands, as for the output.
tightStack(size) == 2 * size

\* make([]uint64, vecN<<3)
stackWords(size) == 8 * size

\* The memory polyMul sets up: v1, v2, oKarat, stack, one after the other.
product(v1, v2, size) ==
    LET memory == [x \in 1 .. 4 * size + stackWords(size) |->
                      IF x <= size THEN v1[x - 1]
                      ELSE IF x <= 2 * size THEN v2[x - size - 1] ELSE {}]
        after  == karatsuba[size][[memory |-> memory, o |-> 2 * size + 1, a |-> 1, b |-> size + 1,
                                   stack |-> 4 * size + 1]]
    IN  [k \in 0 .. 2 * size - 1 |-> after[2 * size + 1 + k]]

polyMul(v1, v2) == polyReduce(product(v1, v2, vecN))

=============================================================================
