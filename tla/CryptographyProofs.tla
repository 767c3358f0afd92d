------------------------ MODULE CryptographyProofs ------------------------
(***************************************************************************)
(* Proofs about Cryptography, for every set of bytes, every key, every     *)
(* length of a block, a buffer and a list.                                 *)
(*                                                                         *)
(* The inductive invariant says where in its file each side is: which      *)
(* blocks are encrypted from which, both in the file and in the part of    *)
(* the buffer that ExecuteManyBlocks has been through, and what it keeps   *)
(* of the block before.                                                    *)
(***************************************************************************)
EXTENDS Cryptography, SequenceTheorems, TLAPS

(* The encrypted block before the i-th of a file *)
Before(blocks, i) == IF i = 1 THEN IV ELSE blocks[i - 1]

(* The encrypted file of L, as far as it goes *)
Chained(L, E) == \A i \in 1 .. Len(E) : E[i] = Encrypted(L[i], Before(E, i))

(* The buffer after some turns: E is the file written before it *)
BufferTurned(L, E, B, turn) ==
  \A j \in 1 .. Len(B) :
    B[j] = IF j <= turn
           THEN Encrypted(L[Len(E) + j], IF j = 1 THEN Before(E, Len(E) + 1) ELSE B[j - 1])
           ELSE L[Len(E) + j]

EncFile ==
  /\ list.blocks = <<>> => list.pad = 0
  /\ encrypting.pc \in {"open", "read", "blocks", "done", "failed"}
  /\ Len(encrypted.blocks) <= Len(list.blocks)
  /\ Chained(list.blocks, encrypted.blocks)
  /\ encrypted.pad \in {NoHeader, list.pad}

(* All that was read has been written. *)
Caught(E, work) == work.at = Len(E) /\ work.previous = Before(E, Len(E) + 1)

EncAt ==
  /\ encrypting.pc = "open" =>
       encrypted.blocks = <<>> /\ encrypting.at = 0 /\ encrypting.previous = IV
  /\ encrypting.pc \in {"read", "done"} => Caught(encrypted.blocks, encrypting)
  /\ encrypting.pc = "done" => Len(encrypted.blocks) = Len(list.blocks)

(* The buffer holds what was read and not yet written. *)
Encrypting(L, E, work) ==
  /\ work.at = Len(E) + Len(work.buffer)
  /\ work.at <= Len(L)
  /\ work.turn <= Len(work.buffer)
  /\ Len(work.buffer) # 0
  /\ work.previous =
       IF work.turn = 0 THEN Before(E, Len(E) + 1) ELSE work.buffer[work.turn]
  /\ BufferTurned(L, E, work.buffer, work.turn)

EncBuffer ==
  encrypting.pc = "blocks" => Encrypting(list.blocks, encrypted.blocks, encrypting)

EncInv == EncFile /\ EncAt /\ EncBuffer

(* What the client has is a beginning of what the server has written. *)
RecvInv ==
  LET R == received.blocks
      E == encrypted.blocks
  IN /\ decrypting.pc # "open" => encrypting.pc \in {"done", "failed"}
     /\ Len(R) <= Len(E)
     /\ \A i \in 1 .. Len(R) : R[i] = E[i]
     /\ received.pad \in {NoHeader, list.pad}

(* The buffer of the side that decrypts R: D is the file written before it *)
BufferBack(L, R, D, B, turn) ==
  \A j \in 1 .. Len(B) : B[j] = IF j <= turn THEN L[Len(D) + j] ELSE R[Len(D) + j]

DecFile ==
  /\ Len(decrypted.blocks) <= Len(received.blocks)
  /\ \A i \in 1 .. Len(decrypted.blocks) : decrypted.blocks[i] = list.blocks[i]
  /\ decrypted.drop =
       IF Len(decrypted.blocks) = Len(received.blocks) /\ Len(decrypted.blocks) # 0
       THEN list.pad ELSE 0

DecAt ==
  /\ decrypting.pc \in {"open", "size"} =>
       decrypting.at = 0 /\ decrypted.blocks = <<>> /\ decrypting.previous = IV
  /\ decrypting.pc \in {"read", "blocks"} => received.pad = list.pad
  /\ decrypting.pc \in {"read", "done"} =>
       /\ decrypting.at = Len(decrypted.blocks)
       /\ decrypting.previous = Before(received.blocks, Len(decrypted.blocks) + 1)
  /\ decrypting.pc = "done" => Len(decrypted.blocks) = Len(received.blocks)

Decrypting(L, R, D, work) ==
  /\ work.at = Len(D) + Len(work.buffer)
  /\ work.at <= Len(R)
  /\ work.turn <= Len(work.buffer)
  /\ Len(work.buffer) # 0
  /\ work.previous = Before(R, Len(D) + work.turn + 1)
  /\ BufferBack(L, R, D, work.buffer, work.turn)

DecBuffer ==
  decrypting.pc = "blocks" =>
    Decrypting(list.blocks, received.blocks, decrypted.blocks, decrypting)

DecInv == DecFile /\ DecAt /\ DecBuffer

IInv == TypeOK /\ EncInv /\ RecvInv /\ DecInv

-----------------------------------------------------------------------------
(* The blocks *)

LEMMA XorByte ==
  ASSUME NEW a \in Byte, NEW b \in Byte
  PROVE  Xor[a][b] \in Byte /\ Xor[Xor[a][b]][b] = a
<1>1. Xor[a] \in [Byte -> Byte]
  BY CryptoAssumption
<1>2. Xor[a][b] \in Byte
  BY <1>1
<1> QED
  BY <1>2, CryptoAssumption

LEMMA XorType ==
  ASSUME NEW b \in Block, NEW c \in Block
  PROVE  XorBuffers(b, c) \in Block
<1>1. \A i \in Index : Xor[b[i]][c[i]] \in Byte
  BY XorByte DEF Block
<1> QED
  BY <1>1 DEF XorBuffers, Block

LEMMA SwapType ==
  ASSUME NEW b \in Block
  PROVE  SwapBuffer(b) \in Block /\ SwapBuffer(SwapBuffer(b)) = b
<1>1. \A i \in Index : KEY_LENGTH + 1 - i \in Index /\ KEY_LENGTH + 1 - (KEY_LENGTH + 1 - i) = i
  BY CryptoAssumption DEF Index
<1>2. SwapBuffer(b) \in Block
  BY <1>1 DEF SwapBuffer, Block
<1> QED
  BY <1>1, <1>2 DEF SwapBuffer, Block

LEMMA BlockTypes ==
  ASSUME NEW b \in Block, NEW p \in Block
  PROVE  Encrypted(b, p) \in Block /\ Decrypted(b, p) \in Block
BY XorType, SwapType, CryptoAssumption DEF Encrypted, Decrypted

(* Decrypting a block with the same block before gives back what it was      *)
(* encrypted from.                                                           *)
LEMMA Cancels ==
  ASSUME NEW b \in Block, NEW p \in Block
  PROVE  Decrypted(Encrypted(b, p), p) = b
<1> DEFINE x == XorBuffers(XorBuffers(b, p), Key)
<1>1. x \in Block
  BY XorType, CryptoAssumption
<1>2. XorBuffers(XorBuffers(x, Key), p) = b
  <2>1. \A i \in Index : Xor[Xor[x[i]][Key[i]]][p[i]] = b[i]
    <3> TAKE i \in Index
    <3>1. b[i] \in Byte /\ p[i] \in Byte /\ Key[i] \in Byte
      BY CryptoAssumption DEF Block
    <3>2. x[i] = Xor[Xor[b[i]][p[i]]][Key[i]]
      BY DEF XorBuffers
    <3>3. Xor[b[i]][p[i]] \in Byte
      BY <3>1, XorByte
    <3>4. Xor[x[i]][Key[i]] = Xor[b[i]][p[i]]
      BY <3>1, <3>2, <3>3, XorByte
    <3> QED
      BY <3>1, <3>4, XorByte
  <2>2. XorBuffers(XorBuffers(x, Key), p) = [i \in Index |-> b[i]]
    BY <2>1 DEF XorBuffers
  <2> QED
    BY <2>2 DEF Block
<1> QED
  BY <1>1, <1>2, SwapType DEF Encrypted, Decrypted

-----------------------------------------------------------------------------
(* Reading, and a turn of ExecuteManyBlocks *)

LEMMA BufferRead ==
  ASSUME NEW work \in Work, NEW blocks \in Seq(Block), work.at < Len(blocks)
  PROVE  LET next == NextBuffer(work, blocks)
         IN /\ next \in Work
            /\ next.pc = "blocks" /\ next.turn = 0 /\ next.previous = work.previous
            /\ next.at = work.at + Len(next.buffer)
            /\ next.at <= Len(blocks)
            /\ Len(next.buffer) > 0
            /\ \A j \in 1 .. Len(next.buffer) : next.buffer[j] = blocks[work.at + j]
<1> DEFINE rest == Len(blocks) - work.at
           n == IF rest < BufferLen THEN rest ELSE BufferLen
           buffer == SubSeq(blocks, work.at + 1, work.at + n)
<1>0. work.at \in Nat /\ Len(blocks) \in Nat /\ BufferLen \in Nat /\ BufferLen # 0
  BY CryptoAssumption, LenProperties DEF Work
<1>1. /\ work.at \in Nat /\ Len(blocks) \in Nat
      /\ rest \in Nat \ {0} /\ n \in Nat \ {0} /\ n <= rest
  BY <1>0
<1>2. \A i \in work.at + 1 .. work.at + n : blocks[i] \in Block
  BY <1>1, LenProperties
<1>3. /\ buffer \in Seq(Block) /\ Len(buffer) = n
      /\ \A j \in 1 .. n : buffer[j] = blocks[work.at + j]
  <2>1. work.at + 1 \in Int /\ work.at + n \in Int /\ work.at + 1 <= work.at + n
    BY <1>1
  <2> HIDE DEF n
  <2>2. /\ buffer \in Seq(Block)
        /\ Len(buffer) = (work.at + n) - (work.at + 1) + 1
        /\ \A j \in 1 .. (work.at + n) - (work.at + 1) + 1 :
              buffer[j] = blocks[(work.at + 1) + j - 1]
    BY <1>2, <2>1, SubSeqProperties
  <2>3. (work.at + n) - (work.at + 1) + 1 = n
    BY <1>1
  <2>4. \A j \in 1 .. n : (work.at + 1) + j - 1 = work.at + j
    BY <1>1
  <2> QED
    BY <2>2, <2>3, <2>4
<1>4. NextBuffer(work, blocks) =
        [work EXCEPT !.pc = "blocks", !.at = work.at + n, !.turn = 0, !.buffer = buffer]
  <2>1. rest # 0
    BY <1>1
  <2> QED
    BY <2>1 DEF NextBuffer
<1>5. work.at + n <= Len(blocks) /\ work.at + n \in Nat /\ n > 0
  BY <1>1
<1> HIDE DEF n, buffer, rest
<1> DEFINE next == NextBuffer(work, blocks)
<1>6. /\ next \in Work
      /\ next.pc = "blocks" /\ next.turn = 0 /\ next.previous = work.previous
      /\ next.at = work.at + n /\ next.buffer = buffer
  <2>1. next = [work EXCEPT !.pc = "blocks", !.at = work.at + n, !.turn = 0, !.buffer = buffer]
    BY <1>4
  <2> HIDE DEF next
  <2> QED
    BY <1>3, <1>5, <2>1 DEF Work
<1> HIDE DEF next
<1>7. /\ next.at = work.at + Len(next.buffer)
      /\ next.at <= Len(blocks)
      /\ Len(next.buffer) > 0
      /\ \A j \in 1 .. Len(next.buffer) : next.buffer[j] = blocks[work.at + j]
  BY <1>3, <1>5, <1>6
<1> QED
  BY <1>6, <1>7 DEF next

LEMMA FileRead ==
  ASSUME NEW work \in Work, NEW blocks \in Seq(Block), work.at = Len(blocks)
  PROVE  NextBuffer(work, blocks) = [work EXCEPT !.pc = "done"]
BY LenProperties DEF NextBuffer, Work

LEMMA Turn ==
  ASSUME NEW work \in Work, HasTurn(work), NEW b \in Block, NEW q \in Block
  PROVE  LET next == Turned(work, b, q)
         IN /\ next \in Work
            /\ next.pc = "blocks" /\ next.turn = work.turn + 1
            /\ next.previous = q /\ next.at = work.at
            /\ Len(next.buffer) = Len(work.buffer)
            /\ \A j \in 1 .. Len(work.buffer) :
                  next.buffer[j] = IF j = work.turn + 1 THEN b ELSE work.buffer[j]
            /\ work.turn + 1 \in 1 .. Len(work.buffer)
            /\ NextBlock(work) \in Block
<1> DEFINE i == work.turn + 1
           B == [work.buffer EXCEPT ![i] = b]
           next == Turned(work, b, q)
<1>1. /\ work.buffer \in Seq(Block) /\ work.turn \in Nat /\ Len(work.buffer) \in Nat
      /\ work.turn < Len(work.buffer) /\ work.pc = "blocks"
  BY LenProperties DEF Work, HasTurn
<1>2. i \in 1 .. Len(work.buffer) /\ i \in Nat
  BY <1>1
<1>3. /\ B \in Seq(Block)
      /\ Len(B) = Len(work.buffer)
      /\ \A j \in 1 .. Len(work.buffer) : B[j] = IF j = i THEN b ELSE work.buffer[j]
  BY <1>1, <1>2, ExceptSeq
<1>4. next = [work EXCEPT !.buffer = B, !.turn = i, !.previous = q]
  BY DEF Turned, Work
<1>5. NextBlock(work) \in Block
  BY <1>1, <1>2, ElementOfSeq DEF NextBlock
<1> HIDE DEF next, i, B
<1>6. /\ next \in Work
      /\ next.pc = "blocks" /\ next.turn = i /\ next.previous = q /\ next.at = work.at
      /\ next.buffer = B
  BY <1>1, <1>2, <1>3, <1>4 DEF Work
<1> QED
  BY <1>2, <1>3, <1>5, <1>6 DEF next, i

-----------------------------------------------------------------------------
(* The chain of blocks *)

(* One more block of the buffer is encrypted. *)
LEMMA TurnStep ==
  ASSUME NEW L, NEW E, NEW B, NEW N, NEW turn \in Nat, NEW previous,
         Len(E) \in Nat, Len(B) \in Nat, Len(N) = Len(B),
         turn + 1 \in 1 .. Len(B),
         BufferTurned(L, E, B, turn),
         previous = IF turn = 0 THEN Before(E, Len(E) + 1) ELSE B[turn],
         \A j \in 1 .. Len(B) :
            N[j] = IF j = turn + 1 THEN Encrypted(B[turn + 1], previous) ELSE B[j]
  PROVE  BufferTurned(L, E, N, turn + 1)
<1> SUFFICES ASSUME NEW j \in 1 .. Len(B)
             PROVE  N[j] = IF j <= turn + 1
                           THEN Encrypted(L[Len(E) + j],
                                          IF j = 1 THEN Before(E, Len(E) + 1) ELSE N[j - 1])
                           ELSE L[Len(E) + j]
  BY DEF BufferTurned
<1>1. B[j] = IF j <= turn
             THEN Encrypted(L[Len(E) + j],
                            IF j = 1 THEN Before(E, Len(E) + 1) ELSE B[j - 1])
             ELSE L[Len(E) + j]
  BY DEF BufferTurned
<1>2. ASSUME j <= turn + 1, j # 1 PROVE N[j - 1] = B[j - 1]
  <2>1. j - 1 \in 1 .. Len(B) /\ j - 1 # turn + 1
    BY <1>2
  <2> QED
    BY <2>1
<1>3. CASE j = turn + 1
  <2>1. N[j] = Encrypted(B[j], previous) /\ B[j] = L[Len(E) + j]
    BY <1>1, <1>3
  <2>2. previous = IF j = 1 THEN Before(E, Len(E) + 1) ELSE N[j - 1]
    BY <1>2, <1>3
  <2> QED
    BY <1>3, <2>1, <2>2
<1>4. CASE j # turn + 1
  <2>1. N[j] = B[j] /\ (j <= turn + 1 <=> j <= turn)
    BY <1>4
  <2> QED
    BY <1>1, <1>2, <2>1
<1> QED
  BY <1>3, <1>4

(* A buffer of encrypted blocks continues the file before it. *)
Continued(L, E, B, N) ==
  /\ Len(E) \in Nat /\ Len(B) \in Nat \ {0} /\ Len(N) = Len(E) + Len(B)
  /\ Chained(L, E) /\ BufferTurned(L, E, B, Len(B))
  /\ \A k \in 1 .. Len(E) : N[k] = E[k]
  /\ \A j \in 1 .. Len(B) : N[Len(E) + j] = B[j]

LEMMA ChainExtends ==
  ASSUME NEW L, NEW E, NEW B, NEW N, Continued(L, E, B, N)
  PROVE  Chained(L, N) /\ Before(N, Len(N) + 1) = B[Len(B)]
<1> USE DEF Continued
<1>1. Before(N, Len(N) + 1) = B[Len(B)]
  BY DEF Before
<1>2. Before(N, Len(E) + 1) = Before(E, Len(E) + 1)
  <2>1. Len(E) + 1 # 1 => (Len(E) + 1) - 1 \in 1 .. Len(E)
    OBVIOUS
  <2> QED
    BY <2>1 DEF Before
<1>3. ASSUME NEW k \in 1 .. Len(E) PROVE N[k] = Encrypted(L[k], Before(N, k))
  <2>1. k # 1 => k - 1 \in 1 .. Len(E)
    OBVIOUS
  <2>2. Before(N, k) = Before(E, k)
    BY <2>1 DEF Before
  <2> QED
    BY <2>2 DEF Chained
<1>4. ASSUME NEW j \in 1 .. Len(B)
      PROVE  N[Len(E) + j] = Encrypted(L[Len(E) + j], Before(N, Len(E) + j))
  <2>1. B[j] = Encrypted(L[Len(E) + j],
                         IF j = 1 THEN Before(E, Len(E) + 1) ELSE B[j - 1])
    BY DEF BufferTurned
  <2>2. CASE j = 1
    BY <1>2, <2>1, <2>2
  <2>3. CASE j # 1
    <3>1. j - 1 \in 1 .. Len(B) /\ Len(E) + j # 1 /\ (Len(E) + j) - 1 = Len(E) + (j - 1)
      BY <2>3
    <3>2. Before(N, Len(E) + j) = B[j - 1]
      BY <3>1 DEF Before
    <3> QED
      BY <2>1, <2>3, <3>2
  <2> QED
    BY <2>2, <2>3
<1>5. \A k \in 1 .. Len(N) : k \in 1 .. Len(E) \/ (k - Len(E) \in 1 .. Len(B) /\ Len(E) + (k - Len(E)) = k)
  OBVIOUS
<1>6. Chained(L, N)
  <2> SUFFICES ASSUME NEW k \in 1 .. Len(N) PROVE N[k] = Encrypted(L[k], Before(N, k))
    BY DEF Chained
  <2>1. CASE k \in 1 .. Len(E)
    BY <1>3, <2>1
  <2>2. CASE k - Len(E) \in 1 .. Len(B) /\ Len(E) + (k - Len(E)) = k
    <3>1. N[Len(E) + (k - Len(E))] =
            Encrypted(L[Len(E) + (k - Len(E))], Before(N, Len(E) + (k - Len(E))))
      BY <1>4, <2>2
    <3> QED
      BY <2>2, <3>1
  <2> QED
    BY <1>5, <2>1, <2>2
<1> QED
  BY <1>1, <1>6

LEMMA Concatenated ==
  ASSUME NEW E \in Seq(Block), NEW B \in Seq(Block), NEW N, N = E \o B
  PROVE  /\ N \in Seq(Block) /\ Len(N) = Len(E) + Len(B)
         /\ Len(E) \in Nat /\ Len(B) \in Nat
         /\ \A k \in 1 .. Len(E) : N[k] = E[k]
         /\ \A j \in 1 .. Len(B) : N[Len(E) + j] = B[j]
<1>1. /\ Len(E) \in Nat /\ Len(B) \in Nat
      /\ N \in Seq(Block) /\ Len(N) = Len(E) + Len(B)
      /\ \A i \in 1 .. Len(E) + Len(B) : N[i] = IF i <= Len(E) THEN E[i] ELSE B[i - Len(E)]
  BY ConcatProperties, LenProperties
<1>2. ASSUME NEW k \in 1 .. Len(E) PROVE N[k] = E[k]
  <2>1. k \in 1 .. Len(E) + Len(B) /\ k <= Len(E)
    BY <1>1
  <2> QED
    BY <1>1, <2>1
<1>3. ASSUME NEW j \in 1 .. Len(B) PROVE N[Len(E) + j] = B[j]
  <2>1. Len(E) + j \in 1 .. Len(E) + Len(B) /\ ~(Len(E) + j <= Len(E)) /\ (Len(E) + j) - Len(E) = j
    BY <1>1
  <2> QED
    BY <1>1, <2>1
<1> QED
  BY <1>1, <1>2, <1>3

(* The buffer is written behind the file. *)
FullyTurned(L, E, B, N) ==
  /\ E \in Seq(Block) /\ B \in Seq(Block) /\ N = E \o B
  /\ Len(L) \in Nat /\ Len(B) # 0 /\ Len(E) + Len(B) <= Len(L)
  /\ Chained(L, E) /\ BufferTurned(L, E, B, Len(B))

Longer(L, E, B, N) ==
  /\ N \in Seq(Block) /\ Len(N) = Len(E) + Len(B)
  /\ Len(N) \in Nat /\ Len(E) <= Len(N) /\ Len(N) <= Len(L)
  /\ \A k \in 1 .. Len(E) : N[k] = E[k]
  /\ Chained(L, N)
  /\ Before(N, Len(N) + 1) = B[Len(B)]

LEMMA Written ==
  ASSUME NEW L, NEW E, NEW B, NEW N, FullyTurned(L, E, B, N)
  PROVE  Longer(L, E, B, N)
<1>1. /\ N \in Seq(Block) /\ Len(N) = Len(E) + Len(B)
      /\ Len(E) \in Nat /\ Len(B) \in Nat
      /\ \A k \in 1 .. Len(E) : N[k] = E[k]
      /\ \A j \in 1 .. Len(B) : N[Len(E) + j] = B[j]
  BY Concatenated DEF FullyTurned
<1>2. Len(B) \in Nat \ {0} /\ Len(N) \in Nat /\ Len(E) <= Len(N) /\ Len(N) <= Len(L)
  BY <1>1 DEF FullyTurned
<1>3. Chained(L, N) /\ Before(N, Len(N) + 1) = B[Len(B)]
  <2>1. Continued(L, E, B, N)
    BY <1>1, <1>2 DEF Continued, FullyTurned
  <2> QED
    BY <2>1, ChainExtends
<1> QED
  BY <1>1, <1>2, <1>3 DEF Longer

-----------------------------------------------------------------------------
(* The server *)

LEMMA InitInv == Init => IInv
<1> SUFFICES ASSUME Init PROVE IInv
  OBVIOUS
<1>1. /\ <<>> \in Seq(Block) /\ Len(<<>>) = 0
  BY EmptySeq
<1>2. 0 \in Paddings /\ Paddings \subseteq Nat
  BY CryptoAssumption DEF Paddings
<1>3. Started \in Work
  BY <1>1, CryptoAssumption DEF Started, Work
<1>4. /\ list \in [blocks : Seq(Block), pad : Paddings]
      /\ list.blocks = <<>> => list.pad = 0
  BY DEF Init, Lists, BlocksUpTo, Filled
<1>5. TypeOK
  BY <1>1, <1>2, <1>3, <1>4 DEF Init, TypeOK
<1>6. EncInv
  BY <1>1, <1>4, LenProperties DEF Init, EncInv, EncFile, EncAt, EncBuffer, Chained, Started
<1>7. RecvInv
  BY <1>1 DEF Init, RecvInv, Started
<1>8. DecInv
  BY <1>1 DEF Init, DecInv, DecFile, DecAt, DecBuffer, Started
<1> QED
  BY <1>5, <1>6, <1>7, <1>8 DEF IInv

(* Nothing of the other side changes: while the server is at work the client *)
(* has not begun.                                                            *)
LEMMA ClientUnchanged ==
  ASSUME RecvInv, DecInv, encrypting.pc \notin {"done", "failed"},
         UNCHANGED <<list, received, decrypting, decrypted>>,
         Len(encrypted.blocks) \in Nat, Len(encrypted'.blocks) \in Nat,
         Len(received.blocks) \in Nat,
         Len(encrypted.blocks) <= Len(encrypted'.blocks),
         \A i \in 1 .. Len(encrypted.blocks) : encrypted'.blocks[i] = encrypted.blocks[i]
  PROVE  RecvInv' /\ DecInv'
<1>1. decrypting.pc = "open"
  BY DEF RecvInv
<1>2. RecvInv'
  BY <1>1 DEF RecvInv
<1>3. DecInv'
  BY DEF DecInv, DecFile, DecAt, DecBuffer
<1> QED
  BY <1>2, <1>3

LEMMA WritePaddingInv == IInv /\ WritePadding => IInv'
<1> SUFFICES ASSUME IInv, WritePadding PROVE IInv'
  OBVIOUS
<1> USE DEF IInv
<1>1. /\ encrypting' = [encrypting EXCEPT !.pc = "read"]
      /\ encrypted' = [encrypted EXCEPT !.pad = list.pad]
      /\ encrypting.pc = "open"
      /\ UNCHANGED <<list, received, decrypting, decrypted>>
  BY DEF WritePadding
<1>2. TypeOK'
  BY <1>1 DEF TypeOK, Work
<1>3. encrypted'.blocks = encrypted.blocks /\ encrypted'.pad = list.pad
  BY <1>1 DEF TypeOK
<1>4. /\ encrypting'.pc = "read" /\ encrypting'.at = encrypting.at
      /\ encrypting'.previous = encrypting.previous
  BY <1>1 DEF TypeOK, Work
<1>5. EncInv'
  BY <1>1, <1>3, <1>4, EmptySeq DEF EncInv, EncFile, EncAt, EncBuffer, Caught, Before
<1>6. RecvInv' /\ DecInv'
  BY <1>1, <1>3, ClientUnchanged, LenProperties DEF TypeOK
<1> QED
  BY <1>2, <1>5, <1>6

LEMMA EncryptFailsInv == IInv /\ EncryptFails => IInv'
<1> SUFFICES ASSUME IInv, EncryptFails PROVE IInv'
  OBVIOUS
<1> USE DEF IInv
<1>1. /\ encrypting.pc \in {"open", "read", "blocks"}
      /\ encrypting' = [encrypting EXCEPT !.pc = "failed"]
      /\ UNCHANGED <<list, encrypted, received, decrypting, decrypted>>
  BY DEF EncryptFails
<1>2. encrypting' \in Work /\ encrypting'.pc = "failed"
  BY <1>1 DEF TypeOK, Work
<1>3. TypeOK' /\ EncInv'
  BY <1>1, <1>2 DEF TypeOK, EncInv, EncFile, EncAt, EncBuffer, Chained
<1>4. RecvInv' /\ DecInv'
  BY <1>1, ClientUnchanged, LenProperties DEF TypeOK
<1> QED
  BY <1>3, <1>4

LEMMA EncTypes ==
  ASSUME TypeOK
  PROVE  /\ encrypting \in Work
         /\ list.blocks \in Seq(Block) /\ Len(list.blocks) \in Nat
         /\ encrypted.blocks \in Seq(Block) /\ Len(encrypted.blocks) \in Nat
         /\ encrypting.buffer \in Seq(Block) /\ Len(encrypting.buffer) \in Nat
         /\ encrypting.turn \in Nat /\ encrypting.previous \in Block /\ encrypting.at \in Nat
         /\ Len(received.blocks) \in Nat
<1>1. /\ encrypting \in Work
      /\ list.blocks \in Seq(Block)
      /\ encrypted.blocks \in Seq(Block)
      /\ encrypting.buffer \in Seq(Block)
      /\ encrypting.turn \in Nat /\ encrypting.previous \in Block /\ encrypting.at \in Nat
      /\ received.blocks \in Seq(Block)
  BY DEF TypeOK, Work
<1> QED
  BY <1>1, LenProperties

LEMMA ReadPlainInv == IInv /\ ReadPlain => IInv'
<1> SUFFICES ASSUME IInv, ReadPlain PROVE IInv'
  OBVIOUS
<1>0. TypeOK /\ EncInv /\ EncFile /\ RecvInv /\ DecInv
  BY DEF IInv, EncInv
<1>1. /\ encrypting.pc = "read"
      /\ encrypting' = NextBuffer(encrypting, list.blocks)
      /\ UNCHANGED <<list, encrypted, received, decrypting, decrypted>>
  BY DEF ReadPlain
<1>2. /\ encrypting \in Work /\ list.blocks \in Seq(Block)
      /\ Len(list.blocks) \in Nat /\ Len(encrypted.blocks) \in Nat
      /\ Len(received.blocks) \in Nat
      /\ Caught(encrypted.blocks, encrypting)
      /\ encrypting.at <= Len(list.blocks) /\ encrypting.at \in Nat
  <2>1. Caught(encrypted.blocks, encrypting)
    BY <1>0, <1>1 DEF EncInv, EncAt
  <2>2. encrypting.at <= Len(list.blocks)
    BY <1>0, <2>1 DEF EncFile, Caught
  <2> QED
    BY <1>0, <2>1, <2>2, EncTypes
<1>3. RecvInv' /\ DecInv'
  BY <1>0, <1>1, <1>2, ClientUnchanged
<1>4. CASE encrypting.at = Len(list.blocks)
  <2>1. encrypting' = [encrypting EXCEPT !.pc = "done"]
    BY <1>1, <1>2, <1>4, FileRead
  <2>2. /\ encrypting' \in Work /\ encrypting'.pc = "done" /\ encrypting'.at = encrypting.at
        /\ encrypting'.previous = encrypting.previous
    BY <1>2, <2>1 DEF Work
  <2>3. EncInv'
    BY <1>0, <1>1, <1>2, <1>4, <2>2 DEF EncInv, EncFile, EncAt, EncBuffer, Caught
  <2>4. TypeOK'
    BY <1>0, <1>1, <2>2 DEF TypeOK
  <2> QED
    BY <1>3, <2>3, <2>4 DEF IInv
<1>5. CASE encrypting.at < Len(list.blocks)
  <2>1. /\ encrypting' \in Work
        /\ encrypting'.pc = "blocks" /\ encrypting'.turn = 0
        /\ encrypting'.previous = encrypting.previous
        /\ encrypting'.at = encrypting.at + Len(encrypting'.buffer)
        /\ encrypting'.at <= Len(list.blocks)
        /\ Len(encrypting'.buffer) > 0
        /\ \A j \in 1 .. Len(encrypting'.buffer) :
              encrypting'.buffer[j] = list.blocks[encrypting.at + j]
    BY <1>1, <1>2, <1>5, BufferRead
  <2>2. Len(encrypting'.buffer) \in Nat
    BY <2>1, LenProperties DEF Work
  <2>3. BufferTurned(list.blocks, encrypted.blocks, encrypting'.buffer, 0)
    BY SMTT(30), <1>2, <2>1, <2>2 DEF BufferTurned, Caught
  <2>4. EncFile' /\ EncAt'
    BY <1>0, <1>1, <2>1 DEF EncFile, EncAt
  <2>5. EncBuffer'
    <3>1. Encrypting(list.blocks, encrypted.blocks, encrypting')
      <4>1. encrypting'.previous = Before(encrypted.blocks, Len(encrypted.blocks) + 1)
        BY <1>2, <2>1 DEF Caught
      <4>2. encrypting'.at = Len(encrypted.blocks) + Len(encrypting'.buffer)
        BY <1>2, <2>1 DEF Caught
      <4>3. encrypting'.turn <= Len(encrypting'.buffer) /\ Len(encrypting'.buffer) # 0
        BY <2>1, <2>2
      <4> QED
        BY <2>1, <2>3, <4>1, <4>2, <4>3 DEF Encrypting
    <3> QED
      BY <1>1, <3>1 DEF EncBuffer
  <2>6. TypeOK'
    BY <1>0, <1>1, <2>1 DEF TypeOK
  <2> QED
    BY <1>3, <2>4, <2>5, <2>6 DEF IInv, EncInv
<1> QED
  BY <1>2, <1>4, <1>5

LEMMA EncryptBlockInv == IInv /\ EncryptBlock => IInv'
<1> SUFFICES ASSUME IInv, EncryptBlock PROVE IInv'
  OBVIOUS
<1> DEFINE i == encrypting.turn + 1
           B == encrypting.buffer
           c == Encrypted(NextBlock(encrypting), encrypting.previous)
<1>0. TypeOK /\ EncInv /\ EncFile /\ RecvInv /\ DecInv
  BY DEF IInv, EncInv
<1>1. /\ HasTurn(encrypting)
      /\ encrypting' = Turned(encrypting, c, c)
      /\ UNCHANGED <<list, encrypted, received, decrypting, decrypted>>
  BY DEF EncryptBlock
<1>2. /\ encrypting \in Work /\ B \in Seq(Block)
      /\ Len(encrypted.blocks) \in Nat /\ Len(B) \in Nat /\ Len(received.blocks) \in Nat
      /\ encrypting.turn \in Nat /\ encrypting.previous \in Block
      /\ encrypting.pc = "blocks" /\ encrypting.turn < Len(B)
      /\ Encrypting(list.blocks, encrypted.blocks, encrypting)
  BY <1>0, <1>1, EncTypes DEF HasTurn, EncInv, EncBuffer
<1>3. i \in 1 .. Len(B) /\ c \in Block
  BY <1>1, <1>2, Turn, BlockTypes
<1>4. /\ encrypting' \in Work
      /\ encrypting'.pc = "blocks" /\ encrypting'.turn = i
      /\ encrypting'.previous = c /\ encrypting'.at = encrypting.at
      /\ Len(encrypting'.buffer) = Len(B)
      /\ \A j \in 1 .. Len(B) : encrypting'.buffer[j] = IF j = i THEN c ELSE B[j]
  <2> HIDE DEF c
  <2>1. encrypting \in Work /\ c \in Block
    BY <1>2, <1>3
  <2> QED
    BY <1>1, <2>1, Turn
<1>5. RecvInv' /\ DecInv'
  BY <1>0, <1>1, <1>2, ClientUnchanged
<1>6. BufferTurned(list.blocks, encrypted.blocks, encrypting'.buffer, i)
  <2>1. /\ BufferTurned(list.blocks, encrypted.blocks, B, encrypting.turn)
        /\ encrypting.previous =
             IF encrypting.turn = 0 THEN Before(encrypted.blocks, Len(encrypted.blocks) + 1)
             ELSE B[encrypting.turn]
    BY <1>2 DEF Encrypting
  <2> QED
    BY <1>2, <1>3, <1>4, <2>1, TurnStep DEF NextBlock
<1>7. encrypting'.previous = encrypting'.buffer[i]
  BY <1>3, <1>4
<1>8. EncFile' /\ EncAt'
  BY <1>0, <1>1, <1>4 DEF EncFile, EncAt
<1>9. EncBuffer'
  <2> HIDE DEF c
  <2>1. i <= Len(B) /\ i # 0
    BY <1>2, <1>3
  <2> HIDE DEF i
  <2>2. Encrypting(list.blocks, encrypted.blocks, encrypting')
    BY <1>2, <1>4, <1>6, <1>7, <2>1 DEF Encrypting
  <2> QED
    BY <1>1, <2>2 DEF EncBuffer
<1>10. TypeOK'
  BY <1>0, <1>1, <1>4 DEF TypeOK
<1> QED
  BY <1>5, <1>8, <1>9, <1>10 DEF IInv, EncInv

LEMMA WriteCipherInv == IInv /\ WriteCipher => IInv'
<1> SUFFICES ASSUME IInv, WriteCipher PROVE IInv'
  OBVIOUS
<1>0. TypeOK /\ EncInv /\ EncFile /\ RecvInv /\ DecInv
  BY DEF IInv, EncInv
<1>1. /\ encrypting.pc = "blocks" /\ encrypting.turn = Len(encrypting.buffer)
      /\ encrypted' = [encrypted EXCEPT !.blocks = encrypted.blocks \o encrypting.buffer]
      /\ encrypting' = [encrypting EXCEPT !.pc = "read"]
      /\ UNCHANGED <<list, received, decrypting, decrypted>>
  BY DEF WriteCipher, BufferDone
<1>2. /\ encrypted.blocks \in Seq(Block) /\ encrypting.buffer \in Seq(Block)
      /\ Len(list.blocks) \in Nat /\ Len(encrypted.blocks) \in Nat
      /\ Len(received.blocks) \in Nat
  BY <1>0, EncTypes
<1>3. /\ encrypting' \in Work /\ encrypting'.pc = "read"
      /\ encrypting'.at = encrypting.at /\ encrypting'.previous = encrypting.previous
  BY <1>0, <1>1 DEF TypeOK, Work
<1>4. /\ encrypted'.blocks = encrypted.blocks \o encrypting.buffer
      /\ encrypted'.pad = encrypted.pad
  BY <1>0, <1>1 DEF TypeOK
<1>5. /\ encrypting.at = Len(encrypted.blocks) + Len(encrypting.buffer)
      /\ encrypting.at <= Len(list.blocks)
      /\ Len(encrypting.buffer) # 0
      /\ encrypting.previous =
           IF encrypting.turn = 0 THEN Before(encrypted.blocks, Len(encrypted.blocks) + 1)
           ELSE encrypting.buffer[encrypting.turn]
      /\ BufferTurned(list.blocks, encrypted.blocks, encrypting.buffer, encrypting.turn)
  BY <1>0, <1>1 DEF EncInv, EncBuffer, Encrypting
<1>6. /\ encrypting.previous = encrypting.buffer[Len(encrypting.buffer)]
      /\ BufferTurned(list.blocks, encrypted.blocks, encrypting.buffer, Len(encrypting.buffer))
      /\ Len(encrypted.blocks) + Len(encrypting.buffer) <= Len(list.blocks)
  BY <1>1, <1>5
<1>7. Chained(list.blocks, encrypted.blocks)
  BY <1>0 DEF EncFile
<1>8. /\ encrypted'.blocks \in Seq(Block)
      /\ Len(encrypted'.blocks) = Len(encrypted.blocks) + Len(encrypting.buffer)
      /\ Len(encrypted'.blocks) \in Nat
      /\ Len(encrypted.blocks) <= Len(encrypted'.blocks)
      /\ Len(encrypted'.blocks) <= Len(list.blocks)
      /\ \A k \in 1 .. Len(encrypted.blocks) : encrypted'.blocks[k] = encrypted.blocks[k]
      /\ Chained(list.blocks, encrypted'.blocks)
      /\ Before(encrypted'.blocks, Len(encrypted'.blocks) + 1) =
           encrypting.buffer[Len(encrypting.buffer)]
  <2>1. FullyTurned(list.blocks, encrypted.blocks, encrypting.buffer, encrypted'.blocks)
    BY <1>2, <1>4, <1>5, <1>6, <1>7 DEF FullyTurned
  <2>2. Longer(list.blocks, encrypted.blocks, encrypting.buffer, encrypted'.blocks)
    BY <2>1, Written
  <2> QED
    BY <2>2 DEF Longer
<1>9. RecvInv' /\ DecInv'
  BY <1>0, <1>1, <1>2, <1>8, ClientUnchanged
<1>10. TypeOK'
  <2>1. encrypted' \in [pad : Paddings \cup {NoHeader}, blocks : Seq(Block)]
    BY <1>0, <1>1, <1>4, <1>8 DEF TypeOK
  <2> QED
    BY <1>0, <1>1, <1>3, <2>1 DEF TypeOK
<1>11. EncFile'
  BY <1>0, <1>1, <1>3, <1>4, <1>8 DEF EncFile
<1>12. EncAt' /\ EncBuffer'
  BY <1>3, <1>5, <1>6, <1>8 DEF EncAt, EncBuffer, Caught
<1> QED
  BY <1>9, <1>10, <1>11, <1>12 DEF IInv, EncInv

-----------------------------------------------------------------------------
(* The client *)

LEMMA Beginning ==
  ASSUME NEW E \in Seq(Block), NEW n \in 0 .. Len(E), NEW R, R = SubSeq(E, 1, n)
  PROVE  R \in Seq(Block) /\ Len(R) = n /\ \A i \in 1 .. n : R[i] = E[i]
<1>1. Len(E) \in Nat /\ n \in Nat
  BY LenProperties
<1>2. \A i \in 1 .. n : E[i] \in Block
  BY <1>1, ElementOfSeq
<1>3. 1 \in Int /\ n \in Int /\ 1 <= n + 1
  BY <1>1
<1> QED
  BY <1>1, <1>2, <1>3, SubSeqProperties

LEMMA TransferInv == IInv /\ Transfer => IInv'
<1> SUFFICES ASSUME IInv, Transfer PROVE IInv'
  OBVIOUS
<1>0. TypeOK /\ EncInv /\ RecvInv /\ DecInv
  BY DEF IInv
<1> PICK n \in 0 .. Len(encrypted.blocks), torn \in BOOLEAN, header \in BOOLEAN :
      received' = [pad |-> IF header THEN encrypted.pad ELSE NoHeader,
                   blocks |-> SubSeq(encrypted.blocks, 1, n),
                   torn |-> torn]
  BY DEF Transfer
<1>1. /\ encrypting.pc \in {"done", "failed"}
      /\ decrypting.pc = "open"
      /\ decrypting' = [decrypting EXCEPT !.pc = "size"]
      /\ UNCHANGED <<list, encrypting, encrypted, decrypted>>
  BY DEF Transfer
<1>2. /\ encrypted.blocks \in Seq(Block) /\ encrypted.pad \in Paddings \cup {NoHeader}
      /\ encrypted.pad \in {NoHeader, list.pad} /\ Len(encrypted.blocks) \in Nat
  BY <1>0, EncTypes DEF TypeOK, EncInv, EncFile
<1>3. /\ received'.blocks \in Seq(Block) /\ Len(received'.blocks) = n
      /\ \A i \in 1 .. n : received'.blocks[i] = encrypted.blocks[i]
  BY <1>2, Beginning
<1>4. /\ received' \in [pad : Paddings \cup {NoHeader}, blocks : Seq(Block), torn : BOOLEAN]
      /\ received'.pad \in {NoHeader, list.pad}
  BY <1>2, <1>3
<1>5. /\ decrypting' \in Work /\ decrypting'.pc = "size" /\ decrypting'.at = decrypting.at
      /\ decrypting'.previous = decrypting.previous
  BY <1>0, <1>1 DEF TypeOK, Work
<1>6. TypeOK'
  BY <1>0, <1>1, <1>4, <1>5 DEF TypeOK
<1>7. EncInv'
  BY <1>0, <1>1 DEF EncInv, EncFile, EncAt, EncBuffer
<1>8. RecvInv'
  BY <1>1, <1>2, <1>3, <1>4 DEF RecvInv
<1>9. DecInv'
  <2>1. decrypting.at = 0 /\ decrypted.blocks = <<>> /\ decrypting.previous = IV
    BY <1>0, <1>1 DEF DecInv, DecAt
  <2>2. Len(decrypted.blocks) = 0
    BY <2>1
  <2>3. DecFile'
    BY <1>0, <1>1, <1>2, <1>3, <2>2 DEF DecInv, DecFile
  <2> QED
    BY <1>1, <1>5, <2>1, <2>3 DEF DecInv, DecAt, DecBuffer
<1> QED
  BY <1>6, <1>7, <1>8, <1>9 DEF IInv

LEMMA DecTypes ==
  ASSUME TypeOK
  PROVE  /\ decrypting \in Work
         /\ list.blocks \in Seq(Block) /\ Len(list.blocks) \in Nat
         /\ encrypted.blocks \in Seq(Block) /\ Len(encrypted.blocks) \in Nat
         /\ received.blocks \in Seq(Block) /\ Len(received.blocks) \in Nat
         /\ decrypted.blocks \in Seq(Block) /\ Len(decrypted.blocks) \in Nat
         /\ decrypting.buffer \in Seq(Block) /\ Len(decrypting.buffer) \in Nat
         /\ decrypting.turn \in Nat /\ decrypting.previous \in Block /\ decrypting.at \in Nat
<1>1. /\ decrypting \in Work
      /\ list.blocks \in Seq(Block)
      /\ encrypted.blocks \in Seq(Block)
      /\ received.blocks \in Seq(Block)
      /\ decrypted.blocks \in Seq(Block)
      /\ decrypting.buffer \in Seq(Block)
      /\ decrypting.turn \in Nat /\ decrypting.previous \in Block /\ decrypting.at \in Nat
  BY DEF TypeOK, Work
<1> QED
  BY <1>1, LenProperties

(* Nothing of the other side changes: the server has ended when the client   *)
(* is at work.                                                               *)
LEMMA ServerUnchanged ==
  ASSUME EncInv, RecvInv, decrypting.pc # "open",
         UNCHANGED <<list, encrypting, encrypted, received>>
  PROVE  EncInv' /\ RecvInv'
<1>1. EncInv'
  BY DEF EncInv, EncFile, EncAt, EncBuffer
<1>2. RecvInv'
  BY DEF RecvInv
<1> QED
  BY <1>1, <1>2

LEMMA CheckSizeInv == IInv /\ CheckSize => IInv'
<1> SUFFICES ASSUME IInv, CheckSize PROVE IInv'
  OBVIOUS
<1>0. TypeOK /\ EncInv /\ RecvInv /\ DecInv
  BY DEF IInv
<1> PICK pc : pc = IF received.torn \/ received.pad = NoHeader THEN "failed"
                   ELSE IF received.pad > KEY_LENGTH - 1 THEN "died" ELSE "read"
  OBVIOUS
<1>1. /\ decrypting.pc = "size"
      /\ decrypting' = [decrypting EXCEPT !.pc = pc]
      /\ UNCHANGED <<list, encrypting, encrypted, received, decrypted>>
  BY DEF CheckSize
<1>2. received.pad \in {NoHeader, list.pad} /\ list.pad \in Paddings
  BY <1>0 DEF TypeOK, RecvInv
<1>3. pc = "failed" \/ (pc = "read" /\ received.pad = list.pad)
  <2>1. KEY_LENGTH \in Nat /\ list.pad \in 0 .. KEY_LENGTH - 1
    BY <1>2, CryptoAssumption DEF Paddings
  <2>2. ~(list.pad > KEY_LENGTH - 1)
    BY <2>1
  <2> QED
    BY <1>2, <2>2
<1>4. /\ decrypting' \in Work /\ decrypting'.pc = pc /\ decrypting'.at = decrypting.at
      /\ decrypting'.previous = decrypting.previous
  BY <1>0, <1>1, <1>3 DEF TypeOK, Work
<1>5. EncInv' /\ RecvInv'
  BY <1>0, <1>1, ServerUnchanged
<1>6. TypeOK'
  BY <1>0, <1>1, <1>4 DEF TypeOK
<1>7. decrypting.at = 0 /\ decrypted.blocks = <<>> /\ decrypting.previous = IV
  BY <1>0, <1>1 DEF DecInv, DecAt
<1>8. Len(decrypted.blocks) = 0
  BY <1>7
<1>9. Before(received.blocks, Len(decrypted.blocks) + 1) = IV
  BY <1>8 DEF Before
<1>10. DecFile'
  BY <1>0, <1>1 DEF DecInv, DecFile
<1>11. DecAt' /\ DecBuffer'
  BY <1>1, <1>3, <1>4, <1>7, <1>8, <1>9 DEF DecAt, DecBuffer
<1> QED
  BY <1>5, <1>6, <1>10, <1>11 DEF IInv, DecInv

LEMMA DecryptFailsInv == IInv /\ DecryptFails => IInv'
<1> SUFFICES ASSUME IInv, DecryptFails PROVE IInv'
  OBVIOUS
<1>0. TypeOK /\ EncInv /\ RecvInv /\ DecInv
  BY DEF IInv
<1>1. /\ decrypting.pc \in {"size", "read", "blocks"}
      /\ decrypting' = [decrypting EXCEPT !.pc = "failed"]
      /\ UNCHANGED <<list, encrypting, encrypted, received, decrypted>>
  BY DEF DecryptFails
<1>2. decrypting' \in Work /\ decrypting'.pc = "failed"
  BY <1>0, <1>1 DEF TypeOK, Work
<1>3. EncInv' /\ RecvInv'
  BY <1>0, <1>1, ServerUnchanged
<1>4. TypeOK'
  BY <1>0, <1>1, <1>2 DEF TypeOK
<1>5. DecInv'
  BY <1>0, <1>1, <1>2 DEF DecInv, DecFile, DecAt, DecBuffer
<1> QED
  BY <1>3, <1>4, <1>5 DEF IInv

(* What the client has is chained as what the server has written. *)
LEMMA BeginningChained ==
  ASSUME NEW L, NEW E, NEW R, Len(E) \in Nat, Len(R) \in Nat, Len(R) <= Len(E),
         \A i \in 1 .. Len(R) : R[i] = E[i], Chained(L, E)
  PROVE  Chained(L, R)
<1> SUFFICES ASSUME NEW i \in 1 .. Len(R) PROVE R[i] = Encrypted(L[i], Before(R, i))
  BY DEF Chained
<1>1. i \in 1 .. Len(E) /\ (i # 1 => i - 1 \in 1 .. Len(R))
  OBVIOUS
<1>2. Before(R, i) = Before(E, i)
  BY <1>1 DEF Before
<1> QED
  BY <1>1, <1>2 DEF Chained

(* One more block of the buffer is decrypted. *)
TurnedBack(L, R, D, B, N, turn, previous) ==
  /\ L \in Seq(Block) /\ turn \in Nat /\ previous \in Block
  /\ Len(R) \in Nat /\ Len(D) \in Nat /\ Len(B) \in Nat /\ Len(N) = Len(B)
  /\ Len(L) \in Nat /\ Len(R) <= Len(L) /\ Len(D) + Len(B) <= Len(R)
  /\ turn + 1 \in 1 .. Len(B)
  /\ Chained(L, R) /\ BufferBack(L, R, D, B, turn)
  /\ previous = Before(R, Len(D) + turn + 1)
  /\ \A j \in 1 .. Len(B) :
       N[j] = IF j = turn + 1 THEN Decrypted(B[turn + 1], previous) ELSE B[j]

LEMMA TurnBack ==
  ASSUME NEW L, NEW R, NEW D, NEW B, NEW N, NEW turn, NEW previous,
         TurnedBack(L, R, D, B, N, turn, previous)
  PROVE  /\ BufferBack(L, R, D, N, turn + 1)
         /\ B[turn + 1] = Before(R, Len(D) + (turn + 1) + 1)
<1> USE DEF TurnedBack
<1>1. B[turn + 1] = R[Len(D) + turn + 1]
  <2>1. ~(turn + 1 <= turn) /\ Len(D) + (turn + 1) = Len(D) + turn + 1
    OBVIOUS
  <2> QED
    BY <2>1 DEF BufferBack
<1>2. B[turn + 1] = Before(R, Len(D) + (turn + 1) + 1)
  <2>1. \A x, y \in Nat : x + (y + 1) + 1 # 1 /\ (x + (y + 1) + 1) - 1 = x + y + 1
    OBVIOUS
  <2>2. Len(D) + (turn + 1) + 1 # 1 /\ (Len(D) + (turn + 1) + 1) - 1 = Len(D) + turn + 1
    BY <2>1
  <2> QED
    BY <1>1, <2>2 DEF Before
<1>3. Len(D) + turn + 1 \in 1 .. Len(R) /\ Len(D) + turn + 1 \in 1 .. Len(L)
  OBVIOUS
<1>4. Decrypted(B[turn + 1], previous) = L[Len(D) + turn + 1]
  <2>1. L[Len(D) + turn + 1] \in Block
    BY <1>3, ElementOfSeq
  <2>2. B[turn + 1] = Encrypted(L[Len(D) + turn + 1], previous)
    BY <1>1, <1>3 DEF Chained
  <2> QED
    BY <2>1, <2>2, Cancels
<1>5. BufferBack(L, R, D, N, turn + 1)
  <2> SUFFICES ASSUME NEW j \in 1 .. Len(B)
               PROVE  N[j] = IF j <= turn + 1 THEN L[Len(D) + j] ELSE R[Len(D) + j]
    BY DEF BufferBack
  <2>1. CASE j = turn + 1
    <3>1. Len(D) + j = Len(D) + turn + 1
      BY <2>1
    <3> QED
      BY <1>4, <2>1, <3>1
  <2>2. CASE j # turn + 1
    <3>1. N[j] = B[j] /\ (j <= turn + 1 <=> j <= turn)
      BY <2>2
    <3> QED
      BY <3>1 DEF BufferBack
  <2> QED
    BY <2>1, <2>2
<1> QED
  BY <1>2, <1>5

(* The decrypted buffer is written behind the file. *)
FullyBack(L, R, D, B, N) ==
  /\ D \in Seq(Block) /\ B \in Seq(Block) /\ N = D \o B
  /\ Len(R) \in Nat /\ Len(B) # 0 /\ Len(D) + Len(B) <= Len(R)
  /\ BufferBack(L, R, D, B, Len(B))
  /\ \A i \in 1 .. Len(D) : D[i] = L[i]

IsBack(L, R, D, B, N) ==
  /\ N \in Seq(Block) /\ Len(N) = Len(D) + Len(B)
  /\ Len(N) \in Nat /\ Len(N) # 0 /\ Len(N) <= Len(R)
  /\ \A i \in 1 .. Len(N) : N[i] = L[i]
  /\ Len(D) # Len(R)

LEMMA WrittenBack ==
  ASSUME NEW L, NEW R, NEW D, NEW B, NEW N, FullyBack(L, R, D, B, N)
  PROVE  IsBack(L, R, D, B, N)
<1> USE DEF FullyBack, IsBack
<1>1. /\ N \in Seq(Block) /\ Len(N) = Len(D) + Len(B)
      /\ Len(D) \in Nat /\ Len(B) \in Nat
      /\ \A k \in 1 .. Len(D) : N[k] = D[k]
      /\ \A j \in 1 .. Len(B) : N[Len(D) + j] = B[j]
  BY Concatenated
<1>2. Len(N) \in Nat /\ Len(N) # 0 /\ Len(N) <= Len(R) /\ Len(D) # Len(R)
  BY <1>1
<1>3. \A j \in 1 .. Len(B) : N[Len(D) + j] = L[Len(D) + j]
  BY <1>1 DEF BufferBack
<1>4. ASSUME NEW i \in 1 .. Len(N) PROVE N[i] = L[i]
  <2>1. i \in 1 .. Len(D) \/ (i - Len(D) \in 1 .. Len(B) /\ Len(D) + (i - Len(D)) = i)
    BY <1>1
  <2>2. CASE i \in 1 .. Len(D)
    BY <1>1, <2>2
  <2>3. CASE i - Len(D) \in 1 .. Len(B) /\ Len(D) + (i - Len(D)) = i
    <3>1. N[Len(D) + (i - Len(D))] = L[Len(D) + (i - Len(D))]
      BY <1>3, <2>3
    <3> QED
      BY <2>3, <3>1
  <2> QED
    BY <2>1, <2>2, <2>3
<1> QED
  BY <1>1, <1>2, <1>4

LEMMA ReadCipherInv == IInv /\ ReadCipher => IInv'
<1> SUFFICES ASSUME IInv, ReadCipher PROVE IInv'
  OBVIOUS
<1>0. TypeOK /\ EncInv /\ RecvInv /\ DecInv /\ DecFile
  BY DEF IInv, DecInv
<1>1. /\ decrypting.pc = "read"
      /\ decrypting' = NextBuffer(decrypting, received.blocks)
      /\ UNCHANGED <<list, encrypting, encrypted, received, decrypted>>
  BY DEF ReadCipher
<1>2. /\ decrypting \in Work /\ received.blocks \in Seq(Block)
      /\ Len(received.blocks) \in Nat /\ Len(decrypted.blocks) \in Nat
      /\ decrypting.at \in Nat
  BY <1>0, DecTypes
<1>3. /\ decrypting.at = Len(decrypted.blocks)
      /\ decrypting.previous = Before(received.blocks, Len(decrypted.blocks) + 1)
      /\ received.pad = list.pad
      /\ Len(decrypted.blocks) <= Len(received.blocks)
  BY <1>0, <1>1 DEF DecInv, DecAt, DecFile
<1>4. EncInv' /\ RecvInv'
  BY <1>0, <1>1, ServerUnchanged
<1>5. DecFile'
  BY <1>0, <1>1 DEF DecFile
<1>6. CASE decrypting.at = Len(received.blocks)
  <2>1. decrypting' = [decrypting EXCEPT !.pc = "done"]
    BY <1>1, <1>2, <1>6, FileRead
  <2>2. /\ decrypting' \in Work /\ decrypting'.pc = "done" /\ decrypting'.at = decrypting.at
        /\ decrypting'.previous = decrypting.previous
    BY <1>2, <2>1 DEF Work
  <2>3. TypeOK'
    BY <1>0, <1>1, <2>2 DEF TypeOK
  <2>4. DecAt' /\ DecBuffer'
    BY <1>1, <1>3, <1>6, <2>2 DEF DecAt, DecBuffer
  <2> QED
    BY <1>4, <1>5, <2>3, <2>4 DEF IInv, DecInv
<1>7. CASE decrypting.at < Len(received.blocks)
  <2>1. /\ decrypting' \in Work
        /\ decrypting'.pc = "blocks" /\ decrypting'.turn = 0
        /\ decrypting'.previous = decrypting.previous
        /\ decrypting'.at = decrypting.at + Len(decrypting'.buffer)
        /\ decrypting'.at <= Len(received.blocks)
        /\ Len(decrypting'.buffer) > 0
        /\ \A j \in 1 .. Len(decrypting'.buffer) :
              decrypting'.buffer[j] = received.blocks[decrypting.at + j]
    BY <1>1, <1>2, <1>7, BufferRead
  <2>2. Len(decrypting'.buffer) \in Nat
    BY <2>1, LenProperties DEF Work
  <2>3. BufferBack(list.blocks, received.blocks, decrypted.blocks, decrypting'.buffer, 0)
    BY SMTT(30), <1>3, <2>1, <2>2 DEF BufferBack
  <2>4. Decrypting(list.blocks, received.blocks, decrypted.blocks, decrypting')
    <3>1. decrypting'.previous = Before(received.blocks, Len(decrypted.blocks) + 0 + 1)
      BY <1>2, <1>3, <2>1
    <3>2. /\ decrypting'.at = Len(decrypted.blocks) + Len(decrypting'.buffer)
          /\ decrypting'.turn <= Len(decrypting'.buffer) /\ Len(decrypting'.buffer) # 0
      BY <1>3, <2>1, <2>2
    <3> QED
      BY <2>1, <2>3, <3>1, <3>2 DEF Decrypting
  <2>5. DecAt' /\ DecBuffer'
    BY <1>1, <1>3, <2>1, <2>4 DEF DecAt, DecBuffer
  <2>6. TypeOK'
    BY <1>0, <1>1, <2>1 DEF TypeOK
  <2> QED
    BY <1>4, <1>5, <2>5, <2>6 DEF IInv, DecInv
<1> QED
  BY <1>2, <1>3, <1>6, <1>7

LEMMA DecryptBlockInv == IInv /\ DecryptBlock => IInv'
<1> SUFFICES ASSUME IInv, DecryptBlock PROVE IInv'
  OBVIOUS
<1>0. TypeOK /\ EncInv /\ EncFile /\ RecvInv /\ DecInv /\ DecFile
  BY DEF IInv, EncInv, DecInv
<1> PICK c, b : c = NextBlock(decrypting) /\ b = Decrypted(c, decrypting.previous)
  OBVIOUS
<1>1. /\ HasTurn(decrypting)
      /\ decrypting' = Turned(decrypting, b, c)
      /\ UNCHANGED <<list, encrypting, encrypted, received, decrypted>>
  BY DEF DecryptBlock
<1>2. /\ decrypting \in Work /\ decrypting.turn \in Nat /\ decrypting.previous \in Block
      /\ list.blocks \in Seq(Block) /\ Len(list.blocks) \in Nat
      /\ Len(encrypted.blocks) \in Nat /\ Len(received.blocks) \in Nat
      /\ Len(decrypted.blocks) \in Nat /\ Len(decrypting.buffer) \in Nat
  BY <1>0, DecTypes
<1>3. decrypting.pc = "blocks" /\ decrypting.turn < Len(decrypting.buffer)
  BY <1>1 DEF HasTurn
<1>4. /\ decrypting.at = Len(decrypted.blocks) + Len(decrypting.buffer)
      /\ decrypting.at <= Len(received.blocks)
      /\ Len(decrypting.buffer) # 0
      /\ decrypting.previous =
           Before(received.blocks, Len(decrypted.blocks) + decrypting.turn + 1)
      /\ BufferBack(list.blocks, received.blocks, decrypted.blocks, decrypting.buffer,
                    decrypting.turn)
  BY <1>0, <1>3 DEF DecInv, DecBuffer, Decrypting
<1>5. c \in Block /\ b \in Block
  <2>1. NextBlock(decrypting) \in Block
    BY <1>1, <1>2, Turn
  <2> QED
    BY <1>2, <2>1, BlockTypes
<1>6. /\ decrypting' \in Work
      /\ decrypting'.pc = "blocks" /\ decrypting'.turn = decrypting.turn + 1
      /\ decrypting'.previous = c /\ decrypting'.at = decrypting.at
      /\ Len(decrypting'.buffer) = Len(decrypting.buffer)
      /\ \A j \in 1 .. Len(decrypting.buffer) :
            decrypting'.buffer[j] =
              IF j = decrypting.turn + 1 THEN b ELSE decrypting.buffer[j]
      /\ decrypting.turn + 1 \in 1 .. Len(decrypting.buffer)
  BY <1>1, <1>2, <1>5, Turn
<1>7. EncInv' /\ RecvInv'
  BY <1>0, <1>1, <1>3, ServerUnchanged
<1>8. Chained(list.blocks, received.blocks) /\ Len(received.blocks) <= Len(list.blocks)
  <2>1. /\ Chained(list.blocks, encrypted.blocks)
        /\ Len(encrypted.blocks) <= Len(list.blocks)
        /\ Len(received.blocks) <= Len(encrypted.blocks)
        /\ \A i \in 1 .. Len(received.blocks) : received.blocks[i] = encrypted.blocks[i]
    BY <1>0 DEF EncFile, RecvInv
  <2>2. Chained(list.blocks, received.blocks)
    BY <1>2, <2>1, BeginningChained
  <2> QED
    BY <1>2, <2>1, <2>2
<1>9. /\ BufferBack(list.blocks, received.blocks, decrypted.blocks, decrypting'.buffer,
                    decrypting.turn + 1)
      /\ decrypting.buffer[decrypting.turn + 1] =
           Before(received.blocks, Len(decrypted.blocks) + (decrypting.turn + 1) + 1)
  <2>1. c = decrypting.buffer[decrypting.turn + 1]
    BY DEF NextBlock
  <2>2. Len(decrypted.blocks) + Len(decrypting.buffer) <= Len(received.blocks)
    BY <1>4
  <2>3. \A j \in 1 .. Len(decrypting.buffer) :
          decrypting'.buffer[j] =
            IF j = decrypting.turn + 1
            THEN Decrypted(decrypting.buffer[decrypting.turn + 1], decrypting.previous)
            ELSE decrypting.buffer[j]
    BY <1>6, <2>1
  <2>4. TurnedBack(list.blocks, received.blocks, decrypted.blocks, decrypting.buffer,
                   decrypting'.buffer, decrypting.turn, decrypting.previous)
    BY <1>2, <1>4, <1>6, <1>8, <2>2, <2>3 DEF TurnedBack
  <2> QED
    BY <2>4, TurnBack
<1>10. c = Before(received.blocks, Len(decrypted.blocks) + decrypting'.turn + 1)
  <2>1. c = Before(received.blocks, Len(decrypted.blocks) + (decrypting.turn + 1) + 1)
    BY <1>9 DEF NextBlock
  <2> QED
    BY <1>6, <2>1
<1>11. Decrypting(list.blocks, received.blocks, decrypted.blocks, decrypting')
  <2>1. decrypting.turn + 1 <= Len(decrypting.buffer)
    BY <1>2, <1>3
  <2> QED
    BY <1>4, <1>6, <1>9, <1>10, <2>1 DEF Decrypting
<1>12. received.pad = list.pad
  BY <1>0, <1>3 DEF DecInv, DecAt
<1>13. DecInv'
  BY <1>0, <1>1, <1>6, <1>11, <1>12 DEF DecInv, DecFile, DecAt, DecBuffer
<1>14. TypeOK'
  BY <1>0, <1>1, <1>6 DEF TypeOK
<1> QED
  BY <1>7, <1>13, <1>14 DEF IInv

LEMMA WritePlainInv == IInv /\ WritePlain => IInv'
<1> SUFFICES ASSUME IInv, WritePlain PROVE IInv'
  OBVIOUS
<1>0. TypeOK /\ EncInv /\ RecvInv /\ DecInv /\ DecFile
  BY DEF IInv, DecInv
<1>1. /\ decrypting.pc = "blocks" /\ decrypting.turn = Len(decrypting.buffer)
      /\ decrypted' = [blocks |-> decrypted.blocks \o decrypting.buffer,
                       drop |-> IF decrypting.at = Len(received.blocks)
                                THEN received.pad ELSE decrypted.drop]
      /\ decrypting' = [decrypting EXCEPT !.pc = "read"]
      /\ UNCHANGED <<list, encrypting, encrypted, received>>
  BY DEF WritePlain, BufferDone
<1>2. /\ decrypting \in Work /\ decrypted.blocks \in Seq(Block)
      /\ decrypting.buffer \in Seq(Block)
      /\ Len(received.blocks) \in Nat
      /\ Len(decrypted.blocks) \in Nat /\ Len(decrypting.buffer) \in Nat
  BY <1>0, DecTypes
<1>3. /\ decrypting.at = Len(decrypted.blocks) + Len(decrypting.buffer)
      /\ decrypting.at <= Len(received.blocks)
      /\ Len(decrypting.buffer) # 0
      /\ decrypting.previous =
           Before(received.blocks, Len(decrypted.blocks) + decrypting.turn + 1)
      /\ BufferBack(list.blocks, received.blocks, decrypted.blocks, decrypting.buffer,
                    decrypting.turn)
  BY <1>0, <1>1 DEF DecInv, DecBuffer, Decrypting
<1>4. /\ received.pad = list.pad /\ list.pad \in Paddings
      /\ decrypted.drop \in Paddings
      /\ \A i \in 1 .. Len(decrypted.blocks) : decrypted.blocks[i] = list.blocks[i]
      /\ decrypted.drop = IF Len(decrypted.blocks) = Len(received.blocks)
                             /\ Len(decrypted.blocks) # 0
                          THEN list.pad ELSE 0
  BY <1>0, <1>1 DEF DecInv, DecAt, DecFile, TypeOK
<1>5. /\ decrypting' \in Work /\ decrypting'.pc = "read" /\ decrypting'.at = decrypting.at
      /\ decrypting'.previous = decrypting.previous
  BY <1>1, <1>2 DEF Work
<1>6. /\ decrypted'.blocks = decrypted.blocks \o decrypting.buffer
      /\ decrypted'.drop = IF decrypting.at = Len(received.blocks)
                           THEN list.pad ELSE decrypted.drop
  BY <1>1, <1>4
<1>7. /\ decrypted'.blocks \in Seq(Block)
      /\ Len(decrypted'.blocks) = Len(decrypted.blocks) + Len(decrypting.buffer)
      /\ Len(decrypted'.blocks) \in Nat /\ Len(decrypted'.blocks) # 0
      /\ Len(decrypted'.blocks) <= Len(received.blocks)
      /\ \A i \in 1 .. Len(decrypted'.blocks) : decrypted'.blocks[i] = list.blocks[i]
      /\ Len(decrypted.blocks) # Len(received.blocks)
  <2>1. Len(decrypted.blocks) + Len(decrypting.buffer) <= Len(received.blocks)
    BY <1>3
  <2>2. BufferBack(list.blocks, received.blocks, decrypted.blocks, decrypting.buffer,
                   Len(decrypting.buffer))
    BY <1>1, <1>3
  <2>3. FullyBack(list.blocks, received.blocks, decrypted.blocks, decrypting.buffer,
                  decrypted'.blocks)
    BY <1>2, <1>3, <1>4, <1>6, <2>1, <2>2 DEF FullyBack
  <2>4. IsBack(list.blocks, received.blocks, decrypted.blocks, decrypting.buffer,
               decrypted'.blocks)
    BY <2>3, WrittenBack
  <2> QED
    BY <2>4 DEF IsBack
<1>8. decrypted'.drop \in Paddings /\
      decrypted' = [blocks |-> decrypted'.blocks, drop |-> decrypted'.drop]
  BY <1>1, <1>4
<1>9. EncInv' /\ RecvInv'
  BY <1>0, <1>1, ServerUnchanged
<1>10. TypeOK'
  <2>1. decrypted' \in [blocks : Seq(Block), drop : Paddings]
    BY <1>7, <1>8
  <2> QED
    BY <1>0, <1>1, <1>5, <2>1 DEF TypeOK
<1>11. DecFile'
  <2>1. decrypting.at = Len(decrypted'.blocks)
    BY <1>3, <1>7
  <2>2. decrypted'.drop = IF Len(decrypted'.blocks) = Len(received.blocks)
                             /\ Len(decrypted'.blocks) # 0
                          THEN list.pad ELSE 0
    BY <1>4, <1>6, <1>7, <2>1
  <2> QED
    BY <1>1, <1>7, <2>2 DEF DecFile
<1>12. DecAt' /\ DecBuffer'
  <2>1. decrypting'.at = Len(decrypted'.blocks)
    BY <1>3, <1>5, <1>7
  <2>2. Len(decrypted.blocks) + decrypting.turn = Len(decrypted'.blocks)
    BY <1>1, <1>7
  <2>3. decrypting'.previous = Before(received.blocks, Len(decrypted'.blocks) + 1)
    BY <1>3, <1>5, <2>2
  <2> QED
    BY <1>1, <1>4, <1>5, <2>1, <2>3 DEF DecAt, DecBuffer
<1> QED
  BY <1>9, <1>10, <1>11, <1>12 DEF IInv, DecInv

-----------------------------------------------------------------------------
LEMMA IInvPreserved == IInv /\ [Next]_vars => IInv'
<1> SUFFICES ASSUME IInv, [Next]_vars PROVE IInv'
  OBVIOUS
<1>1. CASE Next
  BY <1>1, WritePaddingInv, ReadPlainInv, EncryptBlockInv, WriteCipherInv, EncryptFailsInv,
     TransferInv, CheckSizeInv, ReadCipherInv, DecryptBlockInv, WritePlainInv,
     DecryptFailsInv DEF Next
<1>2. CASE UNCHANGED vars
  BY <1>2 DEF vars, IInv, TypeOK, EncInv, EncFile, EncAt, EncBuffer, RecvInv, DecInv,
              DecFile, DecAt, DecBuffer
<1> QED
  BY <1>1, <1>2

LEMMA IInvHolds == Spec => []IInv
BY InitInv, IInvPreserved, PTL DEF Spec

(* Every variable keeps its type; in particular no number of filler bytes    *)
(* that reaches the client is one it would end on.                           *)
THEOREM CryptographyTypes == Spec => []TypeOK
<1>1. IInv => TypeOK
  BY DEF IInv
<1> QED
  BY <1>1, IInvHolds, PTL

LEMMA WholeWritten ==
  ASSUME IInv, Len(decrypted.blocks) = Len(list.blocks)
  PROVE  decrypted.drop = list.pad
<1>0. TypeOK /\ EncFile /\ RecvInv /\ DecFile
  BY DEF IInv, EncInv, DecInv
<1>1. /\ list.blocks \in Seq(Block) /\ Len(list.blocks) \in Nat
      /\ Len(encrypted.blocks) \in Nat /\ Len(received.blocks) \in Nat
      /\ Len(decrypted.blocks) \in Nat
  BY <1>0, DecTypes
<1>2. /\ Len(decrypted.blocks) <= Len(received.blocks)
      /\ Len(received.blocks) <= Len(encrypted.blocks)
      /\ Len(encrypted.blocks) <= Len(list.blocks)
  BY <1>0 DEF EncFile, RecvInv, DecFile
<1>3. Len(decrypted.blocks) = Len(received.blocks)
  BY <1>1, <1>2
<1>4. Len(list.blocks) = 0 => list.pad = 0
  BY <1>0, <1>1, EmptySeq DEF EncFile
<1> QED
  BY <1>0, <1>3, <1>4 DEF DecFile

(* Whatever the client has decrypted is the beginning of the list, for every *)
(* length of a block, a buffer and a list, and wherever either side failed.  *)
THEOREM PrefixCorrect == Spec => []PrefixOnly
<1>1. IInv => PrefixOnly
  <2> SUFFICES ASSUME IInv PROVE PrefixOnly
    OBVIOUS
  <2>0. TypeOK /\ EncFile /\ RecvInv /\ DecFile
    BY DEF IInv, EncInv, DecInv
  <2>1. /\ Len(list.blocks) \in Nat /\ Len(encrypted.blocks) \in Nat
        /\ Len(received.blocks) \in Nat /\ Len(decrypted.blocks) \in Nat
    BY <2>0, DecTypes
  <2>2. Len(decrypted.blocks) <= Len(list.blocks)
    BY <2>0, <2>1 DEF EncFile, RecvInv, DecFile
  <2> QED
    BY <2>0, <2>2, WholeWritten DEF DecFile, PrefixOnly
<1> QED
  BY <1>1, IInvHolds, PTL

(* A list that was encrypted, sent and decrypted without an error is the     *)
(* list, for every key and every length.                                     *)
THEOREM RoundTripCorrect == Spec => []RoundTrip
<1>1. IInv => RoundTrip
  <2> SUFFICES ASSUME IInv, encrypting.pc = "done", decrypting.pc = "done",
                      Len(received.blocks) = Len(encrypted.blocks)
               PROVE  decrypted = [blocks |-> list.blocks, drop |-> list.pad]
    BY DEF RoundTrip
  <2>0. TypeOK /\ EncAt /\ DecFile /\ DecAt
    BY DEF IInv, EncInv, DecInv
  <2>1. /\ decrypted.blocks \in Seq(Block) /\ list.blocks \in Seq(Block)
        /\ decrypted = [blocks |-> decrypted.blocks, drop |-> decrypted.drop]
    BY <2>0 DEF TypeOK
  <2>2. Len(decrypted.blocks) = Len(list.blocks)
    BY <2>0 DEF EncAt, DecAt
  <2>3. \A i \in 1 .. Len(list.blocks) : decrypted.blocks[i] = list.blocks[i]
    BY <2>0, <2>2 DEF DecFile
  <2>4. decrypted.blocks = list.blocks
    BY <2>1, <2>2, <2>3, SeqEqual
  <2>5. decrypted.drop = list.pad
    BY <2>2, WholeWritten
  <2> QED
    BY <2>1, <2>4, <2>5
<1> QED
  BY <1>1, IInvHolds, PTL

=============================================================================
