---------------------------- MODULE Cryptography ----------------------------
(***************************************************************************)
(* The library that hides a file list on its way from the server of the    *)
(* folder downloader to its client (src/DownLoadFolder/MaHoa/MaHoa/        *)
(* Cryptography/Crypto.cpp, Encryption.cpp, Decryption.cpp).               *)
(*                                                                         *)
(* A list is encrypted in blocks of KEY_LENGTH bytes, each chained to the  *)
(* one before, read and written a buffer of several blocks at a time; the  *)
(* last block is filled up, and by how much is written in front.  Neither  *)
(* side knows how long the other's file should be.  The server sends the   *)
(* encrypted list whether or not encrypting it has succeeded, and the      *)
(* client decrypts whatever lies under the name of its list.               *)
(***************************************************************************)
EXTENDS Naturals, Sequences

CONSTANTS
  Byte,        \* the values of a byte
  Xor,         \* exclusive or: Xor[a][b]
  KEY_LENGTH,  \* the bytes of a block
  Key, IV,     \* m_pcKey and m_pcIV
  Eof,         \* the byte a last block is filled up with
  BufferLen,   \* the blocks of a buffer
  MaxBlocks    \* bound: the blocks of a list

Index == 1 .. KEY_LENGTH
Paddings == 0 .. KEY_LENGTH - 1
Block == [Index -> Byte]

ASSUME CryptoAssumption ==
  /\ KEY_LENGTH \in Nat \ {0}
  /\ BufferLen \in Nat \ {0}
  /\ MaxBlocks \in Nat
  /\ Eof \in Byte
  /\ Key \in Block /\ IV \in Block
  /\ Xor \in [Byte -> [Byte -> Byte]]
  /\ \A a, b \in Byte : Xor[Xor[a][b]][b] = a

VARIABLES
  list,       \* the file to encrypt: its blocks, the last one filled up by pad bytes
  encrypting, \* CEncryption::ExecuteFile
  encrypted,  \* the file it writes
  received,   \* the client's copy of that file
  decrypting, \* CDecryption::ExecuteFile
  decrypted   \* the file it writes: drop bytes of its last block are not written

vars == <<list, encrypting, encrypted, received, decrypting, decrypted>>

-----------------------------------------------------------------------------
(* Crypto.cpp *)

XorBuffers(b, c) == [i \in Index |-> Xor[b[i]][c[i]]]

(* The bytes in reverse order *)
SwapBuffer(b) == [i \in Index |-> b[KEY_LENGTH + 1 - i]]

(* One turn of ExecuteManyBlocks: previous is the encrypted block before *)
Encrypted(b, previous) == SwapBuffer(XorBuffers(XorBuffers(b, previous), Key))
Decrypted(b, previous) == XorBuffers(XorBuffers(SwapBuffer(b), Key), previous)

-----------------------------------------------------------------------------
NoHeader == KEY_LENGTH + 1  \* no file has a padding yet

Filled(blocks, pad) ==
  IF blocks = <<>>
  THEN pad = 0
  ELSE \A i \in Index : i > KEY_LENGTH - pad => blocks[Len(blocks)][i] = Eof

BlocksUpTo(n) == UNION {[1 .. k -> Block] : k \in 0 .. n}

Lists == {l \in [blocks : BlocksUpTo(MaxBlocks), pad : Paddings] :
            Filled(l.blocks, l.pad)}

(* Work at one of the two files: the blocks read so far, the buffer, how many *)
(* blocks of it ExecuteManyBlocks has been through, the encrypted block before *)
Started == [pc |-> "open", at |-> 0, buffer |-> <<>>, turn |-> 0, previous |-> IV]

Init ==
  /\ list \in Lists
  /\ encrypting = Started
  /\ encrypted = [pad |-> NoHeader, blocks |-> <<>>]
  /\ received = [pad |-> NoHeader, blocks |-> <<>>, torn |-> FALSE]
  /\ decrypting = Started
  /\ decrypted = [blocks |-> <<>>, drop |-> 0]

(* Plausible bug: a buffer that is not full is taken for the end of the file *)
NextBuffer_FullOnly(work, blocks) ==
  LET rest == Len(blocks) - work.at
  IN IF rest < BufferLen
     THEN [work EXCEPT !.pc = "done"]
     ELSE [work EXCEPT !.pc = "blocks", !.at = @ + BufferLen, !.turn = 0,
                       !.buffer = SubSeq(blocks, work.at + 1, work.at + BufferLen)]

(* ReadFile: the next buffer of the file, or its end *)
NextBuffer(work, blocks) ==
  LET rest == Len(blocks) - work.at
      n == IF rest < BufferLen THEN rest ELSE BufferLen
  IN IF rest = 0
     THEN [work EXCEPT !.pc = "done"]
     ELSE [work EXCEPT !.pc = "blocks", !.at = @ + n, !.turn = 0,
                       !.buffer = SubSeq(blocks, work.at + 1, work.at + n)]

HasTurn(work) == work.pc = "blocks" /\ work.turn < Len(work.buffer)
NextBlock(work) == work.buffer[work.turn + 1]

(* The block of this turn has become b. *)
Turned(work, b, previous) ==
  [work EXCEPT !.buffer[work.turn + 1] = b, !.turn = @ + 1, !.previous = previous]

BufferDone(work) == work.pc = "blocks" /\ work.turn = Len(work.buffer)

-----------------------------------------------------------------------------
(* The server *)

(* Plausible bug: a list that needs no filler gets a block of it *)
WritePadding_Always ==
  /\ encrypting.pc = "open"
  /\ encrypted' = [encrypted EXCEPT !.pad = IF list.pad = 0 THEN KEY_LENGTH ELSE list.pad]
  /\ encrypting' = [encrypting EXCEPT !.pc = "read"]
  /\ UNCHANGED <<list, received, decrypting, decrypted>>

(* The number of filler bytes goes first. *)
WritePadding ==
  /\ encrypting.pc = "open"
  /\ encrypted' = [encrypted EXCEPT !.pad = list.pad]
  /\ encrypting' = [encrypting EXCEPT !.pc = "read"]
  /\ UNCHANGED <<list, received, decrypting, decrypted>>

ReadPlain ==
  /\ encrypting.pc = "read"
  /\ encrypting' = NextBuffer(encrypting, list.blocks)
  /\ UNCHANGED <<list, encrypted, received, decrypting, decrypted>>

EncryptBlock ==
  /\ HasTurn(encrypting)
  /\ LET c == Encrypted(NextBlock(encrypting), encrypting.previous)
     IN encrypting' = Turned(encrypting, c, c)
  /\ UNCHANGED <<list, encrypted, received, decrypting, decrypted>>

WriteCipher ==
  /\ BufferDone(encrypting)
  /\ encrypted' = [encrypted EXCEPT !.blocks = @ \o encrypting.buffer]
  /\ encrypting' = [encrypting EXCEPT !.pc = "read"]
  /\ UNCHANGED <<list, received, decrypting, decrypted>>

(* A ReadFile or WriteFile fails: both files are closed as they are. *)
EncryptFails ==
  /\ encrypting.pc \in {"open", "read", "blocks"}
  /\ encrypting' = [encrypting EXCEPT !.pc = "failed"]
  /\ UNCHANGED <<list, encrypted, received, decrypting, decrypted>>

-----------------------------------------------------------------------------
(* The server sends the file in any case; what the client finds under the    *)
(* name of its list when it decrypts is that file as far as it has come,     *)
(* perhaps cut within a block or within the header.                          *)
Transfer ==
  /\ encrypting.pc \in {"done", "failed"}
  /\ decrypting.pc = "open"
  /\ \E n \in 0 .. Len(encrypted.blocks), torn \in BOOLEAN, header \in BOOLEAN :
       /\ ~header => n = 0 /\ ~torn
       /\ torn => n < Len(encrypted.blocks)
       /\ received' = [pad |-> IF header THEN encrypted.pad ELSE NoHeader,
                       blocks |-> SubSeq(encrypted.blocks, 1, n),
                       torn |-> torn]
  /\ decrypting' = [decrypting EXCEPT !.pc = "size"]
  /\ UNCHANGED <<list, encrypting, encrypted, decrypted>>

-----------------------------------------------------------------------------
(* The client *)

(* A file that is not a header and a number of blocks is refused.  A number  *)
(* of filler bytes that fills a block is thrown as an int, which ExecuteFile *)
(* does not catch: the program ends.                                         *)
CheckSize ==
  /\ decrypting.pc = "size"
  /\ decrypting' = [decrypting EXCEPT !.pc =
                      IF received.torn \/ received.pad = NoHeader THEN "failed"
                      ELSE IF received.pad > KEY_LENGTH - 1 THEN "died"
                      ELSE "read"]
  /\ UNCHANGED <<list, encrypting, encrypted, received, decrypted>>

ReadCipher ==
  /\ decrypting.pc = "read"
  /\ decrypting' = NextBuffer(decrypting, received.blocks)
  /\ UNCHANGED <<list, encrypting, encrypted, received, decrypted>>

(* Plausible bug: the block is not saved before it is decrypted in its place *)
DecryptBlock_NotSaved ==
  /\ HasTurn(decrypting)
  /\ LET b == Decrypted(NextBlock(decrypting), decrypting.previous)
     IN decrypting' = Turned(decrypting, b, b)
  /\ UNCHANGED <<list, encrypting, encrypted, received, decrypted>>

DecryptBlock ==
  /\ HasTurn(decrypting)
  /\ LET c == NextBlock(decrypting)
     IN decrypting' = Turned(decrypting, Decrypted(c, decrypting.previous), c)
  /\ UNCHANGED <<list, encrypting, encrypted, received, decrypted>>

(* Behind the last block of the file that there is, the filler is left out. *)
WritePlain ==
  /\ BufferDone(decrypting)
  /\ decrypted' = [blocks |-> decrypted.blocks \o decrypting.buffer,
                   drop |-> IF decrypting.at = Len(received.blocks)
                            THEN received.pad ELSE decrypted.drop]
  /\ decrypting' = [decrypting EXCEPT !.pc = "read"]
  /\ UNCHANGED <<list, encrypting, encrypted, received>>

DecryptFails ==
  /\ decrypting.pc \in {"size", "read", "blocks"}
  /\ decrypting' = [decrypting EXCEPT !.pc = "failed"]
  /\ UNCHANGED <<list, encrypting, encrypted, received, decrypted>>

-----------------------------------------------------------------------------
Next ==
  \/ WritePadding \/ ReadPlain \/ EncryptBlock \/ WriteCipher \/ EncryptFails
  \/ Transfer
  \/ CheckSize \/ ReadCipher \/ DecryptBlock \/ WritePlain \/ DecryptFails

Spec == Init /\ [][Next]_vars

-----------------------------------------------------------------------------
(* Properties *)

Work == [pc : {"open", "size", "read", "blocks", "done", "failed"},
         at : Nat, buffer : Seq(Block), turn : Nat, previous : Block]

(* Every variable has its type; in particular the number of filler bytes     *)
(* that reaches the client never ends its program.                           *)
TypeOK ==
  /\ list \in [blocks : Seq(Block), pad : Paddings]
  /\ encrypting \in Work
  /\ encrypted \in [pad : Paddings \cup {NoHeader}, blocks : Seq(Block)]
  /\ received \in [pad : Paddings \cup {NoHeader}, blocks : Seq(Block), torn : BOOLEAN]
  /\ decrypting \in Work
  /\ decrypted \in [blocks : Seq(Block), drop : Paddings]

(* What has been decrypted is the beginning of the list, without filler,     *)
(* wherever encrypting stopped, wherever the file was cut and however its    *)
(* blocks fall into buffers.                                                 *)
PrefixOnly ==
  /\ Len(decrypted.blocks) <= Len(list.blocks)
  /\ \A i \in 1 .. Len(decrypted.blocks) : decrypted.blocks[i] = list.blocks[i]
  /\ Len(decrypted.blocks) = Len(list.blocks) => decrypted.drop = list.pad

(* An encrypted list that was written and received whole is decrypted to the *)
(* list.                                                                     *)
RoundTrip ==
  encrypting.pc = "done" /\ decrypting.pc = "done"
  /\ Len(received.blocks) = Len(encrypted.blocks)
    => decrypted = [blocks |-> list.blocks, drop |-> list.pad]

=============================================================================
