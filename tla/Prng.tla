-------------------------------- MODULE Prng --------------------------------
(***************************************************************************)
(* PRNG of cryptoTools (Crypto/PRNG.cpp, PRNG.h): the generator behind the *)
(* database, the dealer's secrets and the roots of the trees.  It encrypts *)
(* a counter into a buffer of whole blocks and hands out its bytes in      *)
(* requests of any length.  Both servers rely on getting the same bytes    *)
(* from the same seed, whatever the buffer and the requests.               *)
(*                                                                         *)
(* A byte stands for its place in the counter-mode stream: the seed, the   *)
(* counter, and the position in the block AES_seed(counter).               *)
(***************************************************************************)
EXTENDS Integers

CONSTANTS
  Seeds,       \* the seeds considered
  NoSeed,      \* the state before the first SetSeed
  BlockBytes,  \* bytes in an AES block, 16
  BufferSizes, \* the buffer sizes asked for, in blocks
  Lengths,     \* the lengths requested, in bytes
  MaxBytes     \* bound: bytes taken since the last SetSeed

ASSUME PrngAssumption ==
  /\ BlockBytes \in Nat \ {0}
  /\ BufferSizes \subseteq Nat \ {0}
  /\ Lengths \subseteq Nat
  /\ MaxBytes \in Nat
  /\ NoSeed \notin Seeds

VARIABLES
  seed,       \* the key of mAes
  blocks,     \* mBuffer.size()
  mBuffer,    \* its bytes
  mBlockIdx, mBytesIdx, mBufferByteCapacity,
  lengthu8,   \* bytes the running get() has still to copy
  got,        \* bytes handed out since the last SetSeed,
  taken       \* and, as a history, which ones

buffer == <<blocks, mBuffer, mBufferByteCapacity, mBlockIdx, mBytesIdx>>
given  == <<got, taken>>
prngVars   == <<seed, buffer, lengthu8, given>>

\* The bytes of the blocks from counter on, and all of them.
Cipher(s, counter, j) == <<s, counter + (j \div BlockBytes), j % BlockBytes>>
Stream(s, k)          == Cipher(s, 0, k)

PrngInit ==
  /\ seed = NoSeed
  /\ blocks = 0
  /\ mBuffer = [j \in {} |-> 0]
  /\ mBlockIdx = 0 /\ mBytesIdx = 0 /\ mBufferByteCapacity = 0
  /\ lengthu8 = 0
  /\ got = 0
  /\ taken = [k \in {} |-> 0]

\* Variant: the counter stays.
RefillSameCounter(s, n, counter) ==
  /\ mBuffer' = [j \in 0 .. n * BlockBytes - 1 |-> Cipher(s, counter, j)]
  /\ mBlockIdx' = counter
  /\ mBytesIdx' = 0

\* refillBuffer: n blocks, encrypted from this counter on.
RefillBuffer(s, n, counter) ==
  /\ mBuffer' = [j \in 0 .. n * BlockBytes - 1 |-> Cipher(s, counter, j)]
  /\ mBlockIdx' = counter + n
  /\ mBytesIdx' = 0

\* Variant: the buffer takes the new size, its capacity is set the first time
\* only.
SetSeedResized(s, bufferSize) ==
  /\ lengthu8 = 0
  /\ seed' = s
  /\ blocks' = bufferSize
  /\ mBufferByteCapacity' =
       IF blocks = 0 THEN bufferSize * BlockBytes ELSE mBufferByteCapacity
  /\ RefillBuffer(s, bufferSize, 0)
  /\ got' = 0
  /\ taken' = [k \in {} |-> 0]
  /\ UNCHANGED lengthu8

\* A generator that was seeded before keeps its buffer in the first size.
SetSeed(s, bufferSize) ==
  LET n == IF blocks = 0 THEN bufferSize ELSE blocks IN
  /\ lengthu8 = 0
  /\ seed' = s
  /\ blocks' = n
  /\ mBufferByteCapacity' = n * BlockBytes
  /\ RefillBuffer(s, n, 0)
  /\ got' = 0
  /\ taken' = [k \in {} |-> 0]
  /\ UNCHANGED lengthu8

\* get(dest, length) is called.
Get(length) ==
  /\ seed # NoSeed
  /\ lengthu8 = 0
  /\ got + length <= MaxBytes
  /\ lengthu8' = length
  /\ UNCHANGED <<seed, buffer, given>>

Left == mBufferByteCapacity - mBytesIdx

\* Variant: a copy stops one byte short of the end of the buffer.
StepShort(length) == IF length < Left THEN length ELSE Left - 1

\* What one memcpy takes: what is asked for, or what the buffer still has.
Step(length) == IF length <= Left THEN length ELSE Left

\* One turn of get()'s loop: copy, and refill at the end of the buffer.
Copy ==
  /\ lengthu8 > 0
  /\ got' = got + Step(lengthu8)
  /\ taken' = [k \in 0 .. got + Step(lengthu8) - 1 |->
                 IF k < got THEN taken[k] ELSE mBuffer[mBytesIdx + k - got]]
  /\ lengthu8' = lengthu8 - Step(lengthu8)
  /\ IF mBytesIdx + Step(lengthu8) = mBufferByteCapacity
     THEN RefillBuffer(seed, blocks, mBlockIdx)
     ELSE /\ mBytesIdx' = mBytesIdx + Step(lengthu8)
          /\ UNCHANGED <<mBuffer, mBlockIdx>>
  /\ UNCHANGED <<seed, blocks, mBufferByteCapacity>>

PrngNext ==
  \/ \E s \in Seeds, n \in BufferSizes : SetSeed(s, n)
  \/ \E length \in Lengths : Get(length)
  \/ Copy

PrngSpec == PrngInit /\ [][PrngNext]_prngVars
PrngFairSpec == PrngSpec /\ WF_prngVars(Copy)
-----------------------------------------------------------------------------
(***************************************************************************)
(* Types; the index never reaches the end of a seeded buffer.              *)
(***************************************************************************)
PrngTypeOK ==
  /\ seed \in Seeds \cup {NoSeed}
  /\ blocks \in BufferSizes \cup {0}
  /\ mBufferByteCapacity = blocks * BlockBytes
  /\ DOMAIN mBuffer = 0 .. mBufferByteCapacity - 1
  /\ mBlockIdx \in Nat
  /\ mBytesIdx \in 0 .. mBufferByteCapacity
  /\ seed # NoSeed => mBytesIdx < mBufferByteCapacity
  /\ lengthu8 \in Nat
  /\ got \in Nat
  /\ DOMAIN taken = 0 .. got - 1

(***************************************************************************)
(* The bytes handed out are the seed's stream from its first byte, none    *)
(* left out and none repeated, whatever the size of the buffer and however *)
(* the requests cut across its end, also after seeding anew.  So two       *)
(* programs with the same seed get the same bytes: the two servers have    *)
(* one database.                                                           *)
(***************************************************************************)
StreamContinues == \A k \in 0 .. got - 1 : taken[k] = Stream(seed, k)

(***************************************************************************)
(* Every request is answered: each turn of get()'s loop gets ahead, since  *)
(* it never begins at the end of the buffer.                               *)
(***************************************************************************)
Answered == lengthu8 > 0 ~> lengthu8 = 0
=============================================================================
