------------------------------ MODULE Hashers ------------------------------
(***************************************************************************)
(* The hash functions: Keccak-256 (keccak-256-hasher.cpp, keccakf.hpp) and *)
(* SHA-256 (sha-256-hasher.cpp), and the queues that feed them in batches  *)
(* (simd-hasher.hpp), with the standards' definitions beside them.  A word *)
(* is the set of its bits that are one; a message, a sequence of bytes.    *)
(* The lanes of a vector are independent, so a batch is a sequence of      *)
(* messages hashed one by one.                                             *)
(***************************************************************************)
EXTENDS Integers, Sequences, FiniteSets, SequencesExt

Xor(u, v) == (u \ v) \union (v \ u)
Rotate(w, k, n) == {(b + k) % n : b \in w}
\* The sequence s, evaluated.
Tuple(s) == s \o <<>>
\* The member of a set of one, which is evaluated first.
Only(S) == CHOOSE x \in S : TRUE
BitsOf(byte, at) == {at + k : k \in {j \in 0..7 : (byte \div 2^j) % 2 = 1}}

-----------------------------------------------------------------------------
\* Keccak-f[1600].

\* A[y][x], kept as rows of five lanes.
Grid(F(_, _)) ==
  LET row(y) == <<F(y, 0), F(y, 1), F(y, 2), F(y, 3), F(y, 4)>>
  IN  <<row(0), row(1), row(2), row(3), row(4)>>
At(A, y, x) == A[y + 1][x + 1]
Parities(A) ==
  LET c(x) == Xor(Xor(Xor(Xor(At(A, 0, x), At(A, 1, x)), At(A, 2, x)), At(A, 3, x)), At(A, 4, x))
  IN  <<c(0), c(1), c(2), c(3), c(4)>>

RC == <<
  {0}, {1, 7, 15}, {1, 3, 7, 15, 63}, {15, 31, 63}, {0, 1, 3, 7, 15}, {0, 31}, {0, 7, 15, 31, 63},
  {0, 3, 15, 63}, {1, 3, 7}, {3, 7}, {0, 3, 15, 31}, {1, 3, 31}, {0, 1, 3, 7, 15, 31}, {0, 1, 3, 7, 63},
  {0, 3, 7, 15, 63}, {0, 1, 15, 63}, {1, 15, 63}, {7, 63}, {1, 3, 15}, {1, 3, 31, 63}, {0, 7, 15, 31, 63},
  {7, 15, 63}, {0, 31}, {3, 15, 31, 63}>>
\* One of the 24 unrolled rounds, the one with the constant k: from the lanes
\* and their column parities C, the lanes B, the next lanes and, as they are
\* made, their parities.  The rounds are written out one by one, and each says
\* for itself which lanes it takes for B, in order (10 * y + x is A[y][x], or
\* E[y][x] in every other round), and how far it rotates them.
Round(s, k, lanes, rotations) ==
  LET C(x) == s.C[((x + 5) % 5) + 1]
      D(x) == Xor(C(x - 1), Rotate(C(x + 1), 1, 64))
      Lane(n) == Xor(At(s.A, n \div 10, n % 10), D(n % 10))
      B == Grid(LAMBDA r, c : Rotate(Lane(lanes[5 * r + c + 1]), rotations[5 * r + c + 1], 64))
      E == Grid(LAMBDA r, c : Xor(IF r = 0 /\ c = 0 THEN RC[k + 1] ELSE {},
                                  Xor(At(B, r, c), At(B, r, (c + 2) % 5) \ At(B, r, (c + 1) % 5))))
  IN  [A |-> E, C |-> Parities(E)]

Round0(s) ==
  Round(s, 0, <<0, 11, 22, 33, 44, 3, 14, 20, 31, 42, 1, 12, 23, 34, 40, 4, 10, 21, 32, 43, 2, 13, 24, 30, 41>>,
    <<0, 44, 43, 21, 14, 28, 20, 3, 45, 61, 1, 6, 25, 8, 18, 27, 36, 10, 15, 56, 62, 55, 39, 41, 2>>)
Round1(s) ==
  Round(s, 1, <<0, 11, 22, 33, 44, 3, 14, 20, 31, 42, 1, 12, 23, 34, 40, 4, 10, 21, 32, 43, 2, 13, 24, 30, 41>>,
    <<0, 44, 43, 21, 14, 28, 20, 3, 45, 61, 1, 6, 25, 8, 18, 27, 36, 10, 15, 56, 62, 55, 39, 41, 2>>)
Round2(s) ==
  Round(s, 2, <<0, 11, 22, 33, 44, 3, 14, 20, 31, 42, 1, 12, 23, 34, 40, 4, 10, 21, 32, 43, 2, 13, 24, 30, 41>>,
    <<0, 44, 43, 21, 14, 28, 20, 3, 45, 61, 1, 6, 25, 8, 18, 27, 36, 10, 15, 56, 62, 55, 39, 41, 2>>)
Round3(s) ==
  Round(s, 3, <<0, 11, 22, 33, 44, 3, 14, 20, 31, 42, 1, 12, 23, 34, 40, 4, 10, 21, 32, 43, 2, 13, 24, 30, 41>>,
    <<0, 44, 43, 21, 14, 28, 20, 3, 45, 61, 1, 6, 25, 8, 18, 27, 36, 10, 15, 56, 62, 55, 39, 41, 2>>)
Round4(s) ==
  Round(s, 4, <<0, 11, 22, 33, 44, 3, 14, 20, 31, 42, 1, 12, 23, 34, 40, 4, 10, 21, 32, 43, 2, 13, 24, 30, 41>>,
    <<0, 44, 43, 21, 14, 28, 20, 3, 45, 61, 1, 6, 25, 8, 18, 27, 36, 10, 15, 56, 62, 55, 39, 41, 2>>)
Round5(s) ==
  Round(s, 5, <<0, 11, 22, 33, 44, 3, 14, 20, 31, 42, 1, 12, 23, 34, 40, 4, 10, 21, 32, 43, 2, 13, 24, 30, 41>>,
    <<0, 44, 43, 21, 14, 28, 20, 3, 45, 61, 1, 6, 25, 8, 18, 27, 36, 10, 15, 56, 62, 55, 39, 41, 2>>)
Round6(s) ==
  Round(s, 6, <<0, 11, 22, 33, 44, 3, 14, 20, 31, 42, 1, 12, 23, 34, 40, 4, 10, 21, 32, 43, 2, 13, 24, 30, 41>>,
    <<0, 44, 43, 21, 14, 28, 20, 3, 45, 61, 1, 6, 25, 8, 18, 27, 36, 10, 15, 56, 62, 55, 39, 41, 2>>)
Round7(s) ==
  Round(s, 7, <<0, 11, 22, 33, 44, 3, 14, 20, 31, 42, 1, 12, 23, 34, 40, 4, 10, 21, 32, 43, 2, 13, 24, 30, 41>>,
    <<0, 44, 43, 21, 14, 28, 20, 3, 45, 61, 1, 6, 25, 8, 18, 27, 36, 10, 15, 56, 62, 55, 39, 41, 2>>)
Round8(s) ==
  Round(s, 8, <<0, 11, 22, 33, 44, 3, 14, 20, 31, 42, 1, 12, 23, 34, 40, 4, 10, 21, 32, 43, 2, 13, 24, 30, 41>>,
    <<0, 44, 43, 21, 14, 28, 20, 3, 45, 61, 1, 6, 25, 8, 18, 27, 36, 10, 15, 56, 62, 55, 39, 41, 2>>)
Round9(s) ==
  Round(s, 9, <<0, 11, 22, 33, 44, 3, 14, 20, 31, 42, 1, 12, 23, 34, 40, 4, 10, 21, 32, 43, 2, 13, 24, 30, 41>>,
    <<0, 44, 43, 21, 14, 28, 20, 3, 45, 61, 1, 6, 25, 8, 18, 27, 36, 10, 15, 56, 62, 55, 39, 41, 2>>)
Round10(s) ==
  Round(s, 10, <<0, 11, 22, 33, 44, 3, 14, 20, 31, 42, 1, 12, 23, 34, 40, 4, 10, 21, 32, 43, 2, 13, 24, 30, 41>>,
    <<0, 44, 43, 21, 14, 28, 20, 3, 45, 61, 1, 6, 25, 8, 18, 27, 36, 10, 15, 56, 62, 55, 39, 41, 2>>)
Round11(s) ==
  Round(s, 11, <<0, 11, 22, 33, 44, 3, 14, 20, 31, 42, 1, 12, 23, 34, 40, 4, 10, 21, 32, 43, 2, 13, 24, 30, 41>>,
    <<0, 44, 43, 21, 14, 28, 20, 3, 45, 61, 1, 6, 25, 8, 18, 27, 36, 10, 15, 56, 62, 55, 39, 41, 2>>)
Round12(s) ==
  Round(s, 12, <<0, 11, 22, 33, 44, 3, 14, 20, 31, 42, 1, 12, 23, 34, 40, 4, 10, 21, 32, 43, 2, 13, 24, 30, 41>>,
    <<0, 44, 43, 21, 14, 28, 20, 3, 45, 61, 1, 6, 25, 8, 18, 27, 36, 10, 15, 56, 62, 55, 39, 41, 2>>)
Round13(s) ==
  Round(s, 13, <<0, 11, 22, 33, 44, 3, 14, 20, 31, 42, 1, 12, 23, 34, 40, 4, 10, 21, 32, 43, 2, 13, 24, 30, 41>>,
    <<0, 44, 43, 21, 14, 28, 20, 3, 45, 61, 1, 6, 25, 8, 18, 27, 36, 10, 15, 56, 62, 55, 39, 41, 2>>)
Round14(s) ==
  Round(s, 14, <<0, 11, 22, 33, 44, 3, 14, 20, 31, 42, 1, 12, 23, 34, 40, 4, 10, 21, 32, 43, 2, 13, 24, 30, 41>>,
    <<0, 44, 43, 21, 14, 28, 20, 3, 45, 61, 1, 6, 25, 8, 18, 27, 36, 10, 15, 56, 62, 55, 39, 41, 2>>)
Round15(s) ==
  Round(s, 15, <<0, 11, 22, 33, 44, 3, 14, 20, 31, 42, 1, 12, 23, 34, 40, 4, 10, 21, 32, 43, 2, 13, 24, 30, 41>>,
    <<0, 44, 43, 21, 14, 28, 20, 3, 45, 61, 1, 6, 25, 8, 18, 27, 36, 10, 15, 56, 62, 55, 39, 41, 2>>)
Round16(s) ==
  Round(s, 16, <<0, 11, 22, 33, 44, 3, 14, 20, 31, 42, 1, 12, 23, 34, 40, 4, 10, 21, 32, 43, 2, 13, 24, 30, 41>>,
    <<0, 44, 43, 21, 14, 28, 20, 3, 45, 61, 1, 6, 25, 8, 18, 27, 36, 10, 15, 56, 62, 55, 39, 41, 2>>)
\* Variant: one rotation of one round is off.
BadRound17(s) ==
  Round(s, 17, <<0, 11, 22, 33, 44, 3, 14, 20, 31, 42, 1, 12, 23, 34, 40, 4, 10, 21, 32, 43, 2, 13, 24, 30, 41>>,
    <<0, 44, 43, 21, 14, 28, 20, 3, 45, 61, 1, 6, 25, 8, 18, 27, 36, 11, 15, 56, 62, 55, 39, 41, 2>>)
Round17(s) ==
  Round(s, 17, <<0, 11, 22, 33, 44, 3, 14, 20, 31, 42, 1, 12, 23, 34, 40, 4, 10, 21, 32, 43, 2, 13, 24, 30, 41>>,
    <<0, 44, 43, 21, 14, 28, 20, 3, 45, 61, 1, 6, 25, 8, 18, 27, 36, 10, 15, 56, 62, 55, 39, 41, 2>>)
Round18(s) ==
  Round(s, 18, <<0, 11, 22, 33, 44, 3, 14, 20, 31, 42, 1, 12, 23, 34, 40, 4, 10, 21, 32, 43, 2, 13, 24, 30, 41>>,
    <<0, 44, 43, 21, 14, 28, 20, 3, 45, 61, 1, 6, 25, 8, 18, 27, 36, 10, 15, 56, 62, 55, 39, 41, 2>>)
Round19(s) ==
  Round(s, 19, <<0, 11, 22, 33, 44, 3, 14, 20, 31, 42, 1, 12, 23, 34, 40, 4, 10, 21, 32, 43, 2, 13, 24, 30, 41>>,
    <<0, 44, 43, 21, 14, 28, 20, 3, 45, 61, 1, 6, 25, 8, 18, 27, 36, 10, 15, 56, 62, 55, 39, 41, 2>>)
Round20(s) ==
  Round(s, 20, <<0, 11, 22, 33, 44, 3, 14, 20, 31, 42, 1, 12, 23, 34, 40, 4, 10, 21, 32, 43, 2, 13, 24, 30, 41>>,
    <<0, 44, 43, 21, 14, 28, 20, 3, 45, 61, 1, 6, 25, 8, 18, 27, 36, 10, 15, 56, 62, 55, 39, 41, 2>>)
Round21(s) ==
  Round(s, 21, <<0, 11, 22, 33, 44, 3, 14, 20, 31, 42, 1, 12, 23, 34, 40, 4, 10, 21, 32, 43, 2, 13, 24, 30, 41>>,
    <<0, 44, 43, 21, 14, 28, 20, 3, 45, 61, 1, 6, 25, 8, 18, 27, 36, 10, 15, 56, 62, 55, 39, 41, 2>>)
Round22(s) ==
  Round(s, 22, <<0, 11, 22, 33, 44, 3, 14, 20, 31, 42, 1, 12, 23, 34, 40, 4, 10, 21, 32, 43, 2, 13, 24, 30, 41>>,
    <<0, 44, 43, 21, 14, 28, 20, 3, 45, 61, 1, 6, 25, 8, 18, 27, 36, 10, 15, 56, 62, 55, 39, 41, 2>>)
Round23(s) ==
  Round(s, 23, <<0, 11, 22, 33, 44, 3, 14, 20, 31, 42, 1, 12, 23, 34, 40, 4, 10, 21, 32, 43, 2, 13, 24, 30, 41>>,
    <<0, 44, 43, 21, 14, 28, 20, 3, 45, 61, 1, 6, 25, 8, 18, 27, 36, 10, 15, 56, 62, 55, 39, 41, 2>>)
keccakf_1600(A) ==
  LET s8 == Round7(Round6(Round5(Round4(Round3(Round2(Round1(Round0([A |-> A, C |-> Parities(A)]))))))))
      s16(s) == Round15(Round14(Round13(Round12(Round11(Round10(Round9(Round8(s))))))))
      s24(s) == Round23(Round22(Round21(Round20(Round19(Round18(Round17(Round16(s))))))))
  IN  Only({s24(t).A : t \in {s16(s) : s \in {s8}}})

KECCAK_RSIZE == 25 * 8 - 2 * 32
\* Chunk by chunk, XOR what fits from pos on and permute a full state.
XorBytes(A, chunk, pos) ==
  Grid(LAMBDA y, x : Xor(At(A, y, x), UNION {BitsOf(chunk[j], 8 * ((pos + j - 1) % 8)) :
                                               j \in {i \in DOMAIN chunk : (pos + i - 1) \div 8 = 5 * y + x}}))
RECURSIVE KeccakUpdate(_, _)
KeccakUpdate(s, data) ==
  LET step == Min({KECCAK_RSIZE - s.pos, Len(data)})
      A == XorBytes(s.A, SubSeq(data, 1, step), s.pos)
      full == s.pos + step >= KECCAK_RSIZE
      t == [A |-> IF full THEN keccakf_1600(A) ELSE A, pos |-> IF full THEN 0 ELSE s.pos + step]
  IN  IF data = <<>> THEN s ELSE KeccakUpdate(t, SubSeq(data, step + 1, Len(data)))
KeccakFinish(s) == keccakf_1600(XorBytes(XorBytes(s.A, <<1>>, s.pos), <<128>>, KECCAK_RSIZE - 1))
Keccak(parts) ==
  LET A == KeccakFinish(FoldLeft(KeccakUpdate, [A |-> Grid(LAMBDA y, x : {}), pos |-> 0], parts))
  IN  <<At(A, 0, 0), At(A, 0, 1), At(A, 0, 2), At(A, 0, 3)>>

-----------------------------------------------------------------------------
\* SHA-256.

Word == 0..31
Ror(w, k) == Rotate(w, 32 - k, 32)
Shr(w, k) == {b - k : b \in w} \intersect Word
RECURSIVE Add(_, _)
Add(u, v) == IF v = {} THEN u ELSE Add(Xor(u, v), {b + 1 : b \in (u \intersect v) \ {31}})
W(high, low) == {k \in 0..15 : (low \div 2^k) % 2 = 1} \union {k \in 16..31 : (high \div 2^(k - 16)) % 2 = 1}
IV == <<
  W(\h6a09, \he667), W(\hbb67, \hae85), W(\h3c6e, \hf372), W(\ha54f, \hf53a), W(\h510e, \h527f),
  W(\h9b05, \h688c), W(\h1f83, \hd9ab), W(\h5be0, \hcd19)>>
K == <<
  W(\h428a, \h2f98), W(\h7137, \h4491), W(\hb5c0, \hfbcf), W(\he9b5, \hdba5), W(\h3956, \hc25b),
  W(\h59f1, \h11f1), W(\h923f, \h82a4), W(\hab1c, \h5ed5), W(\hd807, \haa98), W(\h1283, \h5b01),
  W(\h2431, \h85be), W(\h550c, \h7dc3), W(\h72be, \h5d74), W(\h80de, \hb1fe), W(\h9bdc, \h06a7),
  W(\hc19b, \hf174), W(\he49b, \h69c1), W(\hefbe, \h4786), W(\h0fc1, \h9dc6), W(\h240c, \ha1cc),
  W(\h2de9, \h2c6f), W(\h4a74, \h84aa), W(\h5cb0, \ha9dc), W(\h76f9, \h88da), W(\h983e, \h5152),
  W(\ha831, \hc66d), W(\hb003, \h27c8), W(\hbf59, \h7fc7), W(\hc6e0, \h0bf3), W(\hd5a7, \h9147),
  W(\h06ca, \h6351), W(\h1429, \h2967), W(\h27b7, \h0a85), W(\h2e1b, \h2138), W(\h4d2c, \h6dfc),
  W(\h5338, \h0d13), W(\h650a, \h7354), W(\h766a, \h0abb), W(\h81c2, \hc92e), W(\h9272, \h2c85),
  W(\ha2bf, \he8a1), W(\ha81a, \h664b), W(\hc24b, \h8b70), W(\hc76c, \h51a3), W(\hd192, \he819),
  W(\hd699, \h0624), W(\hf40e, \h3585), W(\h106a, \ha070), W(\h19a4, \hc116), W(\h1e37, \h6c08),
  W(\h2748, \h774c), W(\h34b0, \hbcb5), W(\h391c, \h0cb3), W(\h4ed8, \haa4a), W(\h5b9c, \hca4f),
  W(\h682e, \h6ff3), W(\h748f, \h82ee), W(\h78a5, \h636f), W(\h84c8, \h7814), W(\h8cc7, \h0208),
  W(\h90be, \hfffa), W(\ha450, \h6ceb), W(\hbef9, \ha3f7), W(\hc671, \h78f2)>>
CH(x, y, z) == Xor(x \intersect y, z \ x)
MAJ(x, y, z) == Xor(Xor(x \intersect y, x \intersect z), y \intersect z)
S0(x) == Xor(Xor(Ror(x, 2), Ror(x, 13)), Ror(x, 22))
S1(x) == Xor(Xor(Ror(x, 6), Ror(x, 11)), Ror(x, 25))
G0(x) == Xor(Xor(Ror(x, 7), Ror(x, 18)), Shr(x, 3))
G1(x) == Xor(Xor(Ror(x, 17), Ror(x, 19)), Shr(x, 10))
\* The words of a block, big-endian.
Words(block) ==
  Tuple([i \in 1..16 |-> BitsOf(block[4 * i - 3], 24) \union BitsOf(block[4 * i - 2], 16)
                           \union BitsOf(block[4 * i - 1], 8) \union BitsOf(block[4 * i], 0)])

\* Round r on circular buffers of state and of words.
ShaRound(t, r, words) ==
  LET i == r % 16
      WI(k) == ((i - k + 16) % 16) + 1
      SI(k) == ((k - i + 16) % 8) + 1
      wi == IF r < 16 THEN words[i + 1]
            ELSE Add(t.w[i + 1], Add(Add(G1(t.w[WI(2)]), t.w[WI(7)]), G0(t.w[WI(15)])))
      h == Add(t.s[SI(7)], Add(Add(Add(wi, S1(t.s[SI(4)])), CH(t.s[SI(4)], t.s[SI(5)], t.s[SI(6)])), K[r + 1]))
      s1 == [t.s EXCEPT ![SI(3)] = Add(@, h)]
  IN  [w |-> [t.w EXCEPT ![i + 1] = wi],
       s |-> [s1 EXCEPT ![SI(7)] = Add(h, Add(S0(t.s[SI(0)]), MAJ(t.s[SI(0)], t.s[SI(1)], t.s[SI(2)])))]]
RECURSIVE ShaRounds(_, _, _, _)
ShaRounds(t, from, to, words) ==
  LET mid == (from + to) \div 2
  IN  IF from = to THEN ShaRound(t, from, words)
      ELSE Only({ShaRounds(u, mid + 1, to, words) : u \in {ShaRounds(t, from, mid, words)}})
compress(state, block) ==
  LET s == ShaRounds([s |-> state, w |-> Words(block)], 0, 63, Words(block)).s
  IN  Tuple([i \in 1..8 |-> Add(state[i], s[i])])

BUF_SIZE == 64
RECURSIVE ShaUpdate(_, _)
ShaUpdate(c, data) ==
  LET step == Min({BUF_SIZE - c.pos, Len(data)})
      buf == Tuple([j \in 1..BUF_SIZE |-> IF j \in (c.pos + 1)..(c.pos + step) THEN data[j - c.pos] ELSE c.buf[j]])
      full == c.pos + step >= BUF_SIZE
      t == IF full THEN [state |-> compress(c.state, buf), buf |-> buf, pos |-> 0, len |-> c.len + 1]
           ELSE [c EXCEPT !.buf = buf, !.pos = @ + step]
  IN  IF data = <<>> THEN c ELSE ShaUpdate(t, SubSeq(data, step + 1, Len(data)))
\* The block with one bit appended at pos and zeros after; the length in bits in
\* the last words of a block that has room for it.
ShaFinishAt(c, index) ==
  LET padded == Tuple([j \in 1..BUF_SIZE |-> IF j <= c.pos THEN c.buf[j] ELSE IF j = c.pos + 1 THEN 128 ELSE 0])
      full == c.pos >= index
      block == IF full THEN Tuple([j \in 1..BUF_SIZE |-> 0]) ELSE padded
      bits == (c.len * BUF_SIZE + c.pos) * 8
  IN  compress(IF full THEN compress(c.state, padded) ELSE c.state,
               [block EXCEPT ![61] = bits \div 2^24, ![62] = (bits \div 2^16) % 256, ![63] = (bits \div 2^8) % 256,
                             ![64] = bits % 256])
\* One byte more would be let in before the length.
BadShaFinish(c) == ShaFinishAt(c, 61)
ShaFinish(c) == ShaFinishAt(c, 56)
Sha(parts) ==
  ShaFinish(FoldLeft(ShaUpdate, [state |-> IV, buf |-> Tuple([j \in 1..BUF_SIZE |-> 0]), pos |-> 0, len |-> 0], parts))

-----------------------------------------------------------------------------
\* Batches.  A queue of entries is a sequence; hashed is the sequence of the
\* <<entry, result>> pairs that the hasher was given, batch by batch.

\* A batch of lanes; Keccak takes sixteen as two of eight.
Batch(data, results) == [k \in DOMAIN data |-> <<data[k], results[k]>>]
Split16(data, results) ==
  Batch(SubSeq(data, 1, 8), SubSeq(results, 1, 8)) \o Batch(SubSeq(data, 9, 16), SubSeq(results, 9, 16))

\* Take n entries from the end of the queue while (if it is a loop), or when,
\* there are that many.
RECURSIVE Take(_, _, _)
Take(t, n, loop) ==
  IF t.i < n THEN t
  ELSE LET part == SubSeq(t.queue, t.i - n + 1, t.i)
           data == [k \in 1..n |-> part[k].data]
           results == [k \in 1..n |-> part[k].result]
           u == [t EXCEPT !.i = @ - n,
                          !.hashed = @ \o IF n = 16 THEN Split16(data, results) ELSE Batch(data, results)]
       IN  IF loop THEN Take(u, n, loop) ELSE u
FlushWith(h, maxLanes, kept) ==
  LET t0 == [queue |-> h.queue, i |-> Len(h.queue), hashed |-> h.hashed]
      t16 == IF maxLanes >= 16 THEN Take(t0, 16, TRUE) ELSE t0
      t1 == Take(Take(Take(Take(t16, 8, TRUE), 4, FALSE), 2, FALSE), 1, FALSE)
  IN  [queue |-> kept, hashed |-> t1.hashed]
\* The queue not cleared.
BadFlush(h, maxLanes) == FlushWith(h, maxLanes, h.queue)
Flush(h, maxLanes) == FlushWith(h, maxLanes, <<>>)
Enqueue(h, entry, maxLanes, maxQueue, optimal) ==
  LET g == [h EXCEPT !.queue = Append(@, entry)]
      limit == IF maxQueue < optimal THEN maxQueue ELSE optimal
  IN  IF Len(g.queue) >= limit THEN Flush(g, maxLanes) ELSE g

-----------------------------------------------------------------------------
\* The standards: the permutation step by step, its constants generated; words
\* of the message scheduled ahead; messages padded as a whole.

\* FIPS 202: rho's offsets, along the walk (x, y) -> (y, 2x + 3y).
RECURSIVE Offset(_, _, _, _, _)
Offset(x, y, t, u, v) ==
  IF x = 0 /\ y = 0 THEN 0
  ELSE IF x = u /\ y = v THEN (((t + 1) * (t + 2)) \div 2) % 64
  ELSE Offset(x, y, t + 1, v, (2 * u + 3 * v) % 5)
\* rc: the register of eight bits, shifted t times.
RECURSIVE Lfsr(_)
Lfsr(t) ==
  IF t = 0 THEN {0}
  ELSE LET r == {b + 1 : b \in Lfsr(t - 1)}
       IN  IF 8 \in r THEN Xor(r \ {8}, {0, 4, 5, 6}) ELSE r
StandardRC == [k \in 1..24 |-> {2^j - 1 : j \in {i \in 0..6 : 0 \in Lfsr((i + 7 * (k - 1)) % 255)}}]
StandardRound(A, k) ==
  LET Theta == Grid(LAMBDA y, x : LET p(c, z) == {b \in 0..63 : Cardinality({r \in 0..4 : (b + z + 64) % 64 \in At(A, r, c)}) % 2 = 1}
                                  IN  Xor(At(A, y, x), Xor(p((x + 4) % 5, 0), p((x + 1) % 5, -1))))
      Rho == Grid(LAMBDA y, x : Rotate(At(Theta, y, x), Offset(x, y, 0, 1, 0), 64))
      Pi == Grid(LAMBDA y, x : At(Rho, x, (x + 3 * y) % 5))
      Chi == Grid(LAMBDA y, x : {b \in 0..63 : (b \in At(Pi, y, x)) # (b \notin At(Pi, y, (x + 1) % 5) /\ b \in At(Pi, y, (x + 2) % 5))})
  IN  Grid(LAMBDA y, x : IF x = 0 /\ y = 0 THEN Xor(At(Chi, 0, 0), StandardRC[k]) ELSE At(Chi, y, x))
RECURSIVE StandardRounds(_, _, _)
StandardRounds(A, from, to) ==
  LET mid == (from + to) \div 2
  IN  IF from = to THEN StandardRound(A, from)
      ELSE Only({StandardRounds(B, mid + 1, to) : B \in {StandardRounds(A, from, mid)}})
StandardKeccakF(A) == StandardRounds(A, 1, 24)
Blocks(m, n) == [j \in 1..(Len(m) \div n) |-> SubSeq(m, n * (j - 1) + 1, n * j)]
StandardKeccak(m) ==
  LET n == KECCAK_RSIZE - (Len(m) % KECCAK_RSIZE)
      pad == IF n = 1 THEN <<129>> ELSE [j \in 1..n |-> IF j = 1 THEN 1 ELSE IF j = n THEN 128 ELSE 0]
      lane(block, w) == UNION {BitsOf(block[8 * w + k], 8 * (k - 1)) : k \in 1..8}
      A == FoldLeft(LAMBDA B, block : StandardKeccakF(Grid(LAMBDA y, x :
                      IF 5 * y + x < 17 THEN Xor(At(B, y, x), lane(block, 5 * y + x)) ELSE At(B, y, x))),
                    Grid(LAMBDA y, x : {}), Blocks(m \o pad, KECCAK_RSIZE))
  IN  <<At(A, 0, 0), At(A, 0, 1), At(A, 0, 2), At(A, 0, 3)>>

\* FIPS 180-4.
\* Round r of the variables v.v, the words scheduled so far in v.w.
StandardShaRound(u, r) ==
  LET v == u.v
      w == u.w
      wr == IF r <= 16 THEN w[r] ELSE Add(Add(G1(w[r - 2]), w[r - 7]), Add(G0(w[r - 15]), w[r - 16]))
      T1 == Add(Add(Add(v[8], S1(v[5])), Add(CH(v[5], v[6], v[7]), K[r])), wr)
      T2 == Add(S0(v[1]), MAJ(v[1], v[2], v[3]))
  IN  [v |-> <<Add(T1, T2), v[1], v[2], v[3], Add(v[4], T1), v[5], v[6], v[7]>>,
       w |-> IF r <= 16 THEN w ELSE Append(w, wr)]
RECURSIVE StandardShaRounds(_, _, _)
StandardShaRounds(u, from, to) ==
  LET mid == (from + to) \div 2
  IN  IF from = to THEN StandardShaRound(u, from)
      ELSE Only({StandardShaRounds(t, mid + 1, to) : t \in {StandardShaRounds(u, from, mid)}})
StandardCompress(H, block) ==
  LET v == StandardShaRounds([v |-> H, w |-> Words(block)], 1, 64).v
  IN  Tuple([i \in 1..8 |-> Add(H[i], v[i])])
StandardSha(m) ==
  LET zeros == (119 - (Len(m) % 64)) % 64
      bits == 8 * Len(m)
      padded == m \o <<128>> \o [j \in 1..zeros |-> 0] \o <<0, 0, 0, 0, 0, 0, bits \div 256, bits % 256>>
  IN  FoldLeft(StandardCompress, IV, Blocks(padded, 64))
\* Published digests, the first of them "abc".
Abc == <<97, 98, 99>>
AbcSha == <<W(\hba78, \h16bf), W(\h8f01, \hcfea), W(\h4141, \h40de), W(\h5dae, \h2223), W(\hb003, \h61a3),
            W(\h9617, \h7a9c), W(\hb410, \hff61), W(\hf200, \h15ad)>>
=============================================================================
