------------------------------ MODULE MCKernels ------------------------------
(***************************************************************************)
(* The kernels of every architecture on chosen inputs: their calls, and    *)
(* the reference definitions that their results are compared with.         *)
(***************************************************************************)
EXTENDS Adler32, Crc32Chorba, Compare256, SlideHash, Batches

-----------------------------------------------------------------------------
(* adler32: lengths around every block size, addresses around every        *)
(* alignment, the largest sums and bytes.                                  *)

\* The bytes in a vector of adler32_rvv.
Vl == [rvv_16 |-> 16, rvv_32 |-> 32, rvv_64 |-> 64]

AdlerKernel(k, s, b, o, l) ==
    CASE k = "c" -> Adler32C(s, b, o, l, FALSE)
      [] k = "c_big" -> Adler32C(s, b, o, l, TRUE)
      [] k = "ssse3" -> Ssse3(s, b, o, l)
      [] k = "sse42_copy" -> Sse42(s, b, o, l)
      [] k = "avx2" -> Avx2(s, b, o, l, FALSE)
      [] k = "avx2_copy" -> Avx2(s, b, o, l, TRUE)
      [] k = "avx2_vnni" -> Avx2Vnni(s, b, o, l)
      [] k = "avx512" -> Avx512(s, b, o, l, FALSE)
      [] k = "avx512_copy" -> Avx512(s, b, o, l, TRUE)
      [] k = "avx512_vnni" -> Avx512Vnni(s, b, o, l)
      [] k = "avx512_vnni_copy" -> CopyAvx512Vnni(s, b, o, l)
      [] k = "neon" -> Neon(s, b, o, l, FALSE)
      [] k = "neon_dotprod" -> NeonDotprod(s, b, o, l, FALSE)
      [] k = "vmx" -> Vmx(s, b, o, l, TRUE)
      [] k = "power8" -> Power8(s, b, o, l, TRUE)
      [] k = "msa" -> Msa(s, b, o, l, TRUE)
      [] k \in DOMAIN Vl -> Rvv(s, b, o, l, Vl[k], FALSE)
      [] k = "lasx" -> Lasx(s, b, o, l)
AdlerKernels ==
    {"c", "c_big", "ssse3", "sse42_copy", "avx2", "avx2_copy", "avx2_vnni", "avx512", "avx512_copy",
     "avx512_vnni", "avx512_vnni_copy", "neon", "neon_dotprod", "vmx", "power8", "msa", "lasx"}
    \cup DOMAIN Vl
AdlerLengths ==
    {0, 1, 2, 5, 8, 15, 16, 17, 31, 32, 33, 47, 63, 64, 65, 100, 127, 128, 129, 255, 256, 257, 300, 513,
     NMax - 1, NMax, NMax + 1, NMax + 40, 2 * NMax + 5, 2 * NMax + 85}
One == [a |-> 1, b |-> 0, p |-> 0]
Largest == [a |-> Base - 1, b |-> Base - 1, p |-> 0]
AllMax == <<0, 4 * NMax>>
\* Of these bytes, the length at which vectors of 64 wrap in their last sum.
WrapLength == 3 * NMax + 336
AdlerCall ==
    \/ job = Idle /\ \E k \in AdlerKernels : job' = Batch("adler", k)
    \/ /\ InBatch("adler")
       /\ \E l \in AdlerLengths \cup IF job.part = "rvv_64" THEN {WrapLength} ELSE {} :
             \/ \E o \in {0, 1, 8, 15, 24, 31} :
                   job' = [kind |-> "adler", k |-> job.part, len |-> l, off |-> o, s |-> Largest, buf |-> AllMax]
             \/ \E p \in {13, 40, NMax} :
                   job' = [kind |-> "adler", k |-> job.part, len |-> l, off |-> 3, s |-> One, buf |-> <<p, p>>]

\* adler32_combine of two strings; the second of len2 bytes.
AdlerJoin ==
    \/ job = Idle /\ job' = Batch("adler_combine", 0)
    \/ /\ InBatch("adler_combine")
       /\ \E len1, len2 \in {0, 1, 7, Base - 1, Base, Base + 3, 2 * Base}, buf \in {AllMax, <<0, 5>>, <<2, 1>>} :
             job' = [kind |-> "adler_combine", len1 |-> len1, len2 |-> len2, buf |-> buf]

-----------------------------------------------------------------------------
(* crc32: dense messages around every block size and threshold, long       *)
(* messages with bits where the variant for their length changes.          *)

CrcKernel(k, crc, m, addr) ==
    CASE k = "braid8" -> crc32_braid(crc, m, addr, 8, FALSE)
      [] k = "braid8_big" -> crc32_braid(crc, m, addr, 8, TRUE)
      [] k = "braid4" -> crc32_braid(crc, m, addr, 4, FALSE)
      [] k = "braid4_big" -> crc32_braid(crc, m, addr, 4, TRUE)
      [] k = "hw" -> crc32_hw_copy_impl(crc, m, addr)
      [] k = "zbc" -> crc32_riscv64_zbc(crc, m)
      [] k = "vx" -> crc32_s390_vx(crc, m, addr)
      [] k = "pclmulqdq" -> crc32_pclmulqdq(crc, m, addr, 0, FALSE)
      [] k = "pclmulqdq_chorba" -> crc32_pclmulqdq(crc, m, addr, 0, TRUE)
      [] k = "vpclmulqdq_avx2" -> crc32_pclmulqdq(crc, m, addr, 8, FALSE)
      [] k = "vpclmulqdq_avx512" -> crc32_pclmulqdq(crc, m, addr, 16, FALSE)
      [] k = "pmull_eor3" -> crc32_armv8_pmull_eor3(crc, m, addr)
      [] k = "chorba8" -> crc32_chorba(crc, m, addr, 8, "c")
      [] k = "chorba4" -> crc32_chorba(crc, m, addr, 4, "c")
      [] k = "chorba_sse2" -> crc32_chorba(crc, m, addr, 8, "sse2")
      [] k = "chorba_sse41" -> crc32_chorba(crc, m, addr, 8, "sse41")
Tabled == {"braid8", "braid8_big", "braid4", "braid4_big", "hw", "zbc", "vx"}
Folding == {"pclmulqdq", "pclmulqdq_chorba", "vpclmulqdq_avx2", "vpclmulqdq_avx512", "pmull_eor3"}
Chorba == {"chorba8", "chorba4", "chorba_sse2", "chorba_sse41"}
CrcLengths(k) ==
    CASE k \in Tabled -> {0, 1, 2, 3, 4, 7, 8, 15, 16, 17, 31, 39, 40, 46, 47, 48, 54, 63, 64, 65, 79, 80, 81,
                          95, 96, 127, 128, 130, 200}
      [] k \in Folding -> {0, 1, 15, 16, 31, 32, 47, 48, 49, 63, 64, 79, 80, 87, 88, 95, 128, 192, 272, 400}
      [] k \in Chorba -> {0, 1, 71, 72, 73, 80, 81, 87, 88, 104, 360, 361, 431, 433, 681, 700}
Dense(len) == [len |-> len, from |-> 0, to |-> 8 * len]
\* Calls of the long variants: <<kernel, message, address>>.
LongCalls ==
    { <<"pclmulqdq", [len |-> 720, from |-> 0, to |-> 600], 1>>,
      <<"pclmulqdq_chorba", [len |-> 1350, from |-> 0, to |-> 900], 1>>,
      <<"vpclmulqdq_avx512", [len |-> 1344, from |-> 0, to |-> 600], 8>>,
      <<"pmull_eor3", [len |-> 800, from |-> 0, to |-> 700], 15>>,
      <<"chorba8", [len |-> 8193, from |-> 0, to |-> 2000], 0>>,
      <<"chorba8", [len |-> 9000, from |-> 68000, to |-> 72000], 5>>,
      <<"chorba_sse41", [len |-> 8193, from |-> 0, to |-> 2000], 0>>,
      <<"chorba_sse41", [len |-> 8320, from |-> 62560, to |-> 66560], 3>>,
      <<"chorba4", [len |-> 262205, from |-> 1897640, to |-> 1898640], 0>>,
      <<"chorba8", [len |-> 524289, from |-> 0, to |-> 2000], 3>> }
Register == {0, 3, 5, 31}
CrcCall ==
    \/ job = Idle /\ \E k \in Tabled \cup Folding \cup Chorba, addr \in {0, 1, 7, 15} :
                        job' = Batch("crc", <<k, addr>>)
    \/ job = Idle /\ \E c \in LongCalls :
                        job' = [kind |-> "crc", k |-> c[1], m |-> c[2], addr |-> c[3], crc |-> Register]
    \/ /\ InBatch("crc")
       /\ \E len \in CrcLengths(job.part[1]), crc \in {{}, Register} :
             /\ crc = Register \/ job.part[2] = 0
             /\ job' = [kind |-> "crc", k |-> job.part[1], m |-> Dense(len), addr |-> job.part[2], crc |-> crc]

\* crc32_combine of a string and len2 zeros.
CrcJoin ==
    \/ job = Idle /\ job' = Batch("crc_combine", 0)
    \/ /\ InBatch("crc_combine")
       /\ \E len1 \in {0, 1, 9, 40}, len2 \in {0, 1, 2, 3, 255, 256, 65537, 2^20 - 1, 2^27 + 1} :
             job' = [kind |-> "crc_combine", len1 |-> len1, len2 |-> len2]

-----------------------------------------------------------------------------
(* compare256: strings that first differ at each place, and behind; the    *)
(* bytes in front of and behind the 256 all differ.                        *)

CompareCall ==
    \/ job = Idle /\ \E addr \in {0, 1, 9, 15} : job' = Batch("compare", addr)
    \/ /\ InBatch("compare")
       /\ \E at \in 0..256 : \E more \in {{}, {at + 1, at + 8, 255}} :
             /\ at = 256 => more = {}
             /\ job' = [kind |-> "compare", addr |-> job.part, at |-> at,
                        diff |-> {at} \cup more \cup (-16..(-1)) \cup 256..320]

-----------------------------------------------------------------------------
(* slide_hash: every position of a window of three times 64 bytes.         *)

WSize == 64
HashSize == 128
SlideCall ==
    \/ job = Idle /\ \E v \in SlideVariants : job' = Batch("slide", v)
    \/ /\ InBatch("slide")
       /\ \E slide_len \in {WSize, 2 * WSize}, shift \in {0, 50}, headOnly \in BOOLEAN :
             /\ headOnly => job.part # "msa"        \* there is no slide_hash_head_msa
             /\ job' = [kind |-> "slide", v |-> job.part, slide_len |-> slide_len, headOnly |-> headOnly,
                        head |-> [e \in 0..(HashSize - 1) |-> (e * 3 + shift) % (3 * WSize)],
                        prev |-> [e \in 0..(WSize - 1) |-> (e * 7 + shift) % (3 * WSize)]]

KernelsNext == AdlerCall \/ AdlerJoin \/ CrcCall \/ CrcJoin \/ CompareCall \/ SlideCall

-----------------------------------------------------------------------------
(* What a call returns.                                                   *)

\* The CRC register after 2^(k-1) zero bits, as a matrix of words.
Apply(matrix, c) == FoldSet(LAMBDA b, s : Xor(s, matrix[b]), {}, c)
ZeroBits ==
    Repeat(LAMBDA t, k : Append(t, Now([b \in 0..31 |-> Apply(t[k], t[k][b])])),
           <<[b \in 0..31 |-> TimesX({b})]>>, 30)
AfterZeros(c, n) ==
    Loop(LAMBDA s, k : IF (n \div 2^(k - 1)) % 2 = 1 THEN Apply(ZeroBits[k], s) ELSE s, c, 31)
\* What CRC-32 is: the bits one by one; the zeros around the pattern at once.
CrcOf(crc, m) ==
    LET last == Least(m.to, 8 * m.len - 1)
        lead == AfterZeros(Not(crc), m.from)
        c == Loop(LAMBDA s, i : TimesX(IF On(m, m.from + i - 1) THEN Xor(s, {0}) ELSE s), lead, last - m.from + 1)
    IN  Not(IF last < m.from THEN AfterZeros(Not(crc), 8 * m.len) ELSE AfterZeros(c, 8 * m.len - 1 - last))

\* What the vectors of adler32_rvv are summed up to at the end fits a word: the
\* vl remainders below Base, vl times each, and the weighted sums of the rest.
RvvFits(vl) == 2 * vl * vl * Base <= WordSize

\* adler32 and crc32 of every architecture, and the combine functions: for any
\* length, address and start value the sum of the definition, with no lane of
\* 16 or 32 bits overflowing, no byte behind the end read and no stale or
\* unwritten word of a buffer taken in.  One limit: with the longest vectors that
\* adler32_rvv.c admits (256 bytes; here 64, in proportion to the word) its last
\* reduction may wrap, and only the lower sum is right.
ChecksumsAgree ==
    [][/\ job.kind = "adler" =>
            LET r == AdlerKernel(job.k, job.s, job.buf, job.off, job.len)
                sum == AdlerOf(job.s, job.buf, job.len)
            IN  /\ r.a = sum.a
                /\ r.b = sum.b \/ (job.k \in DOMAIN Vl /\ ~RvvFits(Vl[job.k]))
       /\ job.kind = "adler_combine" =>
            LET second == <<job.buf[1] - job.len1, job.buf[2] - job.len1>>
            IN  Adler32Combine(AdlerOf(One, job.buf, job.len1), AdlerOf(One, second, job.len2), job.len2)
                = AdlerOf(One, job.buf, job.len1 + job.len2)
       /\ job.kind = "crc" => CrcKernel(job.k, job.crc, job.m, job.addr) = CrcOf(job.crc, job.m)
       /\ job.kind = "crc_combine" =>
            LET first == Dense(job.len1)
                zeros == [len |-> job.len2, from |-> 1, to |-> 0]
                crc1 == CrcOf({}, first)
                crc2 == CrcOf({}, zeros)
                both == CrcOf({}, [len |-> job.len1 + job.len2, from |-> 0, to |-> 8 * job.len1 - 1])
            IN  /\ crc32_combine(crc1, crc2, job.len2) = both
                /\ crc32_combine_op(crc1, crc2, crc32_combine_gen(job.len2)) = both]_vars

\* compare256 of every architecture: the length of the common prefix, at most
\* 256, whatever differs behind it and whatever surrounds the strings.
ComparesExactly ==
    [][job.kind = "compare" =>
           \A v \in Variants(job.addr), bigEndian \in BOOLEAN :
               Compare(job.diff, v[1], v[2], bigEndian) = job.at]_vars

\* slide_hash or slide_hash_head moved every entry exactly once by `slide`, and
\* what falls out of the window became 0.
MovedBy(slide) ==
    LET Moved(t) == [e \in DOMAIN t |-> IF t[e] < slide THEN 0 ELSE t[e] - slide]
    IN  IF job.headOnly
        THEN SlideHashHead(job.v, job.head, job.prev, WSize, HashSize, job.slide_len)
             = [head |-> Moved(job.head), prev |-> job.prev]
        ELSE SlideHash(job.v, job.head, job.prev, WSize, HashSize, job.slide_len)
             = [head |-> Moved(job.head), prev |-> Moved(job.prev)]

\* slide_hash and slide_hash_head of every architecture but MIPS: every entry, the
\* first and the last included, is moved exactly once, by slide_len, and what
\* falls out of the window becomes 0.  slide_hash_msa moves each by w_size.
SlidesOnce == [][job.kind = "slide" => MovedBy(IF job.v = "msa" THEN WSize ELSE job.slide_len)]_vars

\* deflate.h: slide_len is the number of bytes the window was moved down by, and
\* every variant moves the positions in head and prev by it.
SlidesByLen == [][job.kind = "slide" => MovedBy(job.slide_len)]_vars
=============================================================================
