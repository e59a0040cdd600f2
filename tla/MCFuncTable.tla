----------------------------- MODULE MCFuncTable -----------------------------
(* Builds and CPUs for FuncTable.                                          *)
EXTENDS FuncTable

MacrosOf(arch) == {PartsOf(arch)[i].macro : i \in DOMAIN PartsOf(arch)}
B(arch, native) == [arch |-> arch, has |-> MacrosOf(arch), native |-> native,
                    chorba |-> TRUE, all |-> FALSE, ctor |-> FALSE]

V2 == {"SSE2", "SSSE3", "SSE41", "SSE42"}
V4 == V2 \cup {"PCLMULQDQ", "AVX2", "AVX512"}
MCBuilds ==
    [x86_32 |-> B("x86", {}), x86_64 |-> [B("x86", {"SSE2"}) EXCEPT !.chorba = FALSE],
     x86_v3 |-> [B("x86", V2 \cup {"AVX2"}) EXCEPT !.has = @ \ {"AVX512", "AVX512VNNI", "VPCLMULQDQ_AVX512"}],
     alderlake |-> B("x86", V2 \cup {"PCLMULQDQ", "AVX2", "AVX2VNNI", "VPCLMULQDQ_AVX2"}),
     x86_v4 |-> [B("x86", V4) EXCEPT !.all = TRUE],
     icelake |-> B("x86", V4 \cup {"AVX512VNNI", "VPCLMULQDQ_AVX2", "VPCLMULQDQ_AVX512"}),
     arm64 |-> [B("arm", {"NEON"}) EXCEPT !.ctor = TRUE],
     armv8_4 |-> B("arm", {"NEON", "NEON_DOTPROD", "CRC32"}),
     armv8_sha3 |-> B("arm", {"NEON", "CRC32", "PMULL_EOR3"}),
     mips |-> [B("mips", {}) EXCEPT !.ctor = TRUE],
     mips_msa |-> [B("mips", {"MSA"}) EXCEPT !.ctor = TRUE], mips_msa_noctor |-> B("mips", {"MSA"}),
     mips_msa_all |-> [B("mips", {"MSA"}) EXCEPT !.all = TRUE],
     ppc |-> B("power", {}), ppc_vmx |-> B("power", {"VMX"}), power8 |-> B("power", {"P8", "P8CRC"}),
     power9 |-> [B("power", {"VMX", "P8", "P8CRC", "P9"}) EXCEPT !.ctor = TRUE],
     riscv |-> B("riscv", {}), riscv_v |-> B("riscv", {"RVV", "ZBC"}),
     s390 |-> B("s390", {}), z13 |-> B("s390", {"VX"}),
     loongarch |-> B("loongarch", {"CRC"}), la_lasx |-> B("loongarch", {"CRC", "LSX", "LASX"}), other |-> B("other", {})]

C(arch, has) == [arch |-> arch, has |-> has]
\* x86 CPUs by generation, and what their systems save.
Core2 == {"sse2", "ssse3"}
Westmere == Core2 \cup {"sse41", "sse42", "pclmulqdq"}
Haswell == Westmere \cup {"leaf7", "bmi2", "avx2", "osxsave", "ymm"}
Skylake == Haswell \cup {"avx512f", "avx512dq", "avx512bw", "avx512vl", "zmm"}
Icelake == Skylake \cup {"avx512vnni", "vpclmulqdq"}
MCCpus ==
    [i486 |-> C("x86", {}), pentium4 |-> C("x86", {"sse2"}), core2 |-> C("x86", Core2),
     westmere |-> C("x86", Westmere),
     haswell |-> C("x86", Haswell), no_bmi2 |-> C("x86", Haswell \ {"bmi2"}),
     skylake |-> C("x86", Skylake),
     knl |-> C("x86", Skylake \ {"avx512dq", "avx512bw", "avx512vl"}), icelake |-> C("x86", Icelake),
     icelake_no_zmm |-> C("x86", Icelake \ {"zmm"}),
     icelake_no_xsave |-> C("x86", Icelake \ {"osxsave", "ymm", "zmm"}),
     alderlake |-> C("x86", Haswell \cup {"avx2vnni", "vpclmulqdq"}),
     a53 |-> C("arm", {"neon"}),
     x1 |-> C("arm", {"neon", "crc32", "pmull", "fast_core", "dotprod"}),
     n2 |-> C("arm", {"neon", "crc32", "pmull", "eor3"}),
     biglittle |-> C("arm", {"neon", "crc32", "pmull", "eor3", "fast_core", "dotprod"}),
     mips |-> C("mips", {}), mips_msa |-> C("mips", {"msa"}),
     ppc |-> C("power", {}), g5 |-> C("power", {"altivec"}), p8 |-> C("power", {"altivec", "arch_2_07"}),
     p9 |-> C("power", {"altivec", "arch_2_07", "arch_3_00"}),
     rv64 |-> C("riscv", {}), rv_short |-> C("riscv", {"rvv"}),
     rv64v |-> C("riscv", {"rvv", "vlen16", "zbc"}), z12 |-> C("s390", {}), z13 |-> C("s390", {"vx"}),
     la264 |-> C("loongarch", {"crc", "lsx"}), la464 |-> C("loongarch", {"crc", "lsx", "lasx"}),
     other |-> C("other", {})]

\* Each CPU under the least demanding build of its architecture, and each
\* build on the CPUs that have just what it takes for granted.
MCSystems ==
    {<<"x86_32", c>> : c \in {"i486", "pentium4", "core2", "westmere", "haswell", "no_bmi2", "skylake",
                              "knl", "icelake", "icelake_no_zmm", "icelake_no_xsave", "alderlake"}}
    \cup {<<"x86_64", "pentium4">>, <<"x86_v3", "haswell">>, <<"x86_v3", "icelake">>,
          <<"alderlake", "alderlake">>, <<"x86_v4", "skylake">>, <<"icelake", "icelake">>}
    \cup {<<"arm64", c>> : c \in {"a53", "x1", "n2", "biglittle"}}
    \cup {<<"armv8_4", "x1">>, <<"armv8_sha3", "biglittle">>, <<"mips", "mips">>, <<"mips", "mips_msa">>,
          <<"mips_msa", "mips_msa">>, <<"mips_msa_noctor", "mips_msa">>, <<"mips_msa_all", "mips_msa">>,
          <<"ppc", "ppc">>, <<"ppc", "p9">>, <<"ppc_vmx", "g5">>, <<"power8", "p8">>, <<"power9", "p9">>,
          <<"riscv", "rv_short">>, <<"riscv", "rv64v">>, <<"riscv_v", "rv64v">>, <<"s390", "z12">>,
          <<"s390", "z13">>, <<"z13", "z13">>, <<"loongarch", "la264">>, <<"loongarch", "la464">>,
          <<"la_lasx", "la464">>, <<"other", "other">>}

\* The build whose table cannot be filled, made by GCC or Clang.
MCMsaSystems == {<<"mips_msa", "mips_msa">>}
=============================================================================
