------------------------------ MODULE FuncTable ------------------------------
(***************************************************************************)
(* Run-time selection of the optimised functions (functable.c, the feature *)
(* checks and the *_functions.h headers).  Every member of the table       *)
(* starts as a stub; whoever calls a stub fills the whole table, member by *)
(* member, while other threads read it.  The functions themselves appear   *)
(* only as the name of the variant that runs.                              *)
(***************************************************************************)
EXTENDS Naturals, Sequences, FiniteSets, TLC

CONSTANTS Builds,       \* name -> [arch, has, native, chorba, all, ctor]
          Cpus,         \* name -> [arch, has]: a CPU and what it offers
          Systems,      \* the pairs <<build, CPU>> to look at
          Threads,      \* threads that call the library
          CallMembers,  \* the members these threads call
          MaxCalls      \* calls of one thread

VARIABLES build,        \* the build that runs
          cpu,          \* the CPU it runs on
          table,        \* functable: a variant's name, or "stub"
          loaded,       \* the constructor has run, or there is none
          aborted,      \* abort() was called
          th            \* per thread: what it is doing

vars == <<build, cpu, table, loaded, aborted, th>>

Adler == {"adler32", "adler32_copy"}
Crc == {"crc32", "crc32_copy"}
Chunk == {"chunkmemset_safe", "inflate_fast", "inflate_fast_safe"}
Compare == {"compare256", "longest_match", "longest_match_slow_knuth", "longest_match_slow_roll"}
Slide == {"slide_hash", "slide_hash_head"}
Members == Adler \cup Crc \cup Chunk \cup Compare \cup Slide
Groups == {Adler, Crc, Chunk, Compare, Slide}

AssignOrderShort ==
    <<"force_init", "adler32", "adler32_copy", "chunkmemset_safe", "compare256", "crc32",
      "crc32_copy", "inflate_fast", "inflate_fast_safe", "longest_match",
      "longest_match_slow_knuth", "longest_match_slow_roll", "slide_hash">>

\* The order of the FUNCTABLE_ASSIGNs; force_init is first and not verified.
AssignOrder ==
    <<"force_init", "adler32", "adler32_copy", "chunkmemset_safe", "compare256", "crc32",
      "crc32_copy", "inflate_fast", "inflate_fast_safe", "longest_match",
      "longest_match_slow_knuth", "longest_match_slow_roll", "slide_hash", "slide_hash_head">>

-----------------------------------------------------------------------------
(* What is compiled in, and what the CPU offers.                           *)

FallbackOffWide(arch, g) ==
    IF arch = "s390" THEN {"VX"} ELSE IF arch = "mips" THEN {} ELSE {"SSE2", "NEON", "P8", "RVV", "LSX"}

\* *_functions.h: a generic group is left out as soon as one of these is
\* native; an architecture that is not listed needs all groups.
FallbackOff(arch, g) ==
    CASE arch = "x86" -> IF g = Crc THEN {"PCLMULQDQ"} ELSE IF g = Adler THEN {"SSSE3"} ELSE {"SSE2"}
      [] arch = "arm" -> IF g = Crc THEN {"CRC32", "PMULL_EOR3"}
                         ELSE IF g = Slide THEN {"NEON", "SIMD"} ELSE {"NEON"}
      [] arch = "mips" -> IF g \in {Adler, Slide} THEN {"MSA"} ELSE {}
      [] arch = "power" -> IF g \in {Adler, Slide} THEN {"VMX", "P8"} ELSE IF g = Chunk THEN {"P8"}
                           ELSE IF g = Crc THEN {"P8CRC"} ELSE {"P9"}
      [] arch = "riscv" -> IF g = Crc THEN {} ELSE {"RVV"}
      [] arch = "s390" -> IF g = Slide THEN {"VX"} ELSE {}
      [] arch = "loongarch" -> IF g = Crc THEN {"CRC"} ELSE {"LSX"}
      [] OTHER -> {}
Fallback(b, g) == b.all \/ FallbackOff(b.arch, g) \cap b.native = {}

X86CheckNoSave(c) ==
    IF "leaf7" \notin c THEN c ELSE c \cup (IF "avx512dq" \in c THEN {"avx512_common"} ELSE {})

\* x86_check_features: the AVX bits count only when the system saves the
\* registers, and leaf 7 is read only when the CPU has it.
X86Check(c) ==
    LET saves(r) == {"osxsave", r} \subseteq c
        ymm == "leaf7" \in c /\ saves("ymm")
        zmm == "leaf7" \in c /\ saves("zmm")
        common == {"avx512f", "avx512dq", "avx512bw", "avx512vl", "bmi2"} \subseteq c
    IN  (c \cap {"sse2", "ssse3", "sse41", "sse42", "pclmulqdq"})
        \cup (IF "leaf7" \in c THEN c \cap {"bmi2"} ELSE {})
        \cup (IF ymm THEN c \cap {"avx2", "vpclmulqdq", "avx2vnni"} ELSE {})
        \cup (IF zmm THEN c \cap {"avx512vnni"} ELSE {})
        \cup (IF zmm /\ common THEN {"avx512_common"} ELSE {})

\* arm_check_features on AArch64; whether PMULL is fast is read from the core
\* the thread happens to run on.
ArmCheck(c, fast) ==
    {"neon"} \cup (c \cap {"crc32", "pmull", "eor3", "dotprod"})
    \cup (IF fast /\ {"pmull", "fast_core"} \subseteq c THEN {"fast_pmull"} ELSE {})

\* riscv_check_features: vectors of less than 16 bytes do not count.
RiscvCheck(c) == (c \cap {"zbc"}) \cup (IF {"rvv", "vlen16"} \subseteq c THEN {"rvv"} ELSE {})

\* The other checks copy the bits of the auxiliary vector.
HwcapCheck(c) == c

\* cpu_check_features
CheckFeatures(arch, c, fast) ==
    CASE arch = "x86" -> X86Check(c) [] arch = "arm" -> ArmCheck(c, fast)
      [] arch = "riscv" -> RiscvCheck(c) [] OTHER -> HwcapCheck(c)

-----------------------------------------------------------------------------
(* The blocks of init_functable, in order.  A part of a block gives some   *)
(* members a variant when its macro is defined, none of `off` is native,   *)
(* and it is native itself or the CPU has the features in `cpu`.           *)

Part(macro, features, off, variant, members) ==
    [macro |-> macro, cpu |-> features, off |-> off, variant |-> variant, members |-> members]

X86Parts == <<
    Part("SSE2", {"sse2"}, {"AVX2"}, "sse2", Chunk \cup Compare \cup Slide),
    Part("SSE2", {"sse2"}, {"SSE41", "PCLMULQDQ"}, "chorba_sse2", Crc),
    Part("SSSE3", {"ssse3"}, {}, "ssse3", Adler),
    Part("SSSE3", {"ssse3"}, {"AVX2"}, "ssse3", Chunk),
    Part("SSE41", {"sse41"}, {"PCLMULQDQ"}, "chorba_sse41", Crc),
    Part("SSE42", {"sse42"}, {"AVX512"}, "sse42", {"adler32_copy"}),
    Part("PCLMULQDQ", {"pclmulqdq"}, {}, "pclmulqdq", Crc),
    Part("AVX2", {"avx2", "bmi2"}, {"AVX512"}, "avx2", Adler \cup Chunk \cup Compare),
    Part("AVX2", {"avx2", "bmi2"}, {}, "avx2", Slide),
    Part("AVX2VNNI", {"avx2vnni"}, {}, "avx2_vnni", {"adler32"}),
    Part("AVX512", {"avx512_common"}, {"AVX512VNNI"}, "avx512", Adler),
    Part("AVX512", {"avx512_common"}, {}, "avx512", Chunk \cup Compare),
    Part("AVX512VNNI", {"avx512vnni"}, {}, "avx512_vnni", Adler),
    Part("VPCLMULQDQ_AVX2", {"pclmulqdq", "avx2", "vpclmulqdq"}, {}, "vpclmulqdq_avx2", Crc),
    Part("VPCLMULQDQ_AVX512", {"pclmulqdq", "avx512_common", "vpclmulqdq"}, {},
         "vpclmulqdq_avx512", Crc)>>

ArmParts == <<
    Part("SIMD", {"simd"}, {"NEON"}, "armv6", Slide),
    Part("NEON", {"neon"}, {}, "neon", Adler \cup Chunk \cup Compare \cup Slide),
    Part("NEON_DOTPROD", {"neon", "dotprod"}, {}, "neon_dotprod", Adler),
    Part("CRC32", {"crc32"}, {"PMULL_EOR3"}, "armv8", Crc),
    Part("PMULL_EOR3", {"crc32", "pmull", "eor3", "fast_pmull"}, {}, "armv8_pmull_eor3", Crc)>>

\* There is no slide_hash_head for MSA.
MipsParts == <<Part("MSA", {"msa"}, {}, "msa", Adler \cup {"slide_hash"})>>

PowerParts == <<
    Part("VMX", {"altivec"}, {}, "vmx", Adler \cup Slide),
    Part("P8", {"arch_2_07"}, {}, "power8", Adler \cup Chunk \cup Slide),
    Part("P8CRC", {"arch_2_07"}, {}, "power8", Crc),
    Part("P9", {"arch_3_00"}, {}, "power9", Compare)>>

RiscvParts == <<
    Part("RVV", {"rvv"}, {}, "rvv", Adler \cup Chunk \cup Compare \cup Slide),
    Part("ZBC", {"zbc"}, {}, "riscv64_zbc", Crc)>>

S390Parts == <<Part("VX", {"vx"}, {}, "vx", Crc \cup Slide)>>

LoongarchParts == <<
    Part("CRC", {"crc"}, {}, "loongarch64", Crc),
    Part("LSX", {"lsx"}, {"LASX"}, "lsx", Adler \cup Chunk \cup Compare \cup Slide),
    Part("LASX", {"lasx"}, {}, "lasx", Adler \cup Chunk \cup Compare \cup Slide)>>

PartsOf(arch) ==
    CASE arch = "x86" -> X86Parts [] arch = "arm" -> ArmParts [] arch = "mips" -> MipsParts
      [] arch = "power" -> PowerParts [] arch = "riscv" -> RiscvParts [] arch = "s390" -> S390Parts
      [] arch = "loongarch" -> LoongarchParts [] OTHER -> <<>>

\* The SSE flavours of Chorba are compiled unless PCLMULQDQ is native.
Usable(b, p) ==
    /\ p.macro \in b.has
    /\ p.variant \in {"chorba_sse2", "chorba_sse41"} => b.chorba /\ "PCLMULQDQ" \notin b.native

\* The generic function of m before any block, or none.
Generic(b, m) ==
    LET g == CHOOSE x \in Groups : m \in x
    IN  CASE ~Fallback(b, g) -> "none" [] Fallback(b, g) /\ m \notin Crc -> "c"
          [] OTHER -> IF b.chorba THEN "chorba" ELSE "braid"

\* The variant of m after the parts that Takes accepts: the last one wins.
LastOf(b, ps, m, Takes(_)) ==
    LET hits == {i \in DOMAIN ps : m \in ps[i].members /\ Usable(b, ps[i]) /\ Takes(ps[i])}
    IN  IF hits = {} THEN Generic(b, m)
        ELSE ps[CHOOSE i \in hits : \A j \in hits : j <= i].variant

\* The local table ft that init_functable fills.  AVX2VNNI is always tested.
Select(b, cf) ==
    [m \in Members |->
        LastOf(b, PartsOf(b.arch), m,
               LAMBDA p : /\ p.off \cap b.native = {}
                          /\ p.macro \in b.native \ {"AVX2VNNI"} \/ p.cpu \subseteq cf)]

\* The same choice made by the preprocessor when there is no run-time
\* detection: the native_ macros of the headers, a later one wins.
Native(macro, variant, members) == [macro |-> macro, variant |-> variant, members |-> members]
Kernels == Adler \cup Chunk \cup Compare \cup Slide

NativeX86Late == <<
    Native("SSE2", "sse2", Chunk \cup Compare \cup Slide), Native("SSSE3", "ssse3", Adler \cup Chunk),
    Native("AVX2", "avx2", Kernels), Native("SSE42", "sse42", {"adler32_copy"})>>
NativeX86 == <<
    Native("SSE2", "sse2", Chunk \cup Compare \cup Slide), Native("SSE2", "chorba_sse2", Crc),
    Native("SSSE3", "ssse3", Adler \cup Chunk), Native("SSE41", "chorba_sse41", Crc),
    Native("SSE42", "sse42", {"adler32_copy"}), Native("PCLMULQDQ", "pclmulqdq", Crc),
    Native("AVX2", "avx2", Kernels), Native("AVX2VNNI", "avx2_vnni", {"adler32"}),
    Native("AVX512", "avx512", Adler \cup Chunk \cup Compare),
    Native("AVX512VNNI", "avx512_vnni", Adler), Native("VPCLMULQDQ_AVX2", "vpclmulqdq_avx2", Crc),
    Native("VPCLMULQDQ_AVX512", "vpclmulqdq_avx512", Crc)>>
NativeArm == <<
    Native("SIMD", "armv6", Slide), Native("NEON", "neon", Kernels),
    Native("NEON_DOTPROD", "neon_dotprod", Adler), Native("CRC32", "armv8", Crc),
    Native("PMULL_EOR3", "armv8_pmull_eor3", Crc)>>
NativeMips == <<Native("MSA", "msa", Adler \cup {"slide_hash"})>>
NativePower == <<
    Native("VMX", "vmx", Adler \cup Slide), Native("P8", "power8", Adler \cup Chunk \cup Slide),
    Native("P8CRC", "power8", Crc), Native("P9", "power9", Compare)>>
NativeRiscv == <<Native("RVV", "rvv", Kernels), Native("ZBC", "riscv64_zbc", Crc)>>
NativeS390 == <<Native("VX", "vx", Crc \cup Slide)>>
NativeLoongarch == <<
    Native("CRC", "loongarch64", Crc), Native("LSX", "lsx", Kernels), Native("LASX", "lasx", Kernels)>>
NativesOf(arch) ==
    CASE arch = "x86" -> NativeX86 [] arch = "arm" -> NativeArm [] arch = "mips" -> NativeMips
      [] arch = "power" -> NativePower [] arch = "riscv" -> NativeRiscv [] arch = "s390" -> NativeS390
      [] arch = "loongarch" -> NativeLoongarch [] OTHER -> <<>>

NativeSelect(b) ==
    [m \in Members |->
        LastOf(b, NativesOf(b.arch), m,
               LAMBDA p : /\ p.macro \in b.native
                          /\ p.macro = "AVX512VNNI" => "AVX512" \in b.native)]

\* What the instructions of a variant need (the compile flags of its files).
Requires(variant) ==
    LET avx == {"osxsave", "ymm", "leaf7"}
        avx512 == avx \cup {"zmm", "avx512f", "avx512dq", "avx512bw", "avx512vl", "bmi2"}
    IN  CASE variant \in {"sse2", "chorba_sse2"} -> {"sse2"} [] variant = "ssse3" -> {"ssse3"}
          [] variant = "chorba_sse41" -> {"sse41"} [] variant = "sse42" -> {"sse42"}
          [] variant = "pclmulqdq" -> {"sse42", "pclmulqdq"} [] variant = "avx2" -> avx \cup {"avx2", "bmi2"}
          [] variant = "avx2_vnni" -> avx \cup {"avx2", "bmi2", "avx2vnni"}
          [] variant = "avx512" -> avx512 [] variant = "avx512_vnni" -> avx512 \cup {"avx512vnni"}
          [] variant = "vpclmulqdq_avx2" -> avx \cup {"avx2", "pclmulqdq", "vpclmulqdq"}
          [] variant = "vpclmulqdq_avx512" -> avx512 \cup {"pclmulqdq", "vpclmulqdq"}
          [] variant = "armv6" -> {"simd"} [] variant = "neon" -> {"neon"}
          [] variant = "neon_dotprod" -> {"neon", "dotprod"} [] variant = "armv8" -> {"crc32"}
          [] variant = "armv8_pmull_eor3" -> {"crc32", "pmull", "eor3"} [] variant = "msa" -> {"msa"}
          [] variant = "vmx" -> {"altivec"} [] variant = "power8" -> {"arch_2_07"}
          [] variant = "power9" -> {"arch_3_00"} [] variant = "rvv" -> {"rvv", "vlen16"}
          [] variant = "riscv64_zbc" -> {"zbc"} [] variant = "vx" -> {"vx"}
          [] variant = "loongarch64" -> {"crc"} [] variant = "lsx" -> {"lsx"} [] variant = "lasx" -> {"lasx"}
          [] OTHER -> {}

\* A build runs on a CPU of its architecture that has all that is native to it.
ASSUME SystemsAssumption ==
    /\ Systems \subseteq (DOMAIN Builds) \X (DOMAIN Cpus)
    /\ \A s \in Systems :
        /\ Builds[s[1]].arch = Cpus[s[2]].arch
        /\ \A i \in DOMAIN PartsOf(Builds[s[1]].arch) :
              LET p == PartsOf(Builds[s[1]].arch)[i]
              IN  p.macro \in Builds[s[1]].native => Requires(p.variant) \subseteq Cpus[s[2]].has

\* What the feature checks take for granted of a CPU: newer extensions come
\* with older ones, a system that saves the zmm registers saves the ymm ones.
ASSUME CpusAssumption ==
    \A s \in Systems :
        LET c == Cpus[s[2]].has
        IN  /\ Cpus[s[2]].arch = "x86" =>
                  /\ "pclmulqdq" \in c => "sse42" \in c
                  /\ "zmm" \in c => "ymm" \in c
                  /\ "avx2vnni" \in c => {"avx2", "bmi2"} \subseteq c
                  /\ "avx512vnni" \in c => {"avx512f", "avx512dq", "avx512bw", "avx512vl", "bmi2"} \subseteq c
            /\ Cpus[s[2]].arch = "arm" => "neon" \in c

\* A macro that is native is defined.
ASSUME BuildsAssumption == \A s \in Systems : Builds[s[1]].native \subseteq Builds[s[1]].has

\* *_natives.h: vpclmulqdq counts with the vectors it works on, and the POWER8
\* functions become native together.  AVX512VNNI is compiled in with AVX512
\* only, and the dot product is an extension of NEON.
ASSUME NativesAssumption ==
    \A s \in Systems :
        LET b == Builds[s[1]]
        IN  /\ b.arch = "x86" =>
                  /\ b.native \cap {"VPCLMULQDQ_AVX512", "AVX512VNNI"} # {} => "AVX512" \in b.native
                  /\ {"VPCLMULQDQ_AVX2", "AVX512"} \subseteq b.native /\ "VPCLMULQDQ_AVX512" \in b.has =>
                        "VPCLMULQDQ_AVX512" \in b.native
            /\ b.arch = "arm" /\ "NEON_DOTPROD" \in b.native /\ "NEON" \in b.has => "NEON" \in b.native
            /\ b.arch = "power" /\ b.native \cap {"P8", "P8CRC"} # {} =>
                  {"P8", "P8CRC"} \cap b.has \subseteq b.native

ASSUME CallsAssumption == CallMembers \subseteq Members

-----------------------------------------------------------------------------
(* Threads.  pc is idle, store (inside init_functable) or jump (a stub     *)
(* whose init succeeded); for says who waits for the init.                 *)

Idle == [pc |-> "idle", for |-> "none", fast |-> FALSE, i |-> 0, held |-> "none", ran |-> "none",
         calls |-> 0]

\* The local table of init_functable, by build, CPU and kind of core.
Chosen ==
    [s \in Systems |-> [fast \in BOOLEAN |->
        Select(Builds[s[1]], CheckFeatures(Cpus[s[2]].arch, Cpus[s[2]].has, fast))]]

Init ==
    /\ \E s \in Systems : build = s[1] /\ cpu = s[2]
    /\ table = [m \in Members \cup {"force_init"} |-> "stub"]
    /\ loaded = ~Builds[build].ctor
    /\ aborted = FALSE
    /\ th = [t \in Threads |-> Idle]

\* init_functable begins: the features are read, the local table is filled.
Begin(t, who) ==
    \E fast \in (IF "fast_core" \in Cpus[cpu].has THEN BOOLEAN ELSE {FALSE}) :
        th' = [th EXCEPT ![t].pc = "store", ![t].for = who, ![t].i = 1, ![t].fast = fast]

\* functable_constructor, before any other code of the program.
Constructor ==
    /\ ~loaded
    /\ ~aborted
    /\ \A t \in Threads : th[t].pc = "idle"
    /\ \E t \in Threads : Begin(t, "constructor")
    /\ UNCHANGED <<build, cpu, table, loaded, aborted>>

MayCall(t) == loaded /\ ~aborted /\ th[t].pc = "idle" /\ th[t].calls < MaxCalls

\* FUNCTABLE_INIT of deflateInit and inflateInit.
ForceInit(t) ==
    /\ MayCall(t)
    /\ \/ table["force_init"] = "stub" /\ Begin(t, "force_init")
       \/ table["force_init"] # "stub" /\ th' = [th EXCEPT ![t].calls = @ + 1]
    /\ UNCHANGED <<build, cpu, table, loaded, aborted>>

\* FUNCTABLE_FPTR: the pointer is kept for later calls (s->longest_match).
Hold(t) ==
    /\ MayCall(t)
    /\ th[t].held = "none"
    /\ th' = [th EXCEPT ![t].held = table["longest_match_slow_roll"]]
    /\ UNCHANGED <<build, cpu, table, loaded, aborted>>

\* A call through pointer p to member m: the variant, or the stub.
Through(t, m, p) ==
    \/ p # "stub" /\ th' = [th EXCEPT ![t].calls = @ + 1, ![t].ran = p]
    \/ p = "stub" /\ Begin(t, m)

Call(t) ==
    /\ MayCall(t)
    /\ \/ \E m \in CallMembers : Through(t, m, table[m])
       \/ th[t].held # "none" /\ Through(t, "longest_match_slow_roll", th[t].held)
    /\ UNCHANGED <<build, cpu, table, loaded, aborted>>

\* One FUNCTABLE_ASSIGN or FUNCTABLE_VERIFY_ASSIGN, an atomic store of one
\* member.  A missing function ends the init: FUNCTABLE_INIT returns
\* Z_VERSION_ERROR, a stub and the constructor abort.
Store(t) ==
    LET m == AssignOrder[th[t].i]
        ft == Chosen[<<build, cpu>>][th[t].fast]
        ok == m = "force_init" \/ ft[m] # "none"
    IN  /\ th[t].pc = "store"
        /\ th[t].i <= Len(AssignOrder)
        /\ ~aborted
        /\ table' = IF ok THEN [table EXCEPT ![m] = IF m = "force_init" THEN "empty" ELSE ft[m]]
                    ELSE table
        /\ th' = [th EXCEPT ![t] = IF ok THEN [th[t] EXCEPT !.i = @ + 1]
                                   ELSE [Idle EXCEPT !.held = th[t].held, !.calls = th[t].calls + 1]]
        /\ aborted' = (~ok /\ th[t].for # "force_init")
        /\ UNCHANGED <<build, cpu, loaded>>

\* The end of init_functable: back to who asked for it.
Return(t) ==
    /\ th[t].pc = "store"
    /\ th[t].i > Len(AssignOrder)
    /\ ~aborted
    /\ loaded' = TRUE
    /\ th' = [th EXCEPT ![t].fast = FALSE, ![t].i = 0,
                        ![t].pc = IF th[t].for \in Members THEN "jump" ELSE "idle",
                        ![t].for = IF @ \in Members THEN @ ELSE "none",
                        ![t].calls = IF th[t].for = "force_init" THEN @ + 1 ELSE @]
    /\ UNCHANGED <<build, cpu, table, aborted>>

\* The stub reads the table again and passes the call on.
Jump(t) ==
    /\ th[t].pc = "jump"
    /\ ~aborted
    /\ \/ table[th[t].for] = "stub" /\ Begin(t, th[t].for)
       \/ /\ table[th[t].for] # "stub"
          /\ th' = [th EXCEPT ![t].pc = "idle", ![t].for = "none", ![t].calls = @ + 1,
                              ![t].ran = table[th[t].for]]
    /\ UNCHANGED <<build, cpu, table, loaded, aborted>>

Step(t) == ForceInit(t) \/ Hold(t) \/ Call(t) \/ Store(t) \/ Return(t) \/ Jump(t)
Next == Constructor \/ \E t \in Threads : Step(t)

Spec == Init /\ [][Next]_vars

\* A thread inside the library is not stopped for ever.
FairSpec == Spec /\ WF_vars(Constructor) /\ \A t \in Threads : WF_vars(Store(t) \/ Return(t) \/ Jump(t))

-----------------------------------------------------------------------------
\* init_functable and the feature checks: no thread ever runs, keeps or finds
\* in the table a function whose instructions the CPU, or the system's saving
\* of registers, does not support - also while several threads on different
\* cores fill the table.
RunsHere ==
    /\ \A m \in Members : table[m] # "stub" => Requires(table[m]) \subseteq Cpus[cpu].has
    /\ \A t \in Threads : Requires(th[t].ran) \cup Requires(th[t].held) \subseteq Cpus[cpu].has

\* functable.h: without run-time detection the native_ macros choose what
\* init_functable would choose on a CPU that has just what is native (asked
\* once per build, before the table is touched).
NativeAgrees ==
    table["force_init"] = "stub" =>
    LET b == Builds[build]
        parts == {PartsOf(b.arch)[i] : i \in DOMAIN PartsOf(b.arch)}
    IN  NativeSelect(b) = Select(b, UNION {p.cpu : p \in {q \in parts : q.macro \in b.native}})

\* Every call that has begun returns: no thread stays inside the table, and no
\* stub finds a stub again after its own init and recurses.
CallsReturn == \A t \in Threads : th[t].pc # "idle" ~> (th[t].pc = "idle" \/ aborted)

\* functable.c: a table that cannot be filled makes inflateInit and deflateInit
\* return Z_VERSION_ERROR; a program that calls nothing else is not aborted.
FailsGracefully == ~aborted

\* The builds without slide_hash_head: native MSA turns SLIDE_HASH_FALLBACK
\* off, and its block of init_functable assigns slide_hash only.
HeadMissing(b) == b.arch = "mips" /\ "MSA" \in b.native /\ ~b.all

\* FUNCTABLE_VERIFY_ASSIGN: in every other build, on every CPU, the fallbacks
\* that are compiled in and the blocks of init_functable leave no member
\* without a function, so that no call and no constructor aborts.
AbortsOnlyHeadless == aborted => HeadMissing(Builds[build])
=============================================================================
