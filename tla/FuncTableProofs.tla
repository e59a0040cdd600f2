--------------------------- MODULE FuncTableProofs ---------------------------
(***************************************************************************)
(* Proofs about FuncTable for every build, every CPU and any number of     *)
(* threads: what init_functable chooses can run (ChosenRuns) and is        *)
(* missing only with native MSA (ChosenFull), and from that, over all      *)
(* interleavings of the stores with calls, the table and every pointer read *)
(* from it hold only functions the CPU can run.  Last, the choice of the   *)
(* preprocessor is that of init_functable (BuildAgrees).                   *)
(***************************************************************************)
EXTENDS FuncTable, TLAPS

\* A nonempty set of indices of a list of parts has a largest element.
LEMMA LastExists ==
    ASSUME NEW S \in SUBSET (1 .. 15), S # {}
    PROVE  \E i \in S : \A j \in S : j <= i
  <1> DEFINE Bounded(k) == \A R \in SUBSET (1 .. k) : R # {} => \E i \in R : \A j \in R : j <= i
  <1>1. Bounded(0)
    <2>1. 1 .. 0 = {}
      OBVIOUS
    <2>2. QED
      BY <2>1
  <1>2. ASSUME NEW k \in Nat, Bounded(k)
        PROVE  Bounded(k + 1)
    <2> SUFFICES ASSUME NEW R \in SUBSET (1 .. k + 1), R # {}
                 PROVE  \E i \in R : \A j \in R : j <= i
      OBVIOUS
    <2>1. CASE k + 1 \in R
      BY <2>1
    <2>2. CASE k + 1 \notin R
      <3>1. R \in SUBSET (1 .. k)
        BY <2>2
      <3>2. QED
        BY <3>1, <1>2
    <2>3. QED
      BY <2>1, <2>2
  <1> HIDE DEF Bounded
  <1>3. Bounded(5)
    BY <1>1, <1>2
  <1>4. Bounded(10)
    BY <1>3, <1>2
  <1>5. Bounded(15)
    BY <1>4, <1>2
  <1>6. QED
    BY <1>5 DEF Bounded

\* The parts that give m a variant.
Hits(b, cf, m) ==
    {i \in DOMAIN PartsOf(b.arch) :
        LET p == PartsOf(b.arch)[i]
        IN  /\ m \in p.members
            /\ Usable(b, p)
            /\ p.off \cap b.native = {}
            /\ p.macro \in b.native \ {"AVX2VNNI"} \/ p.cpu \subseteq cf}

\* No architecture has more than fifteen parts.
LEMMA PartsCount ==
    ASSUME NEW arch
    PROVE  DOMAIN PartsOf(arch) \subseteq 1 .. 15
  <1>1. /\ DOMAIN X86Parts = 1 .. 15 /\ DOMAIN ArmParts = 1 .. 5 /\ DOMAIN MipsParts = 1 .. 1
        /\ DOMAIN PowerParts = 1 .. 4 /\ DOMAIN RiscvParts = 1 .. 2 /\ DOMAIN S390Parts = 1 .. 1
        /\ DOMAIN LoongarchParts = 1 .. 3
    BY DEF X86Parts, ArmParts, MipsParts, PowerParts, RiscvParts, S390Parts, LoongarchParts
  <1>2. DOMAIN <<>> = 1 .. 0
    OBVIOUS
  <1>3. QED
    BY <1>1, <1>2 DEF PartsOf

\* init_functable leaves the generic function or takes the variant of a part
\* whose conditions hold.
LEMMA SelectIs ==
    ASSUME NEW b, NEW cf, NEW m \in Members
    PROVE  \/ Hits(b, cf, m) = {} /\ Select(b, cf)[m] = Generic(b, m)
           \/ \E i \in Hits(b, cf, m) : Select(b, cf)[m] = PartsOf(b.arch)[i].variant
  <1> DEFINE h == Hits(b, cf, m)
  <1>1. Select(b, cf)[m] = IF h = {} THEN Generic(b, m)
                           ELSE PartsOf(b.arch)[CHOOSE i \in h : \A j \in h : j <= i].variant
    BY DEF Select, LastOf, Hits
  <1>2. h \in SUBSET (1 .. 15)
    BY PartsCount DEF Hits
  <1>3. CASE h # {}
    <2>1. \E i \in h : \A j \in h : j <= i
      BY <1>2, <1>3, LastExists
    <2>2. QED
      BY <1>1, <1>3, <2>1
  <1>4. QED
    BY <1>1, <1>3

\* The generic functions run everywhere.
LEMMA GenericRuns ==
    ASSUME NEW b, NEW m \in Members
    PROVE  Requires(Generic(b, m)) = {}
  <1>1. Generic(b, m) \in {"none", "c", "chorba", "braid"}
    BY DEF Generic
  <1>2. QED
    BY <1>1 DEF Requires

-----------------------------------------------------------------------------
\* x86_features.c: a part whose features were all found can run, the registers
\* its instructions use being saved by the system.
LEMMA X86Runs ==
    ASSUME NEW c,
           "pclmulqdq" \in c => "sse42" \in c,
           "zmm" \in c => "ymm" \in c,
           "avx2vnni" \in c => {"avx2", "bmi2"} \subseteq c,
           "avx512vnni" \in c => {"avx512f", "avx512dq", "avx512bw", "avx512vl", "bmi2"} \subseteq c,
           NEW i \in DOMAIN X86Parts, X86Parts[i].cpu \subseteq X86Check(c)
    PROVE  Requires(X86Parts[i].variant) \subseteq c
  <1> DEFINE f == X86Check(c)
  <1>1. /\ \A x \in {"sse2", "ssse3", "sse41", "sse42", "pclmulqdq"} : x \in f => x \in c
        /\ "bmi2" \in f => {"leaf7", "bmi2"} \subseteq c
        /\ \A x \in {"avx2", "vpclmulqdq", "avx2vnni"} : x \in f => {"leaf7", "osxsave", "ymm", x} \subseteq c
        /\ "avx512vnni" \in f => {"leaf7", "osxsave", "zmm", "avx512vnni"} \subseteq c
        /\ "avx512_common" \in f => {"leaf7", "osxsave", "zmm", "avx512f", "avx512dq", "avx512bw", "avx512vl", "bmi2"} \subseteq c
    BY DEF X86Check
  <1> HIDE DEF f
  <1>2. i \in 1 .. 15
    BY DEF X86Parts
  <1>3. /\ X86Parts[1].cpu = {"sse2"} /\ X86Parts[1].variant = "sse2"
        /\ X86Parts[2].cpu = {"sse2"} /\ X86Parts[2].variant = "chorba_sse2"
        /\ X86Parts[3].cpu = {"ssse3"} /\ X86Parts[3].variant = "ssse3"
        /\ X86Parts[4].cpu = {"ssse3"} /\ X86Parts[4].variant = "ssse3"
        /\ X86Parts[5].cpu = {"sse41"} /\ X86Parts[5].variant = "chorba_sse41"
        /\ X86Parts[6].cpu = {"sse42"} /\ X86Parts[6].variant = "sse42"
        /\ X86Parts[7].cpu = {"pclmulqdq"} /\ X86Parts[7].variant = "pclmulqdq"
        /\ X86Parts[8].cpu = {"avx2", "bmi2"} /\ X86Parts[8].variant = "avx2"
        /\ X86Parts[9].cpu = {"avx2", "bmi2"} /\ X86Parts[9].variant = "avx2"
        /\ X86Parts[10].cpu = {"avx2vnni"} /\ X86Parts[10].variant = "avx2_vnni"
        /\ X86Parts[11].cpu = {"avx512_common"} /\ X86Parts[11].variant = "avx512"
        /\ X86Parts[12].cpu = {"avx512_common"} /\ X86Parts[12].variant = "avx512"
        /\ X86Parts[13].cpu = {"avx512vnni"} /\ X86Parts[13].variant = "avx512_vnni"
        /\ X86Parts[14].cpu = {"pclmulqdq", "avx2", "vpclmulqdq"} /\ X86Parts[14].variant = "vpclmulqdq_avx2"
        /\ X86Parts[15].cpu = {"pclmulqdq", "avx512_common", "vpclmulqdq"} /\ X86Parts[15].variant = "vpclmulqdq_avx512"
    BY DEF X86Parts, Part
  <1>4. CASE i = 1
    BY <1>1, <1>3, <1>4 DEF Requires, f
  <1>5. CASE i = 2
    BY <1>1, <1>3, <1>5 DEF Requires, f
  <1>6. CASE i = 3
    BY <1>1, <1>3, <1>6 DEF Requires, f
  <1>7. CASE i = 4
    BY <1>1, <1>3, <1>7 DEF Requires, f
  <1>8. CASE i = 5
    BY <1>1, <1>3, <1>8 DEF Requires, f
  <1>9. CASE i = 6
    BY <1>1, <1>3, <1>9 DEF Requires, f
  <1>10. CASE i = 7
    BY <1>1, <1>3, <1>10 DEF Requires, f
  <1>11. CASE i = 8
    BY <1>1, <1>3, <1>11 DEF Requires, f
  <1>12. CASE i = 9
    BY <1>1, <1>3, <1>12 DEF Requires, f
  <1>13. CASE i = 10
    BY <1>1, <1>3, <1>13 DEF Requires, f
  <1>14. CASE i = 11
    BY <1>1, <1>3, <1>14 DEF Requires, f
  <1>15. CASE i = 12
    BY <1>1, <1>3, <1>15 DEF Requires, f
  <1>16. CASE i = 13
    BY <1>1, <1>3, <1>16 DEF Requires, f
  <1>17. CASE i = 14
    BY <1>1, <1>3, <1>17 DEF Requires, f
  <1>18. CASE i = 15
    BY <1>1, <1>3, <1>18 DEF Requires, f
  <1>19. QED
    BY <1>2, <1>4, <1>5, <1>6, <1>7, <1>8, <1>9, <1>10, <1>11, <1>12, <1>13, <1>14, <1>15, <1>16, <1>17, <1>18

\* arm_features.c: the same for ARM.
LEMMA ArmRuns ==
    ASSUME NEW c, NEW fast, "neon" \in c,
           NEW i \in DOMAIN ArmParts, ArmParts[i].cpu \subseteq ArmCheck(c, fast)
    PROVE  Requires(ArmParts[i].variant) \subseteq c
  <1>1. i \in 1 .. 5
    BY DEF ArmParts
  <1>2. \A x \in ArmCheck(c, fast) : x \in c \/ x = "fast_pmull"
    BY DEF ArmCheck
  <1>3. /\ ArmParts[1].cpu = {"simd"} /\ ArmParts[1].variant = "armv6"
        /\ ArmParts[2].cpu = {"neon"} /\ ArmParts[2].variant = "neon"
        /\ ArmParts[3].cpu = {"neon", "dotprod"} /\ ArmParts[3].variant = "neon_dotprod"
        /\ ArmParts[4].cpu = {"crc32"} /\ ArmParts[4].variant = "armv8"
        /\ ArmParts[5].cpu = {"crc32", "pmull", "eor3", "fast_pmull"} /\ ArmParts[5].variant = "armv8_pmull_eor3"
    BY DEF ArmParts, Part
  <1>4. CASE i = 1
    BY <1>2, <1>3, <1>4 DEF Requires
  <1>5. CASE i = 2
    BY <1>2, <1>3, <1>5 DEF Requires
  <1>6. CASE i = 3
    BY <1>2, <1>3, <1>6 DEF Requires
  <1>7. CASE i = 4
    BY <1>2, <1>3, <1>7 DEF Requires
  <1>8. CASE i = 5
    BY <1>2, <1>3, <1>8 DEF Requires
  <1>9. QED
    BY <1>1, <1>4, <1>5, <1>6, <1>7, <1>8

\* The same for the architectures that read the auxiliary vector.
LEMMA OtherRuns ==
    ASSUME NEW c, NEW arch, arch \notin {"x86", "arm"}, NEW fast,
           NEW i \in DOMAIN PartsOf(arch), PartsOf(arch)[i].cpu \subseteq CheckFeatures(arch, c, fast)
    PROVE  Requires(PartsOf(arch)[i].variant) \subseteq c
  <1>1. CASE arch = "mips"
    BY <1>1 DEF PartsOf, MipsParts, Part, CheckFeatures, HwcapCheck, Requires
  <1>2. CASE arch = "power"
    BY <1>2, SMTT(30) DEF PartsOf, PowerParts, Part, CheckFeatures, HwcapCheck, Requires
  <1>3. CASE arch = "riscv"
    BY <1>3 DEF PartsOf, RiscvParts, Part, CheckFeatures, RiscvCheck, Requires
  <1>4. CASE arch = "s390"
    BY <1>4 DEF PartsOf, S390Parts, Part, CheckFeatures, HwcapCheck, Requires
  <1>5. CASE arch = "loongarch"
    BY <1>5, SMTT(30) DEF PartsOf, LoongarchParts, Part, CheckFeatures, HwcapCheck, Requires
  <1>6. CASE arch \notin {"mips", "power", "riscv", "s390", "loongarch"}
    BY <1>6 DEF PartsOf
  <1>7. QED
    BY <1>1, <1>2, <1>3, <1>4, <1>5, <1>6

\* Whatever init_functable chooses, the CPU can run.
LEMMA ChosenRuns ==
    ASSUME NEW s \in Systems, NEW fast \in BOOLEAN, NEW m \in Members
    PROVE  Requires(Chosen[s][fast][m]) \subseteq Cpus[s[2]].has
  <1> DEFINE b == Builds[s[1]]
             c == Cpus[s[2]].has
             cf == CheckFeatures(Cpus[s[2]].arch, c, fast)
  <1>1. b.arch = Cpus[s[2]].arch
    BY SystemsAssumption
  <1>2. Chosen[s][fast] = Select(b, cf)
    BY DEF Chosen
  <1>3. Requires(Generic(b, m)) \subseteq c
    BY GenericRuns
  <1>4. ASSUME NEW i \in Hits(b, cf, m)
        PROVE  Requires(PartsOf(b.arch)[i].variant) \subseteq c
    <2>1. /\ i \in DOMAIN PartsOf(b.arch)
          /\ PartsOf(b.arch)[i].macro \in b.native \/ PartsOf(b.arch)[i].cpu \subseteq cf
      BY DEF Hits
    <2>2. CASE PartsOf(b.arch)[i].macro \in b.native
      BY <2>1, <2>2, SystemsAssumption
    <2>3. CASE PartsOf(b.arch)[i].cpu \subseteq cf
      <3>1. CASE b.arch = "x86"
        <4>1. PartsOf(b.arch) = X86Parts /\ cf = X86Check(c)
          BY <1>1, <3>1 DEF PartsOf, CheckFeatures
        <4>2. /\ "pclmulqdq" \in c => "sse42" \in c
              /\ "zmm" \in c => "ymm" \in c
              /\ "avx2vnni" \in c => {"avx2", "bmi2"} \subseteq c
              /\ "avx512vnni" \in c =>
                    {"avx512f", "avx512dq", "avx512bw", "avx512vl", "bmi2"} \subseteq c
          BY <1>1, <3>1, CpusAssumption
        <4> HIDE DEF b, c, cf
        <4>3. QED
          BY <2>1, <2>3, <4>1, <4>2, X86Runs
      <3>2. CASE b.arch = "arm"
        <4>1. PartsOf(b.arch) = ArmParts /\ cf = ArmCheck(c, fast)
          BY <1>1, <3>2 DEF PartsOf, CheckFeatures
        <4>2. "neon" \in c
          BY <1>1, <3>2, CpusAssumption
        <4> HIDE DEF b, c, cf
        <4>3. QED
          BY <2>1, <2>3, <4>1, <4>2, ArmRuns
      <3>3. CASE b.arch \notin {"x86", "arm"}
        BY <1>1, <2>1, <2>3, <3>3, OtherRuns
      <3>4. QED
        BY <3>1, <3>2, <3>3
    <2>4. QED
      BY <2>1, <2>2, <2>3
  <1> HIDE DEF b, c, cf
  <1>5. QED
    <2>1. Requires(Select(b, cf)[m]) \subseteq c
      BY <1>3, <1>4, SelectIs
    <2>2. QED
      BY <1>2, <2>1 DEF c

-----------------------------------------------------------------------------
\* The inductive invariant.  A thread's record: besides what RunsHere says, it
\* stands inside the list of stores, and a stub waits for its own member.
Fields == {"pc", "for", "fast", "i", "held", "ran", "calls"}

ThreadOK(r) ==
    /\ r = [x \in Fields |-> r[x]]
    /\ r.pc \in {"idle", "store", "jump"}
    /\ r.fast \in BOOLEAN
    /\ r.i \in Nat
    /\ r.pc = "store" => r.i > 0
    /\ r.pc = "jump" => r.for \in Members
    /\ Requires(r.ran) \subseteq Cpus[cpu].has
    /\ Requires(r.held) \subseteq Cpus[cpu].has

\* The table: the system is one of Systems, and all that is stored can run.
TableOK ==
    /\ <<build, cpu>> \in Systems
    /\ table = [m \in Members \cup {"force_init"} |-> table[m]]
    /\ \A m \in Members \cup {"force_init"} : Requires(table[m]) \subseteq Cpus[cpu].has

\* Both together are inductive.
IInv ==
    /\ TableOK
    /\ th = [t \in Threads |-> th[t]]
    /\ \A t \in Threads : ThreadOK(th[t])

\* What is no optimised function needs no feature.
LEMMA NoneRuns ==
    Requires("none") = {} /\ Requires("stub") = {} /\ Requires("empty") = {}
  BY DEF Requires

\* The stores of init_functable: thirteen members after force_init.
LEMMA AssignOrderMembers ==
    /\ Len(AssignOrder) = 14
    /\ \A i \in 1 .. 14 : AssignOrder[i] \in Members \cup {"force_init"}
  <1>1. Len(AssignOrder) = 14
    BY DEF AssignOrder
  <1>2. \A i \in 1 .. 14 : AssignOrder[i] \in Members \cup {"force_init"}
    BY DEF AssignOrder, Members, Adler, Crc, Chunk, Compare, Slide
  <1>3. QED
    BY <1>1, <1>2

\* The invariant holds before anything has run.
LEMMA InitIInv == Init => IInv
  <1> SUFFICES ASSUME Init PROVE IInv
    OBVIOUS
  <1>1. PICK s \in Systems : build = s[1] /\ cpu = s[2]
    BY DEF Init
  <1>2. <<build, cpu>> \in Systems
    BY <1>1, SystemsAssumption
  <1>3. ThreadOK(Idle)
    <2>1. Idle = [x \in Fields |-> Idle[x]]
      BY DEF Idle, Fields
    <2>2. QED
      BY <2>1, NoneRuns DEF ThreadOK, Idle
  <1>4. QED
    BY <1>2, <1>3, NoneRuns DEF Init, IInv, TableOK

\* A step that changes one thread and maybe the table: what is left to show.
LEMMA ThreadStep ==
    ASSUME IInv, NEW t \in Threads, TableOK', NEW r,
           th' = [th EXCEPT ![t] = r], UNCHANGED cpu, ThreadOK(r)
    PROVE  IInv'
  <1>1. th' = [u \in Threads |-> th'[u]] /\ th'[t] = r /\ \A u \in Threads : u # t => th'[u] = th[u]
    BY DEF IInv
  <1>2. \A u \in Threads : ThreadOK(th[u])'
    BY <1>1 DEF IInv, ThreadOK
  <1>3. QED
    BY <1>1, <1>2 DEF IInv

\* A step that leaves the table alone keeps its part of the invariant.
LEMMA TableKept ==
    ASSUME IInv, UNCHANGED <<build, cpu, table>>
    PROVE  TableOK'
  BY DEF IInv, TableOK

\* Beginning an init moves only the thread that begins it.
LEMMA BeginIInv ==
    ASSUME IInv, NEW t \in Threads, NEW who, Begin(t, who), UNCHANGED <<build, cpu, table>>
    PROVE  IInv'
  <1>1. PICK fast \in BOOLEAN :
            th' = [th EXCEPT ![t].pc = "store", ![t].for = who, ![t].i = 1, ![t].fast = fast]
    BY DEF Begin
  <1>2. PICK r : r = [th[t] EXCEPT !.pc = "store", !.for = who, !.i = 1, !.fast = fast]
    OBVIOUS
  <1>3. th' = [th EXCEPT ![t] = r]
    BY <1>1, <1>2
  <1>4. ThreadOK(th[t])
    BY DEF IInv
  <1>5. /\ r = [x \in Fields |-> r[x]] /\ r.pc = "store" /\ r.for = who /\ r.i = 1 /\ r.fast = fast
        /\ r.ran = th[t].ran /\ r.held = th[t].held
    BY <1>2, <1>4 DEF ThreadOK, Fields
  <1>6. ThreadOK(r)
    BY <1>4, <1>5 DEF ThreadOK
  <1>7. QED
    BY <1>3, <1>6, ThreadStep, TableKept

\* A pointer that is called belongs to the table or was read from it.
LEMMA ThroughIInv ==
    ASSUME IInv, NEW t \in Threads, NEW m, NEW p, Through(t, m, p),
           Requires(p) \subseteq Cpus[cpu].has, th[t].pc = "idle", UNCHANGED <<build, cpu, table>>
    PROVE  IInv'
  <1>1. CASE p = "stub" /\ Begin(t, m)
    BY <1>1, BeginIInv
  <1>2. ASSUME th' = [th EXCEPT ![t].calls = @ + 1, ![t].ran = p]
        PROVE  IInv'
    <2>1. PICK r : r = [th[t] EXCEPT !.calls = @ + 1, !.ran = p]
      OBVIOUS
    <2>2. th' = [th EXCEPT ![t] = r]
      BY <1>2, <2>1
    <2>3. ThreadOK(th[t])
      BY DEF IInv
    <2>4. /\ r = [x \in Fields |-> r[x]] /\ r.pc = "idle" /\ r.i = th[t].i /\ r.fast = th[t].fast
          /\ r.ran = p /\ r.held = th[t].held
      BY <2>1, <2>3 DEF ThreadOK, Fields
    <2>5. ThreadOK(r)
      BY <2>3, <2>4 DEF ThreadOK
    <2>6. QED
      BY <2>2, <2>5, ThreadStep, TableKept
  <1>3. QED
    BY <1>1, <1>2 DEF Through

\* FUNCTABLE_INIT keeps the invariant.
LEMMA ForceInitIInv ==
    ASSUME IInv, NEW t \in Threads, ForceInit(t)
    PROVE  IInv'
  <1>1. CASE Begin(t, "force_init")
    BY <1>1, BeginIInv DEF ForceInit
  <1>2. ASSUME th' = [th EXCEPT ![t].calls = @ + 1]
        PROVE  IInv'
    <2>1. PICK r : r = [th[t] EXCEPT !.calls = @ + 1]
      OBVIOUS
    <2>2. th' = [th EXCEPT ![t] = r]
      BY <1>2, <2>1
    <2>3. ThreadOK(th[t])
      BY DEF IInv
    <2>4. /\ r = [x \in Fields |-> r[x]] /\ r.pc = th[t].pc /\ r.for = th[t].for /\ r.i = th[t].i
          /\ r.fast = th[t].fast /\ r.ran = th[t].ran /\ r.held = th[t].held
      BY <2>1, <2>3 DEF ThreadOK, Fields
    <2>5. ThreadOK(r)
      BY <2>3, <2>4 DEF ThreadOK
    <2>6. QED
      BY <2>2, <2>5, ThreadStep, TableKept DEF ForceInit
  <1>3. QED
    BY <1>1, <1>2 DEF ForceInit

\* Keeping a pointer of the table keeps the invariant.
LEMMA HoldIInv ==
    ASSUME IInv, NEW t \in Threads, Hold(t)
    PROVE  IInv'
  <1>1. PICK r : r = [th[t] EXCEPT !.held = table["longest_match_slow_roll"]]
    OBVIOUS
  <1>2. th' = [th EXCEPT ![t] = r]
    BY <1>1 DEF Hold
  <1>3. ThreadOK(th[t])
    BY DEF IInv
  <1>4. /\ r = [x \in Fields |-> r[x]] /\ r.pc = th[t].pc /\ r.for = th[t].for /\ r.i = th[t].i
        /\ r.fast = th[t].fast /\ r.ran = th[t].ran /\ r.held = table["longest_match_slow_roll"]
    BY <1>1, <1>3 DEF ThreadOK, Fields
  <1>5. Requires(table["longest_match_slow_roll"]) \subseteq Cpus[cpu].has
    BY DEF IInv, TableOK, Members, Compare
  <1>6. ThreadOK(r)
    BY <1>3, <1>4, <1>5 DEF ThreadOK
  <1>7. QED
    BY <1>2, <1>6, ThreadStep, TableKept DEF Hold

\* A call through the table or a kept pointer keeps the invariant.
LEMMA CallIInv ==
    ASSUME IInv, NEW t \in Threads, Call(t)
    PROVE  IInv'
  <1>1. th[t].pc = "idle" /\ UNCHANGED <<build, cpu, table>>
    BY DEF Call, MayCall
  <1>2. ASSUME NEW m \in CallMembers, Through(t, m, table[m])
        PROVE  IInv'
    <2>1. Requires(table[m]) \subseteq Cpus[cpu].has
      BY CallsAssumption DEF IInv, TableOK
    <2>2. QED
      BY <1>1, <1>2, <2>1, ThroughIInv
  <1>3. CASE Through(t, "longest_match_slow_roll", th[t].held)
    <2>1. Requires(th[t].held) \subseteq Cpus[cpu].has
      BY DEF IInv, ThreadOK
    <2>2. QED
      BY <1>1, <1>3, <2>1, ThroughIInv
  <1>4. QED
    BY <1>2, <1>3 DEF Call

\* FUNCTABLE_ASSIGN stores only what the CPU can run.
LEMMA StoreIInv ==
    ASSUME IInv, NEW t \in Threads, Store(t)
    PROVE  IInv'
  <1> DEFINE m == AssignOrder[th[t].i]
             ft == Chosen[<<build, cpu>>][th[t].fast]
             ok == m = "force_init" \/ ft[m] # "none"
  <1>1. ThreadOK(th[t]) /\ th[t].pc = "store"
    BY DEF IInv, Store
  <1>2. th[t].i \in 1 .. 14 /\ th[t].fast \in BOOLEAN
    <2>1. th[t].i <= Len(AssignOrder)
      BY DEF Store
    <2>2. QED
      BY <1>1, <2>1, AssignOrderMembers DEF ThreadOK
  <1>3. m \in Members \cup {"force_init"}
    BY <1>2, AssignOrderMembers
  <1>4. m \in Members => Requires(ft[m]) \subseteq Cpus[cpu].has
    BY <1>2, ChosenRuns DEF IInv, TableOK
  <1>5. /\ table' = IF ok THEN [table EXCEPT ![m] = IF m = "force_init" THEN "empty" ELSE ft[m]] ELSE table
        /\ th' = [th EXCEPT ![t] = IF ok THEN [th[t] EXCEPT !.i = @ + 1]
                                   ELSE [Idle EXCEPT !.held = th[t].held, !.calls = th[t].calls + 1]]
        /\ UNCHANGED <<build, cpu>>
    BY DEF Store
  <1> HIDE DEF m, ft, ok
  <1>6. TableOK'
    BY <1>3, <1>4, <1>5, NoneRuns DEF IInv, TableOK
  <1>7. CASE ok
    <2>1. PICK r : r = [th[t] EXCEPT !.i = @ + 1]
      OBVIOUS
    <2>2. th' = [th EXCEPT ![t] = r]
      <3>1. th' = [th EXCEPT ![t] = [th[t] EXCEPT !.i = @ + 1]]
        BY <1>5, <1>7 DEF IInv
      <3>2. QED
        BY <2>1, <3>1
    <2>3. /\ r = [x \in Fields |-> r[x]] /\ r.pc = th[t].pc /\ r.i = th[t].i + 1
          /\ r.fast = th[t].fast /\ r.ran = th[t].ran /\ r.held = th[t].held
      BY <1>1, <2>1 DEF ThreadOK, Fields
    <2>4. ThreadOK(r)
      BY <1>1, <2>3 DEF ThreadOK
    <2>5. QED
      BY <1>5, <1>6, <2>2, <2>4, ThreadStep
  <1>8. CASE ~ok
    <2>1. PICK r : r = [Idle EXCEPT !.held = th[t].held, !.calls = th[t].calls + 1]
      OBVIOUS
    <2>2. th' = [th EXCEPT ![t] = r]
      BY <1>5, <1>8, <2>1
    <2>3. Idle = [x \in Fields |-> Idle[x]] /\ Idle.pc = "idle" /\ Idle.i = 0 /\ Idle.fast \in BOOLEAN /\ Idle.ran = "none"
      BY DEF Idle, Fields
    <2>4. /\ r = [x \in Fields |-> r[x]] /\ r.pc = "idle" /\ r.i = 0 /\ r.fast \in BOOLEAN
          /\ r.ran = "none" /\ r.held = th[t].held
      BY <2>1, <2>3 DEF Fields
    <2>5. ThreadOK(r)
      BY <1>1, <2>4, NoneRuns DEF ThreadOK
    <2>6. QED
      BY <1>5, <1>6, <2>2, <2>5, ThreadStep
  <1>9. QED
    BY <1>7, <1>8

\* The end of init_functable keeps the invariant.
LEMMA ReturnIInv ==
    ASSUME IInv, NEW t \in Threads, Return(t)
    PROVE  IInv'
  <1>1. PICK r : r = [th[t] EXCEPT !.fast = FALSE, !.i = 0,
                          !.pc = IF th[t].for \in Members THEN "jump" ELSE "idle",
                          !.for = IF @ \in Members THEN @ ELSE "none",
                          !.calls = IF th[t].for = "force_init" THEN @ + 1 ELSE @]
    OBVIOUS
  <1>2. ThreadOK(th[t])
    BY DEF IInv
  <1>3. th' = [th EXCEPT ![t] = r]
    BY <1>1, <1>2 DEF Return, ThreadOK, Fields
  <1>4. /\ r = [x \in Fields |-> r[x]] /\ r.pc = (IF th[t].for \in Members THEN "jump" ELSE "idle")
        /\ r.for = (IF th[t].for \in Members THEN th[t].for ELSE "none") /\ r.i = 0 /\ r.fast \in BOOLEAN
        /\ r.ran = th[t].ran /\ r.held = th[t].held
    BY <1>1, <1>2 DEF ThreadOK, Fields
  <1>5. ThreadOK(r)
    BY <1>2, <1>4 DEF ThreadOK
  <1>6. QED
    BY <1>3, <1>5, ThreadStep, TableKept DEF Return

\* A stub passes the call on to what the table holds by then.
LEMMA JumpIInv ==
    ASSUME IInv, NEW t \in Threads, Jump(t)
    PROVE  IInv'
  <1>1. ThreadOK(th[t]) /\ th[t].pc = "jump" /\ UNCHANGED <<build, cpu, table>>
    BY DEF IInv, Jump
  <1>2. CASE Begin(t, th[t].for)
    BY <1>1, <1>2, BeginIInv
  <1>3. ASSUME th' = [th EXCEPT ![t].pc = "idle", ![t].for = "none", ![t].calls = @ + 1,
                                ![t].ran = table[th[t].for]]
        PROVE  IInv'
    <2>1. PICK r : r = [th[t] EXCEPT !.pc = "idle", !.for = "none", !.calls = @ + 1,
                                     !.ran = table[th[t].for]]
      OBVIOUS
    <2>2. th' = [th EXCEPT ![t] = r]
      BY <1>1, <1>3, <2>1 DEF ThreadOK, Fields
    <2>3. /\ r = [x \in Fields |-> r[x]] /\ r.pc = "idle" /\ r.i = th[t].i /\ r.fast = th[t].fast
          /\ r.ran = table[th[t].for] /\ r.held = th[t].held
      BY <1>1, <2>1 DEF ThreadOK, Fields
    <2>4. Requires(table[th[t].for]) \subseteq Cpus[cpu].has
      BY <1>1 DEF IInv, TableOK, ThreadOK
    <2>5. ThreadOK(r)
      BY <1>1, <2>3, <2>4 DEF ThreadOK
    <2>6. QED
      BY <1>1, <2>2, <2>5, ThreadStep, TableKept
  <1>4. QED
    BY <1>2, <1>3 DEF Jump

\* Every step keeps the invariant.
LEMMA NextIInv == IInv /\ [Next]_vars => IInv'
  <1> SUFFICES ASSUME IInv, [Next]_vars PROVE IInv'
    OBVIOUS
  <1>1. CASE Constructor
    BY <1>1, BeginIInv DEF Constructor
  <1>2. ASSUME NEW t \in Threads, Step(t)
        PROVE  IInv'
    BY <1>2, ForceInitIInv, HoldIInv, CallIInv, StoreIInv, ReturnIInv, JumpIInv DEF Step
  <1>3. CASE UNCHANGED vars
    BY <1>3 DEF vars, IInv, TableOK, ThreadOK
  <1>4. QED
    BY <1>1, <1>2, <1>3 DEF Next

\* functable.c: the invariant holds at every step of every thread.
THEOREM TableInvariant == Spec => []IInv
  BY InitIInv, NextIInv, PTL DEF Spec

\* init_functable and the feature checks: no thread ever runs, keeps or finds in
\* the table a function that the CPU, or the system's saving of registers, does
\* not support.
THEOREM RunsEverywhere == Spec => []RunsHere
  <1>1. IInv => RunsHere
    BY DEF IInv, TableOK, ThreadOK, RunsHere
  <1>2. QED
    BY <1>1, TableInvariant, PTL
-----------------------------------------------------------------------------
\* A member belongs to one group.
LEMMA GroupOf ==
    ASSUME NEW m, NEW g \in Groups, m \in g
    PROVE  (CHOOSE x \in Groups : m \in x) = g
  <1>1. \A x, y \in Groups : m \in x /\ m \in y => x = y
    BY DEF Groups, Adler, Crc, Chunk, Compare, Slide
  <1>2. QED
    BY <1>1

\* The groups are different sets.
LEMMA GroupsDiffer ==
    /\ Crc # Adler /\ Crc # Chunk /\ Crc # Compare /\ Crc # Slide
    /\ Adler # Chunk /\ Adler # Compare /\ Adler # Slide
    /\ Slide # Chunk /\ Slide # Compare /\ Chunk # Compare
  <1>1. /\ "crc32" \in Crc /\ "crc32" \notin Adler \cup Chunk \cup Compare \cup Slide
        /\ "adler32" \in Adler /\ "adler32" \notin Chunk \cup Compare \cup Slide
        /\ "slide_hash" \in Slide /\ "slide_hash" \notin Chunk \cup Compare
        /\ "compare256" \in Compare /\ "compare256" \notin Chunk
    BY DEF Crc, Adler, Chunk, Compare, Slide
  <1>2. QED
    BY <1>1

\* A native part that nothing switches off is taken.
LEMMA NativeHits ==
    ASSUME NEW b, NEW cf, NEW ps, ps = PartsOf(b.arch), NEW i \in DOMAIN ps, NEW m \in ps[i].members,
           ps[i].macro \in b.native, b.native \subseteq b.has, ps[i].macro # "AVX2VNNI",
           ps[i].variant \notin {"chorba_sse2", "chorba_sse41"}, ps[i].off \cap b.native = {}
    PROVE  Hits(b, cf, m) # {}
  <1>1. i \in Hits(b, cf, m)
    BY DEF Hits, Usable
  <1>2. QED
    BY <1>1

\* x86_functions.h: where a generic group is left out, some block of
\* init_functable gives its members a function on every CPU.
LEMMA X86Covered ==
    ASSUME NEW b, b.arch = "x86", b.native \subseteq b.has, NEW cf, NEW g \in Groups, NEW m \in g,
           ~Fallback(b, g)
    PROVE  Hits(b, cf, m) # {}
  <1>1. PartsOf(b.arch) = X86Parts
    BY DEF PartsOf
  <1>2. DOMAIN X86Parts = 1 .. 15
    BY DEF X86Parts
  <1>3. FallbackOff("x86", g) = IF g = Crc THEN {"PCLMULQDQ"} ELSE IF g = Adler THEN {"SSSE3"} ELSE {"SSE2"}
    BY DEF FallbackOff
  <1>4. FallbackOff("x86", g) \cap b.native # {}
    BY DEF Fallback
  <1>5. /\ X86Parts[1].macro = "SSE2" /\ X86Parts[1].variant = "sse2"
        /\ X86Parts[1].off = {"AVX2"} /\ X86Parts[1].members = Chunk \cup Compare \cup Slide
    BY DEF X86Parts, Part
  <1>6. /\ X86Parts[3].macro = "SSSE3" /\ X86Parts[3].variant = "ssse3"
        /\ X86Parts[3].off = {} /\ X86Parts[3].members = Adler
    BY DEF X86Parts, Part
  <1>7. /\ X86Parts[7].macro = "PCLMULQDQ" /\ X86Parts[7].variant = "pclmulqdq"
        /\ X86Parts[7].off = {} /\ X86Parts[7].members = Crc
    BY DEF X86Parts, Part
  <1>8. /\ X86Parts[8].macro = "AVX2" /\ X86Parts[8].variant = "avx2"
        /\ X86Parts[8].off = {"AVX512"} /\ X86Parts[8].members = Adler \cup Chunk \cup Compare
    BY DEF X86Parts, Part
  <1>9. /\ X86Parts[9].macro = "AVX2" /\ X86Parts[9].variant = "avx2"
        /\ X86Parts[9].off = {} /\ X86Parts[9].members = Slide
    BY DEF X86Parts, Part
  <1>10. /\ X86Parts[12].macro = "AVX512" /\ X86Parts[12].variant = "avx512"
        /\ X86Parts[12].off = {} /\ X86Parts[12].members = Chunk \cup Compare
    BY DEF X86Parts, Part
  <1>11. ASSUME g = Crc, "PCLMULQDQ" \in b.native
        PROVE  Hits(b, cf, m) # {}
    <2>1. 7 \in DOMAIN X86Parts /\ m \in X86Parts[7].members
      BY <1>2, <1>7, <1>11
    <2>2. QED
      BY <1>1, <1>7, <1>11, <2>1, NativeHits
  <1>12. ASSUME g = Adler, "SSSE3" \in b.native
        PROVE  Hits(b, cf, m) # {}
    <2>1. 3 \in DOMAIN X86Parts /\ m \in X86Parts[3].members
      BY <1>2, <1>6, <1>12
    <2>2. QED
      BY <1>1, <1>6, <1>12, <2>1, NativeHits
  <1>13. ASSUME g \in {Chunk, Compare, Slide}, "SSE2" \in b.native, "AVX2" \notin b.native
        PROVE  Hits(b, cf, m) # {}
    <2>1. 1 \in DOMAIN X86Parts /\ m \in X86Parts[1].members
      BY <1>2, <1>5, <1>13
    <2>2. QED
      <3>1. X86Parts[1].off \cap b.native = {} /\ X86Parts[1].macro \in b.native
        BY <1>5, <1>13
      <3>2. X86Parts[1].macro # "AVX2VNNI" /\ X86Parts[1].variant \notin {"chorba_sse2", "chorba_sse41"}
        BY <1>5
      <3>3. QED
        BY <1>1, <2>1, <3>1, <3>2, NativeHits
  <1>14. ASSUME g = Slide, "AVX2" \in b.native
        PROVE  Hits(b, cf, m) # {}
    <2>1. 9 \in DOMAIN X86Parts /\ m \in X86Parts[9].members
      BY <1>2, <1>9, <1>14
    <2>2. QED
      BY <1>1, <1>9, <1>14, <2>1, NativeHits
  <1>15. ASSUME g \in {Chunk, Compare}, "AVX2" \in b.native, "AVX512" \notin b.native
        PROVE  Hits(b, cf, m) # {}
    <2>1. 8 \in DOMAIN X86Parts /\ m \in X86Parts[8].members
      BY <1>2, <1>8, <1>15
    <2>2. QED
      BY <1>1, <1>8, <1>15, <2>1, NativeHits
  <1>16. ASSUME g \in {Chunk, Compare}, "AVX512" \in b.native
        PROVE  Hits(b, cf, m) # {}
    <2>1. 12 \in DOMAIN X86Parts /\ m \in X86Parts[12].members
      BY <1>2, <1>10, <1>16
    <2>2. QED
      BY <1>1, <1>10, <1>16, <2>1, NativeHits
  <1>17. QED
    BY <1>3, <1>4, <1>11, <1>12, <1>13, <1>14, <1>15, <1>16, GroupsDiffer DEF Groups

\* The same for arm_functions.h.
LEMMA ArmCovered ==
    ASSUME NEW b, b.arch = "arm", b.native \subseteq b.has, NEW cf, NEW g \in Groups, NEW m \in g,
           ~Fallback(b, g)
    PROVE  Hits(b, cf, m) # {}
  <1>1. PartsOf(b.arch) = ArmParts
    BY DEF PartsOf
  <1>2. DOMAIN ArmParts = 1 .. 5
    BY DEF ArmParts
  <1>3. FallbackOff("arm", g) = IF g = Crc THEN {"CRC32", "PMULL_EOR3"} ELSE IF g = Slide THEN {"NEON", "SIMD"} ELSE {"NEON"}
    BY DEF FallbackOff
  <1>4. FallbackOff("arm", g) \cap b.native # {}
    BY DEF Fallback
  <1>5. /\ ArmParts[1].macro = "SIMD" /\ ArmParts[1].variant = "armv6"
        /\ ArmParts[1].off = {"NEON"} /\ ArmParts[1].members = Slide
    BY DEF ArmParts, Part
  <1>6. /\ ArmParts[2].macro = "NEON" /\ ArmParts[2].variant = "neon"
        /\ ArmParts[2].off = {} /\ ArmParts[2].members = Adler \cup Chunk \cup Compare \cup Slide
    BY DEF ArmParts, Part
  <1>7. /\ ArmParts[4].macro = "CRC32" /\ ArmParts[4].variant = "armv8"
        /\ ArmParts[4].off = {"PMULL_EOR3"} /\ ArmParts[4].members = Crc
    BY DEF ArmParts, Part
  <1>8. /\ ArmParts[5].macro = "PMULL_EOR3" /\ ArmParts[5].variant = "armv8_pmull_eor3"
        /\ ArmParts[5].off = {} /\ ArmParts[5].members = Crc
    BY DEF ArmParts, Part
  <1>9. ASSUME g = Crc, "PMULL_EOR3" \in b.native
        PROVE  Hits(b, cf, m) # {}
    <2>1. 5 \in DOMAIN ArmParts /\ m \in ArmParts[5].members
      BY <1>2, <1>8, <1>9
    <2>2. QED
      BY <1>1, <1>8, <1>9, <2>1, NativeHits
  <1>10. ASSUME g = Crc, "CRC32" \in b.native, "PMULL_EOR3" \notin b.native
        PROVE  Hits(b, cf, m) # {}
    <2>1. 4 \in DOMAIN ArmParts /\ m \in ArmParts[4].members
      BY <1>2, <1>7, <1>10
    <2>2. QED
      BY <1>1, <1>7, <1>10, <2>1, NativeHits
  <1>11. ASSUME g # Crc, "NEON" \in b.native
        PROVE  Hits(b, cf, m) # {}
    <2>1. 2 \in DOMAIN ArmParts /\ m \in ArmParts[2].members
      BY <1>2, <1>6, <1>11 DEF Groups
    <2>2. QED
      BY <1>1, <1>6, <1>11, <2>1, NativeHits
  <1>12. ASSUME g = Slide, "SIMD" \in b.native, "NEON" \notin b.native
        PROVE  Hits(b, cf, m) # {}
    <2>1. 1 \in DOMAIN ArmParts /\ m \in ArmParts[1].members
      BY <1>2, <1>5, <1>12
    <2>2. QED
      BY <1>1, <1>5, <1>12, <2>1, NativeHits
  <1>13. QED
    BY <1>3, <1>4, <1>9, <1>10, <1>11, <1>12, GroupsDiffer DEF Groups

\* The same for power_functions.h.
LEMMA PowerCovered ==
    ASSUME NEW b, b.arch = "power", b.native \subseteq b.has, NEW cf, NEW g \in Groups, NEW m \in g,
           ~Fallback(b, g)
    PROVE  Hits(b, cf, m) # {}
  <1>1. PartsOf(b.arch) = PowerParts
    BY DEF PartsOf
  <1>2. DOMAIN PowerParts = 1 .. 4
    BY DEF PowerParts
  <1>3. FallbackOff("power", g) = IF g \in {Adler, Slide} THEN {"VMX", "P8"} ELSE IF g = Chunk THEN {"P8"} ELSE IF g = Crc THEN {"P8CRC"} ELSE {"P9"}
    BY DEF FallbackOff
  <1>4. FallbackOff("power", g) \cap b.native # {}
    BY DEF Fallback
  <1>5. /\ PowerParts[1].macro = "VMX" /\ PowerParts[1].variant = "vmx"
        /\ PowerParts[1].off = {} /\ PowerParts[1].members = Adler \cup Slide
    BY DEF PowerParts, Part
  <1>6. /\ PowerParts[2].macro = "P8" /\ PowerParts[2].variant = "power8"
        /\ PowerParts[2].off = {} /\ PowerParts[2].members = Adler \cup Chunk \cup Slide
    BY DEF PowerParts, Part
  <1>7. /\ PowerParts[3].macro = "P8CRC" /\ PowerParts[3].variant = "power8"
        /\ PowerParts[3].off = {} /\ PowerParts[3].members = Crc
    BY DEF PowerParts, Part
  <1>8. /\ PowerParts[4].macro = "P9" /\ PowerParts[4].variant = "power9"
        /\ PowerParts[4].off = {} /\ PowerParts[4].members = Compare
    BY DEF PowerParts, Part
  <1>9. ASSUME g \in {Adler, Slide}, "VMX" \in b.native
        PROVE  Hits(b, cf, m) # {}
    <2>1. 1 \in DOMAIN PowerParts /\ m \in PowerParts[1].members
      BY <1>2, <1>5, <1>9
    <2>2. QED
      BY <1>1, <1>5, <1>9, <2>1, NativeHits
  <1>10. ASSUME g \in {Adler, Chunk, Slide}, "P8" \in b.native
        PROVE  Hits(b, cf, m) # {}
    <2>1. 2 \in DOMAIN PowerParts /\ m \in PowerParts[2].members
      BY <1>2, <1>6, <1>10
    <2>2. QED
      BY <1>1, <1>6, <1>10, <2>1, NativeHits
  <1>11. ASSUME g = Crc, "P8CRC" \in b.native
        PROVE  Hits(b, cf, m) # {}
    <2>1. 3 \in DOMAIN PowerParts /\ m \in PowerParts[3].members
      BY <1>2, <1>7, <1>11
    <2>2. QED
      BY <1>1, <1>7, <1>11, <2>1, NativeHits
  <1>12. ASSUME g = Compare, "P9" \in b.native
        PROVE  Hits(b, cf, m) # {}
    <2>1. 4 \in DOMAIN PowerParts /\ m \in PowerParts[4].members
      BY <1>2, <1>8, <1>12
    <2>2. QED
      BY <1>1, <1>8, <1>12, <2>1, NativeHits
  <1>13. QED
    BY <1>3, <1>4, <1>9, <1>10, <1>11, <1>12, GroupsDiffer DEF Groups

\* The same for riscv_functions.h.
LEMMA RiscvCovered ==
    ASSUME NEW b, b.arch = "riscv", b.native \subseteq b.has, NEW cf, NEW g \in Groups, NEW m \in g,
           ~Fallback(b, g)
    PROVE  Hits(b, cf, m) # {}
  <1>1. PartsOf(b.arch) = RiscvParts
    BY DEF PartsOf
  <1>2. DOMAIN RiscvParts = 1 .. 2
    BY DEF RiscvParts
  <1>3. FallbackOff("riscv", g) = IF g = Crc THEN {} ELSE {"RVV"}
    BY DEF FallbackOff
  <1>4. FallbackOff("riscv", g) \cap b.native # {}
    BY DEF Fallback
  <1>5. /\ RiscvParts[1].macro = "RVV" /\ RiscvParts[1].variant = "rvv"
        /\ RiscvParts[1].off = {} /\ RiscvParts[1].members = Adler \cup Chunk \cup Compare \cup Slide
    BY DEF RiscvParts, Part
  <1>6. ASSUME g # Crc, "RVV" \in b.native
        PROVE  Hits(b, cf, m) # {}
    <2>1. 1 \in DOMAIN RiscvParts /\ m \in RiscvParts[1].members
      BY <1>2, <1>5, <1>6 DEF Groups
    <2>2. QED
      BY <1>1, <1>5, <1>6, <2>1, NativeHits
  <1>7. QED
    BY <1>3, <1>4, <1>6, GroupsDiffer DEF Groups

\* The same for s390_functions.h.
LEMMA S390Covered ==
    ASSUME NEW b, b.arch = "s390", b.native \subseteq b.has, NEW cf, NEW g \in Groups, NEW m \in g,
           ~Fallback(b, g)
    PROVE  Hits(b, cf, m) # {}
  <1>1. PartsOf(b.arch) = S390Parts
    BY DEF PartsOf
  <1>2. DOMAIN S390Parts = 1 .. 1
    BY DEF S390Parts
  <1>3. FallbackOff("s390", g) = IF g = Slide THEN {"VX"} ELSE {}
    BY DEF FallbackOff
  <1>4. FallbackOff("s390", g) \cap b.native # {}
    BY DEF Fallback
  <1>5. /\ S390Parts[1].macro = "VX" /\ S390Parts[1].variant = "vx"
        /\ S390Parts[1].off = {} /\ S390Parts[1].members = Crc \cup Slide
    BY DEF S390Parts, Part
  <1>6. ASSUME g = Slide, "VX" \in b.native
        PROVE  Hits(b, cf, m) # {}
    <2>1. 1 \in DOMAIN S390Parts /\ m \in S390Parts[1].members
      BY <1>2, <1>5, <1>6
    <2>2. QED
      BY <1>1, <1>5, <1>6, <2>1, NativeHits
  <1>7. QED
    BY <1>3, <1>4, <1>6, GroupsDiffer DEF Groups

\* The same for loongarch_functions.h.
LEMMA LoongarchCovered ==
    ASSUME NEW b, b.arch = "loongarch", b.native \subseteq b.has, NEW cf, NEW g \in Groups, NEW m \in g,
           ~Fallback(b, g)
    PROVE  Hits(b, cf, m) # {}
  <1>1. PartsOf(b.arch) = LoongarchParts
    BY DEF PartsOf
  <1>2. DOMAIN LoongarchParts = 1 .. 3
    BY DEF LoongarchParts
  <1>3. FallbackOff("loongarch", g) = IF g = Crc THEN {"CRC"} ELSE {"LSX"}
    BY DEF FallbackOff
  <1>4. FallbackOff("loongarch", g) \cap b.native # {}
    BY DEF Fallback
  <1>5. /\ LoongarchParts[1].macro = "CRC" /\ LoongarchParts[1].variant = "loongarch64"
        /\ LoongarchParts[1].off = {} /\ LoongarchParts[1].members = Crc
    BY DEF LoongarchParts, Part
  <1>6. /\ LoongarchParts[2].macro = "LSX" /\ LoongarchParts[2].variant = "lsx"
        /\ LoongarchParts[2].off = {"LASX"} /\ LoongarchParts[2].members = Adler \cup Chunk \cup Compare \cup Slide
    BY DEF LoongarchParts, Part
  <1>7. /\ LoongarchParts[3].macro = "LASX" /\ LoongarchParts[3].variant = "lasx"
        /\ LoongarchParts[3].off = {} /\ LoongarchParts[3].members = Adler \cup Chunk \cup Compare \cup Slide
    BY DEF LoongarchParts, Part
  <1>8. ASSUME g = Crc, "CRC" \in b.native
        PROVE  Hits(b, cf, m) # {}
    <2>1. 1 \in DOMAIN LoongarchParts /\ m \in LoongarchParts[1].members
      BY <1>2, <1>5, <1>8
    <2>2. QED
      BY <1>1, <1>5, <1>8, <2>1, NativeHits
  <1>9. ASSUME g # Crc, "LASX" \in b.native
        PROVE  Hits(b, cf, m) # {}
    <2>1. 3 \in DOMAIN LoongarchParts /\ m \in LoongarchParts[3].members
      BY <1>2, <1>7, <1>9 DEF Groups
    <2>2. QED
      BY <1>1, <1>7, <1>9, <2>1, NativeHits
  <1>10. ASSUME g # Crc, "LSX" \in b.native, "LASX" \notin b.native
        PROVE  Hits(b, cf, m) # {}
    <2>1. 2 \in DOMAIN LoongarchParts /\ m \in LoongarchParts[2].members
      BY <1>2, <1>6, <1>10 DEF Groups
    <2>2. QED
      BY <1>1, <1>6, <1>10, <2>1, NativeHits
  <1>11. QED
    BY <1>3, <1>4, <1>8, <1>9, <1>10, GroupsDiffer DEF Groups

\* No part's variant is the missing function.
LEMMA VariantNames ==
    ASSUME NEW arch, NEW i \in DOMAIN PartsOf(arch)
    PROVE  PartsOf(arch)[i].variant # "none"
  <1>1. ASSUME NEW k \in DOMAIN X86Parts PROVE X86Parts[k].variant # "none"
    BY DEF X86Parts, Part
  <1>2. ASSUME NEW k \in DOMAIN ArmParts PROVE ArmParts[k].variant # "none"
    BY DEF ArmParts, Part
  <1>3. ASSUME NEW k \in DOMAIN MipsParts PROVE MipsParts[k].variant # "none"
    BY DEF MipsParts, Part
  <1>4. ASSUME NEW k \in DOMAIN PowerParts PROVE PowerParts[k].variant # "none"
    BY DEF PowerParts, Part
  <1>5. ASSUME NEW k \in DOMAIN RiscvParts PROVE RiscvParts[k].variant # "none"
    BY DEF RiscvParts, Part
  <1>6. ASSUME NEW k \in DOMAIN S390Parts PROVE S390Parts[k].variant # "none"
    BY DEF S390Parts, Part
  <1>7. ASSUME NEW k \in DOMAIN LoongarchParts PROVE LoongarchParts[k].variant # "none"
    BY DEF LoongarchParts, Part
  <1>8. DOMAIN <<>> = {}
    OBVIOUS
  <1>9. QED
    BY <1>1, <1>2, <1>3, <1>4, <1>5, <1>6, <1>7, <1>8 DEF PartsOf

\* A build's generic function or one of its blocks gives every member a
\* function, whatever the CPU offers.
LEMMA Covered ==
    ASSUME NEW b, b.native \subseteq b.has, ~HeadMissing(b),
           NEW cf, NEW g \in Groups, NEW m \in g, ~Fallback(b, g)
    PROVE  Hits(b, cf, m) # {}
  <1>1. b.arch # "mips"
    BY DEF Fallback, FallbackOff, HeadMissing
  <1>2. b.arch \in {"x86", "arm", "power", "riscv", "s390", "loongarch"}
    BY <1>1 DEF Fallback, FallbackOff
  <1>3. QED
    BY <1>2, X86Covered, ArmCovered, PowerCovered, RiscvCovered, S390Covered, LoongarchCovered

\* init_functable finds a function for every member, native MSA apart.
LEMMA ChosenFull ==
    ASSUME NEW s \in Systems, ~HeadMissing(Builds[s[1]]), NEW fast \in BOOLEAN, NEW m \in Members
    PROVE  Chosen[s][fast][m] # "none"
  <1> DEFINE b == Builds[s[1]]
             cf == CheckFeatures(Cpus[s[2]].arch, Cpus[s[2]].has, fast)
  <1>1. Chosen[s][fast] = Select(b, cf)
    BY DEF Chosen
  <1>2. b.native \subseteq b.has /\ ~HeadMissing(b)
    BY BuildsAssumption
  <1> HIDE DEF b, cf
  <1>3. PICK g \in Groups : m \in g
    BY DEF Members, Groups
  <1>4. Fallback(b, g) => Generic(b, m) # "none"
    BY <1>3, GroupOf DEF Generic
  <1>5. ASSUME NEW i \in Hits(b, cf, m)
        PROVE  PartsOf(b.arch)[i].variant # "none"
    BY VariantNames DEF Hits
  <1>6. QED
    BY <1>1, <1>2, <1>3, <1>4, <1>5, Covered, SelectIs

\* FUNCTABLE_VERIFY_ASSIGN: whatever is compiled in, whatever is native and
\* whatever the CPU offers, only a build with native MSA and without the generic
\* functions aborts a program; in all others every member gets a function.
THEOREM OnlyHeadlessAborts == Spec => []AbortsOnlyHeadless
  <1>1. Init => AbortsOnlyHeadless
    BY DEF Init, AbortsOnlyHeadless
  <1>2. IInv /\ AbortsOnlyHeadless /\ [Next]_vars => AbortsOnlyHeadless'
    <2> SUFFICES ASSUME IInv, AbortsOnlyHeadless, [Next]_vars PROVE AbortsOnlyHeadless'
      OBVIOUS
    <2>1. ASSUME NEW t \in Threads, Store(t)
          PROVE  AbortsOnlyHeadless'
      <3> DEFINE m == AssignOrder[th[t].i]
                 ft == Chosen[<<build, cpu>>][th[t].fast]
      <3>1. ThreadOK(th[t]) /\ th[t].pc = "store" /\ th[t].i <= Len(AssignOrder)
        BY <2>1 DEF IInv, Store
      <3>2. th[t].i \in 1 .. 14 /\ th[t].fast \in BOOLEAN
        BY <3>1, AssignOrderMembers DEF ThreadOK
      <3>3. m \in Members \cup {"force_init"}
        BY <3>2, AssignOrderMembers
      <3>4. HeadMissing(Builds[build]) \/ m = "force_init" \/ ft[m] # "none"
        BY <3>2, <3>3, ChosenFull DEF IInv, TableOK
      <3>5. QED
        BY <2>1, <3>4 DEF Store, AbortsOnlyHeadless
    <2>2. CASE Constructor
      BY <2>2 DEF Constructor, AbortsOnlyHeadless
    <2>3. ASSUME NEW t \in Threads, ForceInit(t) \/ Hold(t) \/ Call(t) \/ Return(t) \/ Jump(t)
          PROVE  AbortsOnlyHeadless'
      BY <2>3 DEF ForceInit, Hold, Call, Return, Jump, AbortsOnlyHeadless
    <2>4. CASE UNCHANGED vars
      BY <2>4 DEF vars, AbortsOnlyHeadless
    <2>5. QED
      BY <2>1, <2>2, <2>3, <2>4 DEF Next, Step
  <1>3. QED
    BY <1>1, <1>2, TableInvariant, PTL DEF Spec


-----------------------------------------------------------------------------
(* The choice of the native_ macros.                                       *)

\* What a CPU offers that has just what is native to b.
Implied(b) ==
    UNION {p.cpu : p \in {q \in {PartsOf(b.arch)[i] : i \in DOMAIN PartsOf(b.arch)} : q.macro \in b.native}}

\* The native_ macros that give m a variant.
MacroHits(b, m) ==
    {i \in DOMAIN NativesOf(b.arch) :
        LET p == NativesOf(b.arch)[i]
        IN  /\ m \in p.members
            /\ Usable(b, p)
            /\ p.macro \in b.native
            /\ p.macro = "AVX512VNNI" => "AVX512" \in b.native}

\* No architecture has more than twelve native choices.
LEMMA NativesCount ==
    ASSUME NEW arch
    PROVE  DOMAIN NativesOf(arch) \subseteq 1 .. 12
  <1>1. /\ DOMAIN NativeX86 = 1 .. 12 /\ DOMAIN NativeArm = 1 .. 5 /\ DOMAIN NativeMips = 1 .. 1
        /\ DOMAIN NativePower = 1 .. 4 /\ DOMAIN NativeRiscv = 1 .. 2 /\ DOMAIN NativeS390 = 1 .. 1
        /\ DOMAIN NativeLoongarch = 1 .. 3
    BY DEF NativeX86, NativeArm, NativeMips, NativePower, NativeRiscv, NativeS390, NativeLoongarch
  <1>2. DOMAIN <<>> = 1 .. 0
    OBVIOUS
  <1>3. QED
    BY <1>1, <1>2 DEF NativesOf

\* The largest of a set of positions is the one that is chosen.
LEMMA LastIs ==
    ASSUME NEW H, H \subseteq Nat, NEW k \in H, \A j \in H : j <= k
    PROVE  (CHOOSE i \in H : \A j \in H : j <= i) = k
  <1>1. \A i \in H : (\A j \in H : j <= i) => i = k
    <2>1. ASSUME NEW i \in H, \A j \in H : j <= i PROVE i = k
      <3>1. i \in Nat /\ k \in Nat /\ i <= k /\ k <= i
        BY <2>1
      <3>2. QED
        BY <3>1
    <2>2. QED
      BY <2>1
  <1>2. QED
    BY <1>1

\* The two choices agree on m when no part and no macro applies, or when the
\* last of each gives the same variant.
LEMMA ChoicesAgree ==
    ASSUME NEW b, NEW cf, NEW m \in Members,
           \/ Hits(b, cf, m) = {} /\ MacroHits(b, m) = {}
           \/ \E k \in Hits(b, cf, m), n \in MacroHits(b, m) :
                /\ \A j \in Hits(b, cf, m) : j <= k
                /\ \A j \in MacroHits(b, m) : j <= n
                /\ PartsOf(b.arch)[k].variant = NativesOf(b.arch)[n].variant
    PROVE  NativeSelect(b)[m] = Select(b, cf)[m]
  <1> DEFINE h == Hits(b, cf, m)
             g == MacroHits(b, m)
  <1>1. Select(b, cf)[m] = IF h = {} THEN Generic(b, m)
                           ELSE PartsOf(b.arch)[CHOOSE i \in h : \A j \in h : j <= i].variant
    BY SMTT(30) DEF Select, LastOf, Hits
  <1>2. NativeSelect(b)[m] = IF g = {} THEN Generic(b, m)
                             ELSE NativesOf(b.arch)[CHOOSE i \in g : \A j \in g : j <= i].variant
    BY DEF NativeSelect, LastOf, MacroHits
  <1>3. h \subseteq Nat
    BY PartsCount DEF Hits
  <1>4. g \subseteq Nat
    BY NativesCount DEF MacroHits
  <1> HIDE DEF h, g
  <1>5. CASE h = {} /\ g = {}
    BY <1>1, <1>2, <1>5
  <1>6. ASSUME NEW k \in h, NEW n \in g, \A j \in h : j <= k, \A j \in g : j <= n,
               PartsOf(b.arch)[k].variant = NativesOf(b.arch)[n].variant
        PROVE  NativeSelect(b)[m] = Select(b, cf)[m]
    <2>1. (CHOOSE i \in h : \A j \in h : j <= i) = k
      BY <1>3, <1>6, LastIs
    <2>2. (CHOOSE i \in g : \A j \in g : j <= i) = n
      BY <1>4, <1>6, LastIs
    <2>3. QED
      BY <1>1, <1>2, <1>6, <2>1, <2>2
  <1>7. QED
    BY <1>5, <1>6 DEF h, g

\* The functions of one x86 build, as the proofs below look at it.
LEMMA X86Lists ==
    /\ PartsOf("x86") = X86Parts /\ DOMAIN X86Parts = 1 .. 15
    /\ NativesOf("x86") = NativeX86 /\ DOMAIN NativeX86 = 1 .. 12
  <1>1. PartsOf("x86") = X86Parts /\ NativesOf("x86") = NativeX86
    BY DEF PartsOf, NativesOf
  <1>2. DOMAIN X86Parts = 1 .. 15
    BY DEF X86Parts
  <1>3. DOMAIN NativeX86 = 1 .. 12
    BY DEF NativeX86
  <1>4. QED
    BY <1>1, <1>2, <1>3

\* Which parts apply on such a CPU.
LEMMA X86Takes ==
    ASSUME NEW b, b.arch = "x86", NEW m \in Members, NEW n, n = b.native, n \subseteq b.has,
           n \cap {"VPCLMULQDQ_AVX512", "AVX512VNNI"} # {} => "AVX512" \in n,
           {"VPCLMULQDQ_AVX2", "AVX512"} \subseteq n /\ "VPCLMULQDQ_AVX512" \in b.has =>
               "VPCLMULQDQ_AVX512" \in n,
           NEW h, h = Hits(b, Implied(b), m)
    PROVE  /\ h \subseteq 1 .. 15
           /\ 1 \in h <=> m \in Chunk \cup Compare \cup Slide /\ "SSE2" \in n /\ "AVX2" \notin n
           /\ 2 \in h <=> m \in Crc /\ b.chorba /\ "SSE2" \in n /\ n \cap {"SSE41", "PCLMULQDQ"} = {}
           /\ 3 \in h <=> m \in Adler /\ "SSSE3" \in n
           /\ 4 \in h <=> m \in Chunk /\ "SSSE3" \in n /\ "AVX2" \notin n
           /\ 5 \in h <=> m \in Crc /\ b.chorba /\ "SSE41" \in n /\ "PCLMULQDQ" \notin n
           /\ 6 \in h <=> m = "adler32_copy" /\ "SSE42" \in n /\ "AVX512" \notin n
           /\ m \in Crc /\ "PCLMULQDQ" \in n => 7 \in h
           /\ 7 \in h => m \in Crc /\ n \cap {"PCLMULQDQ", "VPCLMULQDQ_AVX2", "VPCLMULQDQ_AVX512"} # {}
           /\ 8 \in h <=> m \in Adler \cup Chunk \cup Compare /\ "AVX2" \in n /\ "AVX512" \notin n
           /\ 9 \in h <=> m \in Slide /\ "AVX2" \in n
           /\ 10 \in h <=> m = "adler32" /\ "AVX2VNNI" \in n
           /\ 11 \in h <=> m \in Adler /\ "AVX512" \in n /\ "AVX512VNNI" \notin n
           /\ 12 \in h <=> m \in Chunk \cup Compare /\ "AVX512" \in n
           /\ 13 \in h <=> m \in Adler /\ "AVX512VNNI" \in n
           /\ m \in Crc /\ "VPCLMULQDQ_AVX2" \in n => 14 \in h
           /\ 14 \in h => m \in Crc /\ n \cap {"VPCLMULQDQ_AVX2", "VPCLMULQDQ_AVX512"} # {}
           /\ 15 \in h <=> m \in Crc /\ "VPCLMULQDQ_AVX512" \in n
  <1> DEFINE cf == Implied(b)
  <1>0. \A i : i \in h <=>
            /\ i \in 1 .. 15 /\ m \in X86Parts[i].members /\ Usable(b, X86Parts[i])
            /\ X86Parts[i].off \cap n = {}
            /\ X86Parts[i].macro \in n \ {"AVX2VNNI"} \/ X86Parts[i].cpu \subseteq cf
    BY X86Lists DEF Hits
  <1>01. /\ "sse2" \in cf <=> "SSE2" \in n
         /\ "ssse3" \in cf <=> "SSSE3" \in n
         /\ "sse41" \in cf <=> "SSE41" \in n
         /\ "sse42" \in cf <=> "SSE42" \in n
         /\ "pclmulqdq" \in cf <=> n \cap {"PCLMULQDQ", "VPCLMULQDQ_AVX2", "VPCLMULQDQ_AVX512"} # {}
         /\ "avx2" \in cf <=> n \cap {"AVX2", "VPCLMULQDQ_AVX2"} # {}
         /\ "bmi2" \in cf <=> "AVX2" \in n
         /\ "avx2vnni" \in cf <=> "AVX2VNNI" \in n
         /\ "avx512_common" \in cf <=> n \cap {"AVX512", "VPCLMULQDQ_AVX512"} # {}
         /\ "avx512vnni" \in cf <=> "AVX512VNNI" \in n
         /\ "vpclmulqdq" \in cf <=> n \cap {"VPCLMULQDQ_AVX2", "VPCLMULQDQ_AVX512"} # {}
    <2>1. \A f : f \in cf <=> \E i \in 1 .. 15 : X86Parts[i].macro \in b.native /\ f \in X86Parts[i].cpu
      BY X86Lists DEF Implied
    <2>2. \A f : f \in cf <=>
              \/ "SSE2" \in b.native /\ f = "sse2"
              \/ "SSSE3" \in b.native /\ f = "ssse3"
              \/ "SSE41" \in b.native /\ f = "sse41"
              \/ "SSE42" \in b.native /\ f = "sse42"
              \/ "PCLMULQDQ" \in b.native /\ f = "pclmulqdq"
              \/ "AVX2" \in b.native /\ f \in {"avx2", "bmi2"}
              \/ "AVX2VNNI" \in b.native /\ f = "avx2vnni"
              \/ "AVX512" \in b.native /\ f = "avx512_common"
              \/ "AVX512VNNI" \in b.native /\ f = "avx512vnni"
              \/ "VPCLMULQDQ_AVX2" \in b.native /\ f \in {"pclmulqdq", "avx2", "vpclmulqdq"}
              \/ "VPCLMULQDQ_AVX512" \in b.native /\ f \in {"pclmulqdq", "avx512_common", "vpclmulqdq"}
      <3>1. TAKE f
      <3>2. \A i \in 1 .. 15 : \/ i = 1 \/ i = 2 \/ i = 3 \/ i = 4 \/ i = 5 \/ i = 6 \/ i = 7 \/ i = 8
                               \/ i = 9 \/ i = 10 \/ i = 11 \/ i = 12 \/ i = 13 \/ i = 14 \/ i = 15
        OBVIOUS
      <3>3. QED
        BY <2>1, <3>2, SMTT(60) DEF X86Parts, Part
    <2>3. QED
      BY <2>2
  <1> HIDE DEF cf
  <1>1. 1 \in h <=> m \in Chunk \cup Compare \cup Slide /\ "SSE2" \in n /\ "AVX2" \notin n
    <2>1. X86Parts[1] = Part("SSE2", {"sse2"}, {"AVX2"}, "sse2", Chunk \cup Compare \cup Slide)
      BY DEF X86Parts
    <2>2. QED
      BY <1>0, <1>01, <2>1 DEF Part, Usable, Members, Adler, Chunk, Compare, Slide, Crc
  <1>2. 2 \in h <=> m \in Crc /\ b.chorba /\ "SSE2" \in n /\ n \cap {"SSE41", "PCLMULQDQ"} = {}
    <2>1. X86Parts[2] = Part("SSE2", {"sse2"}, {"SSE41", "PCLMULQDQ"}, "chorba_sse2", Crc)
      BY DEF X86Parts
    <2>2. QED
      BY <1>0, <1>01, <2>1 DEF Part, Usable, Members, Adler, Chunk, Compare, Slide, Crc
  <1>3. 3 \in h <=> m \in Adler /\ "SSSE3" \in n
    <2>1. X86Parts[3] = Part("SSSE3", {"ssse3"}, {}, "ssse3", Adler)
      BY DEF X86Parts
    <2>2. QED
      BY <1>0, <1>01, <2>1 DEF Part, Usable, Members, Adler, Chunk, Compare, Slide, Crc
  <1>4. 4 \in h <=> m \in Chunk /\ "SSSE3" \in n /\ "AVX2" \notin n
    <2>1. X86Parts[4] = Part("SSSE3", {"ssse3"}, {"AVX2"}, "ssse3", Chunk)
      BY DEF X86Parts
    <2>2. QED
      BY <1>0, <1>01, <2>1 DEF Part, Usable, Members, Adler, Chunk, Compare, Slide, Crc
  <1>5. 5 \in h <=> m \in Crc /\ b.chorba /\ "SSE41" \in n /\ "PCLMULQDQ" \notin n
    <2>1. X86Parts[5] = Part("SSE41", {"sse41"}, {"PCLMULQDQ"}, "chorba_sse41", Crc)
      BY DEF X86Parts
    <2>2. QED
      BY <1>0, <1>01, <2>1 DEF Part, Usable, Members, Adler, Chunk, Compare, Slide, Crc
  <1>6. 6 \in h <=> m = "adler32_copy" /\ "SSE42" \in n /\ "AVX512" \notin n
    <2>1. X86Parts[6] = Part("SSE42", {"sse42"}, {"AVX512"}, "sse42", {"adler32_copy"})
      BY DEF X86Parts
    <2>2. QED
      BY <1>0, <1>01, <2>1 DEF Part, Usable, Members, Adler, Chunk, Compare, Slide, Crc
  <1>7. /\ 7 \in h => m \in Crc /\ n \cap {"PCLMULQDQ", "VPCLMULQDQ_AVX2", "VPCLMULQDQ_AVX512"} # {}
        /\ m \in Crc /\ "PCLMULQDQ" \in n => 7 \in h
    <2>1. X86Parts[7] = Part("PCLMULQDQ", {"pclmulqdq"}, {}, "pclmulqdq", Crc)
      BY DEF X86Parts
    <2>2. QED
      BY <1>0, <1>01, <2>1 DEF Part, Usable, Members, Adler, Chunk, Compare, Slide, Crc
  <1>8. 8 \in h <=> m \in Adler \cup Chunk \cup Compare /\ "AVX2" \in n /\ "AVX512" \notin n
    <2>1. X86Parts[8] = Part("AVX2", {"avx2", "bmi2"}, {"AVX512"}, "avx2", Adler \cup Chunk \cup Compare)
      BY DEF X86Parts
    <2>2. QED
      BY <1>0, <1>01, <2>1 DEF Part, Usable, Members, Adler, Chunk, Compare, Slide, Crc
  <1>9. 9 \in h <=> m \in Slide /\ "AVX2" \in n
    <2>1. X86Parts[9] = Part("AVX2", {"avx2", "bmi2"}, {}, "avx2", Slide)
      BY DEF X86Parts
    <2>2. QED
      BY <1>0, <1>01, <2>1 DEF Part, Usable, Members, Adler, Chunk, Compare, Slide, Crc
  <1>10. 10 \in h <=> m = "adler32" /\ "AVX2VNNI" \in n
    <2>1. X86Parts[10] = Part("AVX2VNNI", {"avx2vnni"}, {}, "avx2_vnni", {"adler32"})
      BY DEF X86Parts
    <2>2. QED
      BY <1>0, <1>01, <2>1 DEF Part, Usable, Members, Adler, Chunk, Compare, Slide, Crc
  <1>11. 11 \in h <=> m \in Adler /\ "AVX512" \in n /\ "AVX512VNNI" \notin n
    <2>1. X86Parts[11] = Part("AVX512", {"avx512_common"}, {"AVX512VNNI"}, "avx512", Adler)
      BY DEF X86Parts
    <2>2. QED
      BY <1>0, <1>01, <2>1 DEF Part, Usable, Members, Adler, Chunk, Compare, Slide, Crc
  <1>12. 12 \in h <=> m \in Chunk \cup Compare /\ "AVX512" \in n
    <2>1. X86Parts[12] = Part("AVX512", {"avx512_common"}, {}, "avx512", Chunk \cup Compare)
      BY DEF X86Parts
    <2>2. QED
      BY <1>0, <1>01, <2>1 DEF Part, Usable, Members, Adler, Chunk, Compare, Slide, Crc
  <1>13. 13 \in h <=> m \in Adler /\ "AVX512VNNI" \in n
    <2>1. X86Parts[13] = Part("AVX512VNNI", {"avx512vnni"}, {}, "avx512_vnni", Adler)
      BY DEF X86Parts
    <2>2. QED
      BY <1>0, <1>01, <2>1 DEF Part, Usable, Members, Adler, Chunk, Compare, Slide, Crc
  <1>14. /\ 14 \in h => m \in Crc /\ n \cap {"VPCLMULQDQ_AVX2", "VPCLMULQDQ_AVX512"} # {}
         /\ m \in Crc /\ "VPCLMULQDQ_AVX2" \in n => 14 \in h
    <2>1. X86Parts[14] = Part("VPCLMULQDQ_AVX2", {"pclmulqdq", "avx2", "vpclmulqdq"}, {}, "vpclmulqdq_avx2", Crc)
      BY DEF X86Parts
    <2>2. QED
      BY <1>0, <1>01, <2>1 DEF Part, Usable, Members, Adler, Chunk, Compare, Slide, Crc
  <1>15. 15 \in h <=> m \in Crc /\ "VPCLMULQDQ_AVX512" \in n
    <2>1. X86Parts[15] = Part("VPCLMULQDQ_AVX512", {"pclmulqdq", "avx512_common", "vpclmulqdq"}, {}, "vpclmulqdq_avx512", Crc)
      BY DEF X86Parts
    <2>2. QED
      BY <1>0, <1>01, <2>1 DEF Part, Usable, Members, Adler, Chunk, Compare, Slide, Crc
  <1>16. h \subseteq 1 .. 15
    BY <1>0
  <1>17. QED
    BY <1>1, <1>2, <1>3, <1>4, <1>5, <1>6, <1>7, <1>8, <1>9, <1>10, <1>11, <1>12, <1>13, <1>14, <1>15, <1>16

\* Which native_ macros of an x86 build apply.
LEMMA X86Macros ==
    ASSUME NEW b, b.arch = "x86", NEW m \in Members, NEW n, n = b.native, n \subseteq b.has,
           "AVX512VNNI" \in n => "AVX512" \in n, NEW g, g = MacroHits(b, m)
    PROVE  /\ g \subseteq 1 .. 12
           /\ 1 \in g <=> m \in Chunk \cup Compare \cup Slide /\ "SSE2" \in n
           /\ 2 \in g <=> m \in Crc /\ b.chorba /\ "SSE2" \in n /\ "PCLMULQDQ" \notin n
           /\ 3 \in g <=> m \in Adler \cup Chunk /\ "SSSE3" \in n
           /\ 4 \in g <=> m \in Crc /\ b.chorba /\ "SSE41" \in n /\ "PCLMULQDQ" \notin n
           /\ 5 \in g <=> m = "adler32_copy" /\ "SSE42" \in n
           /\ 6 \in g <=> m \in Crc /\ "PCLMULQDQ" \in n
           /\ 7 \in g <=> m \in Kernels /\ "AVX2" \in n
           /\ 8 \in g <=> m = "adler32" /\ "AVX2VNNI" \in n
           /\ 9 \in g <=> m \in Adler \cup Chunk \cup Compare /\ "AVX512" \in n
           /\ 10 \in g <=> m \in Adler /\ "AVX512VNNI" \in n
           /\ 11 \in g <=> m \in Crc /\ "VPCLMULQDQ_AVX2" \in n
           /\ 12 \in g <=> m \in Crc /\ "VPCLMULQDQ_AVX512" \in n
  <1>0. \A i : i \in g <=>
            /\ i \in 1 .. 12 /\ m \in NativeX86[i].members /\ Usable(b, NativeX86[i])
            /\ NativeX86[i].macro \in n
            /\ NativeX86[i].macro = "AVX512VNNI" => "AVX512" \in n
    BY X86Lists DEF MacroHits
  <1>1. 1 \in g <=> m \in Chunk \cup Compare \cup Slide /\ "SSE2" \in n
    <2>1. NativeX86[1] = Native("SSE2", "sse2", Chunk \cup Compare \cup Slide)
      BY DEF NativeX86
    <2>2. QED
      BY <1>0, <2>1 DEF Native, Usable
  <1>2. 2 \in g <=> m \in Crc /\ b.chorba /\ "SSE2" \in n /\ "PCLMULQDQ" \notin n
    <2>1. NativeX86[2] = Native("SSE2", "chorba_sse2", Crc)
      BY DEF NativeX86
    <2>2. QED
      BY <1>0, <2>1 DEF Native, Usable
  <1>3. 3 \in g <=> m \in Adler \cup Chunk /\ "SSSE3" \in n
    <2>1. NativeX86[3] = Native("SSSE3", "ssse3", Adler \cup Chunk)
      BY DEF NativeX86
    <2>2. QED
      BY <1>0, <2>1 DEF Native, Usable
  <1>4. 4 \in g <=> m \in Crc /\ b.chorba /\ "SSE41" \in n /\ "PCLMULQDQ" \notin n
    <2>1. NativeX86[4] = Native("SSE41", "chorba_sse41", Crc)
      BY DEF NativeX86
    <2>2. QED
      BY <1>0, <2>1 DEF Native, Usable
  <1>5. 5 \in g <=> m = "adler32_copy" /\ "SSE42" \in n
    <2>1. NativeX86[5] = Native("SSE42", "sse42", {"adler32_copy"})
      BY DEF NativeX86
    <2>2. QED
      BY <1>0, <2>1 DEF Native, Usable
  <1>6. 6 \in g <=> m \in Crc /\ "PCLMULQDQ" \in n
    <2>1. NativeX86[6] = Native("PCLMULQDQ", "pclmulqdq", Crc)
      BY DEF NativeX86
    <2>2. QED
      BY <1>0, <2>1 DEF Native, Usable
  <1>7. 7 \in g <=> m \in Kernels /\ "AVX2" \in n
    <2>1. NativeX86[7] = Native("AVX2", "avx2", Kernels)
      BY DEF NativeX86
    <2>2. QED
      BY <1>0, <2>1 DEF Native, Usable
  <1>8. 8 \in g <=> m = "adler32" /\ "AVX2VNNI" \in n
    <2>1. NativeX86[8] = Native("AVX2VNNI", "avx2_vnni", {"adler32"})
      BY DEF NativeX86
    <2>2. QED
      BY <1>0, <2>1 DEF Native, Usable
  <1>9. 9 \in g <=> m \in Adler \cup Chunk \cup Compare /\ "AVX512" \in n
    <2>1. NativeX86[9] = Native("AVX512", "avx512", Adler \cup Chunk \cup Compare)
      BY DEF NativeX86
    <2>2. QED
      BY <1>0, <2>1 DEF Native, Usable
  <1>10. 10 \in g <=> m \in Adler /\ "AVX512VNNI" \in n
    <2>1. NativeX86[10] = Native("AVX512VNNI", "avx512_vnni", Adler)
      BY DEF NativeX86
    <2>2. QED
      BY <1>0, <2>1 DEF Native, Usable
  <1>11. 11 \in g <=> m \in Crc /\ "VPCLMULQDQ_AVX2" \in n
    <2>1. NativeX86[11] = Native("VPCLMULQDQ_AVX2", "vpclmulqdq_avx2", Crc)
      BY DEF NativeX86
    <2>2. QED
      BY <1>0, <2>1 DEF Native, Usable
  <1>12. 12 \in g <=> m \in Crc /\ "VPCLMULQDQ_AVX512" \in n
    <2>1. NativeX86[12] = Native("VPCLMULQDQ_AVX512", "vpclmulqdq_avx512", Crc)
      BY DEF NativeX86
    <2>2. QED
      BY <1>0, <2>1 DEF Native, Usable
  <1>13. g \subseteq 1 .. 12
    BY <1>0
  <1>14. QED
    BY <1>1, <1>2, <1>3, <1>4, <1>5, <1>6, <1>7, <1>8, <1>9, <1>10, <1>11, <1>12, <1>13

\* The parts and the macros that stand for the same variant of x86.
LEMMA X86Pairs ==
    /\ X86Parts[13].variant = NativeX86[10].variant /\ X86Parts[11].variant = NativeX86[9].variant
    /\ X86Parts[12].variant = NativeX86[9].variant /\ X86Parts[10].variant = NativeX86[8].variant
    /\ X86Parts[8].variant = NativeX86[7].variant /\ X86Parts[9].variant = NativeX86[7].variant
    /\ X86Parts[6].variant = NativeX86[5].variant /\ X86Parts[3].variant = NativeX86[3].variant
    /\ X86Parts[4].variant = NativeX86[3].variant /\ X86Parts[1].variant = NativeX86[1].variant
    /\ X86Parts[15].variant = NativeX86[12].variant /\ X86Parts[14].variant = NativeX86[11].variant
    /\ X86Parts[7].variant = NativeX86[6].variant /\ X86Parts[5].variant = NativeX86[4].variant
    /\ X86Parts[2].variant = NativeX86[2].variant
  BY DEF X86Parts, Part, NativeX86, Native

\* The function of m that both choices make of an x86 build: the first of the
\* variants, from the newest on, that is native.
LEMMA X86Agrees ==
    ASSUME NEW b, b.arch = "x86", NEW m \in Members, NEW n, n = b.native, n \subseteq b.has,
           n \cap {"VPCLMULQDQ_AVX512", "AVX512VNNI"} # {} => "AVX512" \in n,
           {"VPCLMULQDQ_AVX2", "AVX512"} \subseteq n /\ "VPCLMULQDQ_AVX512" \in b.has =>
               "VPCLMULQDQ_AVX512" \in n
    PROVE  NativeSelect(b)[m] = Select(b, Implied(b))[m]
  <1> DEFINE h == Hits(b, Implied(b), m)
             g == MacroHits(b, m)
             Same(k, l) ==
               /\ k \in h /\ \A j \in h : j <= k
               /\ l \in g /\ \A j \in g : j <= l
               /\ X86Parts[k].variant = NativeX86[l].variant
             Agreed == (h = {} /\ g = {}) \/ \E k, l : Same(k, l)
  <1>1. SUFFICES Agreed
    BY X86Lists, ChoicesAgree
  <1>2. /\ h \subseteq 1 .. 15
        /\ 1 \in h <=> m \in Chunk \cup Compare \cup Slide /\ "SSE2" \in n /\ "AVX2" \notin n
        /\ 2 \in h <=> m \in Crc /\ b.chorba /\ "SSE2" \in n /\ n \cap {"SSE41", "PCLMULQDQ"} = {}
        /\ 3 \in h <=> m \in Adler /\ "SSSE3" \in n
        /\ 4 \in h <=> m \in Chunk /\ "SSSE3" \in n /\ "AVX2" \notin n
        /\ 5 \in h <=> m \in Crc /\ b.chorba /\ "SSE41" \in n /\ "PCLMULQDQ" \notin n
        /\ 6 \in h <=> m = "adler32_copy" /\ "SSE42" \in n /\ "AVX512" \notin n
        /\ m \in Crc /\ "PCLMULQDQ" \in n => 7 \in h
        /\ 7 \in h => m \in Crc /\ n \cap {"PCLMULQDQ", "VPCLMULQDQ_AVX2", "VPCLMULQDQ_AVX512"} # {}
        /\ 8 \in h <=> m \in Adler \cup Chunk \cup Compare /\ "AVX2" \in n /\ "AVX512" \notin n
        /\ 9 \in h <=> m \in Slide /\ "AVX2" \in n
        /\ 10 \in h <=> m = "adler32" /\ "AVX2VNNI" \in n
        /\ 11 \in h <=> m \in Adler /\ "AVX512" \in n /\ "AVX512VNNI" \notin n
        /\ 12 \in h <=> m \in Chunk \cup Compare /\ "AVX512" \in n
        /\ 13 \in h <=> m \in Adler /\ "AVX512VNNI" \in n
        /\ m \in Crc /\ "VPCLMULQDQ_AVX2" \in n => 14 \in h
        /\ 14 \in h => m \in Crc /\ n \cap {"VPCLMULQDQ_AVX2", "VPCLMULQDQ_AVX512"} # {}
        /\ 15 \in h <=> m \in Crc /\ "VPCLMULQDQ_AVX512" \in n
    BY X86Takes
  <1>3. /\ g \subseteq 1 .. 12
        /\ 1 \in g <=> m \in Chunk \cup Compare \cup Slide /\ "SSE2" \in n
        /\ 2 \in g <=> m \in Crc /\ b.chorba /\ "SSE2" \in n /\ "PCLMULQDQ" \notin n
        /\ 3 \in g <=> m \in Adler \cup Chunk /\ "SSSE3" \in n
        /\ 4 \in g <=> m \in Crc /\ b.chorba /\ "SSE41" \in n /\ "PCLMULQDQ" \notin n
        /\ 5 \in g <=> m = "adler32_copy" /\ "SSE42" \in n
        /\ 6 \in g <=> m \in Crc /\ "PCLMULQDQ" \in n
        /\ 7 \in g <=> m \in Kernels /\ "AVX2" \in n
        /\ 8 \in g <=> m = "adler32" /\ "AVX2VNNI" \in n
        /\ 9 \in g <=> m \in Adler \cup Chunk \cup Compare /\ "AVX512" \in n
        /\ 10 \in g <=> m \in Adler /\ "AVX512VNNI" \in n
        /\ 11 \in g <=> m \in Crc /\ "VPCLMULQDQ_AVX2" \in n
        /\ 12 \in g <=> m \in Crc /\ "VPCLMULQDQ_AVX512" \in n
    BY X86Macros
  <1> HIDE DEF h, g
  <1>4. CASE m = "adler32"
    <2>0. m \notin Chunk \cup Compare \cup Slide \cup Crc /\ m \in Adler /\ m \in Kernels
      BY <1>4 DEF Adler, Chunk, Compare, Slide, Crc, Kernels
    <2>1. CASE "AVX512VNNI" \in n
      <3>1. 13 \in h /\ \A j \in h : j <= 13
        BY <1>2, <1>4, <2>0, <2>1, SMTT(30)
      <3>2. 10 \in g /\ \A j \in g : j <= 10
        BY <1>3, <1>4, <2>0, <2>1, SMTT(30)
      <3>3. Same(13, 10)
        BY <3>1, <3>2, X86Pairs
      <3>4. QED
        BY <3>3
    <2>2. CASE "AVX512" \in n /\ "AVX512VNNI" \notin n
      <3>1. 11 \in h /\ \A j \in h : j <= 11
        BY <1>2, <1>4, <2>0, <2>2, SMTT(30)
      <3>2. 9 \in g /\ \A j \in g : j <= 9
        BY <1>3, <1>4, <2>0, <2>2, SMTT(30)
      <3>3. Same(11, 9)
        BY <3>1, <3>2, X86Pairs
      <3>4. QED
        BY <3>3
    <2>3. CASE "AVX2VNNI" \in n /\ "AVX512VNNI" \notin n /\ "AVX512" \notin n
      <3>1. 10 \in h /\ \A j \in h : j <= 10
        BY <1>2, <1>4, <2>0, <2>3, SMTT(30)
      <3>2. 8 \in g /\ \A j \in g : j <= 8
        BY <1>3, <1>4, <2>0, <2>3, SMTT(30)
      <3>3. Same(10, 8)
        BY <3>1, <3>2, X86Pairs
      <3>4. QED
        BY <3>3
    <2>4. CASE "AVX2" \in n /\ "AVX512VNNI" \notin n /\ "AVX512" \notin n /\ "AVX2VNNI" \notin n
      <3>1. 8 \in h /\ \A j \in h : j <= 8
        BY <1>2, <1>4, <2>0, <2>4, SMTT(30)
      <3>2. 7 \in g /\ \A j \in g : j <= 7
        BY <1>3, <1>4, <2>0, <2>4, SMTT(30)
      <3>3. Same(8, 7)
        BY <3>1, <3>2, X86Pairs
      <3>4. QED
        BY <3>3
    <2>5. CASE "SSSE3" \in n /\ "AVX512VNNI" \notin n /\ "AVX512" \notin n /\ "AVX2VNNI" \notin n
            /\ "AVX2" \notin n
      <3>1. 3 \in h /\ \A j \in h : j <= 3
        BY <1>2, <1>4, <2>0, <2>5, SMTT(30)
      <3>2. 3 \in g /\ \A j \in g : j <= 3
        BY <1>3, <1>4, <2>0, <2>5, SMTT(30)
      <3>3. Same(3, 3)
        BY <3>1, <3>2, X86Pairs
      <3>4. QED
        BY <3>3
    <2>6. CASE "AVX512VNNI" \notin n /\ "AVX512" \notin n /\ "AVX2VNNI" \notin n /\ "AVX2" \notin n
            /\ "SSSE3" \notin n
      <3>1. h = {}
        BY <1>2, <1>4, <2>0, <2>6, SMTT(30)
      <3>2. g = {}
        BY <1>3, <1>4, <2>0, <2>6, SMTT(30)
      <3>3. QED
        BY <3>1, <3>2
    <2>7. QED
      BY <2>1, <2>2, <2>3, <2>4, <2>5, <2>6
  <1>5. CASE m = "adler32_copy"
    <2>0. m \notin Chunk \cup Compare \cup Slide \cup Crc /\ m \in Adler /\ m \in Kernels
      BY <1>5 DEF Adler, Chunk, Compare, Slide, Crc, Kernels
    <2>1. CASE "AVX512VNNI" \in n
      <3>1. 13 \in h /\ \A j \in h : j <= 13
        BY <1>2, <1>5, <2>0, <2>1, SMTT(30)
      <3>2. 10 \in g /\ \A j \in g : j <= 10
        BY <1>3, <1>5, <2>0, <2>1, SMTT(30)
      <3>3. Same(13, 10)
        BY <3>1, <3>2, X86Pairs
      <3>4. QED
        BY <3>3
    <2>2. CASE "AVX512" \in n /\ "AVX512VNNI" \notin n
      <3>1. 11 \in h /\ \A j \in h : j <= 11
        BY <1>2, <1>5, <2>0, <2>2, SMTT(30)
      <3>2. 9 \in g /\ \A j \in g : j <= 9
        BY <1>3, <1>5, <2>0, <2>2, SMTT(30)
      <3>3. Same(11, 9)
        BY <3>1, <3>2, X86Pairs
      <3>4. QED
        BY <3>3
    <2>3. CASE "AVX2" \in n /\ "AVX512VNNI" \notin n /\ "AVX512" \notin n
      <3>1. 8 \in h /\ \A j \in h : j <= 8
        BY <1>2, <1>5, <2>0, <2>3, SMTT(30)
      <3>2. 7 \in g /\ \A j \in g : j <= 7
        BY <1>3, <1>5, <2>0, <2>3, SMTT(30)
      <3>3. Same(8, 7)
        BY <3>1, <3>2, X86Pairs
      <3>4. QED
        BY <3>3
    <2>4. CASE "SSE42" \in n /\ "AVX512VNNI" \notin n /\ "AVX512" \notin n /\ "AVX2" \notin n
      <3>1. 6 \in h /\ \A j \in h : j <= 6
        BY <1>2, <1>5, <2>0, <2>4, SMTT(30)
      <3>2. 5 \in g /\ \A j \in g : j <= 5
        BY <1>3, <1>5, <2>0, <2>4, SMTT(30)
      <3>3. Same(6, 5)
        BY <3>1, <3>2, X86Pairs
      <3>4. QED
        BY <3>3
    <2>5. CASE "SSSE3" \in n /\ "AVX512VNNI" \notin n /\ "AVX512" \notin n /\ "AVX2" \notin n
            /\ "SSE42" \notin n
      <3>1. 3 \in h /\ \A j \in h : j <= 3
        BY <1>2, <1>5, <2>0, <2>5, SMTT(30)
      <3>2. 3 \in g /\ \A j \in g : j <= 3
        BY <1>3, <1>5, <2>0, <2>5, SMTT(30)
      <3>3. Same(3, 3)
        BY <3>1, <3>2, X86Pairs
      <3>4. QED
        BY <3>3
    <2>6. CASE "AVX512VNNI" \notin n /\ "AVX512" \notin n /\ "AVX2" \notin n /\ "SSE42" \notin n
            /\ "SSSE3" \notin n
      <3>1. h = {}
        BY <1>2, <1>5, <2>0, <2>6, SMTT(30)
      <3>2. g = {}
        BY <1>3, <1>5, <2>0, <2>6, SMTT(30)
      <3>3. QED
        BY <3>1, <3>2
    <2>7. QED
      BY <2>1, <2>2, <2>3, <2>4, <2>5, <2>6
  <1>6. CASE m \in Chunk
    <2>0. m \notin Adler \cup Compare \cup Slide \cup Crc /\ m \notin {"adler32", "adler32_copy"}
            /\ m \in Kernels
      BY <1>6 DEF Adler, Chunk, Compare, Slide, Crc, Kernels
    <2>1. CASE "AVX512" \in n
      <3>1. 12 \in h /\ \A j \in h : j <= 12
        BY <1>2, <1>6, <2>0, <2>1, SMTT(30)
      <3>2. 9 \in g /\ \A j \in g : j <= 9
        BY <1>3, <1>6, <2>0, <2>1, SMTT(30)
      <3>3. Same(12, 9)
        BY <3>1, <3>2, X86Pairs
      <3>4. QED
        BY <3>3
    <2>2. CASE "AVX2" \in n /\ "AVX512" \notin n
      <3>1. 8 \in h /\ \A j \in h : j <= 8
        BY <1>2, <1>6, <2>0, <2>2, SMTT(30)
      <3>2. 7 \in g /\ \A j \in g : j <= 7
        BY <1>3, <1>6, <2>0, <2>2, SMTT(30)
      <3>3. Same(8, 7)
        BY <3>1, <3>2, X86Pairs
      <3>4. QED
        BY <3>3
    <2>3. CASE "SSSE3" \in n /\ "AVX512" \notin n /\ "AVX2" \notin n
      <3>1. 4 \in h /\ \A j \in h : j <= 4
        BY <1>2, <1>6, <2>0, <2>3, SMTT(30)
      <3>2. 3 \in g /\ \A j \in g : j <= 3
        BY <1>3, <1>6, <2>0, <2>3, SMTT(30)
      <3>3. Same(4, 3)
        BY <3>1, <3>2, X86Pairs
      <3>4. QED
        BY <3>3
    <2>4. CASE "SSE2" \in n /\ "AVX512" \notin n /\ "AVX2" \notin n /\ "SSSE3" \notin n
      <3>1. 1 \in h /\ \A j \in h : j <= 1
        BY <1>2, <1>6, <2>0, <2>4, SMTT(30)
      <3>2. 1 \in g /\ \A j \in g : j <= 1
        BY <1>3, <1>6, <2>0, <2>4, SMTT(30)
      <3>3. Same(1, 1)
        BY <3>1, <3>2, X86Pairs
      <3>4. QED
        BY <3>3
    <2>5. CASE "AVX512" \notin n /\ "AVX2" \notin n /\ "SSSE3" \notin n /\ "SSE2" \notin n
      <3>1. h = {}
        BY <1>2, <1>6, <2>0, <2>5, SMTT(30)
      <3>2. g = {}
        BY <1>3, <1>6, <2>0, <2>5, SMTT(30)
      <3>3. QED
        BY <3>1, <3>2
    <2>6. QED
      BY <2>1, <2>2, <2>3, <2>4, <2>5
  <1>7. CASE m \in Compare
    <2>0. m \notin Adler \cup Chunk \cup Slide \cup Crc /\ m \notin {"adler32", "adler32_copy"} /\ m \in Kernels
      BY <1>7 DEF Adler, Chunk, Compare, Slide, Crc, Kernels
    <2>1. CASE "AVX512" \in n
      <3>1. 12 \in h /\ \A j \in h : j <= 12
        BY <1>2, <1>7, <2>0, <2>1, SMTT(30)
      <3>2. 9 \in g /\ \A j \in g : j <= 9
        BY <1>3, <1>7, <2>0, <2>1, SMTT(30)
      <3>3. Same(12, 9)
        BY <3>1, <3>2, X86Pairs
      <3>4. QED
        BY <3>3
    <2>2. CASE "AVX2" \in n /\ "AVX512" \notin n
      <3>1. 8 \in h /\ \A j \in h : j <= 8
        BY <1>2, <1>7, <2>0, <2>2, SMTT(30)
      <3>2. 7 \in g /\ \A j \in g : j <= 7
        BY <1>3, <1>7, <2>0, <2>2, SMTT(30)
      <3>3. Same(8, 7)
        BY <3>1, <3>2, X86Pairs
      <3>4. QED
        BY <3>3
    <2>3. CASE "SSE2" \in n /\ "AVX512" \notin n /\ "AVX2" \notin n
      <3>1. 1 \in h /\ \A j \in h : j <= 1
        BY <1>2, <1>7, <2>0, <2>3, SMTT(30)
      <3>2. 1 \in g /\ \A j \in g : j <= 1
        BY <1>3, <1>7, <2>0, <2>3, SMTT(30)
      <3>3. Same(1, 1)
        BY <3>1, <3>2, X86Pairs
      <3>4. QED
        BY <3>3
    <2>4. CASE "AVX512" \notin n /\ "AVX2" \notin n /\ "SSE2" \notin n
      <3>1. h = {}
        BY <1>2, <1>7, <2>0, <2>4, SMTT(30)
      <3>2. g = {}
        BY <1>3, <1>7, <2>0, <2>4, SMTT(30)
      <3>3. QED
        BY <3>1, <3>2
    <2>5. QED
      BY <2>1, <2>2, <2>3, <2>4
  <1>8. CASE m \in Slide
    <2>0. m \notin Adler \cup Chunk \cup Compare \cup Crc /\ m \notin {"adler32", "adler32_copy"}
            /\ m \in Kernels
      BY <1>8 DEF Adler, Chunk, Compare, Slide, Crc, Kernels
    <2>1. CASE "AVX2" \in n
      <3>1. 9 \in h /\ \A j \in h : j <= 9
        BY <1>2, <1>8, <2>0, <2>1, SMTT(30)
      <3>2. 7 \in g /\ \A j \in g : j <= 7
        BY <1>3, <1>8, <2>0, <2>1, SMTT(30)
      <3>3. Same(9, 7)
        BY <3>1, <3>2, X86Pairs
      <3>4. QED
        BY <3>3
    <2>2. CASE "SSE2" \in n /\ "AVX2" \notin n
      <3>1. 1 \in h /\ \A j \in h : j <= 1
        BY <1>2, <1>8, <2>0, <2>2, SMTT(30)
      <3>2. 1 \in g /\ \A j \in g : j <= 1
        BY <1>3, <1>8, <2>0, <2>2, SMTT(30)
      <3>3. Same(1, 1)
        BY <3>1, <3>2, X86Pairs
      <3>4. QED
        BY <3>3
    <2>3. CASE "AVX2" \notin n /\ "SSE2" \notin n
      <3>1. h = {}
        BY <1>2, <1>8, <2>0, <2>3, SMTT(30)
      <3>2. g = {}
        BY <1>3, <1>8, <2>0, <2>3, SMTT(30)
      <3>3. QED
        BY <3>1, <3>2
    <2>4. QED
      BY <2>1, <2>2, <2>3
  <1>9. CASE m \in Crc
    <2>0. m \notin Adler \cup Chunk \cup Compare \cup Slide /\ m \notin {"adler32", "adler32_copy"}
            /\ m \notin Kernels
      BY <1>9 DEF Adler, Chunk, Compare, Slide, Crc, Kernels
    <2>1. CASE "VPCLMULQDQ_AVX512" \in n
      <3>1. 15 \in h /\ \A j \in h : j <= 15
        BY <1>2, <1>9, <2>0, <2>1, SMTT(30)
      <3>2. 12 \in g /\ \A j \in g : j <= 12
        BY <1>3, <1>9, <2>0, <2>1, SMTT(30)
      <3>3. Same(15, 12)
        BY <3>1, <3>2, X86Pairs
      <3>4. QED
        BY <3>3
    <2>2. CASE "VPCLMULQDQ_AVX2" \in n /\ "VPCLMULQDQ_AVX512" \notin n
      <3>1. 14 \in h /\ \A j \in h : j <= 14
        BY <1>2, <1>9, <2>0, <2>2, SMTT(30)
      <3>2. 11 \in g /\ \A j \in g : j <= 11
        BY <1>3, <1>9, <2>0, <2>2, SMTT(30)
      <3>3. Same(14, 11)
        BY <3>1, <3>2, X86Pairs
      <3>4. QED
        BY <3>3
    <2>3. CASE "PCLMULQDQ" \in n /\ "VPCLMULQDQ_AVX512" \notin n /\ "VPCLMULQDQ_AVX2" \notin n
      <3>1. 7 \in h /\ \A j \in h : j <= 7
        BY <1>2, <1>9, <2>0, <2>3, SMTT(30)
      <3>2. 6 \in g /\ \A j \in g : j <= 6
        BY <1>3, <1>9, <2>0, <2>3, SMTT(30)
      <3>3. Same(7, 6)
        BY <3>1, <3>2, X86Pairs
      <3>4. QED
        BY <3>3
    <2>4. CASE "SSE41" \in n /\ b.chorba /\ "VPCLMULQDQ_AVX512" \notin n
            /\ "VPCLMULQDQ_AVX2" \notin n /\ "PCLMULQDQ" \notin n
      <3>1. 5 \in h /\ \A j \in h : j <= 5
        BY <1>2, <1>9, <2>0, <2>4, SMTT(30)
      <3>2. 4 \in g /\ \A j \in g : j <= 4
        BY <1>3, <1>9, <2>0, <2>4, SMTT(30)
      <3>3. Same(5, 4)
        BY <3>1, <3>2, X86Pairs
      <3>4. QED
        BY <3>3
    <2>5. CASE "SSE2" \in n /\ b.chorba /\ "VPCLMULQDQ_AVX512" \notin n /\ "VPCLMULQDQ_AVX2" \notin n
            /\ "PCLMULQDQ" \notin n /\ ~("SSE41" \in n /\ b.chorba)
      <3>1. 2 \in h /\ \A j \in h : j <= 2
        BY <1>2, <1>9, <2>0, <2>5, SMTT(30)
      <3>2. 2 \in g /\ \A j \in g : j <= 2
        BY <1>3, <1>9, <2>0, <2>5, SMTT(30)
      <3>3. Same(2, 2)
        BY <3>1, <3>2, X86Pairs
      <3>4. QED
        BY <3>3
    <2>6. CASE "VPCLMULQDQ_AVX512" \notin n /\ "VPCLMULQDQ_AVX2" \notin n /\ "PCLMULQDQ" \notin n
            /\ ~("SSE41" \in n /\ b.chorba) /\ ~("SSE2" \in n /\ b.chorba)
      <3>1. h = {}
        BY <1>2, <1>9, <2>0, <2>6, SMTT(30)
      <3>2. g = {}
        BY <1>3, <1>9, <2>0, <2>6, SMTT(30)
      <3>3. QED
        BY <3>1, <3>2
    <2>7. QED
      BY <2>1, <2>2, <2>3, <2>4, <2>5, <2>6
  <1>10. QED
    BY <1>4, <1>5, <1>6, <1>7, <1>8, <1>9 DEF Members, Adler

\* Parts and macros in one order: the choices agree when the macros that apply
\* are the parts that do, but for some that a later one overrides.
LEMMA ListsAgree ==
    ASSUME NEW b, NEW cf, NEW m \in Members, NEW h, h = Hits(b, cf, m), NEW g, g = MacroHits(b, m),
           h \subseteq g, \A i \in g : \E j \in h : i <= j,
           \A i \in h : PartsOf(b.arch)[i].variant = NativesOf(b.arch)[i].variant
    PROVE  NativeSelect(b)[m] = Select(b, cf)[m]
  <1>1. h \in SUBSET (1 .. 15) /\ g \subseteq 1 .. 12
    BY PartsCount, NativesCount DEF Hits, MacroHits
  <1>2. CASE h = {}
    <2>1. g = {}
      BY <1>2
    <2>2. QED
      BY <1>2, <2>1, ChoicesAgree
  <1>3. CASE h # {}
    <2>1. PICK k \in h : \A j \in h : j <= k
      BY <1>1, <1>3, LastExists
    <2>2. ASSUME NEW i \in g PROVE i <= k
      <3>1. PICK j \in h : i <= j
        OBVIOUS
      <3>2. j <= k /\ i \in Nat /\ j \in Nat /\ k \in Nat
        BY <1>1, <2>1
      <3>3. QED
        BY <3>1, <3>2
    <2>3. k \in g /\ PartsOf(b.arch)[k].variant = NativesOf(b.arch)[k].variant
      OBVIOUS
    <2>4. QED
      BY <2>1, <2>2, <2>3, ChoicesAgree
  <1>4. QED
    BY <1>2, <1>3

\* arm_functions.h: NEON and its dot product, and the ways to compute a CRC.
LEMMA ArmAgrees ==
    ASSUME NEW b, b.arch = "arm", NEW m \in Members, NEW n, n = b.native, n \subseteq b.has,
           "NEON_DOTPROD" \in n /\ "NEON" \in b.has => "NEON" \in n
    PROVE  NativeSelect(b)[m] = Select(b, Implied(b))[m]
  <1> DEFINE cf == Implied(b)
             h == Hits(b, cf, m)
             g == MacroHits(b, m)
  <1>1. PartsOf(b.arch) = ArmParts /\ NativesOf(b.arch) = NativeArm
    BY DEF PartsOf, NativesOf
  <1>2. DOMAIN ArmParts = 1 .. 5 /\ DOMAIN NativeArm = 1 .. 5
    BY DEF ArmParts, NativeArm
  <1>3. /\ ArmParts[1] = Part("SIMD", {"simd"}, {"NEON"}, "armv6", Slide)
        /\ ArmParts[2] = Part("NEON", {"neon"}, {}, "neon", Adler \cup Chunk \cup Compare \cup Slide)
        /\ ArmParts[3] = Part("NEON_DOTPROD", {"neon", "dotprod"}, {}, "neon_dotprod", Adler)
        /\ ArmParts[4] = Part("CRC32", {"crc32"}, {"PMULL_EOR3"}, "armv8", Crc)
       
                /\ ArmParts[5] = Part("PMULL_EOR3", {"crc32", "pmull", "eor3", "fast_pmull"}, {}, "armv8_pmull_eor3", Crc)
    BY DEF ArmParts
  <1>4. /\ NativeArm[1] = Native("SIMD", "armv6", Slide)
        /\ NativeArm[2] = Native("NEON", "neon", Kernels)
        /\ NativeArm[3] = Native("NEON_DOTPROD", "neon_dotprod", Adler)
        /\ NativeArm[4] = Native("CRC32", "armv8", Crc)
        /\ NativeArm[5] = Native("PMULL_EOR3", "armv8_pmull_eor3", Crc)
    BY DEF NativeArm
  <1>5. /\ "crc32" \in cf <=> n \cap {"CRC32", "PMULL_EOR3"} # {}
        /\ "dotprod" \in cf <=> "NEON_DOTPROD" \in n
        /\ "eor3" \in cf <=> "PMULL_EOR3" \in n
        /\ "fast_pmull" \in cf <=> "PMULL_EOR3" \in n
        /\ "neon" \in cf <=> n \cap {"NEON", "NEON_DOTPROD"} # {}
        /\ "pmull" \in cf <=> "PMULL_EOR3" \in n
        /\ "simd" \in cf <=> "SIMD" \in n
    <2>1. \A f : f \in cf <=> \E i \in 1 .. 5 : ArmParts[i].macro \in n /\ f \in ArmParts[i].cpu
      BY <1>1, <1>2 DEF Implied
    <2>2. \A i \in 1 .. 5 : i = 1 \/ i = 2 \/ i = 3 \/ i = 4 \/ i = 5
      OBVIOUS
    <2> HIDE DEF cf
    <2>3. QED
      BY <1>3, <2>1, <2>2, SMTT(30) DEF Part
  <1>6. \A i : i \in h <=>
            /\ i \in 1 .. 5 /\ m \in ArmParts[i].members /\ ArmParts[i].macro \in b.has
            /\ ArmParts[i].off \cap n = {}
            /\ ArmParts[i].macro \in n \/ ArmParts[i].cpu \subseteq cf
    <2>1. \A i \in 1 .. 5 : ArmParts[i].variant \notin {"chorba_sse2", "chorba_sse41"}
            /\ ArmParts[i].macro # "AVX2VNNI"
      BY <1>3 DEF Part
    <2>2. QED
      BY <1>1, <1>2, <2>1 DEF Hits, Usable
  <1>7. \A i : i \in g <=> i \in 1 .. 5 /\ m \in NativeArm[i].members /\ NativeArm[i].macro \in n
    <2>1. \A i \in 1 .. 5 : NativeArm[i].variant \notin {"chorba_sse2", "chorba_sse41"}
            /\ NativeArm[i].macro # "AVX512VNNI"
      BY <1>4 DEF Native
    <2>2. QED
      BY <1>1, <1>2, <2>1 DEF MacroHits, Usable
  <1>8. \A i \in 1 .. 5 : ArmParts[i].variant = NativeArm[i].variant
    BY <1>3, <1>4 DEF Part, Native
  <1> HIDE DEF cf, h, g
  <1>9. h \subseteq g
    <2>1. ASSUME NEW i \in h PROVE i \in g
      <3>1. i \in 1 .. 5
        BY <1>6
      <3>2. CASE i = 1
        BY <1>3, <1>4, <1>5, <1>6, <1>7, <3>2 DEF Part, Native, Kernels
      <3>3. CASE i = 2
        BY <1>3, <1>4, <1>5, <1>6, <1>7, <3>3 DEF Part, Native, Kernels
      <3>4. CASE i = 3
        BY <1>3, <1>4, <1>5, <1>6, <1>7, <3>4 DEF Part, Native, Kernels
      <3>5. CASE i = 4
        BY <1>3, <1>4, <1>5, <1>6, <1>7, <3>5 DEF Part, Native, Kernels
      <3>6. CASE i = 5
        BY <1>3, <1>4, <1>5, <1>6, <1>7, <3>6 DEF Part, Native, Kernels
      <3>7. QED
        BY <3>1, <3>2, <3>3, <3>4, <3>5, <3>6
    <2>2. QED
      BY <2>1
  <1>10. \A i \in g : \E j \in h : i <= j
    <2>1. ASSUME NEW i \in g PROVE \E j \in h : i <= j
      <3>1. i \in 1 .. 5
        BY <1>7
      <3>2. CASE i = 1
        <4>1. CASE "NEON" \in n
          <5>1. 2 \in h
            BY <1>3, <1>4, <1>6, <1>7, <3>2, <4>1 DEF Part, Native, Kernels
          <5>2. QED
            BY <3>2, <5>1
        <4>2. CASE "NEON" \notin n
          BY <1>3, <1>4, <1>6, <1>7, <3>2, <4>2 DEF Part, Native, Kernels
        <4>3. QED
          BY <4>1, <4>2
      <3>3. CASE i = 2
        BY <1>3, <1>4, <1>6, <1>7, <3>3 DEF Part, Native, Kernels
      <3>4. CASE i = 3
        BY <1>3, <1>4, <1>6, <1>7, <3>4 DEF Part, Native, Kernels
      <3>5. CASE i = 4
        <4>1. CASE "PMULL_EOR3" \in n
          <5>1. 5 \in h
            BY <1>3, <1>4, <1>6, <1>7, <3>5, <4>1 DEF Part, Native, Kernels
          <5>2. QED
            BY <3>5, <5>1
        <4>2. CASE "PMULL_EOR3" \notin n
          BY <1>3, <1>4, <1>6, <1>7, <3>5, <4>2 DEF Part, Native, Kernels
        <4>3. QED
          BY <4>1, <4>2
      <3>6. CASE i = 5
        BY <1>3, <1>4, <1>6, <1>7, <3>6 DEF Part, Native, Kernels
      <3>7. QED
        BY <3>1, <3>2, <3>3, <3>4, <3>5, <3>6
    <2>2. QED
      BY <2>1
  <1>11. \A i \in h : PartsOf(b.arch)[i].variant = NativesOf(b.arch)[i].variant
    BY <1>1, <1>6, <1>8
  <1>12. QED
    BY <1>9, <1>10, <1>11, ListsAgree DEF cf, h, g

\* mips_functions.h: MSA alone.
LEMMA MipsAgrees ==
    ASSUME NEW b, b.arch = "mips", NEW m \in Members, NEW n, n = b.native, n \subseteq b.has
    PROVE  NativeSelect(b)[m] = Select(b, Implied(b))[m]
  <1> DEFINE cf == Implied(b)
             h == Hits(b, cf, m)
             g == MacroHits(b, m)
  <1>1. PartsOf(b.arch) = MipsParts /\ NativesOf(b.arch) = NativeMips
    BY DEF PartsOf, NativesOf
  <1>2. DOMAIN MipsParts = 1 .. 1 /\ DOMAIN NativeMips = 1 .. 1
    BY DEF MipsParts, NativeMips
  <1>3. /\ MipsParts[1] = Part("MSA", {"msa"}, {}, "msa", Adler \cup {"slide_hash"})
    BY DEF MipsParts
  <1>4. /\ NativeMips[1] = Native("MSA", "msa", Adler \cup {"slide_hash"})
    BY DEF NativeMips
  <1>5. /\ "msa" \in cf <=> "MSA" \in n
    <2>1. \A f : f \in cf <=> \E i \in 1 .. 1 : MipsParts[i].macro \in n /\ f \in MipsParts[i].cpu
      BY <1>1, <1>2 DEF Implied
    <2>2. \A i \in 1 .. 1 : i = 1
      OBVIOUS
    <2> HIDE DEF cf
    <2>3. QED
      BY <1>3, <2>1, <2>2, SMTT(30) DEF Part
  <1>6. \A i : i \in h <=>
            /\ i \in 1 .. 1 /\ m \in MipsParts[i].members /\ MipsParts[i].macro \in b.has
            /\ MipsParts[i].off \cap n = {}
            /\ MipsParts[i].macro \in n \/ MipsParts[i].cpu \subseteq cf
    <2>1. \A i \in 1 .. 1 : MipsParts[i].variant \notin {"chorba_sse2", "chorba_sse41"}
            /\ MipsParts[i].macro # "AVX2VNNI"
      BY <1>3 DEF Part
    <2>2. QED
      BY <1>1, <1>2, <2>1 DEF Hits, Usable
  <1>7. \A i : i \in g <=> i \in 1 .. 1 /\ m \in NativeMips[i].members /\ NativeMips[i].macro \in n
    <2>1. \A i \in 1 .. 1 : NativeMips[i].variant \notin {"chorba_sse2", "chorba_sse41"}
            /\ NativeMips[i].macro # "AVX512VNNI"
      BY <1>4 DEF Native
    <2>2. QED
      BY <1>1, <1>2, <2>1 DEF MacroHits, Usable
  <1>8. \A i \in 1 .. 1 : MipsParts[i].variant = NativeMips[i].variant
    BY <1>3, <1>4 DEF Part, Native
  <1> HIDE DEF cf, h, g
  <1>9. h \subseteq g
    <2>1. ASSUME NEW i \in h PROVE i \in g
      <3>1. i \in 1 .. 1
        BY <1>6
      <3>2. CASE i = 1
        BY <1>3, <1>4, <1>5, <1>6, <1>7, <3>2 DEF Part, Native, Kernels
      <3>3. QED
        BY <3>1, <3>2
    <2>2. QED
      BY <2>1
  <1>10. \A i \in g : \E j \in h : i <= j
    <2>1. ASSUME NEW i \in g PROVE \E j \in h : i <= j
      <3>1. i \in 1 .. 1
        BY <1>7
      <3>2. CASE i = 1
        BY <1>3, <1>4, <1>6, <1>7, <3>2 DEF Part, Native, Kernels
      <3>3. QED
        BY <3>1, <3>2
    <2>2. QED
      BY <2>1
  <1>11. \A i \in h : PartsOf(b.arch)[i].variant = NativesOf(b.arch)[i].variant
    BY <1>1, <1>6, <1>8
  <1>12. QED
    BY <1>9, <1>10, <1>11, ListsAgree DEF cf, h, g

\* power_functions.h: VMX, POWER8 and POWER9.
LEMMA PowerAgrees ==
    ASSUME NEW b, b.arch = "power", NEW m \in Members, NEW n, n = b.native, n \subseteq b.has,
           n \cap {"P8", "P8CRC"} # {} => {"P8", "P8CRC"} \cap b.has \subseteq n
    PROVE  NativeSelect(b)[m] = Select(b, Implied(b))[m]
  <1> DEFINE cf == Implied(b)
             h == Hits(b, cf, m)
             g == MacroHits(b, m)
  <1>1. PartsOf(b.arch) = PowerParts /\ NativesOf(b.arch) = NativePower
    BY DEF PartsOf, NativesOf
  <1>2. DOMAIN PowerParts = 1 .. 4 /\ DOMAIN NativePower = 1 .. 4
    BY DEF PowerParts, NativePower
  <1>3. /\ PowerParts[1] = Part("VMX", {"altivec"}, {}, "vmx", Adler \cup Slide)
        /\ PowerParts[2] = Part("P8", {"arch_2_07"}, {}, "power8", Adler \cup Chunk \cup Slide)
        /\ PowerParts[3] = Part("P8CRC", {"arch_2_07"}, {}, "power8", Crc)
        /\ PowerParts[4] = Part("P9", {"arch_3_00"}, {}, "power9", Compare)
    BY DEF PowerParts
  <1>4. /\ NativePower[1] = Native("VMX", "vmx", Adler \cup Slide)
        /\ NativePower[2] = Native("P8", "power8", Adler \cup Chunk \cup Slide)
        /\ NativePower[3] = Native("P8CRC", "power8", Crc)
        /\ NativePower[4] = Native("P9", "power9", Compare)
    BY DEF NativePower
  <1>5. /\ "altivec" \in cf <=> "VMX" \in n
        /\ "arch_2_07" \in cf <=> n \cap {"P8", "P8CRC"} # {}
        /\ "arch_3_00" \in cf <=> "P9" \in n
    <2>1. \A f : f \in cf <=> \E i \in 1 .. 4 : PowerParts[i].macro \in n /\ f \in PowerParts[i].cpu
      BY <1>1, <1>2 DEF Implied
    <2>2. \A i \in 1 .. 4 : i = 1 \/ i = 2 \/ i = 3 \/ i = 4
      OBVIOUS
    <2> HIDE DEF cf
    <2>3. QED
      BY <1>3, <2>1, <2>2, SMTT(30) DEF Part
  <1>6. \A i : i \in h <=>
            /\ i \in 1 .. 4 /\ m \in PowerParts[i].members /\ PowerParts[i].macro \in b.has
            /\ PowerParts[i].off \cap n = {}
            /\ PowerParts[i].macro \in n \/ PowerParts[i].cpu \subseteq cf
    <2>1. \A i \in 1 .. 4 : PowerParts[i].variant \notin {"chorba_sse2", "chorba_sse41"}
            /\ PowerParts[i].macro # "AVX2VNNI"
      BY <1>3 DEF Part
    <2>2. QED
      BY <1>1, <1>2, <2>1 DEF Hits, Usable
  <1>7. \A i : i \in g <=> i \in 1 .. 4 /\ m \in NativePower[i].members /\ NativePower[i].macro \in n
    <2>1. \A i \in 1 .. 4 : NativePower[i].variant \notin {"chorba_sse2", "chorba_sse41"}
            /\ NativePower[i].macro # "AVX512VNNI"
      BY <1>4 DEF Native
    <2>2. QED
      BY <1>1, <1>2, <2>1 DEF MacroHits, Usable
  <1>8. \A i \in 1 .. 4 : PowerParts[i].variant = NativePower[i].variant
    BY <1>3, <1>4 DEF Part, Native
  <1> HIDE DEF cf, h, g
  <1>9. h \subseteq g
    <2>1. ASSUME NEW i \in h PROVE i \in g
      <3>1. i \in 1 .. 4
        BY <1>6
      <3>2. CASE i = 1
        BY <1>3, <1>4, <1>5, <1>6, <1>7, <3>2 DEF Part, Native, Kernels
      <3>3. CASE i = 2
        BY <1>3, <1>4, <1>5, <1>6, <1>7, <3>3 DEF Part, Native, Kernels
      <3>4. CASE i = 3
        BY <1>3, <1>4, <1>5, <1>6, <1>7, <3>4 DEF Part, Native, Kernels
      <3>5. CASE i = 4
        BY <1>3, <1>4, <1>5, <1>6, <1>7, <3>5 DEF Part, Native, Kernels
      <3>6. QED
        BY <3>1, <3>2, <3>3, <3>4, <3>5
    <2>2. QED
      BY <2>1
  <1>10. \A i \in g : \E j \in h : i <= j
    <2>1. ASSUME NEW i \in g PROVE \E j \in h : i <= j
      <3>1. i \in 1 .. 4
        BY <1>7
      <3>2. CASE i = 1
        BY <1>3, <1>4, <1>6, <1>7, <3>2 DEF Part, Native, Kernels
      <3>3. CASE i = 2
        BY <1>3, <1>4, <1>6, <1>7, <3>3 DEF Part, Native, Kernels
      <3>4. CASE i = 3
        BY <1>3, <1>4, <1>6, <1>7, <3>4 DEF Part, Native, Kernels
      <3>5. CASE i = 4
        BY <1>3, <1>4, <1>6, <1>7, <3>5 DEF Part, Native, Kernels
      <3>6. QED
        BY <3>1, <3>2, <3>3, <3>4, <3>5
    <2>2. QED
      BY <2>1
  <1>11. \A i \in h : PartsOf(b.arch)[i].variant = NativesOf(b.arch)[i].variant
    BY <1>1, <1>6, <1>8
  <1>12. QED
    BY <1>9, <1>10, <1>11, ListsAgree DEF cf, h, g

\* riscv_functions.h: vectors and Zbc.
LEMMA RiscvAgrees ==
    ASSUME NEW b, b.arch = "riscv", NEW m \in Members, NEW n, n = b.native, n \subseteq b.has
    PROVE  NativeSelect(b)[m] = Select(b, Implied(b))[m]
  <1> DEFINE cf == Implied(b)
             h == Hits(b, cf, m)
             g == MacroHits(b, m)
  <1>1. PartsOf(b.arch) = RiscvParts /\ NativesOf(b.arch) = NativeRiscv
    BY DEF PartsOf, NativesOf
  <1>2. DOMAIN RiscvParts = 1 .. 2 /\ DOMAIN NativeRiscv = 1 .. 2
    BY DEF RiscvParts, NativeRiscv
  <1>3. /\ RiscvParts[1] = Part("RVV", {"rvv"}, {}, "rvv", Adler \cup Chunk \cup Compare \cup Slide)
        /\ RiscvParts[2] = Part("ZBC", {"zbc"}, {}, "riscv64_zbc", Crc)
    BY DEF RiscvParts
  <1>4. /\ NativeRiscv[1] = Native("RVV", "rvv", Kernels)
        /\ NativeRiscv[2] = Native("ZBC", "riscv64_zbc", Crc)
    BY DEF NativeRiscv
  <1>5. /\ "rvv" \in cf <=> "RVV" \in n
        /\ "zbc" \in cf <=> "ZBC" \in n
    <2>1. \A f : f \in cf <=> \E i \in 1 .. 2 : RiscvParts[i].macro \in n /\ f \in RiscvParts[i].cpu
      BY <1>1, <1>2 DEF Implied
    <2>2. \A i \in 1 .. 2 : i = 1 \/ i = 2
      OBVIOUS
    <2> HIDE DEF cf
    <2>3. QED
      BY <1>3, <2>1, <2>2, SMTT(30) DEF Part
  <1>6. \A i : i \in h <=>
            /\ i \in 1 .. 2 /\ m \in RiscvParts[i].members /\ RiscvParts[i].macro \in b.has
            /\ RiscvParts[i].off \cap n = {}
            /\ RiscvParts[i].macro \in n \/ RiscvParts[i].cpu \subseteq cf
    <2>1. \A i \in 1 .. 2 : RiscvParts[i].variant \notin {"chorba_sse2", "chorba_sse41"}
            /\ RiscvParts[i].macro # "AVX2VNNI"
      BY <1>3 DEF Part
    <2>2. QED
      BY <1>1, <1>2, <2>1 DEF Hits, Usable
  <1>7. \A i : i \in g <=> i \in 1 .. 2 /\ m \in NativeRiscv[i].members /\ NativeRiscv[i].macro \in n
    <2>1. \A i \in 1 .. 2 : NativeRiscv[i].variant \notin {"chorba_sse2", "chorba_sse41"}
            /\ NativeRiscv[i].macro # "AVX512VNNI"
      BY <1>4 DEF Native
    <2>2. QED
      BY <1>1, <1>2, <2>1 DEF MacroHits, Usable
  <1>8. \A i \in 1 .. 2 : RiscvParts[i].variant = NativeRiscv[i].variant
    BY <1>3, <1>4 DEF Part, Native
  <1> HIDE DEF cf, h, g
  <1>9. h \subseteq g
    <2>1. ASSUME NEW i \in h PROVE i \in g
      <3>1. i \in 1 .. 2
        BY <1>6
      <3>2. CASE i = 1
        BY <1>3, <1>4, <1>5, <1>6, <1>7, <3>2 DEF Part, Native, Kernels
      <3>3. CASE i = 2
        BY <1>3, <1>4, <1>5, <1>6, <1>7, <3>3 DEF Part, Native, Kernels
      <3>4. QED
        BY <3>1, <3>2, <3>3
    <2>2. QED
      BY <2>1
  <1>10. \A i \in g : \E j \in h : i <= j
    <2>1. ASSUME NEW i \in g PROVE \E j \in h : i <= j
      <3>1. i \in 1 .. 2
        BY <1>7
      <3>2. CASE i = 1
        BY <1>3, <1>4, <1>6, <1>7, <3>2 DEF Part, Native, Kernels
      <3>3. CASE i = 2
        BY <1>3, <1>4, <1>6, <1>7, <3>3 DEF Part, Native, Kernels
      <3>4. QED
        BY <3>1, <3>2, <3>3
    <2>2. QED
      BY <2>1
  <1>11. \A i \in h : PartsOf(b.arch)[i].variant = NativesOf(b.arch)[i].variant
    BY <1>1, <1>6, <1>8
  <1>12. QED
    BY <1>9, <1>10, <1>11, ListsAgree DEF cf, h, g

\* s390_functions.h: VX alone.
LEMMA S390Agrees ==
    ASSUME NEW b, b.arch = "s390", NEW m \in Members, NEW n, n = b.native, n \subseteq b.has
    PROVE  NativeSelect(b)[m] = Select(b, Implied(b))[m]
  <1> DEFINE cf == Implied(b)
             h == Hits(b, cf, m)
             g == MacroHits(b, m)
  <1>1. PartsOf(b.arch) = S390Parts /\ NativesOf(b.arch) = NativeS390
    BY DEF PartsOf, NativesOf
  <1>2. DOMAIN S390Parts = 1 .. 1 /\ DOMAIN NativeS390 = 1 .. 1
    BY DEF S390Parts, NativeS390
  <1>3. /\ S390Parts[1] = Part("VX", {"vx"}, {}, "vx", Crc \cup Slide)
    BY DEF S390Parts
  <1>4. /\ NativeS390[1] = Native("VX", "vx", Crc \cup Slide)
    BY DEF NativeS390
  <1>5. /\ "vx" \in cf <=> "VX" \in n
    <2>1. \A f : f \in cf <=> \E i \in 1 .. 1 : S390Parts[i].macro \in n /\ f \in S390Parts[i].cpu
      BY <1>1, <1>2 DEF Implied
    <2>2. \A i \in 1 .. 1 : i = 1
      OBVIOUS
    <2> HIDE DEF cf
    <2>3. QED
      BY <1>3, <2>1, <2>2, SMTT(30) DEF Part
  <1>6. \A i : i \in h <=>
            /\ i \in 1 .. 1 /\ m \in S390Parts[i].members /\ S390Parts[i].macro \in b.has
            /\ S390Parts[i].off \cap n = {}
            /\ S390Parts[i].macro \in n \/ S390Parts[i].cpu \subseteq cf
    <2>1. \A i \in 1 .. 1 : S390Parts[i].variant \notin {"chorba_sse2", "chorba_sse41"}
            /\ S390Parts[i].macro # "AVX2VNNI"
      BY <1>3 DEF Part
    <2>2. QED
      BY <1>1, <1>2, <2>1 DEF Hits, Usable
  <1>7. \A i : i \in g <=> i \in 1 .. 1 /\ m \in NativeS390[i].members /\ NativeS390[i].macro \in n
    <2>1. \A i \in 1 .. 1 : NativeS390[i].variant \notin {"chorba_sse2", "chorba_sse41"}
            /\ NativeS390[i].macro # "AVX512VNNI"
      BY <1>4 DEF Native
    <2>2. QED
      BY <1>1, <1>2, <2>1 DEF MacroHits, Usable
  <1>8. \A i \in 1 .. 1 : S390Parts[i].variant = NativeS390[i].variant
    BY <1>3, <1>4 DEF Part, Native
  <1> HIDE DEF cf, h, g
  <1>9. h \subseteq g
    <2>1. ASSUME NEW i \in h PROVE i \in g
      <3>1. i \in 1 .. 1
        BY <1>6
      <3>2. CASE i = 1
        BY <1>3, <1>4, <1>5, <1>6, <1>7, <3>2 DEF Part, Native, Kernels
      <3>3. QED
        BY <3>1, <3>2
    <2>2. QED
      BY <2>1
  <1>10. \A i \in g : \E j \in h : i <= j
    <2>1. ASSUME NEW i \in g PROVE \E j \in h : i <= j
      <3>1. i \in 1 .. 1
        BY <1>7
      <3>2. CASE i = 1
        BY <1>3, <1>4, <1>6, <1>7, <3>2 DEF Part, Native, Kernels
      <3>3. QED
        BY <3>1, <3>2
    <2>2. QED
      BY <2>1
  <1>11. \A i \in h : PartsOf(b.arch)[i].variant = NativesOf(b.arch)[i].variant
    BY <1>1, <1>6, <1>8
  <1>12. QED
    BY <1>9, <1>10, <1>11, ListsAgree DEF cf, h, g

\* loongarch_functions.h: LASX overrides LSX.
LEMMA LoongarchAgrees ==
    ASSUME NEW b, b.arch = "loongarch", NEW m \in Members, NEW n, n = b.native, n \subseteq b.has
    PROVE  NativeSelect(b)[m] = Select(b, Implied(b))[m]
  <1> DEFINE cf == Implied(b)
             h == Hits(b, cf, m)
             g == MacroHits(b, m)
  <1>1. PartsOf(b.arch) = LoongarchParts /\ NativesOf(b.arch) = NativeLoongarch
    BY DEF PartsOf, NativesOf
  <1>2. DOMAIN LoongarchParts = 1 .. 3 /\ DOMAIN NativeLoongarch = 1 .. 3
    BY DEF LoongarchParts, NativeLoongarch
  <1>3. /\ LoongarchParts[1] = Part("CRC", {"crc"}, {}, "loongarch64", Crc)
        /\ LoongarchParts[2] = Part("LSX", {"lsx"}, {"LASX"}, "lsx", Adler \cup Chunk \cup Compare \cup Slide)
        /\ LoongarchParts[3] = Part("LASX", {"lasx"}, {}, "lasx", Adler \cup Chunk \cup Compare \cup Slide)
    BY DEF LoongarchParts
  <1>4. /\ NativeLoongarch[1] = Native("CRC", "loongarch64", Crc)
        /\ NativeLoongarch[2] = Native("LSX", "lsx", Kernels)
        /\ NativeLoongarch[3] = Native("LASX", "lasx", Kernels)
    BY DEF NativeLoongarch
  <1>5. /\ "crc" \in cf <=> "CRC" \in n
        /\ "lasx" \in cf <=> "LASX" \in n
        /\ "lsx" \in cf <=> "LSX" \in n
    <2>1. \A f : f \in cf <=> \E i \in 1 .. 3 : LoongarchParts[i].macro \in n /\ f \in LoongarchParts[i].cpu
      BY <1>1, <1>2 DEF Implied
    <2>2. \A i \in 1 .. 3 : i = 1 \/ i = 2 \/ i = 3
      OBVIOUS
    <2> HIDE DEF cf
    <2>3. QED
      BY <1>3, <2>1, <2>2, SMTT(30) DEF Part
  <1>6. \A i : i \in h <=>
            /\ i \in 1 .. 3 /\ m \in LoongarchParts[i].members /\ LoongarchParts[i].macro \in b.has
            /\ LoongarchParts[i].off \cap n = {}
            /\ LoongarchParts[i].macro \in n \/ LoongarchParts[i].cpu \subseteq cf
    <2>1. \A i \in 1 .. 3 : LoongarchParts[i].variant \notin {"chorba_sse2", "chorba_sse41"}
            /\ LoongarchParts[i].macro # "AVX2VNNI"
      BY <1>3 DEF Part
    <2>2. QED
      BY <1>1, <1>2, <2>1 DEF Hits, Usable
  <1>7. \A i : i \in g <=> i \in 1 .. 3 /\ m \in NativeLoongarch[i].members /\ NativeLoongarch[i].macro \in n
    <2>1. \A i \in 1 .. 3 : NativeLoongarch[i].variant \notin {"chorba_sse2", "chorba_sse41"}
            /\ NativeLoongarch[i].macro # "AVX512VNNI"
      BY <1>4 DEF Native
    <2>2. QED
      BY <1>1, <1>2, <2>1 DEF MacroHits, Usable
  <1>8. \A i \in 1 .. 3 : LoongarchParts[i].variant = NativeLoongarch[i].variant
    BY <1>3, <1>4 DEF Part, Native
  <1> HIDE DEF cf, h, g
  <1>9. h \subseteq g
    <2>1. ASSUME NEW i \in h PROVE i \in g
      <3>1. i \in 1 .. 3
        BY <1>6
      <3>2. CASE i = 1
        BY <1>3, <1>4, <1>5, <1>6, <1>7, <3>2 DEF Part, Native, Kernels
      <3>3. CASE i = 2
        BY <1>3, <1>4, <1>5, <1>6, <1>7, <3>3 DEF Part, Native, Kernels
      <3>4. CASE i = 3
        BY <1>3, <1>4, <1>5, <1>6, <1>7, <3>4 DEF Part, Native, Kernels
      <3>5. QED
        BY <3>1, <3>2, <3>3, <3>4
    <2>2. QED
      BY <2>1
  <1>10. \A i \in g : \E j \in h : i <= j
    <2>1. ASSUME NEW i \in g PROVE \E j \in h : i <= j
      <3>1. i \in 1 .. 3
        BY <1>7
      <3>2. CASE i = 1
        BY <1>3, <1>4, <1>6, <1>7, <3>2 DEF Part, Native, Kernels
      <3>3. CASE i = 2
        <4>1. CASE "LASX" \in n
          <5>1. 3 \in h
            BY <1>3, <1>4, <1>6, <1>7, <3>3, <4>1 DEF Part, Native, Kernels
          <5>2. QED
            BY <3>3, <5>1
        <4>2. CASE "LASX" \notin n
          BY <1>3, <1>4, <1>6, <1>7, <3>3, <4>2 DEF Part, Native, Kernels
        <4>3. QED
          BY <4>1, <4>2
      <3>4. CASE i = 3
        BY <1>3, <1>4, <1>6, <1>7, <3>4 DEF Part, Native, Kernels
      <3>5. QED
        BY <3>1, <3>2, <3>3, <3>4
    <2>2. QED
      BY <2>1
  <1>11. \A i \in h : PartsOf(b.arch)[i].variant = NativesOf(b.arch)[i].variant
    BY <1>1, <1>6, <1>8
  <1>12. QED
    BY <1>9, <1>10, <1>11, ListsAgree DEF cf, h, g

\* A build of the assumptions, of whatever architecture.
LEMMA BuildAgrees ==
    ASSUME NEW s \in Systems, NEW b, b = Builds[s[1]]
    PROVE  NativeSelect(b) = Select(b, Implied(b))
  <1>1. b.native \subseteq b.has
    BY BuildsAssumption
  <1>2. /\ b.arch = "x86" =>
              /\ b.native \cap {"VPCLMULQDQ_AVX512", "AVX512VNNI"} # {} => "AVX512" \in b.native
              /\ {"VPCLMULQDQ_AVX2", "AVX512"} \subseteq b.native /\ "VPCLMULQDQ_AVX512" \in b.has =>
                    "VPCLMULQDQ_AVX512" \in b.native
        /\ b.arch = "arm" /\ "NEON_DOTPROD" \in b.native /\ "NEON" \in b.has => "NEON" \in b.native
        /\ b.arch = "power" /\ b.native \cap {"P8", "P8CRC"} # {} =>
              {"P8", "P8CRC"} \cap b.has \subseteq b.native
    BY NativesAssumption
  <1>3. ASSUME NEW m \in Members PROVE NativeSelect(b)[m] = Select(b, Implied(b))[m]
    <2>1. CASE b.arch = "x86"
      BY <1>1, <1>2, <2>1, X86Agrees
    <2>2. CASE b.arch = "arm"
      BY <1>1, <1>2, <2>2, ArmAgrees
    <2>3. CASE b.arch = "mips"
      BY <1>1, <2>3, MipsAgrees
    <2>4. CASE b.arch = "power"
      BY <1>1, <1>2, <2>4, PowerAgrees
    <2>5. CASE b.arch = "riscv"
      BY <1>1, <2>5, RiscvAgrees
    <2>6. CASE b.arch = "s390"
      BY <1>1, <2>6, S390Agrees
    <2>7. CASE b.arch = "loongarch"
      BY <1>1, <2>7, LoongarchAgrees
    <2>8. CASE b.arch \notin {"x86", "arm", "mips", "power", "riscv", "s390", "loongarch"}
      <3>1. PartsOf(b.arch) = <<>> /\ NativesOf(b.arch) = <<>>
        BY <2>8 DEF PartsOf, NativesOf
      <3>2. Hits(b, Implied(b), m) = {} /\ MacroHits(b, m) = {}
        BY <3>1 DEF Hits, MacroHits
      <3>3. QED
        BY <3>2, ChoicesAgree
    <2>9. QED
      BY <2>1, <2>2, <2>3, <2>4, <2>5, <2>6, <2>7, <2>8
  <1>4. /\ NativeSelect(b) = [m \in Members |-> NativeSelect(b)[m]]
        /\ Select(b, Implied(b)) = [m \in Members |-> Select(b, Implied(b))[m]]
    BY DEF NativeSelect, Select
  <1>5. QED
    BY <1>3, <1>4

\* functable.h, *_functions.h: without run-time detection the native_ macros
\* choose what init_functable would on a CPU that has just what is native, for
\* every set of compiled-in and native macros the *_natives.h headers can give.
THEOREM ChoicesAreTheSame == Spec => []NativeAgrees
  <1>1. IInv => NativeAgrees
    <2> SUFFICES ASSUME IInv PROVE NativeAgrees
      OBVIOUS
    <2>1. <<build, cpu>> \in Systems /\ <<build, cpu>>[1] = build
      BY DEF IInv, TableOK
    <2>2. NativeSelect(Builds[build]) = Select(Builds[build], Implied(Builds[build]))
      BY <2>1, BuildAgrees
    <2>3. QED
      BY <2>2 DEF NativeAgrees, Implied
  <1>2. QED
    BY <1>1, TableInvariant, PTL
=============================================================================
