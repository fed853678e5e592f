--------------------------- MODULE RiceppDispatch ---------------------------
(***************************************************************************)
(* The choice of the ricepp codec for the CPU, create_codec of             *)
(* src/ricepp/ricepp.cpp, called by the threads of a compression pool.     *)
(*                                                                         *)
(* get_cpu_variant asks the CPU once and keeps the answer in a static of   *)
(* the function; show_cpu_variant_once writes a message once, from the     *)
(* initialiser of another.  A static of a function is initialised by the   *)
(* first thread that gets to it, and the threads that get to it meanwhile  *)
(* wait.  The switch of create_codec has a case for a variant only in a    *)
(* build that holds the codec for it.                                      *)
(***************************************************************************)
EXTENDS Integers, Sequences, FiniteSets

CONSTANTS
    Threads,    \* the threads that call create_codec
    Cpus,       \* the CPUs: [builtin, avx512vl, avx512vbmi, bmi2], builtin
                \* for a build that has __builtin_cpu_supports
    Builds      \* the builds: the variants RICEPP_CPU_... is defined for

VARIABLES
    cpu,        \* the CPU the process runs on
    build,      \* the build of the binary
    env,        \* RICEPP_SHOW_CPU_VARIANT is set
    variant,    \* the static of get_cpu_variant: [state, value]
    shown,      \* the static of show_cpu_variant_once: its state
    pc,         \* where each thread is in create_codec
    codec,      \* the variant of the codec each thread was given
    err         \* the variants named on std::cerr, in order

vars == <<cpu, build, env, variant, shown, pc, codec, err>>

None == "none"

Variants == {"has_bmi2_avx512", "has_bmi2", "fallback"}

-----------------------------------------------------------------------------
\* The test for AVX512 without the one for BMI2.
InitWithoutBmi2(c) ==
    CASE c.builtin /\ c.avx512vl /\ c.avx512vbmi -> "has_bmi2_avx512"
      [] c.builtin /\ c.bmi2 -> "has_bmi2"
      [] OTHER -> "fallback"

\* get_cpu_variant_init
GetCpuVariantInit(c) ==
    CASE c.builtin /\ c.avx512vl /\ c.avx512vbmi /\ c.bmi2 -> "has_bmi2_avx512"
      [] c.builtin /\ c.bmi2 -> "has_bmi2"
      [] OTHER -> "fallback"

\* A switch without its default.
SwitchWithoutDefault(v, b) == IF v \in b THEN v ELSE "unknown"

\* The case of the switch of create_codec that is taken.
Switch(v, b) == IF v \in b THEN v ELSE "fallback"

\* A static that is initialised by every thread that finds it unfinished.
MayEnterUnfinished(state) == state # "done"

\* The first thread to get to a static initialises it.
MayEnter(state) == state = "none"

\* An initialiser that never lets the waiting threads go.
StaysRunning == "running"

\* The state of a static whose initialiser has returned.
Initialised == "done"

At(t, from, to) == pc[t] = from /\ pc' = [pc EXCEPT ![t] = to]

-----------------------------------------------------------------------------
(***************************************************************************)
(* get_cpu_variant                                                         *)
(***************************************************************************)
EnterVariant(t) ==
    /\ At(t, "get", "init")
    /\ MayEnter(variant.state)
    /\ variant' = [variant EXCEPT !.state = "running"]
    /\ UNCHANGED <<cpu, build, env, shown, codec, err>>

InitVariant(t) ==
    /\ At(t, "init", "switch")
    /\ variant' = [state |-> Initialised, value |-> GetCpuVariantInit(cpu)]
    /\ UNCHANGED <<cpu, build, env, shown, codec, err>>

ReadVariant(t) ==
    /\ At(t, "get", "switch")
    /\ variant.state = "done"
    /\ UNCHANGED <<cpu, build, env, variant, shown, codec, err>>

(***************************************************************************)
(* show_cpu_variant_once, called in the case of the switch                 *)
(***************************************************************************)
EnterShow(t) ==
    /\ At(t, "switch", "show")
    /\ MayEnter(shown)
    /\ shown' = "running"
    /\ UNCHANGED <<cpu, build, env, variant, codec, err>>

\* show_cpu_variant in the initialiser.
Show(t) ==
    /\ At(t, "show", "make")
    /\ err' = IF env THEN Append(err, Switch(variant.value, build)) ELSE err
    /\ shown' = Initialised
    /\ UNCHANGED <<cpu, build, env, variant, codec>>

SkipShow(t) ==
    /\ At(t, "switch", "make")
    /\ shown = "done"
    /\ UNCHANGED <<cpu, build, env, variant, shown, codec, err>>

\* create_codec_cpuspecific_ of the case.
Make(t) ==
    /\ At(t, "make", "done")
    /\ codec' = [codec EXCEPT ![t] = Switch(variant.value, build)]
    /\ UNCHANGED <<cpu, build, env, variant, shown, err>>

CreateCodec(t) ==
    \/ EnterVariant(t) \/ InitVariant(t) \/ ReadVariant(t)
    \/ EnterShow(t) \/ Show(t) \/ SkipShow(t)
    \/ Make(t)

-----------------------------------------------------------------------------
Init ==
    /\ cpu \in Cpus
    /\ build \in Builds
    /\ env \in BOOLEAN
    /\ variant = [state |-> "none", value |-> None]
    /\ shown = "none"
    /\ pc = [t \in Threads |-> "get"]
    /\ codec = [t \in Threads |-> None]
    /\ err = <<>>

\* Every thread has its codec.
Returned == (\A t \in Threads : pc[t] = "done") /\ UNCHANGED vars

Next == (\E t \in Threads : CreateCodec(t)) \/ Returned

\* A thread that can go on does.
Fairness == \A t \in Threads : WF_vars(CreateCodec(t))

Spec == Init /\ [][Next]_vars /\ Fairness

-----------------------------------------------------------------------------
TypeOK ==
    /\ cpu \in Cpus /\ build \in Builds /\ env \in BOOLEAN
    /\ variant.state \in {"none", "running", "done"}
    /\ variant.value \in Variants \cup {None}
    /\ shown \in {"none", "running", "done"}
    /\ pc \in [Threads -> {"get", "init", "switch", "show", "make", "done"}]
    /\ codec \in [Threads -> Variants \cup {None}]
    /\ err \in Seq(Variants)

\* What the codec of a variant needs of the CPU.
Needs(v) ==
    CASE v = "has_bmi2_avx512" -> {"avx512vl", "avx512vbmi", "bmi2"}
      [] v = "has_bmi2" -> {"bmi2"}
      [] v = "fallback" -> {}

\* No thread is given a codec that this CPU cannot run or that this build
\* does not hold, whatever get_cpu_variant_init finds and whichever cases
\* the switch of create_codec was compiled with.
CodecRunsOnThisCpu ==
    \A t \in Threads : codec[t] # None =>
        /\ \A feature \in Needs(codec[t]) : cpu[feature]
        /\ codec[t] \in build \cup {"fallback"}

\* However the threads meet in create_codec, the variant is decided once:
\* every thread is given the codec of the same variant, the message is
\* written at most once, and it names that variant.
OneVariantOneMessage ==
    /\ Len(err) <= 1
    /\ \A t, u \in Threads :
          codec[t] # None /\ codec[u] # None => codec[t] = codec[u]
    /\ \A t \in Threads :
          codec[t] # None /\ err # <<>> => err[1] = codec[t]

\* Every call of create_codec returns: a thread that waits for a static
\* waits for a thread that does not wait for it.
EveryCallReturns == <>(\A t \in Threads : pc[t] = "done")

=============================================================================
