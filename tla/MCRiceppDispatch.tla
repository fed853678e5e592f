-------------------------- MODULE MCRiceppDispatch --------------------------
(***************************************************************************)
(* RiceppDispatch for TLC: three threads, every CPU, every build.          *)
(***************************************************************************)
EXTENDS RiceppDispatch

MCThreads == {"t1", "t2", "t3"}

MCCpus ==
    [builtin : BOOLEAN, avx512vl : BOOLEAN, avx512vbmi : BOOLEAN,
     bmi2 : BOOLEAN]

MCBuilds == SUBSET {"has_bmi2_avx512", "has_bmi2"}

=============================================================================
