----------------------------- MODULE MCBenchRun -----------------------------
(* BenchRun with the matrices of bench_io.yaml (every SMT, turbo and thread *)
(* siblings) and of bench_tools.yaml, cut down to two CPUs; the second with *)
(* the other CPUs under stress.                                             *)
EXTENDS BenchRun

MCMatrices ==
  { [hyperthreads |-> {0, 1}, turbo |-> <<1>>, smt |-> <<0, 1>>, stress |-> <<0>>,
     numcpus_range |-> <<1, 1>>, cpu_freqs |-> <<"performance">>, rws |-> <<"randread">>],
    [hyperthreads |-> {0}, turbo |-> <<0, 1>>, smt |-> <<0>>, stress |-> <<1>>,
     numcpus_range |-> <<1, 1>>, cpu_freqs |-> <<"performance">>, rws |-> <<"randread">>] }

MCRwMatrices ==
  { [hyperthreads |-> {0}, turbo |-> <<1>>, smt |-> <<1>>, stress |-> <<0>>,
     numcpus_range |-> <<1, 1>>, cpu_freqs |-> <<"performance">>,
     rws |-> <<"randread", "randwrite">>] }
=============================================================================
