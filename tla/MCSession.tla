----------------------------- MODULE MCSession -----------------------------
(* A dealer and three parties.  In the benchmarks party 1 has all inputs,  *)
(* in the tests every party has some.  Of the programs below a build that  *)
(* does not flush sends runs all but the benchmark of zkfliop.             *)
EXTENDS Session

MCProcs == 0..nP

Program(caller, evaluator, providers) ==
  [caller |-> caller, evaluator |-> evaluator, providers |-> providers]

SemiBenchmark  == Program("benchmark", "semi", {1})
FliopBenchmark == Program("benchmark", "zkfliop", {1})
SemiTest       == Program("test", "semi", Parties)
FliopTest      == Program("test", "zkfliop", Parties)

MCAll  == {SemiBenchmark, FliopBenchmark, SemiTest, FliopTest}
MCLazy == {SemiBenchmark, SemiTest, FliopTest}
=============================================================================
