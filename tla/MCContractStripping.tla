------------------------ MODULE MCContractStripping ------------------------
(***************************************************************************)
(* Instances of ContractStripping for TLC: two commands and two files, one *)
(* with a setting in its sv0.toml.  The texts hold a valid and an invalid  *)
(* ensures on one line, on two lines in either order, and the clauses that *)
(* are never sent to the solver.                                           *)
(***************************************************************************)
EXTENDS ContractStripping, TLC

CONSTANTS one, two

Symmetry == Permutations(Command)

TheClause(line, kind, payload, holds) ==
  [line |-> line, kind |-> kind, payload |-> payload, holds |-> holds]

Valid(line)   == TheClause(line, "ensures", "query", TRUE)
Invalid(line) == TheClause(line, "ensures", "query", FALSE)
Given(line)   == TheClause(line, "requires", "PRECOND", TRUE)
Beyond(line)  == TheClause(line, "ensures", "RESIDUAL", TRUE)

AllTexts == {{Valid(1), Invalid(2), Given(1)}, {Invalid(1), Beyond(2)},
             {Valid(1), Invalid(1)}}
OneClauseALine == {{Valid(1), Invalid(2)}, {Invalid(1), Valid(2)}}

TheRequest(op, file, flag) == [op |-> op, file |-> file, flag |-> flag]

AllRequests == {TheRequest("verify", one, ""), TheRequest("compile", one, "verified"),
                TheRequest("compile", two, ""), TheRequest("compile", two, "disabled"),
                TheRequest("compile", one, "strict")}
TwoCompilations == {TheRequest("compile", one, "verified"),
                    TheRequest("compile", two, "verified")}

TheToml == [f \in File |->
  IF f = two THEN <<[section |-> "release", mode |-> "disabled"],
                    [section |-> "build", mode |-> "verified"]>>
  ELSE << >>]
=============================================================================
