----------------------------- MODULE Validator -----------------------------
(***************************************************************************)
(* Validator of src/validation/validator.py: what it makes of the output   *)
(* of the suite.  A case is one of                                         *)
(*   "said passed", "said failed"    with a verdict of its own,            *)
(*   "error within", "error beyond"  with an error to compare with the     *)
(*                                   tolerance, and no verdict,            *)
(*   "bare"                          with neither (in the JSON form only). *)
(* A suite is [form, cases, overall, rc]: its form is "json" or "lines",   *)
(* "garbled" for JSON whose cases are no objects or whose errors are no    *)
(* numbers, or "no command" for an execution_command shlex cannot split;   *)
(* overall is what "passed" of the JSON says, or "absent".                 *)
(***************************************************************************)

case_passed(c) == c \in {"said passed", "error within"}
AllPassed(suite) == \A c \in suite.cases : case_passed(c)

\* A regression: the exit code decides as soon as it is 0.
PassedOrZero(suite) == suite.rc = 0 \/ (suite.cases # {} /\ AllPassed(suite))

\* An explicit verdict over the whole overrides the cases, but not their
\* absence in the JSON form; the exit code counts only if there are no lines
\* with cases.
_parse(suite) ==
  IF suite.form = "json"
  THEN /\ suite.cases # {}
       /\ IF suite.overall = "absent" THEN AllPassed(suite) ELSE suite.overall = "passed"
  ELSE IF suite.cases # {} THEN AllPassed(suite) ELSE suite.rc = 0

\* ValidationReport.passed; a garbled suite gives none, run() raises.
run(suite) == suite.form # "no command" /\ _parse(suite)
=============================================================================
