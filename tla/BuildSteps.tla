----------------------------- MODULE BuildSteps -----------------------------
(***************************************************************************)
(* The steps phases 3 and 4 are made of, as functions from what the        *)
(* subprocesses and the model answered to the WorkerResult each step       *)
(* returns: workers/baseline.py, workers/buildgen.py,                      *)
(* workers/buildverify.py, workers/rdepverify.py, bazel/query.py and the   *)
(* two pipelines of cli.py that chain them.                                *)
(*                                                                         *)
(* A subprocess is what its ProcResult lets the code tell apart: never     *)
(* started, killed at its deadline, or ended with an exit code of one of   *)
(* the classes the code distinguishes.  Log files, argv, usage and prose   *)
(* are left out.                                                           *)
(***************************************************************************)
EXTENDS Naturals

\* "infra": INFRA_EXIT_CODES; "unrepeatable": UNREPEATABLE_EXIT_CODES; "docker":
\* 125, the container never started; "no_tests": bazel's exit 4.
Proc == {"never_started", "killed", "ok", "failed", "no_tests", "docker", "infra",
         "unrepeatable"}

Failure   == [class : {"TRANSIENT_INFRA", "TIMEOUT", "BUILD_ERROR", "TEST_FAILURE",
                       "DISK_EXHAUSTED", "RULE_MISS", "DEP_CONFLICT", "UNKNOWN"},
              retryable : BOOLEAN]
NoFailure == [class |-> "none", retryable |-> FALSE]
Fails(class, retryable) == [class |-> class, retryable |-> retryable]

\* When the worker stops before the named unit: not at all, cancelled, or expired.
Stop == {"no", "cancelled", "expired"}

-----------------------------------------------------------------------------
(* Reading a subprocess *)

clock_failure(p) ==
  CASE p = "never_started" -> Fails("TRANSIENT_INFRA", TRUE)
    [] p = "killed"        -> Fails("TIMEOUT", TRUE)
    [] OTHER               -> NoFailure

no_test_targets(p, unit) == unit = "test" /\ p = "no_tests"

classify_build_failure(p, unit) ==
  IF      clock_failure(p) # NoFailure THEN clock_failure(p)
  ELSE IF p \in {"docker", "infra"}    THEN Fails("TRANSIENT_INFRA", TRUE)
  ELSE IF p = "unrepeatable"           THEN Fails("BUILD_ERROR", FALSE)
  ELSE IF no_test_targets(p, unit)     THEN Fails("BUILD_ERROR", TRUE)
  ELSE IF unit = "test"                THEN Fails("TEST_FAILURE", TRUE)
  ELSE                                      Fails("BUILD_ERROR", TRUE)

-----------------------------------------------------------------------------
(* The native baseline *)

BaselineInput == [enabled : BOOLEAN, native : BOOLEAN, stop : Stop,
                  build : Proc, test : Proc]

\* pytest's "no tests collected" is the only non-zero exit that is a measurement.
_classify(p) ==
  CASE p = "ok"       -> [ok |-> TRUE, count |-> 1]
    [] p = "no_tests" -> [ok |-> TRUE, count |-> 0]
    [] OTHER          -> [ok |-> FALSE, count |-> 0]

_measure(build, test) == IF build = "ok" THEN _classify(test) ELSE [ok |-> FALSE, count |-> 0]

\* measured = FALSE is baseline_ok NULL: nothing was asked of the repo.
baseline(x) ==
  LET unmeasured(status) == [status |-> status, measured |-> FALSE, ok |-> FALSE, count |-> 0]
      m == _measure(x.build, x.test)
  IN  IF      ~x.enabled           THEN unmeasured("ok")
      ELSE IF x.stop = "expired"   THEN unmeasured("timeout")
      ELSE IF x.stop = "cancelled" THEN unmeasured("cancelled")
      ELSE IF ~x.native            THEN unmeasured("ok")
      ELSE [status |-> "ok", measured |-> TRUE, ok |-> m.ok, count |-> m.count]

\* What `repos` holds of a repo's baseline when phase 3 reads it.
Baselines == {[ok |-> b.measured /\ b.ok, count |-> b.count] :
                b \in {baseline(x) : x \in BaselineInput}}

-----------------------------------------------------------------------------
(* buildgen: BUILD.bazel, the support files and MODULE.bazel *)

\* policy: the rung has a context policy, so a model may be asked.  `answer` is the
\* model's: "none" (an LlmError, or no target), "bad" (refused), or "good".
BuildgenInput == [stop : Stop, adapter : BOOLEAN, policy : BOOLEAN, full : BOOLEAN,
                  conflict : BOOLEAN, answer : {"none", "bad", "good"}, late : Stop]

_author(x) == x.policy /\ x.answer # "none"

\* validate_override decides: a proposal that violates a requirement is refused.
_resolve_conflict(x) == x.policy /\ x.answer = "good"

_stopped(stop) ==
  IF stop = "cancelled" THEN [status |-> "cancelled", failure |-> Fails("TRANSIENT_INFRA", TRUE)]
                        ELSE [status |-> "timeout", failure |-> Fails("TIMEOUT", TRUE)]

_module_bazel(x) ==
  IF x.conflict /\ ~_resolve_conflict(x)
  THEN [status |-> "failed", failure |-> Fails("DEP_CONFLICT", ~x.policy)]
  ELSE [status |-> "ok", failure |-> NoFailure]

\* BUILD.bazel is on disk once the second stop is asked about, hence "partial".
buildgen(x) ==
  IF x.stop # "no" THEN _stopped(x.stop)
  ELSE IF ~x.adapter /\ ~_author(x)
  THEN [status |-> "failed", failure |-> Fails("RULE_MISS", ~x.policy)]
  ELSE IF x.full THEN [status |-> "failed", failure |-> Fails("DISK_EXHAUSTED", FALSE)]
  ELSE IF x.late # "no" THEN [status |-> "partial", failure |-> NoFailure]
  ELSE _module_bazel(x)

-----------------------------------------------------------------------------
(* buildverify: bazel build, bazel test, and the count of the migrated tests *)

BuildverifyInput == [full : BOOLEAN, image : BOOLEAN, probe : Proc, stop : Stop,
                     build : Proc, late : Stop, run_tests : BOOLEAN, test : Proc,
                     base : Baselines, query : Proc, count : 0..1]

_c_toolchain_gate(x) ==
  IF ~x.image \/ x.probe = "ok" THEN NoFailure
  ELSE IF clock_failure(x.probe) # NoFailure THEN clock_failure(x.probe)
  ELSE Fails("BUILD_ERROR", FALSE)

\* Mutant: an empty test run is never a loss.
tests_lost_Never(x) == FALSE

tests_lost(x) == no_test_targets(x.test, "test") /\ x.base.count > 0

test_count_regressed(x) == x.base.ok /\ x.count < x.base.count

\* What each exit leaves in BuildverifyOutput.
_output(x, status, failure, built, tested) ==
  [status |-> status, failure |-> failure,
   build_ok  |-> built /\ x.build = "ok",
   test_ok   |-> tested /\ x.test = "ok",
   tests_ran |-> tested /\ ~no_test_targets(x.test, "test")]

_interrupted(x, stop, built) ==
  _output(x, IF built THEN "partial" ELSE IF stop = "cancelled" THEN "cancelled" ELSE "timeout",
          IF built THEN NoFailure ELSE Fails("TIMEOUT", TRUE), built, FALSE)

_failed(x, p, unit, tested) ==
  _output(x, IF p \in {"never_started", "killed"} THEN "timeout" ELSE "failed",
          classify_build_failure(p, unit), TRUE, tested)

_count_tests(x) ==
  IF x.query # "ok" THEN _output(x, "failed", Fails("BUILD_ERROR", TRUE), TRUE, TRUE)
  ELSE IF test_count_regressed(x)
  THEN _output(x, "failed", Fails("TEST_FAILURE", FALSE), TRUE, TRUE)
  ELSE _output(x, "ok", NoFailure, TRUE, TRUE)

_test(x) ==
  LET nothing_to_test == no_test_targets(x.test, "test") /\ ~tests_lost(x)
  IN  IF      x.late # "no"                     THEN _interrupted(x, x.late, TRUE)
      ELSE IF x.test # "ok" /\ ~nothing_to_test THEN _failed(x, x.test, "test", TRUE)
      ELSE IF x.base.ok                         THEN _count_tests(x)
      ELSE _output(x, "ok", NoFailure, TRUE, TRUE)

buildverify(x) ==
  IF x.full THEN _output(x, "failed", Fails("DISK_EXHAUSTED", FALSE), FALSE, FALSE)
  ELSE IF _c_toolchain_gate(x) # NoFailure
  THEN _output(x, "failed", _c_toolchain_gate(x), FALSE, FALSE)
  ELSE IF x.stop # "no"  THEN _interrupted(x, x.stop, FALSE)
  ELSE IF x.build # "ok" THEN _failed(x, x.build, "build", FALSE)
  ELSE IF ~x.run_tests   THEN _output(x, "ok", NoFailure, TRUE, FALSE)
  ELSE _test(x)

\* What a reader of the migration's promise calls green, from the processes alone.
Green(x) ==
  /\ x.build = "ok"
  /\ ~x.run_tests \/ x.test = "ok" \/ (x.test = "no_tests" /\ x.base.count = 0)
  /\ x.run_tests /\ x.base.ok => x.count >= x.base.count

-----------------------------------------------------------------------------
(* rdepverify: the tests of the reverse-dependency closure *)

RdepverifyInput == [stop : Stop, query : Proc, late : Stop, test : Proc]

\* verdict: PASS needs the repo's own build and tests as well as the closure.
_report(own, tested_ok) ==
  IF own.build_ok /\ own.test_ok /\ tested_ok THEN "PASS" ELSE "FAIL"

rdepverify(own, x) ==
  LET nothing_to_test == no_test_targets(x.test, "test")
      out(status, failure, ok) ==
        [status |-> status, failure |-> failure, verdict |-> _report(own, ok)]
  IN  IF x.stop # "no" THEN out(_stopped(x.stop).status, _stopped(x.stop).failure, FALSE)
      ELSE IF x.query # "ok" THEN out("failed", Fails("BUILD_ERROR", TRUE), FALSE)
      ELSE IF x.late # "no" THEN out("partial", NoFailure, FALSE)
      ELSE IF x.test # "ok" /\ ~nothing_to_test
      THEN out(IF x.test \in {"never_started", "killed"} THEN "timeout" ELSE "failed",
               classify_build_failure(x.test, "test"), FALSE)
      ELSE out("ok", NoFailure, TRUE)

-----------------------------------------------------------------------------
(* The pipelines *)

\* A step that stopped part-way fails the phase: only whole units are checkpointed.
_handoff(step) ==
  LET status  == IF step.status \in {"partial", "ok"} THEN "failed" ELSE step.status
  IN  [status  |-> status,
       failure |-> IF step.failure = NoFailure /\ status \in {"failed", "timeout"}
                   THEN Fails("UNKNOWN", TRUE) ELSE step.failure]

\* A build error whose log names a hoisted contract is not repaired by a retry.
_attribute_hoist_break(hoist, step) ==
  IF hoist /\ step.failure.class = "BUILD_ERROR"
  THEN [step EXCEPT !.failure.retryable = FALSE] ELSE step

\* GENERATE then VERIFY of BuildPipelineWorker.run; "ok" goes on to PUBLISH.
generate_and_verify(gen, ver, hoist) ==
  IF buildgen(gen).status # "ok" THEN _handoff(buildgen(gen))
  ELSE IF buildverify(ver).status # "ok"
  THEN _handoff(_attribute_hoist_break(hoist, buildverify(ver)))
  ELSE [status |-> "ok", failure |-> NoFailure]

\* VerifyPipelineWorker.run: the repo's own tests, asked without a baseline, then
\* the closure.
own_tests(x) == buildverify([x EXCEPT !.run_tests = TRUE, !.base = [ok |-> FALSE, count |-> 0]])

verify(own, rdeps) ==
  IF own_tests(own).status # "ok"
  THEN [status |-> _handoff(own_tests(own)).status, verdict |-> "none",
        failure |-> _handoff(own_tests(own)).failure]
  ELSE LET r == rdepverify(own_tests(own), rdeps)
           h == _handoff(r)
       IN  IF r.status = "ok" THEN r
           ELSE [status |-> h.status, failure |-> h.failure, verdict |-> r.verdict]

=============================================================================
