------------------------------ MODULE RepoPlan ------------------------------
(***************************************************************************)
(* How a checkout is installed and tested: planRepo                        *)
(* (packages/sandbox/src/detect.ts) with the overrides of .agent.yml       *)
(* (agent-config.ts), and what the shell makes of an install command.      *)
(*                                                                         *)
(* A repository is a record of what the code looks at: the files it has,   *)
(* those of them that do not parse, the requirements with lines of options *)
(* (-r, -e, -c), the package manager package.json declares, the binary of  *)
(* its test script, whether the script is that one command, whether a file *)
(* that was read speaks of pytest, and .agent.yml.                         *)
(***************************************************************************)
EXTENDS Naturals, SequencesExt

NoConfig == [image |-> "none", install |-> FALSE, test |-> FALSE, testReport |-> "none"]

(* A report is known by its path: in REPORT_DIR, or wherever .agent.yml says. *)
JUNIT == "report dir/junit.xml"
JEST_JSON == "report dir/jest.json"
REPORT_DIR == {JUNIT, JEST_JSON}

DetectionError(why) ==
  [stack |-> "none", install |-> <<>>, test |-> "none", testReport |-> "none",
   reportFormat |-> "none", error |-> why]

Plan(stack, install, test, testReport, reportFormat) ==
  [stack |-> stack, install |-> install, test |-> test, testReport |-> testReport,
   reportFormat |-> reportFormat, error |-> "none"]

-----------------------------------------------------------------------------
(* The shell.  An install command is a list of steps, each with the operator
   before it; a step is a group in braces: alternatives, each tried if the one
   before it failed.  A command is a pair of strings. *)

Step(group) == [after |-> "&&", group |-> group]
Fallback(group) == [after |-> "||", group |-> group]

(* The loop that installs package by package ends well whatever happens in it. *)
succeeds(command, failing) == command \notin failing \/ command[1] = "retry"

runCommand(s, command, failing) ==
  [ok |-> succeeds(command, failing), ran |-> Append(s.ran, command)]

runGroup(s, group, failing) ==
  FoldLeft(LAMBDA t, command : IF t.ok THEN t ELSE runCommand(t, command, failing),
           [s EXCEPT !.ok = FALSE], group)

(* && and || bind alike, from the left. *)
runStep(s, step, failing) ==
  IF s.ok = (step.after = "&&") THEN runGroup(s, step.group, failing) ELSE s

shell(steps, failing) ==
  FoldLeft(LAMBDA s, step : runStep(s, step, failing), [ok |-> TRUE, ran |-> <<>>], steps)

commandsOf(steps) == UNION {ToSet(steps[n].group) : n \in DOMAIN steps}

-----------------------------------------------------------------------------
(* Node. *)

nodePackageManager(repo) ==
  CASE repo.declared = "pnpm" \/ "pnpm-lock.yaml" \in repo.has -> "pnpm"
    [] ~(repo.declared = "pnpm" \/ "pnpm-lock.yaml" \in repo.has)
       /\ (repo.declared = "yarn" \/ "yarn.lock" \in repo.has) -> "yarn"
    [] OTHER -> IF "bun.lock" \in repo.has THEN "bun" ELSE "npm"

nodeInstall(repo) == <<Step(<<<<nodePackageManager(repo), "install">>>>)>>

(* Reports can be asked of a known runner, if the script is nothing else. *)
nodeTest(repo) ==
  LET plan(test, report, format) == Plan("node", nodeInstall(repo), test, report, format)
  IN CASE repo.bin \in {"none", "placeholder"} -> plan("none", "none", "none")
       [] repo.simple /\ repo.bin = "vitest" -> plan("exec", JUNIT, "junit")
       [] repo.simple /\ repo.bin = "jest" -> plan("exec", JEST_JSON, "jest-json")
       [] repo.simple /\ repo.bin = "node" -> plan("exec", JUNIT, "junit")
       [] OTHER -> plan("script", "none", "none")

detectNode(repo) ==
  CASE "package.json" \in repo.broken -> DetectionError("not valid JSON")
    [] "package.json" \notin repo.broken /\ nodePackageManager(repo) = "bun" ->
         DetectionError("not supported")
    [] OTHER -> nodeTest(repo)

-----------------------------------------------------------------------------
(* Python. *)

(* Mutant: the fallback is not in braces. *)
requirementsInstallBare(file) == <<Step(<<<<"install", file>>>>), Fallback(<<<<"retry", file>>>>)>>

(* In one resolution, or else package by package. *)
requirementsInstall(file) == <<Step(<<<<"install", file>>, <<"retry", file>>>>)>>

(* Package by package, grep passes over the lines that begin with a hyphen: what
   another file requires (-r), and what is to be had from elsewhere (-e). *)
passedOver(repo, command) == command[1] = "retry" /\ command[2] \in repo.options

requirementFiles == <<"requirements.txt", "requirements-dev.txt", "requirements-test.txt">>

requirementSteps(repo) ==
  FoldLeft(LAMBDA steps, file :
             IF file \in repo.has THEN steps \o requirementsInstall(file) ELSE steps,
           <<>>, requirementFiles)

projectSteps(repo) ==
  IF {"pyproject.toml", "setup.py"} \cap repo.has = {} THEN <<>>
  ELSE <<Step(<<<<"install", "project">>>>)>>

usesPytest(repo) ==
  repo.pytest \/ {"pytest.ini", "conftest.py", "tests"} \cap repo.has # {}

pythonSteps(repo) ==
  <<Step(<<<<"venv", "create">>>>)>>
  \o (IF "uv.lock" \in repo.has THEN <<Step(<<<<"uv", "sync">>>>)>>
      ELSE requirementSteps(repo) \o projectSteps(repo))
  \o (IF usesPytest(repo) THEN <<Step(<<<<"import", "pytest">>, <<"install", "pytest">>>>)>>
      ELSE <<>>)

detectPython(repo) ==
  CASE "pyproject.toml" \in repo.broken -> DetectionError("not valid TOML")
    [] "pyproject.toml" \notin repo.broken /\ usesPytest(repo) ->
         Plan("python", pythonSteps(repo), "pytest", JUNIT, "junit")
    [] OTHER -> Plan("python", pythonSteps(repo), "unittest", "none", "none")

-----------------------------------------------------------------------------
stackOf(repo) ==
  CASE repo.config.image # "none" -> repo.config.image
    [] repo.config.image = "none" /\ "package.json" \in repo.has -> "node"
    [] OTHER -> IF {"pyproject.toml", "setup.py", "requirements.txt", "uv.lock"} \cap repo.has # {}
                THEN "python" ELSE "none"

detect(repo) ==
  CASE stackOf(repo) = "node" -> detectNode(repo)
    [] stackOf(repo) = "python" -> detectPython(repo)
    [] OTHER -> DetectionError("not detected")

formatOf(path) ==
  CASE path = "none" -> "none"
    [] path \in {JEST_JSON, "elsewhere.json"} -> "jest-json"
    [] OTHER -> "junit"

(* .agent.yml overrides commands; its testReport counts only with its test. *)
override(plan, config) ==
  [plan EXCEPT
     !.install = IF config.install THEN <<Step(<<<<"config", "install">>>>)>> ELSE @,
     !.test = IF config.test THEN "config" ELSE @,
     !.testReport = IF config.test THEN config.testReport ELSE @,
     !.reportFormat = IF config.test THEN formatOf(config.testReport) ELSE @]

planRepo(repo) ==
  LET detected == detect(repo)
  IN CASE ".agent.yml" \in repo.broken -> DetectionError("not valid YAML")
       [] ".agent.yml" \notin repo.broken /\ detected.error # "none" -> detected
       [] OTHER -> override(detected, repo.config)
=============================================================================
