-------------------------- MODULE MCSandboxOutput --------------------------
(* Checkouts, test suites and edits for SandboxOutput. *)
EXTENDS SandboxOutput

nodeRepo(locks, bin, simple) ==
  [has |-> {"package.json"} \cup locks, broken |-> {}, options |-> {}, declared |-> "none",
   bin |-> bin, simple |-> simple, pytest |-> FALSE, config |-> NoConfig]

pythonRepo(files, pytest) ==
  [nodeRepo(files, "none", TRUE) EXCEPT !.has = files, !.pytest = pytest]

withConfig(repository, config) == [repository EXCEPT !.config = config]

bins == {"none", "placeholder", "vitest", "jest", "node", "other"}

packageManagers ==
  {nodeRepo(locks, "vitest", TRUE) : locks \in {{"pnpm-lock.yaml"}, {"yarn.lock"}, {"bun.lock"}}}
  \cup {[nodeRepo({"yarn.lock"}, "jest", TRUE) EXCEPT !.declared = "pnpm"],
        [nodeRepo({}, "jest", TRUE) EXCEPT !.declared = "yarn"]}

pythons ==
  {pythonRepo(files, pytest) :
     files \in {{"requirements.txt", "pyproject.toml", "requirements-dev.txt"},
                {"requirements-test.txt", "pyproject.toml"},
                {"pyproject.toml", "uv.lock"}, {"setup.py", "tests"}},
     pytest \in BOOLEAN}
  \cup {[pythonRepo({"requirements.txt"}, pytest) EXCEPT !.options = {"requirements.txt"}] :
           pytest \in BOOLEAN}

broken ==
  {[nodeRepo({}, "vitest", TRUE) EXCEPT !.broken = {file}] : file \in {"package.json", ".agent.yml"}}
  \cup {[pythonRepo({"pyproject.toml"}, TRUE) EXCEPT !.broken = {"pyproject.toml"}],
        pythonRepo({"conftest.py"}, TRUE)}

configured ==
  {withConfig(nodeRepo({}, "none", TRUE),
              [image |-> image, install |-> FALSE, test |-> TRUE, testReport |-> path]) :
     image \in {"none", "python"}, path \in {"none", JUNIT, "elsewhere.xml", "elsewhere.json"}}
  \cup {withConfig(nodeRepo({"requirements.txt"}, "vitest", TRUE),
                   [image |-> image, install |-> TRUE, test |-> FALSE, testReport |-> JUNIT]) :
          image \in {"none", "python"}}

MCRepos ==
  {nodeRepo({}, bin, simple) : bin \in bins, simple \in BOOLEAN}
  \cup packageManagers \cup pythons \cup broken \cup configured

(* At most two kinds of result at a time, and more failures than are listed. *)
MCTruths ==
  {t \in [DOMAIN Zero -> 0 .. 1] :
     t.passed + t.failed + t.skipped + t.aside + t.unloaded <= 2}
  \cup {[Zero EXCEPT !.failed = 2, !.unloaded = 1]}

paths == {<<"src", "a">>, <<".env">>, <<".env.example">>, <<".agent.yml">>, <<"a name", "b">>,
          <<".github", "workflows", "ci">>, <<".github", "workflows", "accent">>, <<"bell">>}

bodies == {<<>>, <<Content("+", "secret")>>, <<Content("-", "marker"), Content("+", "marker")>>,
           <<Content("-", "secret")>>}

change(old, new, mode, body, binary) ==
  [old |-> old, new |-> new, mode |-> mode, body |-> body, binary |-> binary]

added ==
  {change(devNull, path, "100644", body, FALSE) :
     path \in paths, body \in {<<>>, <<Content("+", "secret")>>, <<Content("+", "marker")>>}}
  \cup {change(devNull, path, mode, <<Content("+", "plain")>>, FALSE) :
          path \in paths, mode \in {"120000", "160000"}}
  \cup {change(devNull, path, "100644", <<>>, TRUE) : path \in paths}

deleted ==
  {change(path, devNull, "same", body, FALSE) :
     path \in paths, body \in {<<>>, <<Content("-", "secret")>>, <<Content("-", "marker")>>}}

modified ==
  {change(path, path, "same", body, FALSE) : path \in paths, body \in bodies \ {<<>>}}
  \cup {change(path, path, "100755", <<>>, FALSE) : path \in paths}

renamed ==
  {change(old, new, "same", body, FALSE) :
     old \in paths, new \in {<<"src", "a">>, <<".env">>, <<"a name", "b">>, <<"accent">>},
     body \in {<<>>, <<Content("-", "marker"), Content("+", "marker")>>}}
  \ {change(path, path, "same", body, FALSE) : path \in paths, body \in bodies}

MCChanges == added \cup deleted \cup modified \cup renamed

MCLimits == [maxFiles |-> 1, maxChangedLines |-> 2]

MCItems ==
  {Log} \cup {Marker(file) : file \in ToSet(requirementFiles)}
  \cup {Item("summary", runner, t) : runner \in bins \cup {"pytest", "unittest"}, t \in MCTruths}
=============================================================================
