---------------------------- MODULE MCToolServer ----------------------------
(* A small instance of ToolServer: a project that asks with one that is     *)
(* read-only, or alone.                                                     *)
EXTENDS ToolServer, TLC

CONSTANTS c1, c2

MCFound == [t \in {None, "jest", "npm install", "pytest"} |-> [tier |-> EXEC_ALLOWED, listed |-> TRUE]]
           @@ [t \in {"make", "make all", "npm run"} |-> [tier |-> EXEC_OTHER, listed |-> FALSE]]
           @@ [t \in {"rm -rf"} |-> [tier |-> FORBIDDEN, listed |-> FALSE]]

MCTexts  == {"jest", "make", "rm -rf"}
MCBriefs == {"jest", "make"}

NoScripts == [t \in Tasks \cup {"dev", "deploy"} |-> None]

MCConfig ==
  [shop |-> [mode |-> "auto_edit", push |-> FALSE, delegate |-> "codex exec",
             scripts |-> [NoScripts EXCEPT !["lint"] = "jest"]],
   docs |-> [mode |-> "read_only", push |-> FALSE, delegate |-> None, scripts |-> NoScripts]]

MCMachine == [delegate |-> None, installed |-> "claude -p"]

NoHooks == [t \in Tasks \cup {"dev", "deploy"} |-> {}]

MCManifests ==
  {[package |-> FALSE, pyproject |-> TRUE, scripts |-> NoScripts, hooks |-> NoHooks],
   [package |-> TRUE, pyproject |-> FALSE,
    scripts |-> [NoScripts EXCEPT !["test"] = "make all", !["dev"] = "make", !["deploy"] = "make",
                                  !["install"] = "jest"],
    hooks |-> [NoHooks EXCEPT !["test"] = {"rm -rf"}, !["install"] = {"make"}]],
   [package |-> TRUE, pyproject |-> FALSE, scripts |-> [NoScripts EXCEPT !["test"] = "make"],
    hooks |-> NoHooks]}

MCStarts == {[shop |-> m, docs |-> m] : m \in {n \in MCManifests : n.package}}
            \cup {[shop |-> m] : m \in MCManifests}

(* One call of any tool, or two of those that bear on each other.           *)
Repeatable == {o \in project_tool : o.op = "test"} \cup {o \in shell_tool : o.arg = "make"}

BearOnThem == Repeatable \cup write_file_tool \cup {o \in codex_run_tool : o.arg = "make"}

Browsing == {o \in browser_tool : o.op \in {"launch", "screenshot"}}

MCMixes == {c1 :> Offers @@ c2 :> {}, c1 :> BearOnThem @@ c2 :> Repeatable,
            c1 :> Browsing @@ c2 :> Browsing}

Symmetry == Permutations(Sessions)
=============================================================================
