--------------------------- MODULE MCPolicyEngine ---------------------------
(* A small instance of PolicyEngine: calls of three kinds, rules of each    *)
(* shape the engine matches.                                                *)
EXTENDS PolicyEngine

Call(session, tool, op, payload, tier, cmd, cmdTier, listed, words) ==
  [session |-> session, tool |-> tool, op |-> op, payload |-> payload, tier |-> tier,
   cmd |-> cmd, cmdTier |-> cmdTier, listed |-> listed, line |-> words]

MCRequests ==
  {Call(s, "shell", "none", "npm test", EXEC_OTHER, TRUE, c, l, <<"npm", "test">>) :
     s \in {"s1", "s2"}, c \in {READ, EXEC_ALLOWED, EXEC_OTHER, FORBIDDEN}, l \in BOOLEAN}
  \cup {Call("s1", "shell", "none", "npm testing", EXEC_OTHER, TRUE, EXEC_OTHER, FALSE,
             <<"npm", "testing">>)}
  \cup {Call("s1", "shell", "none", "git push", t, TRUE, EGRESS, FALSE, <<"git", "push">>) :
          t \in {READ, EXEC_OTHER}}
  \cup {Call("s1", "git", "push", "p", EGRESS, FALSE, READ, FALSE, <<>>)}
  \cup {Call("s1", "files", op, "p", t, FALSE, READ, FALSE, <<>>) :
          op \in {"read", "write"}, t \in {READ, WRITE}}

MCWorkspaces ==
  {[alias |-> a, mode |-> mode, push |-> push, elevated |-> e] :
     a \in {"shop", "blog"}, mode \in {"read_only", "auto_edit"},
     push \in BOOLEAN, e \in BOOLEAN}

Rule(action, tool, workspace, session, payload, prefix, expires) ==
  [action |-> action, tool |-> tool, workspace |-> workspace, session |-> session,
   payload |-> payload, prefix |-> prefix, expires |-> expires]

MCRules ==
  {RuleFor(Call("s1", "shell", "none", "npm test", EXEC_OTHER, TRUE, EXEC_OTHER, FALSE,
                <<"npm", "test">>), "shop", o) : o \in {"session", "remember"}}
  \cup {Rule("allow", "shell", "blog", "s1", <<"shell", "none", "the line">>, <<>>, 0),
        Rule("allow", "shell", "any", "any", <<>>, <<"npm", "test">>, 2),
        Rule("deny", "shell", "shop", "any", <<>>, <<"npm">>, 0),
        Rule("deny", "any", "any", "s2", <<>>, <<>>, 0),
        Rule("allow", "any", "any", "any", <<>>, <<>>, 0),
        Rule("allow", "files", "blog", "any", <<>>, <<>>, 0),
        Rule("deny", "files", "any", "any", <<"files", "write", "p">>, <<>>, 0),
        Rule("allow", "shell", "shop", "any", <<"shell", "none", "npm test">>, <<"npm">>, 0)}

MCTimes == {1, 2}

Phrase(prog, listed, code) ==
  [prog |-> prog, listed |-> listed, dressed |-> "no", target |-> "none", code |-> code,
   how |-> "after", up |-> 0, text |-> 0, depth |-> 0, nesting |-> 0, scope |-> 0]

MCPhrases ==
  {Phrase(prog, TRUE, "none") : prog \in {"plain", "interpreter", "container"}}
  \cup {Phrase(prog, FALSE, "none") : prog \in {"plain", "destroys", "discards", "fetches", "alters"}}
  \cup {Phrase("interpreter", TRUE, code) : code \in {"script", "missing", "bundled"}}
=============================================================================
