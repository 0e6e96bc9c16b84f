--------------------------- MODULE MCOperatorTools ---------------------------
(* The nonce authority, the command gate, the browser console and the strict *)
(* parser share no state: a behaviour of this module is one of one of them.  *)
EXTENDS NonceAuthority, CodexGate, BrowserConsole, StrictJson, TLC

VARIABLE which   \* the program this behaviour is of

Cmd(name, git, network, protected) ==
  [name |-> name, text |-> name # "empty", git |-> git, network |-> network,
   protected |-> protected]
In(cmd, mode, inside, key) == [cmd |-> cmd, mode |-> mode, inside |-> inside, key |-> key]
MCInputs ==
  {In(Cmd("test", None, None, FALSE), "local", TRUE, "default"),
   In(Cmd("test", None, None, FALSE), "remote", TRUE, "default"),
   In(Cmd("status", "other", None, FALSE), "local", TRUE, "custom"),
   In(Cmd("push", "push protected", None, FALSE), "local", TRUE, "default"),
   In(Cmd("curl", None, "known", FALSE), "local", TRUE, "default"),
   In(Cmd("empty", None, None, FALSE), "remote", TRUE, "default")}
MCPolicies ==
  {[version |-> "v1", stated |-> "right", refuse |-> {}, prompt |-> {}, gitAllow |-> {"status"},
    allow |-> {"test", "curl"}, domains |-> {"known"}],
   [version |-> "v1", stated |-> None, refuse |-> {"test"}, prompt |-> {}, gitAllow |-> {},
    allow |-> {"curl"}, domains |-> {}],
   [version |-> "v1", stated |-> "wrong", refuse |-> {}, prompt |-> {}, gitAllow |-> {},
    allow |-> {"test"}, domains |-> {}]}

MCTyped ==
  [text |-> {" x "}, number |-> {Null, Bad}]
\* A request without its first tools, and one with two.
MCDocuments ==
  {[text |-> "x", number |-> Null, observed |-> 1, multiplier |-> Null, flag |-> Null,
    tools |-> <<>>, payload |-> <<"y">>],
   [text |-> Null, number |-> 1, observed |-> 1, multiplier |-> 1, flag |-> TRUE,
    tools |-> <<"x", "y">>, payload |-> <<>>]}
MCReceipts == {[id |-> 1, decision |-> "ALLOW"], [id |-> 2, decision |-> "REFUSE"]}

MCAlphabets ==
  {[lexemes |-> {"{", "}", ":", ",", "a", "a2", "p", "t"}, bound |-> 9],
   [lexemes |-> {"[", "]", ",", "w", "-", "0", "1", "B", ".", "bad"}, bound |-> 6],
   [lexemes |-> {"{", "}", ":", ",", "[", "]", "w", "a", "t"}, bound |-> 7]}

MCInit ==
  /\ which \in {"nonce", "gate", "console", "parser"}
  /\ Init /\ InitG /\ InitB /\ InitJ
  /\ which # "nonce" => \A n \in Nonces : claims[n] = [issued |-> 0, expires |-> 1]
  /\ which # "gate" => policyFile.stated = "right"
  /\ which # "parser" => alphabet.bound = 9

MCNext ==
  \/ which = "nonce" /\ Next /\ UNCHANGED <<gvars, bvars, jvars, which>>
  \/ which = "gate" /\ NextG /\ UNCHANGED <<vars, bvars, jvars, which>>
  \/ which = "console" /\ NextB /\ UNCHANGED <<vars, gvars, jvars, which>>
  \/ which = "parser" /\ NextJ /\ UNCHANGED <<vars, gvars, bvars, which>>

MCSpec == MCInit /\ [][MCNext]_<<vars, gvars, bvars, jvars, which>>

Interchangeable == Permutations(Nonces)
=============================================================================
