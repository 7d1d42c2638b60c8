---------------------------- MODULE MC_NodeConfig ----------------------------
(* Two nodes, "h1" and "h2/", neither URL a prefix of the other's host;    *)
(* the operator registered "H1/" + api path with an old secret before the  *)
(* agents start, so n1 resolves it up to case and rewrites its secret, n2  *)
(* registers a row of its own, its URL already ending in "/".              *)
EXTENDS NodeConfig

MCServerURL == ("n1" :> <<"h", "1">>) @@ ("n2" :> <<"h", "2", "/">>)
MCLower == [c \in {"h", "1", "2", "/", "api"} |-> c] @@ ("H" :> "h")
MCInitRows == << [host |-> <<"H", "1", "/", "api">>, secret |-> "s1",
                  admin |-> "ready"] >>

(* Two nodes whose URLs "h1" and "h10" are the prefix one of the other. *)
MCPrefixURL == ("n1" :> <<"h", "1">>) @@ ("n2" :> <<"h", "1", "0">>)
MCPrefixLower == [c \in {"h", "1", "0", "/", "api"} |-> c]
MCNoRows == << >>
=============================================================================
