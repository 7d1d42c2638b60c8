----------------------------- MODULE NodeConfig -----------------------------
(***************************************************************************)
(* The node agent's start-up of cmd/b3scalenoded/config.go: each node's    *)
(* agent reads bigbluebutton.web.serverURL and securitySalt from its       *)
(* config, resolves its backend row by "host ILIKE serverURL%", updating   *)
(* the secret when it changed, or else registers a row whose host is the   *)
(* server URL with "/" and the api path appended.  Hosts and URLs are      *)
(* sequences of characters, as the prefix match is what the properties are *)
(* about; the api path "bigbluebutton/api/" is one character ApiPath.      *)
(* A node's agent may be restarted, possibly with a rotated secret.        *)
(***************************************************************************)
EXTENDS Naturals, Sequences, SequencesExt

CONSTANTS
    Nodes,       \* the BBB nodes, one agent each
    ServerURL,   \* each node's bigbluebutton.web.serverURL
    Secrets,     \* the securitySalt values a config may hold
    Lower,       \* ILIKE's case folding of a character
    ApiPath,     \* the character standing for "bigbluebutton/api/"
    InitRows,    \* the backend rows in the store at the start
    MaxRestarts  \* restarts of each agent

ASSUME NodeConfigAssumption ==
    /\ \A n \in Nodes : ServerURL[n] \in Seq(DOMAIN Lower)
    /\ {"/", ApiPath} \subseteq DOMAIN Lower
    /\ InitRows \in Seq([host : Seq(DOMAIN Lower), secret : Secrets,
                         admin : {"init", "ready"}])
    /\ MaxRestarts \in Nat

VARIABLES
    rows,      \* the backends table: row i is rows[i]
    pc,        \* each agent: "start", "register", "running" or "stopped"
    row,       \* the row each agent resolved or registered, 0 for none
    secret,    \* the securitySalt of each node's current config
    restarts

vars == <<rows, pc, row, secret, restarts>>

Row == [host : Seq(DOMAIN Lower), secret : Secrets, admin : {"init", "ready"}]

Fold(s) == [i \in 1..Len(s) |-> Lower[s[i]]]

(* host ILIKE serverURL || '%': the host starts with the URL, ignoring     *)
(* case.                                                                   *)
ILikePrefix(host, url) == IsPrefix(Fold(url), Fold(host))

(* GetBackendState: the rows the query selects; with no ORDER BY the first *)
(* of them can be any.                                                     *)
Matches(n) == {i \in 1..Len(rows) : ILikePrefix(rows[i].host, ServerURL[n])}

(* The registered host: serverURL, a "/" unless it ends with one, and the  *)
(* api path.                                                               *)
ApiURL(url) ==
    IF url # <<>> /\ Last(url) = "/" THEN url \o <<ApiPath>>
    ELSE url \o <<"/", ApiPath>>

TypeOK ==
    /\ rows \in Seq(Row)
    /\ pc \in [Nodes -> {"start", "register", "running", "stopped"}]
    /\ row \in [Nodes -> 0..Len(rows)]
    /\ secret \in [Nodes -> Secrets]
    /\ restarts \in [Nodes -> 0..MaxRestarts]

-----------------------------------------------------------------------------
Init ==
    /\ rows = InitRows
    /\ pc = [n \in Nodes |-> "start"]
    /\ row = [n \in Nodes |-> 0]
    /\ secret \in [Nodes -> Secrets]
    /\ restarts = [n \in Nodes |-> 0]

(* Mutant of Resolve: the row found keeps its secret. *)
ResolveKeepsSecret(n) ==
    /\ pc[n] = "start"
    /\ \/ /\ Matches(n) = {}
          /\ pc' = [pc EXCEPT ![n] = "register"]
          /\ UNCHANGED <<rows, row>>
       \/ \E i \in Matches(n) :
             /\ pc' = [pc EXCEPT ![n] = "running"]
             /\ row' = [row EXCEPT ![n] = i]
             /\ UNCHANGED rows
    /\ UNCHANGED <<secret, restarts>>

(* configToBackendState in one transaction: a failure of the store (or a  *)
(* key missing from the config) stops the agent with nothing written; no  *)
(* row selected leads to registration; else the first row selected is the *)
(* agent's, its secret saved and committed when it differs from the        *)
(* config's.                                                               *)
Resolve(n) ==
    /\ pc[n] = "start"
    /\ \/ /\ pc' = [pc EXCEPT ![n] = "stopped"]
          /\ UNCHANGED <<rows, row>>
       \/ /\ Matches(n) = {}
          /\ pc' = [pc EXCEPT ![n] = "register"]
          /\ UNCHANGED <<rows, row>>
       \/ \E i \in Matches(n) :
             /\ rows' = [rows EXCEPT ![i].secret = secret[n]]
             /\ pc' = [pc EXCEPT ![n] = "running"]
             /\ row' = [row EXCEPT ![n] = i]
    /\ UNCHANGED <<secret, restarts>>

(* Mutants of Register: the agent records the id of the row before, or    *)
(* after, the one inserted.                                                *)
RegisterRowBefore(n) ==
    /\ pc[n] = "register"
    /\ rows' = Append(rows, [host |-> ApiURL(ServerURL[n]),
                             secret |-> secret[n], admin |-> "init"])
    /\ pc' = [pc EXCEPT ![n] = "running"]
    /\ row' = [row EXCEPT ![n] = Len(rows)]
    /\ UNCHANGED <<secret, restarts>>

RegisterRowAfter(n) ==
    /\ pc[n] = "register"
    /\ rows' = Append(rows, [host |-> ApiURL(ServerURL[n]),
                             secret |-> secret[n], admin |-> "init"])
    /\ pc' = [pc EXCEPT ![n] = "running"]
    /\ row' = [row EXCEPT ![n] = Len(rows) + 2]
    /\ UNCHANGED <<secret, restarts>>

(* configRegisterBackendState in one transaction: insert a row with the    *)
(* api URL, the config's secret and admin state init, or fail and stop.    *)
Register(n) ==
    /\ pc[n] = "register"
    /\ \/ /\ rows' = Append(rows, [host |-> ApiURL(ServerURL[n]),
                                   secret |-> secret[n], admin |-> "init"])
          /\ pc' = [pc EXCEPT ![n] = "running"]
          /\ row' = [row EXCEPT ![n] = Len(rows) + 1]
       \/ /\ pc' = [pc EXCEPT ![n] = "stopped"]
          /\ UNCHANGED <<rows, row>>
    /\ UNCHANGED <<secret, restarts>>

(* The agent process is restarted, its config possibly carrying a new     *)
(* securitySalt.                                                           *)
Restart(n) ==
    /\ pc[n] \in {"running", "stopped"}
    /\ restarts[n] < MaxRestarts
    /\ restarts' = [restarts EXCEPT ![n] = @ + 1]
    /\ \E s \in Secrets : secret' = [secret EXCEPT ![n] = s]
    /\ pc' = [pc EXCEPT ![n] = "start"]
    /\ row' = [row EXCEPT ![n] = 0]
    /\ UNCHANGED rows

Next == \E n \in Nodes : Resolve(n) \/ Register(n) \/ Restart(n)

Spec == Init /\ [][Next]_vars

-----------------------------------------------------------------------------
(* Every running agent works on its own node's row: the row's host is the  *)
(* node's api URL, up to case, so the gateway reaches this node through it.*)
OwnRow ==
    \A n \in Nodes :
        pc[n] = "running" => Fold(rows[row[n]].host) = Fold(ApiURL(ServerURL[n]))

(* Every running agent's row carries the secret of the agent's current     *)
(* config, so requests signed with the row's secret pass the node's check: *)
(* no other agent, and no stale start, has overwritten it.                 *)
SecretInSync ==
    \A n \in Nodes : pc[n] = "running" => rows[row[n]].secret = secret[n]

-----------------------------------------------------------------------------
(* The hosts a row can have: those of the rows found at the start and the  *)
(* api URLs agents register.                                               *)
HostsOf == {InitRows[i].host : i \in DOMAIN InitRows}
             \cup {ApiURL(ServerURL[n]) : n \in Nodes}

(* The deployment the prefix lookup is correct for: a host the lookup of   *)
(* a node's URL selects is that node's api URL, up to case, and no two     *)
(* nodes share an api URL.                                                 *)
NoPrefixCollision ==
    /\ \A n \in Nodes, h \in HostsOf :
          ILikePrefix(h, ServerURL[n]) => Fold(h) = Fold(ApiURL(ServerURL[n]))
    /\ \A n, m \in Nodes :
          n # m => Fold(ApiURL(ServerURL[n])) # Fold(ApiURL(ServerURL[m]))
=============================================================================
