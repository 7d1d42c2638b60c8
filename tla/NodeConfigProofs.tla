-------------------------- MODULE NodeConfigProofs --------------------------
(***************************************************************************)
(* Proofs about the agents' start-up of config.go for any nodes, URLs,     *)
(* secrets and rows found at the start.  TypeOK is inductive.  When no     *)
(* node's URL selects a host other than its own api URL and no two nodes   *)
(* share an api URL (NoPrefixCollision), RowInv is inductive: every row's  *)
(* host is one a row can have, and a running agent's row is in the table,  *)
(* has its api URL and its current secret.  The last conjunct is          *)
(* SecretInSync; the first is what lets the lookup's selection be judged  *)
(* by NoPrefixCollision.  OwnRow follows as well, but under this          *)
(* hypothesis it says no more than the hypothesis itself: only the run     *)
(* nodecfg_prefix, where the hypothesis fails, says something about it.   *)
(***************************************************************************)
EXTENDS NodeConfig, SequenceTheorems, TLAPS

RowInv ==
    /\ \A i \in 1..Len(rows) : rows[i].host \in HostsOf
    /\ \A n \in Nodes : pc[n] = "running" =>
          /\ row[n] \in 1..Len(rows)
          /\ Fold(rows[row[n]].host) = Fold(ApiURL(ServerURL[n]))
          /\ rows[row[n]].secret = secret[n]

(* A registered host is a string of the alphabet. *)
LEMMA ApiURLType ==
    ASSUME NEW n \in Nodes PROVE ApiURL(ServerURL[n]) \in Seq(DOMAIN Lower)
<1>1. /\ ServerURL[n] \in Seq(DOMAIN Lower)
      /\ <<ApiPath>> \in Seq(DOMAIN Lower)
      /\ <<"/", ApiPath>> \in Seq(DOMAIN Lower)
  BY NodeConfigAssumption
<1>. QED  BY <1>1, ConcatProperties DEF ApiURL

(* Saving a row's secret keeps the table a sequence of rows of the same   *)
(* length, the other rows and every host unchanged.                        *)
LEMMA SecretWrite ==
    ASSUME NEW rs \in Seq(Row), NEW i \in 1..Len(rs), NEW s \in Secrets
    PROVE  LET new == [rs EXCEPT ![i].secret = s] IN
           /\ new \in Seq(Row)
           /\ Len(new) = Len(rs)
           /\ \A j \in 1..Len(rs) : new[j].host = rs[j].host
           /\ new[i].secret = s
           /\ \A j \in 1..Len(rs) \ {i} : new[j] = rs[j]
<1>1. [rs EXCEPT ![i].secret = s] = [rs EXCEPT ![i] = [rs[i] EXCEPT !.secret = s]]
  OBVIOUS
<1>2. rs[i] \in Row
  BY ElementOfSeq
<1>3. [rs[i] EXCEPT !.secret = s] \in Row
  BY <1>2 DEF Row
<1>4. [rs[i] EXCEPT !.secret = s].host = rs[i].host
  BY <1>2 DEF Row
<1>. QED  BY <1>1, <1>3, <1>4, ExceptSeq

(* Registering appends a row and keeps the others. *)
LEMMA RowAppend ==
    ASSUME NEW rs \in Seq(Row), NEW r \in Row
    PROVE  /\ Append(rs, r) \in Seq(Row)
           /\ Len(Append(rs, r)) = Len(rs) + 1
           /\ \A j \in 1..Len(rs) : Append(rs, r)[j] = rs[j]
           /\ Append(rs, r)[Len(rs) + 1] = r
BY AppendProperties

LEMMA TypeInit == Init => TypeOK
BY NodeConfigAssumption DEF Init, TypeOK, Row

LEMMA TypeStep == TypeOK /\ [Next]_vars => TypeOK'
<1>. SUFFICES ASSUME TypeOK, [Next]_vars PROVE TypeOK'
  OBVIOUS
<1>1. ASSUME NEW n \in Nodes, Resolve(n) PROVE TypeOK'
  <2>1. CASE UNCHANGED <<rows, row, secret, restarts>>
    BY <1>1, <2>1 DEF Resolve, TypeOK
  <2>2. ASSUME NEW i \in Matches(n),
               rows' = [rows EXCEPT ![i].secret = secret[n]],
               pc' = [pc EXCEPT ![n] = "running"],
               row' = [row EXCEPT ![n] = i],
               UNCHANGED <<secret, restarts>>
        PROVE  TypeOK'
    <3>1. i \in 1..Len(rows)
      BY DEF Matches
    <3>2. rows' \in Seq(Row) /\ Len(rows') = Len(rows)
      BY <2>2, <3>1, SecretWrite DEF TypeOK
    <3>. QED  BY <2>2, <3>1, <3>2 DEF TypeOK
  <2>. QED  BY <1>1, <2>1, <2>2 DEF Resolve
<1>2. ASSUME NEW n \in Nodes, Register(n) PROVE TypeOK'
  <2>1. CASE UNCHANGED <<rows, row, secret, restarts>>
    BY <1>2, <2>1 DEF Register, TypeOK
  <2>2. CASE /\ rows' = Append(rows, [host |-> ApiURL(ServerURL[n]),
                                      secret |-> secret[n], admin |-> "init"])
             /\ pc' = [pc EXCEPT ![n] = "running"]
             /\ row' = [row EXCEPT ![n] = Len(rows) + 1]
             /\ UNCHANGED <<secret, restarts>>
    <3>1. [host |-> ApiURL(ServerURL[n]), secret |-> secret[n],
           admin |-> "init"] \in Row
      BY ApiURLType DEF TypeOK, Row
    <3>2. rows' \in Seq(Row) /\ Len(rows') = Len(rows) + 1
      BY <2>2, <3>1, RowAppend DEF TypeOK
    <3>. QED  BY <2>2, <3>2 DEF TypeOK
  <2>. QED  BY <1>2, <2>1, <2>2 DEF Register
<1>3. ASSUME NEW n \in Nodes, Restart(n) PROVE TypeOK'
  <2>1. PICK s \in Secrets : secret' = [secret EXCEPT ![n] = s]
    BY <1>3 DEF Restart
  <2>2. /\ restarts[n] < MaxRestarts
        /\ restarts' = [restarts EXCEPT ![n] = restarts[n] + 1]
        /\ pc' = [pc EXCEPT ![n] = "start"]
        /\ row' = [row EXCEPT ![n] = 0]
        /\ rows' = rows
    BY <1>3 DEF Restart
  <2>3. restarts' \in [Nodes -> 0..MaxRestarts]
    BY <2>2, NodeConfigAssumption DEF TypeOK
  <2>. QED  BY <2>1, <2>2, <2>3 DEF TypeOK
<1>4. CASE UNCHANGED vars
  BY <1>4 DEF vars, TypeOK
<1>. QED  BY <1>1, <1>2, <1>3, <1>4 DEF Next

(* Every reachable state of the start-up is well typed, row ids included. *)
THEOREM TypeCorrect == Spec => []TypeOK
BY TypeInit, TypeStep, PTL DEF Spec

-----------------------------------------------------------------------------
LEMMA RowInit == Init => RowInv
BY NodeConfigAssumption DEF Init, RowInv, HostsOf

(* The row a Resolve selects has the resolving node's api URL. *)
LEMMA SelectedIsOwn ==
    ASSUME NoPrefixCollision, RowInv, NEW n \in Nodes, NEW i \in Matches(n)
    PROVE  /\ i \in 1..Len(rows)
           /\ Fold(rows[i].host) = Fold(ApiURL(ServerURL[n]))
<1>1. i \in 1..Len(rows) /\ ILikePrefix(rows[i].host, ServerURL[n])
  BY DEF Matches
<1>2. rows[i].host \in HostsOf
  BY <1>1 DEF RowInv
<1>. QED  BY <1>1, <1>2 DEF NoPrefixCollision

LEMMA RowStep ==
    ASSUME NoPrefixCollision, TypeOK, RowInv, [Next]_vars
    PROVE  RowInv'
<1>1. ASSUME NEW n \in Nodes, Resolve(n) PROVE RowInv'
  <2>1. CASE /\ pc' = [pc EXCEPT ![n] = "stopped"]
             /\ UNCHANGED <<rows, row, secret>>
    BY <2>1 DEF RowInv, TypeOK
  <2>2. CASE /\ pc' = [pc EXCEPT ![n] = "register"]
             /\ UNCHANGED <<rows, row, secret>>
    BY <2>2 DEF RowInv, TypeOK
  <2>3. ASSUME NEW i \in Matches(n),
               rows' = [rows EXCEPT ![i].secret = secret[n]],
               pc' = [pc EXCEPT ![n] = "running"],
               row' = [row EXCEPT ![n] = i],
               UNCHANGED secret
        PROVE  RowInv'
    <3>1. i \in 1..Len(rows) /\ Fold(rows[i].host) = Fold(ApiURL(ServerURL[n]))
      BY SelectedIsOwn
    <3>2. /\ Len(rows') = Len(rows)
          /\ \A j \in 1..Len(rows) : rows'[j].host = rows[j].host
          /\ rows'[i].secret = secret[n]
          /\ \A j \in 1..Len(rows) \ {i} : rows'[j] = rows[j]
      BY <2>3, <3>1, SecretWrite DEF TypeOK
    <3>3. \A m \in Nodes \ {n} : pc[m] = "running" => row[m] # i
      BY <3>1 DEF RowInv, NoPrefixCollision
    <3>. QED  BY <2>3, <3>1, <3>2, <3>3 DEF RowInv, TypeOK
  <2>. QED  BY <1>1, <2>1, <2>2, <2>3 DEF Resolve
<1>2. ASSUME NEW n \in Nodes, Register(n) PROVE RowInv'
  <2>1. CASE /\ rows' = Append(rows, [host |-> ApiURL(ServerURL[n]),
                                      secret |-> secret[n], admin |-> "init"])
             /\ pc' = [pc EXCEPT ![n] = "running"]
             /\ row' = [row EXCEPT ![n] = Len(rows) + 1]
             /\ UNCHANGED secret
    <3>1. /\ Len(rows') = Len(rows) + 1
          /\ \A j \in 1..Len(rows) : rows'[j] = rows[j]
          /\ rows'[Len(rows) + 1].host = ApiURL(ServerURL[n])
          /\ rows'[Len(rows) + 1].secret = secret[n]
      BY <2>1, ApiURLType, RowAppend DEF TypeOK, Row
    <3>2. ApiURL(ServerURL[n]) \in HostsOf
      BY DEF HostsOf
    <3>. QED  BY <2>1, <3>1, <3>2, <1>2 DEF RowInv, TypeOK, Register
  <2>2. CASE /\ pc' = [pc EXCEPT ![n] = "stopped"]
             /\ UNCHANGED <<rows, row, secret>>
    BY <2>2 DEF RowInv, TypeOK
  <2>. QED  BY <1>2, <2>1, <2>2 DEF Register
<1>3. ASSUME NEW n \in Nodes, Restart(n) PROVE RowInv'
  BY <1>3 DEF Restart, RowInv, TypeOK
<1>4. CASE UNCHANGED vars
  BY <1>4 DEF vars, RowInv
<1>. QED  BY <1>1, <1>2, <1>3, <1>4 DEF Next

(* When no node's URL selects a host other than its own api URL and no    *)
(* two nodes share one (NoPrefixCollision), every running agent's row      *)
(* carries the secret of its current config: no other agent's start and   *)
(* no stale start of its own overwrites it, restarts with rotated secrets *)
(* included.                                                               *)
THEOREM SecretInSyncProved ==
    ASSUME NoPrefixCollision PROVE Spec => []SecretInSync
<1>1. TypeOK /\ RowInv => SecretInSync
  BY DEF RowInv, SecretInSync
<1>. QED  BY <1>1, TypeInit, TypeStep, RowInit, RowStep, PTL DEF Spec
=============================================================================
