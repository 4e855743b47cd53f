---------------------------- MODULE KvCommands -----------------------------
(***************************************************************************)
(* The commands of the text protocol and what a server answers to them.    *)
(* The TCP server and the two-sided RDMA server do the same.               *)
(*                                                                         *)
(* A request has a type, and a key and a value where its type needs them;  *)
(* a response is a pair of a word and a payload.  `kv` is the contents of  *)
(* the server's KeyValueStore.                                             *)
(***************************************************************************)
CONSTANTS Keys, NoValue

EmptyStore == [k \in Keys |-> NoValue]

Answer(kv, q) ==
  CASE q.type = "get" /\ kv[q.key] # NoValue -> <<"VALUE", kv[q.key]>>
    [] q.type = "get" /\ kv[q.key] = NoValue -> <<"NOT_FOUND", NoValue>>
    [] q.type = "set"                        -> <<"OK", NoValue>>
    [] q.type = "del" /\ kv[q.key] # NoValue -> <<"OK", NoValue>>
    [] q.type = "del" /\ kv[q.key] = NoValue -> <<"NOT_FOUND", NoValue>>
    [] q.type = "quit"                       -> <<"BYE", NoValue>>
    [] q.type = "invalid"                    -> <<"ERROR", NoValue>>

\* The contents after q.
Executed(kv, q) ==
  CASE q.type = "set" -> [kv EXCEPT ![q.key] = q.value]
    [] q.type = "del" -> [kv EXCEPT ![q.key] = NoValue]
    [] OTHER          -> kv

\* The words q may be answered with, whatever the store holds.
Words(q) ==
  CASE q.type = "get"     -> {"VALUE", "NOT_FOUND"}
    [] q.type = "set"     -> {"OK"}
    [] q.type = "del"     -> {"OK", "NOT_FOUND"}
    [] q.type = "quit"    -> {"BYE"}
    [] q.type = "invalid" -> {"ERROR"}
=============================================================================
