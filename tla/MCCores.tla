------------------------------- MODULE MCCores -------------------------------
(***************************************************************************)
(* Cores for TLC: an xray, a sing and a hysteria2 core, a node of which    *)
(* only the protocol decides the core and one given to sing by name.       *)
(***************************************************************************)
EXTENDS Cores, TLC

MCCoreType == ("x" :> "xray") @@ ("s" :> "sing") @@ ("h" :> "hysteria2")
MCCoreNames == {"x", "s", "h"}
MCUsersOf == ("t1" :> {"u1", "u2"}) @@ ("t2" :> {"v1", "v2"})
MCOptions == { [name |-> None, core |-> None], [name |-> "h", core |-> None], [name |-> None, core |-> "sing"] }
MCKinds == {"vless", "naive", "hysteria2"}
=============================================================================
