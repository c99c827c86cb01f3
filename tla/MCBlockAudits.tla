---------------------------- MODULE MCBlockAudits ----------------------------
(* In block 1 a factory deploys a proxy.  A transaction of block 2 deploys  *)
(* a clone, and a factory a contract with the bytecode of the proxy and no  *)
(* slots, so that it has the key of a proxy whose slots could not be read.  *)
EXTENDS BlockAudits, TLC

CONSTANTS proxy, twin, clone, implAt, shell, cloned, implCode

MCDirect == 1 :> {} @@ 2 :> {clone}
MCTraced == 1 :> {proxy} @@ 2 :> {clone, twin}
MCCodeOf == proxy :> shell @@ twin :> shell @@ clone :> cloned @@ implAt :> implCode
MCForm == shell :> "proceed" @@ cloned :> "skip_proxy_shell" @@ implCode :> "eof"
MCCloneOf == [c \in {shell, cloned, implCode} |-> IF c = cloned THEN implAt ELSE None]
MCImplSlot == [d \in Deployments |-> IF d = proxy THEN implAt ELSE None]
MCBeaconSlot == [d \in Deployments |-> None]
MCBeaconSays == [a \in Accounts |-> None]
=============================================================================
