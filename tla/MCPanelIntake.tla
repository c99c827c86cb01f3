---------------------------- MODULE MCPanelIntake ----------------------------
(* A single runner: artifacts/<chain>/<block>/<tx>/<kind>.json, with two    *)
(* transactions in a block.                                                 *)
EXTENDS PanelIntake, TLC

CONSTANTS chain, block1, tx1, tx2, deployment1, deployment2

MCParent == block1 :> chain @@ tx1 :> block1 @@ tx2 :> block1
MCDepth == chain :> 2 @@ block1 :> 3 @@ tx1 :> 4 @@ tx2 :> 4
MCDir == deployment1 :> tx1 @@ deployment2 :> tx2
MCFirst == deployment1 :> deployment1 @@ deployment2 :> deployment2
=============================================================================
