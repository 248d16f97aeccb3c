-------------------------- MODULE MCPluginProcess --------------------------
(***************************************************************************)
(* Instances of PluginProcess for TLC: two web processes and two plug-ins, *)
(* or one web process and one plug-in.                                     *)
(***************************************************************************)
EXTENDS PluginProcess, TLC

CONSTANTS w1, w2, p1, p2, i1, i2, i3, s1

OnePlugin == <<p1>>
TwoPlugins == <<p1, p2>>

MCOwnerOf == [i \in Instance |-> IF i = i3 THEN w2 ELSE w1]
MCPathOf == [i \in Instance |-> p1]
=============================================================================
