-------------------------- MODULE MCNodeActivation --------------------------
(***************************************************************************)
(* Instance of NodeActivation for TLC: two entities that show one node (as  *)
(* nachlegeschritt and nachlegeschritt_text do), one of a component group,  *)
(* disabled by default, and a buffer sensor.                               *)
(***************************************************************************)
EXTENDS NodeActivation

CONSTANTS step, stepText, lagerFill, pufferOben, n1, n2, n3, lager

MCEntities == {step, stepText, lagerFill, pufferOben}
MCNodes == {n1, n2, n3}
MCNodeOf == [e \in MCEntities |->
                CASE e \in {step, stepText} -> n1
                  [] e = lagerFill -> n2
                  [] e = pufferOben -> n3]
MCGroupOf == [e \in MCEntities |-> IF e = lagerFill THEN lager ELSE NoGroup]

=============================================================================
