------------------------------- MODULE MCBytes -------------------------------
(***************************************************************************)
(* TextBytes with the texts of MCPkcs5, lists of up to two fields, and     *)
(* bursts of wrong bits in the first two or three bytes.                   *)
(***************************************************************************)
EXTENDS MCPkcs5, TextBytes

MCField == Numbers \cup [kind : {"str"}, len : 1 .. 3]
MCFieldLists ==
  {<<>>} \cup {<<f>> : f \in MCField} \cup {<<f, g>> : f \in MCField, g \in MCField}
MCMaxBurst == 9
MCMaxDamaged == 3
=============================================================================
