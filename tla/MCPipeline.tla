----------------------------- MODULE MCPipeline -----------------------------
(***************************************************************************)
(* Small instances of Pipeline.  fragClaim is a contract inside a          *)
(* re-rendering fragment, with canonical law sLaw and a congruence of its  *)
(* own; plainClaim is one outside every fragment that a repair may turn    *)
(* into fragClaim; openClaim is an open-form claim.  sText is a provable   *)
(* restatement, sFalse a statement no proof exists of, sKnown a law of the *)
(* curated corpus.                                                         *)
(***************************************************************************)
EXTENDS Pipeline, TLC

CONSTANTS sLaw, sText, sFalse, sKnown, fragClaim, plainClaim, openClaim, none, noSig, sigFrag

MCCanonical == [c \in Claims |-> IF c = fragClaim THEN sLaw ELSE none]

MCSignature == [c \in Claims |-> IF c = fragClaim THEN sigFrag ELSE noSig]

MCRepairs == {<<plainClaim, fragClaim>>} \cap (Claims \X Claims)
=============================================================================
