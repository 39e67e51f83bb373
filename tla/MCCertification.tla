-------------------------- MODULE MCCertification --------------------------
(* A fragment's contract, one it decides only once the domain is derived, one
   over an empty domain, a plain claim and an open one; Walnut and a fragment
   behind it; a strategy wrapper (p1 twice), the model of p1 under the identifier
   of another gateway (p3), a failover that reaches it under that name, and a panel
   member of its own model. *)
EXTENDS Certification

CONSTANTS p1, p1lemmas, p2, p3, walnut, fragment, nats, evens, noDomain,
          sLaw, sText, sFalse, fragClaim, emptyClaim, openClaim, none,
          noDraft, vendorOpus, opus, goedel, kimi

MCStatements == {sLaw, sText, sFalse}
MCProvable == {sLaw, sText}
MCClaims == {fragClaim, emptyClaim, openClaim}
MCOpenForm == {openClaim}
MCCanonical == [c \in MCClaims |->
  CASE c = fragClaim -> sLaw [] c = emptyClaim -> sFalse [] OTHER -> none]
MCOrder == <<walnut, fragment>>
MCDomains == {nats, evens}
MCClaimDomain == [c \in MCClaims |-> IF c = openClaim THEN noDomain ELSE evens]
MCDecidable == {<<walnut, openClaim, nats>>, <<fragment, fragClaim, evens>>,
                <<fragment, emptyClaim, evens>>}
MCName == [p \in {p1, p1lemmas, p2, p3} |->
  CASE p = p2 -> goedel [] p = p3 -> opus [] OTHER -> vendorOpus]
MCNames == {vendorOpus, opus, goedel, kimi}
MCCanon == [n \in MCNames |-> IF n = vendorOpus THEN opus ELSE n]
MCPanel == <<{opus, kimi}, {kimi}>>
=============================================================================
