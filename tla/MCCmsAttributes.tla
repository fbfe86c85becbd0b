--------------------------- MODULE MCCmsAttributes ---------------------------
(***************************************************************************)
(* A signer configured with two timestamp providers (signature and        *)
(* content timestamps), so the two timestamper round-trips interleave     *)
(* with each other and with the other providers, a revinfo provider, and  *)
(* two providers that only wrap constructor arguments (SigningTimeProvider *)
(* behaves as SigningCertificateV2Provider does and is left out).          *)
(***************************************************************************)
EXTENDS CmsAttributes

CONSTANTS D1, D2, O1, C1, PV

MCDecl ==
  << [cls |-> "SigningCertificateV2Provider", type |-> "signing_certificate_v2"],
     [cls |-> "AdobeRevinfoProvider",
      type |-> "adobe_revocation_info_archival"],
     [cls |-> "TSTProvider", type |-> "signature_time_stamp_token",
      data |-> D1, alg |-> "sha256"],
     [cls |-> "CMSAlgorithmProtectionProvider",
      type |-> "cms_algorithm_protection"],
     [cls |-> "TSTProvider", type |-> "content_time_stamp",
      data |-> D2, alg |-> "sha256"] >>

MCOcsp == {O1}
MCCrls == {C1}
=============================================================================
