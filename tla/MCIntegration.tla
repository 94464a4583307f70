---------------------------- MODULE MCIntegration ----------------------------
(***************************************************************************)
(* A small instance of Integration: two profiles that share nothing but    *)
(* the payload type, four times.                                           *)
(***************************************************************************)
EXTENDS Integration, TLC

CONSTANTS datagovops, doraops, toDataGov, toDora, dossier, report,
          pinA, pinB, blobA, blobB

MCBinding ==
  (datagovops :> [route |-> toDataGov, payloadType |-> dossier,
                  contract |-> [pin |-> pinA, blob |-> blobA]])
  @@ (doraops :> [route |-> toDora, payloadType |-> dossier,
                  contract |-> [pin |-> pinB, blob |-> blobB]])
=============================================================================
