---------------------------- MODULE MCExternalCalls ----------------------------
(* One task of every kind and registration, with a budget of up to two        *)
(* retries, and services that answer with codes on both sides of every        *)
(* boundary of the classification.                                            *)
EXTENDS ExternalCalls

MCCodes == {200, 204, 302, 404, 408, 425, 429, 500, 501, 503, 505}
=============================================================================
