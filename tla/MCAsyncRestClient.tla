-------------------------- MODULE MCAsyncRestClient --------------------------
(* Small instances of AsyncRestClient: requesters r1, r2, a connector x, the  *)
(* https origins a and b, the plain origin p.                                 *)
EXTENDS AsyncRestClient, TLC

CONSTANTS r1, r2, x, a, b, p

TwoRequesters == {r1, r2}
OneRequester == {r1}
OneConnector == {x}
Nobody == {}

ThreeOrigins == {a, b, p}
TwoOrigins == {a, p}
TlsHosts == {a, b}
OneTlsHost == {a}

(* Requesters differ in nothing but their names. *)
RequesterSymmetry == Permutations(Req)
=============================================================================
