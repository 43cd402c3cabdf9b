-------------------------- MODULE MCCertMaintainer --------------------------
(* Two devices of one domain share the name of their challenge record. *)
EXTENDS CertMaintainer

CONSTANTS c1, c2, old, elsewhere, challenge

MCValues == {c1, c2, old, elsewhere}
MCChallengeName == [c \in Clients |-> challenge]
\* Only the first device lives to see its certificate renewed.
MCMaxCerts == [c \in Clients |-> IF c = c1 THEN 2 ELSE 1]
MCUserRecords == {[name |-> challenge, kind |-> "CNAME", value |-> elsewhere]}
==============================================================================
