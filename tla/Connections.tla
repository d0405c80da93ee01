----------------------------- MODULE Connections -----------------------------
(***************************************************************************)
(* The clients that are made from one configuration of an NSX-T: the       *)
(* connector of the policy API, the client of the advanced API, and the    *)
(* connector with which infra-cli removes load balancers. Each takes its   *)
(* own part of the configuration. A setting that is not given is "".       *)
(* A client is the host it talks to, whose certificates it takes and how   *)
(* it proves who it is. Whether the host is there, and shows a certificate *)
(* that the client takes, is not a matter of the configuration alone and   *)
(* left to the modules that use the clients.                               *)
(***************************************************************************)
CONSTANT
  Rejected  \* the accounts, certificates and tokens that NSX-T and VMC turn away

Refused == [refused |-> TRUE]

\* The authorities that may have signed the host's certificate: those of the
\* file ca, those of the system (""), or any.
Trust(insecure, ca) == IF insecure THEN "any" ELSE ca

Client(c, ca, scheme, principal) ==
  [host |-> c.host, trust |-> Trust(c.insecure, ca), remote |-> c.remote,
   scheme |-> scheme, principal |-> principal]

\* A configuration without what only the config files of infra-cli have.
Config(host, insecure, remote, user, password) ==
  [host |-> host, insecure |-> insecure, remote |-> remote, user |-> user,
   password |-> password, cert |-> "", key |-> "", ca |-> "", token |-> "", authHost |-> ""]

\* The files that are named are there and hold certificates.
getConnectorTLSConfig(c) == c.cert # "" => c.key # ""

\* The VMC exchanges a token for one that is valid for a while, or refuses to.
getAPIToken(c) == IF c.token \in Rejected THEN "" ELSE c.token

createSecurityContext(c) ==
  CASE c.cert # ""  -> [scheme |-> "certificate", principal |-> c.cert]
    [] c.cert = "" /\ c.token # "" ->
         IF c.authHost = "" \/ getAPIToken(c) = "" THEN Refused
         ELSE [scheme |-> "oauth", principal |-> getAPIToken(c)]
    [] OTHER ->
         IF "" \in {c.user, c.password} THEN Refused
         ELSE [scheme |-> "password", principal |-> c.user]

\* A list of the tier-0 gateways shows whether NSX-T accepts the connector.
createConnector(c) ==
  LET ctx == createSecurityContext(c) IN
  IF ~getConnectorTLSConfig(c) \/ ctx = Refused THEN Refused
  ELSE IF ctx.principal \in Rejected THEN Refused
  ELSE Client(c, c.ca, ctx.scheme, ctx.principal)

\* Tokens are not for the advanced API, names may be empty, and a session that
\* cannot be opened is no more than a warning.
createNSXClient(c) ==
  CASE c.cert # "" /\ c.key = "" -> Refused
    [] c.cert # "" /\ c.key # "" -> Client(c, c.ca, "certificate", c.cert)
    [] OTHER -> Client(c, c.ca, "password", c.user)

\* Mutant: the file with the authorities is given, too.
DestroyAll_WithCA(c) ==
  IF "" \in {c.user, c.password} THEN Client(c, c.ca, "none", "")
  ELSE Client(c, c.ca, "password", c.user)

\* The connector of DestroyAll knows neither certificates nor tokens, nor the
\* authorities that users name, and is not tried out.
DestroyAll(c) ==
  IF "" \in {c.user, c.password} THEN Client(c, "", "none", "")
  ELSE Client(c, "", "password", c.user)
=============================================================================
