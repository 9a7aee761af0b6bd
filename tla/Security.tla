------------------------------- MODULE Security -------------------------------
(***************************************************************************)
(* SecurityConfig (security.rs): who a request comes from, and whether     *)
(* they may use a route.  Operators only; Admission calls them.            *)
(*                                                                         *)
(* A name (of a role, a group or a subject) is the sequence of its words,  *)
(* because a claim is split at white space: "a b" is one name of two words *)
(* in a binding, and two names of one word in a roles claim.               *)
(*                                                                         *)
(* What a request shows of itself is a record.  token says which modes'    *)
(* secret, issuer and audience jsonwebtoken's decode accepts its bearer    *)
(* token for (none of them when there is no token), and what each claim    *)
(* holds: a string, or the strings of an array (an array without any       *)
(* stands for every other JSON value).  subject, roles and groups are the  *)
(* values of the mTLS headers, of which the first counts: the words of     *)
(* subject, and the comma-separated names of the other two.                *)
(***************************************************************************)
EXTENDS Integers, SequencesExt

AuthMode == {"anonymous", "jwt", "oauth2", "openid_connect", "mtls"}
TokenMode == {"jwt", "oauth2", "openid_connect"}

\* No name: the empty string.
NoName == <<>>

\* RoleBinding, GroupBinding and SubjectBinding differ in a field's name only.
Binding == [name: Seq(STRING), route: STRING]

\* The part of SecurityConfig that decides.  secret says of each kind of token
\* whether there is one; issuers and audiences are part of what token.accepted
\* stands for, and the names of the mTLS headers of what the request shows.
SecurityConfig ==
    [ enabled_modes: Seq(AuthMode),
      secret: [TokenMode -> BOOLEAN],
      roles_claim: [TokenMode -> STRING], groups_claim: [TokenMode -> STRING],
      allowed_subjects: SUBSET Seq(STRING),
      rbac: SUBSET Binding, group_rbac: SUBSET Binding, subject_rbac: SUBSET Binding ]

\* What authenticate gives back; the mode of a failure is "error".
Identity(mode, roles, groups, subject) ==
    [mode |-> mode, roles |-> roles, groups |-> groups, subject |-> subject]

AuthError == Identity("error", {}, {}, NoName)

\* split_claim_values
SplitClaim(value) == {<<word>> : word \in ToSet(value)}

\* The strings a claim holds, if the token has it.
Strings(claims, claim_name) ==
    IF claim_name \in DOMAIN claims THEN ToSet(claims[claim_name].strings) ELSE {}

\* extract_claim_values: the legacy claim is one name, whatever its words, and
\* only a string will do.
ExtractClaimValues(claims, claim_name, include_legacy_role_claim) ==
    LET legacy == include_legacy_role_claim /\ "role" \in DOMAIN claims
                  /\ ~claims["role"].is_array
    IN  UNION {SplitClaim(v) : v \in Strings(claims, claim_name)}
        \union (IF legacy THEN Strings(claims, "role") ELSE {})

\* extract_header_values, split_header_values: the first value of the header.
ExtractHeaderValues(values) == IF values = <<>> THEN {} ELSE ToSet(Head(values)) \ {NoName}

\* decode_token_claims: without a secret nothing is accepted.
TokenAccepted(cfg, mode, in) == cfg.secret[mode] /\ mode \in in.token.accepted

\* The subject header, trimmed.
MtlsSubject(in) == IF in.subject = <<>> THEN NoName ELSE Head(in.subject)

\* authenticate_mode
AuthenticateMode(cfg, mode, in) ==
    CASE mode = "anonymous" -> Identity(mode, {}, {}, NoName)
      [] mode \in TokenMode ->
           IF TokenAccepted(cfg, mode, in)
           THEN Identity(mode,
                  ExtractClaimValues(in.token.claims, cfg.roles_claim[mode], mode = "jwt"),
                  ExtractClaimValues(in.token.claims, cfg.groups_claim[mode], FALSE),
                  NoName)
           ELSE AuthError
      [] mode = "mtls" ->
           IF /\ MtlsSubject(in) # NoName
              /\ cfg.allowed_subjects = {} \/ MtlsSubject(in) \in cfg.allowed_subjects
           THEN Identity(mode, ExtractHeaderValues(in.roles),
                         ExtractHeaderValues(in.groups), MtlsSubject(in))
           ELSE AuthError

\* The places in enabled_modes of the modes that accept the request.
Accepting(cfg, in) ==
    {i \in DOMAIN cfg.enabled_modes :
        AuthenticateMode(cfg, cfg.enabled_modes[i], in).mode # "error"}

\* Mutant: the last mode that accepts the request decides.
AuthenticateLast(cfg, in) ==
    IF cfg.enabled_modes = <<>> THEN Identity("anonymous", {}, {}, NoName)
    ELSE IF Accepting(cfg, in) = {} THEN AuthError
    ELSE AuthenticateMode(cfg, cfg.enabled_modes[Max(Accepting(cfg, in))], in)

\* authenticate: the first enabled mode that accepts the request decides.
Authenticate(cfg, in) ==
    IF cfg.enabled_modes = <<>> THEN Identity("anonymous", {}, {}, NoName)
    ELSE IF Accepting(cfg, in) = {} THEN AuthError
    ELSE AuthenticateMode(cfg, cfg.enabled_modes[Min(Accepting(cfg, in))], in)

\* Mutant: a route without bindings of this kind is closed.
AllowedDefaultDeny(bindings, route_name, names) ==
    \E b \in bindings : b.route = route_name /\ b.name \in names

\* One kind of binding: the route has none, or one of them names the caller.
Allowed(bindings, route_name, names) ==
    LET required == {b.name : b \in {b \in bindings : b.route = route_name}}
    IN  required = {} \/ required \intersect names # {}

\* The subject as a set of names: none for a caller without one.
SubjectNames(identity) == {identity.subject} \ {NoName}

\* Mutant: a role or a group is enough.
AuthorizeAny(cfg, identity, route_name) ==
    /\ \/ Allowed(cfg.rbac, route_name, identity.roles)
       \/ Allowed(cfg.group_rbac, route_name, identity.groups)
    /\ Allowed(cfg.subject_rbac, route_name, SubjectNames(identity))

\* authorize: every kind of binding must allow the caller.
Authorize(cfg, identity, route_name) ==
    /\ cfg.enabled_modes = <<>> \/ identity.mode \in ToSet(cfg.enabled_modes)
    /\ Allowed(cfg.rbac, route_name, identity.roles)
    /\ Allowed(cfg.group_rbac, route_name, identity.groups)
    /\ Allowed(cfg.subject_rbac, route_name, SubjectNames(identity))
=============================================================================
