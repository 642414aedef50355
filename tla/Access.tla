------------------------------- MODULE Access -------------------------------
(***************************************************************************)
(* Who may use a share, and how each protocol finds out who is asking.     *)
(*                                                                         *)
(* A configuration is the record that cfg names everywhere here:           *)
(*   serves: the protocols, isolate: one process for each,                 *)
(*   users: people are declared in the file, declares: or by a directory,  *)
(*   people, holds: who there is, and what is held for each,               *)
(*   ca: trusted_user_ca_file, sshDomains, acceptUngranted,                *)
(*   kerberos: our realm is "ours", nfsCert: NFS's identity = certificate, *)
(*   oidc, localNames, trustAll, domains, sshCA, opkssh: the oidc block,   *)
(*   identity: the identity block's policy, entries: Accounts' entries,    *)
(*   shares: from names to blocks [allow, writers, readOnly, protocols,    *)
(*     system, directory, source]; source stands for the resolved path.    *)
(* An entry of allow or writers is [kind, value]: a name, or a rule of the *)
(* provider.  Names and domains stand for their lower-case spelling, and a *)
(* list for what its groups expand to (Reload has the expansion).  A       *)
(* credential is [type, name, groups, realm, grant]: what somebody can     *)
(* really prove.                                                           *)
(***************************************************************************)
EXTENDS FiniteSets, Accounts

CONSTANT Scope  \* the part of each name after its last @, "" for none

ConfigFields == {"serves", "isolate", "users", "declares", "people", "holds", "ca", "sshDomains",
                 "acceptUngranted", "kerberos", "nfsCert", "oidc", "localNames", "trustAll", "domains",
                 "sshCA", "opkssh", "identity", "entries", "shares"}

identityProtocols == {"sftp", "webdav"}
-----------------------------------------------------------------------------
(***************************************************************************)
(* principal.go and the three rules of a share.                            *)
(***************************************************************************)

local(name) == [name |-> name, federated |-> FALSE, groups |-> {}, localName |-> FALSE]
Anonymous == local("")

\* Somebody the provider vouches for.
Federated(cred, localName) ==
  [name |-> cred.name, federated |-> TRUE, groups |-> cred.groups, localName |-> localName]

\* Mutant of byName: a name is a name, whoever vouches for it.
byNameAlways(p) == TRUE

byName(p) == ~p.federated \/ p.localName

\* splitRules.
names(list) == {e.value : e \in {x \in list : x.kind = "name"}}
claims(list) == {e \in list : e.kind # "name"}

matches(p, rules) ==
  /\ p.federated
  /\ \E r \in rules : \/ r.kind = "user" /\ r.value = p.name
                      \/ r.kind = "groups" /\ r.value \in p.groups
                      \/ r.kind = "domain" /\ Scope[p.name] # "" /\ r.value = Scope[p.name]

allowsAnyone(b) == b.allow = {}
anyAllowedWrites(b) == b.writers = {}
restricted(b) == ~allowsAnyone(b) \/ ~anyAllowedWrites(b)
anyoneWrites(b) == ~b.readOnly /\ ~restricted(b)

mayUse(b, p) ==
  \/ allowsAnyone(b)
  \/ byName(p) /\ p.name \in names(b.allow)
  \/ matches(p, claims(b.allow))

readOnlyFor(b, p) ==
  \/ b.readOnly
  \/ /\ ~anyAllowedWrites(b)
     /\ ~(byName(p) /\ p.name \in names(b.writers))
     /\ ~matches(p, claims(b.writers))
-----------------------------------------------------------------------------
(***************************************************************************)
(* What a protocol carries, and which configurations are served at all.    *)
(***************************************************************************)

\* NFS tells its users apart only with Kerberos or client certificates.
canAuthenticate(cfg, proto) == proto # "nfs" \/ cfg.kerberos \/ cfg.nfsCert

\* The shares a protocol serves: those meant for it that it can keep to their lists.
exports(cfg, proto) ==
  {sh \in DOMAIN cfg.shares :
     LET b == cfg.shares[sh]
     IN /\ b.protocols = {} \/ proto \in b.protocols
        /\ restricted(b) => canAuthenticate(cfg, proto)
        /\ b.system => proto \in identityProtocols}

\* checkShareIdentity, and the identity block's own check.
checkShareIdentity(cfg, b) ==
  b.system => /\ b.directory /\ cfg.identity # {}
              /\ cfg.declares
              /\ b.protocols \subseteq identityProtocols

checkIdentity(cfg) ==
  \A pol \in cfg.identity : /\ pol.minUID \in 1..(NoChange - 1) /\ pol.minGID \in 1..(NoChange - 1)
                            /\ \E sh \in DOMAIN cfg.shares : cfg.shares[sh].system

checkSSHDomains(cfg) ==
  IF cfg.sshDomains THEN cfg.ca \/ (cfg.oidc /\ cfg.sshCA) ELSE ~cfg.acceptUngranted

\* config.check, for what changes who reaches what.
check(cfg) ==
  /\ cfg.serves # {} /\ DOMAIN cfg.shares # {}
  /\ \A sh \in DOMAIN cfg.shares :
       /\ ~(cfg.shares[sh].readOnly /\ cfg.shares[sh].writers # {})
       /\ checkShareIdentity(cfg, cfg.shares[sh])
  /\ \A proto \in cfg.serves : exports(cfg, proto) # {}
  /\ checkIdentity(cfg) /\ checkSSHDomains(cfg)
  /\ cfg.oidc => \/ "webdav" \in cfg.serves
                 \/ "sftp" \in cfg.serves /\ (cfg.sshCA \/ cfg.opkssh)
  /\ cfg.users => \E proto \in cfg.serves : canAuthenticate(cfg, proto)

\* config.resolve and checkRule: names belong to somebody, rules need a
\* provider, and a writer may connect.
resolve(cfg) ==
  \A sh \in DOMAIN cfg.shares :
    LET b == cfg.shares[sh]
    IN /\ names(b.allow) \cup names(b.writers) \subseteq cfg.people
       /\ claims(b.allow) \cup claims(b.writers) # {} => cfg.oidc
       /\ b.allow # {} => b.writers \subseteq b.allow

\* A share written by two processes: no driver's lock is between them.
isolationRefusal(cfg) ==
  \E sh \in DOMAIN cfg.shares :
    /\ ~cfg.shares[sh].readOnly
    /\ Cardinality({proto \in cfg.serves : sh \in exports(cfg, proto)}) > 1

\* runIsolated, sharesForChild and serve-one: a child's configuration has the
\* shares its protocol carries and a serve block of its own, which says
\* nothing but the address.
childOf(cfg, proto) ==
  [cfg EXCEPT !.serves = {proto}, !.nfsCert = FALSE,
              !.shares = [sh \in exports(cfg, proto) |-> cfg.shares[sh]]]

\* The configuration of the process that serves a protocol.
Process(cfg, proto) == IF cfg.isolate THEN childOf(cfg, proto) ELSE cfg

\* Two shares are not of one source, so one lock is all an image needs.
checkNoShareHoldsShare(cfg) ==
  \A a, b \in DOMAIN cfg.shares : a # b => cfg.shares[a].source # cfg.shares[b].source

\* serve: what is refused before anything is opened.  Each process checks the
\* sources of the shares it was given; over those of all the processes
\* nobody does.
serve(cfg) ==
  /\ check(cfg) /\ resolve(cfg)
  /\ \A proto \in cfg.serves : checkNoShareHoldsShare(Process(cfg, proto))
  /\ cfg.isolate => /\ \A sh \in DOMAIN cfg.shares : ~cfg.shares[sh].system
                    /\ ~isolationRefusal(cfg)
-----------------------------------------------------------------------------
(***************************************************************************)
(* The provider's people (oidcauth.go).                                    *)
(***************************************************************************)

domainAllowed(cfg, p) == ~cfg.oidc \/ cfg.domains = {} \/ Scope[p.name] \in cfg.domains

namedByARule(cfg, p) ==
  \E sh \in DOMAIN cfg.shares :
    matches(p, claims(cfg.shares[sh].allow)) \/ matches(p, claims(cfg.shares[sh].writers))

admitFederated(cfg, p) ==
  /\ domainAllowed(cfg, p)
  /\ \/ p.name \in cfg.people /\ p.localName
     \/ cfg.oidc /\ cfg.trustAll
     \/ namedByARule(cfg, p)

\* bearer, for a token in date that nothing revoked (Credentials has those).
bearer(cfg, cred) ==
  {p \in {Federated(cred, cfg.localNames)} : cfg.oidc /\ cred.type = "token" /\ admitFederated(cfg, p)}

\* domainGrant: malformed and elsewhere are refused whatever is accepted.
domainGrant(cfg, cred) == cred.grant = "here" \/ (cred.grant = "none" /\ cfg.acceptUngranted)
-----------------------------------------------------------------------------
(***************************************************************************)
(* Each protocol: the principals a credential makes, one or none, and what *)
(* they are given.  The secret behind a password or a key is its owner's.  *)
(***************************************************************************)

Held(cfg, name, kinds) == name \in cfg.people /\ cfg.holds[name] \cap kinds # {}

\* workerOf: the processes that would serve p's own tree.
workerOf(cfg, p) ==
  UNION {Worker(pol, cfg.entries[p.name]) : pol \in {x \in cfg.identity : byName(p)}}

Grade(use, write) == IF ~use THEN "none" ELSE IF write THEN "write" ELSE "read"

\* unionForWith, and byUser.ServeHTTP with asThem: the same three questions.
treeView(cfg, proto, p) ==
  [sh \in DOMAIN cfg.shares |->
     LET b == cfg.shares[sh]
     IN Grade(/\ sh \in exports(cfg, proto) /\ mayUse(b, p)
              /\ b.system => workerOf(cfg, p) # {},
              ~readOnlyFor(b, p))]

\* byUser.authenticated and webdavIndex.
authenticated(cfg, cred) ==
  IF ~cfg.declares /\ ~cfg.oidc THEN {Anonymous}
  ELSE bearer(cfg, cred)
         \cup {p \in {local(cred.name)} : cred.type = "password" /\ Held(cfg, cred.name, {"password", "verifier"})}

\* PublicKeyFor, TrustedUserCAs and grantedCertificateFor, then
\* federatedSFTP.certificate; ServerForLogin admits.
sshLogin(cfg, cred) ==
  {p \in {local(cred.name)} :
     \/ cred.type = "key" /\ Held(cfg, cred.name, {"keys"})
     \/ cred.type = "local" /\ cfg.ca /\ (cfg.sshDomains => domainGrant(cfg, cred))}
  \cup
  {p \in {Federated(cred, cfg.localNames)} :
     /\ \/ cred.type = "provider" /\ cfg.oidc /\ cfg.sshCA /\ (cfg.sshDomains => domainGrant(cfg, cred))
        \/ cred.type = "opkssh" /\ cfg.oidc /\ cfg.opkssh
     /\ admitFederated(cfg, p)}

\* s3Secret: whose password verifies a signature of id, in user's server.
s3Secret(cfg, user, id) == {n \in {user} : id = user /\ Held(cfg, user, {"password"})}

\* forUser and strangers: the user is the key the request claims, and id the
\* one the library reads from the same request.
forUser(cfg, user, id, cred) ==
  {p \in {local(user)} : user \in cfg.people /\ cred.type = "password" /\ cred.name \in s3Secret(cfg, user, id)}

\* The S3 server is ReadOnly, whatever the tree says.
s3View(cfg, p) == [sh \in DOMAIN cfg.shares |-> Grade(treeView(cfg, "s3", p)[sh] # "none", FALSE)]

\* serveSMB's people.
ntlm(cfg, cred) ==
  {p \in {local(cred.name)} : cred.type = "password" /\ Held(cfg, cred.name, {"password", "nthash"})}

\* The library's AllowUsers: no list is everybody.
AllowUsers(users, name) == users = {} \/ name \in users

\* A share written for somebody with no name left is not offered.
smbShares(cfg) ==
  {sh \in exports(cfg, "smb") : allowsAnyone(cfg.shares[sh]) \/ names(cfg.shares[sh].allow) # {}}

smbView(cfg, p) ==
  [sh \in DOMAIN cfg.shares |->
     LET b == cfg.shares[sh]
     IN Grade(sh \in smbShares(cfg) /\ AllowUsers(names(b.allow), p.name),
              /\ ~b.readOnly
              /\ ~anyAllowedWrites(b) => names(b.writers) # {} /\ AllowUsers(names(b.writers), p.name))]

\* userOf: the users a ticket's principal is, one or none.
userOf(cfg, cred) == {n \in {cred.name} : cred.type = "ticket" /\ cfg.kerberos /\ cred.realm = "ours"}

\* Whom a gated export asks about: principalGate and certificateGate.
nfsPrincipals(cfg, cred) ==
  {local(u) : u \in userOf(cfg, cred)}
  \cup {p \in {Federated(cred, TRUE)} : cfg.nfsCert /\ cred.type = "client" /\ admitFederated(cfg, p)}

\* A share that names people, where there is anything to ask about them.
gated(cfg, b) == restricted(b) /\ (cfg.kerberos \/ cfg.nfsCert)

\* Mutant of nfsWritable: a restricted share is exported read-only.
nfsWritableOpen(cfg, b) == anyoneWrites(b)

\* Whether the export is writable, for its gate to have anything to decide.
nfsWritable(cfg, b) ==
  anyoneWrites(b) \/ (gated(cfg, b) /\ ~b.readOnly)

\* What a call is given: by the export's gate, or to whoever calls.
nfsView(cfg, cred) ==
  [sh \in DOMAIN cfg.shares |->
     LET b == cfg.shares[sh]  ps == nfsPrincipals(cfg, cred)
     IN Grade(sh \in exports(cfg, "nfs") /\ (gated(cfg, b) => \E p \in ps : mayUse(b, p)),
              nfsWritable(cfg, b) /\ (gated(cfg, b) => \E p \in ps : mayUse(b, p) /\ ~readOnlyFor(b, p)))]
=============================================================================
