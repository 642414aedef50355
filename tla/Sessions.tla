------------------------------ MODULE Sessions ------------------------------
(***************************************************************************)
(* From a credential to the driver: a server is started with a             *)
(* configuration (Access), somebody is let in over one of its protocols,   *)
(* given the shares the configuration gives them, and reads and writes     *)
(* through what they were given (Trees).                                   *)
(*                                                                         *)
(* The configuration does not change here: Reload and Generation have the  *)
(* changes, Credentials what ends a credential.                            *)
(***************************************************************************)
EXTENDS Access, Trees

CONSTANTS Configs,      \* the configurations a server may be started with
          Creds(_),     \* the credentials presented to a server
          Crowded, Lead \* bound: where several sessions are at work; in the
                        \* other configurations Lead logs in, and no more

\* What the parser makes: an entry of a list is a name or a rule with a value
\* (splitRules), there is one identity block at most, and nobody whom neither
\* the file nor a directory declares.
ASSUME ConfigsAssumption ==
  \A cfg \in Configs :
    /\ cfg = [f \in ConfigFields |-> cfg[f]]
    /\ IsFiniteSet(cfg.serves) /\ (cfg.isolate => cfg.serves \subseteq Procs)
    /\ DOMAIN cfg.shares \subseteq Shares
    /\ \A sh \in DOMAIN cfg.shares : \A e \in cfg.shares[sh].allow \cup cfg.shares[sh].writers :
         e.kind = "name" \/ (e.kind \in {"user", "groups", "domain"} /\ e.value # "")
    /\ ~cfg.declares => cfg.people = {}
    /\ \A pol, q \in cfg.identity : pol = q
    /\ \A cred \in Creds(cfg) : cred.name \in DOMAIN cfg.entries
    /\ \A n \in DOMAIN cfg.entries :
         cfg.entries[n].passwd \subseteq [uid : Nat, gid : Nat, groups : SUBSET Nat]

VARIABLES
  config, \* the configuration
  who     \* per session, how it was let in: protocol, credential, principal, worker

vars == <<treeVars, config, who>>

Nobody == [proto |-> "none"]

Init ==
  /\ config \in {cfg \in Configs : serve(cfg)}
  /\ who = [s \in Sessions |-> Nobody]
  /\ TreesInit
-----------------------------------------------------------------------------
(***************************************************************************)
(* Letting somebody in.  A refusal leaves nothing behind.                  *)
(***************************************************************************)

\* A share the process does not have is one it does not serve.
Whole(v) == [sh \in Shares |-> IF sh \in DOMAIN v THEN v[sh] ELSE "none"]

\* The worker that serves p their own tree, when a share of v has one.
Serving(cfg, v, p) ==
  IF \E sh \in DOMAIN v : cfg.shares[sh].system /\ v[sh] # "none" THEN workerOf(cfg, p) ELSE {}

LetIn(s, proto, cred, p, v, how) ==
  /\ who' = [who EXCEPT ![s] = [proto |-> proto, cred |-> cred, p |-> p,
                                worker |-> Serving(Process(config, proto), v, p)]]
  /\ view' = [view EXCEPT ![s] = Whole(v)]
  /\ proc' = [proc EXCEPT ![s] = IF config.isolate THEN proto ELSE "one"]
  /\ kind' = [kind EXCEPT ![s] = how]
  /\ UNCHANGED <<config, gone, handles, snap, total, lock, th>>

\* An SMB session: NTLMv2 against the keys added at the start.
SmbLogin(s, cred) ==
  LET cfg == Process(config, "smb")
  IN \E p \in ntlm(cfg, cred) : LetIn(s, "smb", cred, p, smbView(cfg, p), "direct")

\* A WebDAV request, decided when it comes.
WebdavRequest(s, cred) ==
  LET cfg == Process(config, "webdav")
  IN \E p \in authenticated(cfg, cred) : LetIn(s, "webdav", cred, p, treeView(cfg, "webdav", p), "direct")

\* ServerForLogin: nothing to show is a refusal, and a session the provider
\* vouches for is asked about at every operation.
ServerForLogin(s, cred) ==
  LET cfg == Process(config, "sftp")
  IN \E p \in sshLogin(cfg, cred) :
       LET v == treeView(cfg, "sftp", p)
       IN /\ \E sh \in DOMAIN v : v[sh] # "none"
          /\ LetIn(s, "sftp", cred, p, v, IF p.federated THEN "watched" ELSE "tree")

\* s3ByUser.ServeHTTP: two names can stand in one request, and which of them
\* chose the server and which the library reads need not be the same.
S3Request(s, cred, user, id) ==
  LET cfg == Process(config, "s3")
  IN \E p \in forUser(cfg, user, id, cred) : LetIn(s, "s3", cred, p, s3View(cfg, p), "tree")

\* An NFS call: there is no session, and nobody need be anybody.  A call
\* with a ticket is for a server that has a keytab.
NfsCall(s, cred) ==
  LET cfg == Process(config, "nfs")  ps == nfsPrincipals(cfg, cred)
  IN /\ cred.type \in {"none", "client"} \cup IF cfg.kerberos THEN {"ticket"} ELSE {}
     /\ \E p \in IF ps = {} THEN {Anonymous} ELSE ps : LetIn(s, "nfs", cred, p, nfsView(cfg, cred), "direct")

\* The connection ends, or the request is answered, with nothing open.
Logout(s) ==
  /\ who[s] # Nobody
  /\ \A t \in Threads : Owner[t] = s => th[t] = Rest
  /\ \A h \in Handles(s) : handles[s][h] = NoHandle
  /\ who' = [who EXCEPT ![s] = Nobody]
  /\ view' = [view EXCEPT ![s] = [sh \in Shares |-> "none"]]
  /\ proc' = [proc EXCEPT ![s] = "one"]
  /\ kind' = [kind EXCEPT ![s] = "none"]
  /\ gone' = gone \ {s}
  /\ UNCHANGED <<config, handles, snap, total, lock, th>>

Login ==
  \E s \in {x \in Sessions : who[x] = Nobody /\ (x = Lead \/ config \in Crowded)} :
    \E cred \in Creds(config) :
      \/ "smb" \in config.serves /\ SmbLogin(s, cred)
      \/ "webdav" \in config.serves /\ WebdavRequest(s, cred)
      \/ "sftp" \in config.serves /\ ServerForLogin(s, cred)
      \/ "nfs" \in config.serves /\ NfsCall(s, cred)
      \/ "s3" \in config.serves /\ \E user, id \in config.people : S3Request(s, cred, user, id)

Work == config \in Crowded /\ TreesNext /\ UNCHANGED <<config, who>>

Next == Login \/ Work \/ \E s \in Sessions : Logout(s)

Spec == Init /\ [][Next]_vars
-----------------------------------------------------------------------------
(***************************************************************************)
(* Properties.                                                             *)
(***************************************************************************)

\* One image, several servers, one lock: a driver that promises nothing about
\* two calls at once is never inside two, by path or by file handle; one
\* process has one driver over an image, whichever share leads to it; and
\* with a process for each protocol, what two of them are at work in is not
\* one share that one of them may write.  Two shares of one image in two
\* processes are two drivers: nothing compares their sources.
DriverAlone ==
  \A t, u \in Threads :
    LET a == th[t].share  b == th[u].share
    IN /\ t # u /\ th[t].at = "in" /\ th[u].at = "in"
       /\ a \in Locked /\ b \in Locked /\ config.shares[a].source = config.shares[b].source
       => /\ proc[Owner[t]] # proc[Owner[u]]
          /\ a = b => view[Owner[t]][a] # "write"

\* Whether an entry of a list is about the owner of a credential: a plain name
\* is about the person this server knows by it, an oidc: rule about somebody
\* the provider vouches for.
About(e, cred) ==
  LET theirs == cred.type \in {"token", "provider", "opkssh", "client"}
      ours == \/ cred.type \in {"password", "key", "local", "client"}
              \/ cred.type = "ticket" /\ cred.realm = "ours"
              \/ theirs /\ config.localNames
  IN CASE e.kind = "name" -> ours /\ e.value = cred.name
       [] e.kind = "user" -> theirs /\ e.value = cred.name
       [] e.kind = "groups" -> theirs /\ e.value \in cred.groups
       [] e.kind = "domain" -> theirs /\ e.value = Scope[cred.name]

\* Whether the owner of a credential of the provider's is anybody here.
Known(cred) ==
  \/ config.trustAll \/ (cred.name \in config.people /\ (config.localNames \/ cred.type = "client"))
  \/ \E sh \in Shares : \E e \in config.shares[sh].allow \cup config.shares[sh].writers :
       e.kind # "name" /\ About(e, cred)

On(list, cred) == list = {} \/ \E e \in list : About(e, cred)

\* Whatever the protocol, the process and the way in, a session sees a share
\* only if the share's own lists name the owner of its credential, or name
\* nobody; it writes only if writers does too and the share is not read-only;
\* nobody sees a share that names people over a protocol that told this
\* server nothing of who they are, or over one the share does not name; and
\* the provider's word opens nothing to somebody who is nobody here, nor a
\* certificate to a host it was not granted for.
AccessEntitled ==
  \A s \in Sessions, sh \in Shares : view[s][sh] # "none" =>
    LET b == config.shares[sh]  cred == who[s].cred
    IN /\ On(b.allow, cred)
       /\ view[s][sh] = "write" => ~b.readOnly /\ On(b.writers, cred)
       /\ restricted(b) => cred.type # "none"
       /\ who[s].p.federated => Known(cred)
       /\ b.protocols = {} \/ who[s].proto \in b.protocols
       /\ who[s].proto = "sftp" /\ cred.type \in {"local", "provider"} /\ config.sshDomains =>
            cred.grant \notin {"elsewhere", "malformed"}

\* The three rules of a share are answered the same way by every protocol:
\* who was let in gets every share that protocol carries and the lists give
\* them, and writes it where the lists let them, except over S3.  A share
\* served as its people is theirs when they have an account.
EveryProtocolTheSame ==
  \A s \in Sessions : who[s] # Nobody =>
    \A sh \in exports(Process(config, who[s].proto), who[s].proto) :
      LET b == config.shares[sh]  cred == who[s].cred
      IN \/ b.system /\ who[s].worker = {}
         \/ restricted(b) /\ who[s].p = Anonymous
         \/ ~On(b.allow, cred)
         \/ view[s][sh] = IF b.readOnly \/ ~On(b.writers, cred) \/ who[s].proto = "s3" THEN "read" ELSE "write"

\* A worker is a person's own account and nobody else's: the directory's word
\* about them before the host's and never a mixture, never root or what
\* setresuid reads as "leave it", never a denied account, in no group that is
\* root's or the system's, and never for a name that is only the provider's.
WorkerAsThem ==
  \A s \in Sessions : who[s] # Nobody =>
    \A w \in who[s].worker : \A pol \in config.identity :
      LET e == config.entries[who[s].cred.name]
      IN /\ w.uid >= pol.minUID /\ w.uid # NoChange /\ w.uid \notin pol.denyUIDs
         /\ \A g \in w.groups \cup {w.gid} : g >= pol.minGID /\ g # NoChange
         /\ \/ /\ e.us = <<w.uid>> /\ e.gs = <<w.gid>>
               /\ \A g \in w.groups : g = w.gid \/ <<g>> \in e.groups \cup e.listed
            \/ /\ e.us = <<>> /\ e.gs = <<>>
               /\ \E a \in e.passwd : /\ a.uid = w.uid /\ a.gid = w.gid
                                      /\ w.groups \subseteq a.groups \cup {a.gid}
         /\ who[s].cred.type \in {"token", "provider", "opkssh"} => config.localNames
=============================================================================
