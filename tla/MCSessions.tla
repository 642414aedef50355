----------------------------- MODULE MCSessions -----------------------------
(***************************************************************************)
(* Sessions on small instances of three kinds: every combination of the    *)
(* ways in and of the lists one share can have, with one session; every    *)
(* shape of a person's account, with a share served as its people; and     *)
(* three configurations, two of them isolated, where three requests of two *)
(* sessions are at work over an image with random access and one without,  *)
(* whose files do not all fit in memory.                                   *)
(***************************************************************************)
EXTENDS Sessions, TLC

\* t1 and t2 belong to s1, t3 to s2.
CONSTANTS t1, t2, t3, s1, s2
Owners == [t \in Threads |-> IF t = t3 THEN s2 ELSE s1]
FewHandles == [s \in Sessions |-> IF s = s1 THEN 2 ELSE 1]
Symmetry == Permutations({t1, t2})

Scopes == [n \in {"", "alice", "bob", "olga"} |-> IF n = "olga" THEN "univ" ELSE ""]

N(n) == [kind |-> "name", value |-> n]
R(k, v) == [kind |-> k, value |-> v]
Block(allow, writers, readOnly, protocols) ==
  [allow |-> allow, writers |-> writers, readOnly |-> readOnly, protocols |-> protocols,
   system |-> FALSE, directory |-> FALSE, source |-> "a.img"]
Other(block) == [block EXCEPT !.source = "b.img"]
NoAccount == [us |-> <<>>, gs |-> <<>>, groups |-> {}, listed |-> {}, passwd |-> {}]

\* Two people in the file, a provider with its CA, and both shares open.
Base ==
  [serves |-> {"smb", "webdav", "nfs", "sftp", "s3"}, isolate |-> FALSE,
   users |-> TRUE, declares |-> TRUE, people |-> {"alice", "bob"},
   holds |-> [alice |-> {"password", "keys"}, bob |-> {"verifier", "nthash"}],
   ca |-> TRUE, sshDomains |-> FALSE, acceptUngranted |-> FALSE,
   kerberos |-> FALSE, nfsCert |-> FALSE,
   oidc |-> TRUE, localNames |-> FALSE, trustAll |-> FALSE, domains |-> {}, sshCA |-> TRUE, opkssh |-> TRUE,
   identity |-> {}, entries |-> [n \in {"", "alice", "bob", "olga"} |-> NoAccount],
   shares |-> [image |-> Block({}, {}, FALSE, {}), whole |-> Other(Block({}, {}, TRUE, {}))]]

\* The lists a share can have, and what may be written in them.
Lists == {{}, {N("alice")}, {N("bob")}, {R("user", "alice")}, {R("groups", "g")}, {R("domain", "univ")},
          {N("alice"), N("bob"), R("groups", "g")}}
Blocks ==
  {Block(a, w, ro, ps) : a \in Lists, w \in {{}, {N("alice")}, {R("groups", "g")}, {R("user", "alice")}},
                         ro \in BOOLEAN, ps \in {{}, {"nfs"}, {"sftp"}}}

\* The ways in, without the provider and with what it is trusted for.
Providers(cfg) ==
  {[cfg EXCEPT !.oidc = FALSE, !.sshCA = FALSE, !.opkssh = FALSE]}
  \cup {[cfg EXCEPT !.localNames = ln, !.trustAll = ta, !.domains = ds] :
          ln \in BOOLEAN, ta \in BOOLEAN, ds \in {{}, {"univ"}}}
WaysIn ==
  UNION {Providers([Base EXCEPT !.kerberos = k, !.nfsCert = n, !.isolate = i]) :
           k \in BOOLEAN, n \in BOOLEAN, i \in BOOLEAN}
  \cup UNION {Providers([Base EXCEPT !.sshDomains = TRUE, !.acceptUngranted = u]) : u \in BOOLEAN}
  \cup UNION {Providers([Base EXCEPT !.users = FALSE, !.declares = d, !.people = {}]) : d \in BOOLEAN}

Accessed ==
  {[cfg EXCEPT !.shares.image = b, !.shares.whole = w] :
     cfg \in WaysIn, b \in Blocks,
     w \in {Other(Block({}, {}, TRUE, {})), Other(Block({R("domain", "univ")}, {}, TRUE, {"webdav", "sftp"}))}}

\* A share served as its people, and what can be known of one.
AsThem ==
  LET own == [Base EXCEPT !.serves = {"sftp", "webdav"}, !.shares.image.system = TRUE, !.shares.image.directory = TRUE,
                          !.identity = {[minUID |-> 3, minGID |-> 3, denyUIDs |-> {5}]}]
  IN {[cfg EXCEPT !.entries.alice = [us |-> us, gs |-> gs, groups |-> g[1], listed |-> g[2], passwd |-> pw]] :
        cfg \in {x \in Providers(own) : x.domains = {} /\ x.trustAll # x.localNames},
        us \in {<<>>, <<0>>, <<2>>, <<4>>, <<5>>, <<NoChange>>, <<NoChange + 1>>, <<4, 4>>},
        gs \in {<<>>, <<0>>, <<4>>, <<NoChange>>},
        g \in {<<{}, {}>>, <<{<<0>>, <<2>>}, {<<4>>, <<>>}>>, <<{<<6>>}, {<<NoChange>>}>>,
                <<{<<4>>}, {<<NoChange + 1>>}>>, <<{<<4, 6>>}, {}>>},
        pw \in {{}, {[uid |-> 4, gid |-> 4, groups |-> {0, 2, 4, 6}]}, {[uid |-> 0, gid |-> 0, groups |-> {0}]}}}

\* Several sessions at work, in one process and in two, one of which has both
\* shares on one image; the last two are refused.
Crowd ==
  LET two == [Base EXCEPT !.serves = {"sftp", "webdav"}, !.ca = FALSE]
  IN {[two EXCEPT !.shares.image = Block({N("alice"), R("user", "olga")}, {N("alice")}, FALSE, {}),
                  !.shares.whole = Other(Block({}, {R("user", "olga")}, FALSE, {}))],
      [two EXCEPT !.isolate = TRUE, !.shares.image = Block({N("alice")}, {N("alice")}, FALSE, {"sftp"})],
      [two EXCEPT !.isolate = TRUE, !.shares.image = Block({N("alice")}, {N("alice")}, FALSE, {"sftp"}),
                  !.shares.whole = Block({N("alice")}, {}, FALSE, {"webdav"})],
      [two EXCEPT !.isolate = TRUE, !.shares.image = Block({N("alice")}, {N("alice")}, FALSE, {})],
      [two EXCEPT !.shares.whole = Block({N("alice")}, {}, FALSE, {"webdav"})]}

AllConfigs == Accessed \cup AsThem \cup Crowd

Cred(type, name, groups, realm, grant) ==
  [type |-> type, name |-> name, groups |-> groups, realm |-> realm, grant |-> grant]
GroupsOf(n) == IF n = "olga" THEN {"g"} ELSE {}
Plain(type, n) == Cred(type, n, {}, "", "none")

\* What alice, bob, the provider's alice and olga, another realm's alice and a
\* stranger can prove.
Presented(cfg) ==
  IF cfg \in Crowd
    THEN {Plain("key", "alice"), Plain("password", "alice"), Cred("provider", "olga", {"g"}, "", "here")}
  ELSE {Plain("none", "")}
    \cup {Plain("password", n) : n \in {"alice", "bob"}} \cup {Plain("key", "alice")}
    \cup {Cred("local", "alice", {}, "", g) : g \in {"none", "here", "elsewhere", "malformed"}}
    \cup {Cred("provider", n, GroupsOf(n), "", g) : n \in {"alice", "olga"}, g \in {"none", "here", "elsewhere"}}
    \cup {Cred(t, n, GroupsOf(n), "", "none") : t \in {"token", "opkssh", "client"}, n \in {"alice", "olga"}}
    \cup {Cred("ticket", "alice", {}, r, "none") : r \in {"ours", "theirs"}}
=============================================================================
