--------------------------- MODULE SharedSignals ---------------------------
(***************************************************************************)
(* The shared signals receiver (ssf.go) and the revocations it keeps       *)
(* (caep.go).                                                              *)
(*                                                                         *)
(* The transmitter is external.  It puts an event on the receiver's stream *)
(* when a person is revoked, answers a poll with every event that was not  *)
(* acknowledged, and forgets those that were.  All events of this model    *)
(* are about one person.  Signatures are external: a SET verifies or,      *)
(* whatever the keys fetched again say, does not.                          *)
(***************************************************************************)
EXTENDS Clock

CONSTANTS MaxEvents,     \* bound: revocations the provider makes
          MaxStreams,    \* bound: streams made at the transmitter
          Subjects,      \* the ways events name the person
          SignalMaxAge,  \* max_age
          Retain,        \* retain
          PollTime       \* how long a poll may take to be consumed

ASSUME SignalsAssumption ==
  /\ MaxEvents \in Nat /\ MaxStreams \in Nat \ {0} /\ SignalMaxAge \in Nat
  /\ Retain \in Nat /\ PollTime \in Nat
  /\ Subjects \subseteq {"account", "iss_sub", "aliases", "tenant", "unmappable"}

VARIABLES
  emitted,   \* the provider's revocations: number -> when, and of what subject
  tStream,   \* the transmitter's stream of this receiver, 0 for none
  since,     \* when that stream was made
  queue,     \* the events on it nobody acknowledged
  acked,     \* the events that were, and are forgotten there
  entries,   \* store.entries: key -> revoked at
  stream,    \* store.stream
  heard,     \* store.heard
  kept,      \* the state file: entries and stream
  poll,      \* where the poller is
  acks       \* what its next request acknowledges

providerVars == <<emitted, tStream, since, queue, acked>>
storeVars == <<entries, stream, heard, kept>>
signalVars == <<providerVars, storeVars, poll, acks>>

\* The ways a subject is named, and the keys under which each is kept.
Keys == {"acct", "iss_sub", "scope"}

\* subjectID.keys, parseRevocation: an email is an account, an institution
\* is its scopes, and a subject that names nobody is refused for good.
keysOf(s) == CASE s = "account" -> {"acct"}
               [] s = "iss_sub" -> {"iss_sub"}
               [] s = "aliases" -> {"acct", "iss_sub"}
               [] s = "tenant" -> {"scope"}
               [] OTHER -> {}

Events == DOMAIN emitted
NoPoll == [at |-> "down", sets |-> {}, todo |-> {}, asked |-> Never]
Empty == [k \in Keys |-> Never]

SignalsInit ==
  /\ emitted = <<>> /\ since = Never /\ queue = {} /\ acked = {}
  /\ tStream \in {0, 1}          \* a first start, or one of many
  /\ entries = Empty /\ stream = tStream /\ heard = Never
  /\ kept = [entries |-> Empty, stream |-> tStream]
  /\ poll = NoPoll /\ acks = {}

\* The provider takes somebody back.
Emit(s) ==
  LET n == Cardinality(Events) + 1
  IN /\ n <= MaxEvents
     /\ emitted' = [e \in Events \cup {n} |-> IF e = n THEN [at |-> now, subject |-> s] ELSE emitted[e]]
     /\ queue' = IF tStream # 0 THEN queue \cup {n} ELSE queue
     /\ UNCHANGED <<tStream, since, acked, storeVars, poll, acks>>
-----------------------------------------------------------------------------
(***************************************************************************)
(* The store.                                                              *)
(***************************************************************************)

\* Mutant of prune: a revocation is kept for less than a credential lasts.
pruneEarly(f) == [k \in Keys |-> IF f[k] <= now - SignalMaxAge THEN Never ELSE f[k]]
prune(f) == [k \in Keys |-> IF f[k] < now - Retain THEN Never ELSE f[k]]

\* Mutant of revoked: the event last heard of counts, not the latest.
revokedLast(e) ==
  prune([k \in Keys |-> IF k \in keysOf(emitted[e].subject) THEN emitted[e].at ELSE entries[k]])

\* revoke, in memory.
revoked(e) ==
  prune([k \in Keys |-> IF k \in keysOf(emitted[e].subject) /\ emitted[e].at > entries[k]
                        THEN emitted[e].at ELSE entries[k]])

save == kept' = [entries |-> entries', stream |-> stream']
saveFails == kept' \in {kept, [entries |-> entries', stream |-> stream']}

heardOfLate == heard # Never /\ now - heard <= SignalMaxAge

\* check: of a credential issued at a moment, 0 when that is not known, to
\* somebody named by some of the keys.
check(keys, issued) ==
  IF ~heardOfLate THEN "unknown"
  ELSE IF \E k \in keys : entries[k] # Never /\ (issued = Never \/ issued <= entries[k])
       THEN "refused" ELSE "ok"
-----------------------------------------------------------------------------
(***************************************************************************)
(* A session with the transmitter: its stream, the one that was kept or a  *)
(* new one, then polls.                                                    *)
(***************************************************************************)
StreamKept ==
  /\ up /\ poll.at = "down"
  /\ stream # 0 /\ stream = tStream
  /\ poll' = [poll EXCEPT !.at = "idle"]
  /\ UNCHANGED <<providerVars, storeVars, acks>>

\* setStream: whether or not it could be saved, memory has it; only when it
\* was does the session go on.
StreamMade(saves) ==
  /\ up /\ poll.at = "down"
  /\ stream = 0 \/ stream # tStream
  /\ tStream < MaxStreams
  /\ tStream' = tStream + 1 /\ since' = now /\ queue' = {}
  /\ stream' = tStream + 1
  /\ UNCHANGED <<entries, heard, emitted, acked, acks>>
  /\ IF saves THEN save ELSE saveFails
  /\ poll' = IF saves THEN [poll EXCEPT !.at = "idle"] ELSE poll

\* The poll's request is answered: what it acknowledges is forgotten, the
\* rest of the queue is the answer.
Poll ==
  /\ up /\ poll.at = "idle" /\ stream = tStream
  /\ queue' = queue \ acks /\ acked' = acked \cup acks
  /\ poll' = [at |-> "consume", sets |-> queue', todo |-> queue', asked |-> now]
  /\ acks' = {}
  /\ UNCHANGED <<emitted, tStream, since, storeVars>>

\* The answer did not arrive, or the request did not.
PollLost ==
  /\ up /\ poll.at = "idle"
  /\ \/ queue' = queue \ acks /\ acked' = acked \cup acks
     \/ UNCHANGED <<queue, acked>>
  /\ UNCHANGED <<emitted, tStream, since, storeVars, poll, acks>>

RoundFails == poll' = [NoPoll EXCEPT !.at = "idle"]

\* consumingTransport: each SET is verified and read; a revocation is
\* written down, an event that revokes nobody passed over.
Consume(e) ==
  /\ up /\ poll.at = "consume" /\ e \in poll.todo
  /\ poll' = [poll EXCEPT !.todo = @ \ {e}]
  /\ IF keysOf(emitted[e].subject) = {}
     THEN UNCHANGED <<entries, kept>>
     ELSE entries' = revoked(e) /\ kept' = [entries |-> entries', stream |-> stream]
  /\ UNCHANGED <<providerVars, stream, heard, acks>>

\* A SET does not verify, or cannot be written down -- memory has it then:
\* the whole round fails.
ConsumeFails(e) ==
  /\ up /\ poll.at = "consume" /\ e \in poll.todo
  /\ \/ UNCHANGED <<entries, kept>>
     \/ /\ keysOf(emitted[e].subject) # {}
        /\ entries' = revoked(e) /\ kept' \in {kept, [entries |-> entries', stream |-> stream]}
  /\ RoundFails
  /\ UNCHANGED <<providerVars, stream, heard, acks>>

\* Mutant of HeardFrom: heard as soon as it answers.
HeardFromEarly ==
  /\ up /\ poll.at = "consume"
  /\ heard' = now
  /\ poll' = [at |-> "deliver", sets |-> {}, todo |-> poll.sets, asked |-> Never]
  /\ UNCHANGED <<providerVars, entries, stream, kept, acks>>

HeardFrom ==
  /\ up /\ poll.at = "consume" /\ poll.todo = {}
  /\ heard' = now
  /\ poll' = [at |-> "deliver", sets |-> {}, todo |-> poll.sets, asked |-> Never]
  /\ UNCHANGED <<providerVars, entries, stream, kept, acks>>

\* deliver, the poller's sink: written down once more, and acknowledged --
\* or, refused for good, reported, which the transmitter takes alike.
Deliver(e) ==
  /\ up /\ poll.at = "deliver" /\ e \in poll.todo
  /\ IF keysOf(emitted[e].subject) = {}
     THEN UNCHANGED <<entries, kept>>
     ELSE entries' = revoked(e) /\ kept' = [entries |-> entries', stream |-> stream]
  /\ acks' = acks \cup {e}
  /\ poll' = [poll EXCEPT !.todo = @ \ {e}]
  /\ UNCHANGED <<providerVars, stream, heard>>

DeliverFails(e) ==
  /\ up /\ poll.at = "deliver" /\ e \in poll.todo
  /\ keysOf(emitted[e].subject) # {}
  /\ entries' = revoked(e) /\ kept' \in {kept, [entries |-> entries', stream |-> stream]}
  /\ poll' = [poll EXCEPT !.todo = @ \ {e}]
  /\ UNCHANGED <<providerVars, stream, heard, acks>>

Delivered ==
  /\ up /\ poll.at = "deliver" /\ poll.todo = {}
  /\ RoundFails
  /\ UNCHANGED <<providerVars, storeVars, acks>>

\* A round takes at most PollTime.
PollInTime == poll.at # "consume" \/ now - poll.asked < PollTime
-----------------------------------------------------------------------------
\* openRevocationStore.
SignalsStart ==
  /\ entries' = kept.entries /\ stream' = kept.stream /\ heard' = Never
  /\ UNCHANGED <<providerVars, kept, poll, acks>>

SignalsStop ==
  /\ entries' = Empty /\ stream' = 0 /\ heard' = Never
  /\ poll' = NoPoll /\ acks' = {}
  /\ UNCHANGED <<providerVars, kept>>

PollStep ==
  \/ StreamKept \/ Poll \/ PollLost \/ HeardFrom \/ Delivered
  \/ \E saves \in BOOLEAN : StreamMade(saves)
  \/ \E e \in Events : Consume(e) \/ ConsumeFails(e) \/ Deliver(e) \/ DeliverFails(e)

IsEntries(f) == f \in [Keys -> Moments]

SignalsTypeOK ==
  /\ emitted \in [Events -> [at : Moments, subject : Subjects]]
  /\ tStream \in 0..MaxStreams /\ stream \in 0..MaxStreams /\ since \in Moments
  /\ queue \subseteq Events /\ acked \subseteq Events /\ acks \subseteq Events
  /\ IsEntries(entries) /\ IsEntries(kept.entries) /\ kept.stream \in 0..MaxStreams
  /\ heard \in Moments
  /\ poll \in [at : {"down", "idle", "consume", "deliver"},
               sets : SUBSET Events, todo : SUBSET Events, asked : Moments]
=============================================================================
