------------------------------ MODULE Gateway -------------------------------
(***************************************************************************)
(* The DNS side of teenDNS (internal/gateway): DNS-over-TLS connections    *)
(* and DNS-over-HTTPS requests, each a goroutine, that look a profile up   *)
(* in the published policy store, decide a query, ask the upstream         *)
(* resolver, check the aliases of its answer, and write one event to three *)
(* sinks in turn (the JSON log, the counters of the panel, the digest).    *)
(* Policies are published, and time passes, between any two of their steps.*)
(*                                                                         *)
(* A profile's policy is the table of its decisions, decide[instant][name] *)
(* (module PolicyDecision says how DecideAt computes it).  The expression  *)
(* m.store.Load() of policy.Manager is one atomic read of "store".         *)
(*                                                                         *)
(* A definition whose comment begins with "Bug:" is not part of the        *)
(* specification: it is a plausible mistake in the definition after it.    *)
(***************************************************************************)
EXTENDS Integers, Sequences, FiniteSets

CONSTANTS
    Connections,   \* DNS-over-TLS connections, one client each
    DohRequests,   \* DNS-over-HTTPS request handlers
    Hostnames,     \* endpoints, named by the SNI or by the label of the path
    Endpoint,      \* Endpoint[c]: the endpoint that client c uses
    Names,         \* domain names
    PairingName,   \* the name of the current pairing challenge
    Malformed,     \* a message that resolve answers with FORMERR
    ProfileIDs,
    Categories,
    Uncategorized, \* the empty category of a decision
    Unmatched,     \* the empty MatchedDomain of a decision
    Profiles,      \* profiles that the published stores may hold
    NoProfile,     \* the result of a failed lookup
    AliasSets,     \* the sets of CNAME targets that the upstream may answer
    LastInstant,   \* bound on the clock
    MaxEvents      \* bound on the number of logged messages

Clients == Connections \union DohRequests
Instants == 0 .. LastInstant
Actions == {"allow", "block", "observe"}

Decisions == [action : Actions,
              category : Categories \union {Uncategorized},
              domain : Names \union {Unmatched}]

ASSUME ClientsAssumption ==
    /\ Connections \cap DohRequests = {}
    /\ Endpoint \in [Clients -> Hostnames]

ASSUME NamesAssumption ==
    /\ PairingName \in Names
    /\ Malformed \notin Names
    /\ Uncategorized \notin Categories
    /\ Unmatched \notin Names
    /\ {"none", "open"} \cap ProfileIDs = {}
    /\ AliasSets \subseteq SUBSET Names

ASSUME ProfileIDsAssumption == ProfileIDs # {}

ASSUME BoundsAssumption == LastInstant \in Nat /\ MaxEvents \in Nat

ASSUME ProfilesAssumption ==
    /\ Profiles \subseteq
          [id : ProfileIDs, hostname : Hostnames,
           decide : [Instants -> [Names -> Decisions]]]
    /\ NoProfile \notin Profiles

VARIABLES
    store,      \* the published policy.Store: hostname -> profile
    clock,      \* time.Now()
    challenge,  \* pairing: "none", "open", or the profile that resolved it
    pc,         \* pc[c]: where the goroutine of client c is
    profile,    \* profile[c]: its local variable "profile"
    query,      \* query[c]: the question of the message it is answering
    event,      \* event[c]: the event it is building
    targets,    \* targets[c]: the CNAME targets of the upstream's answer
    unchecked,  \* unchecked[c]: those blockedAlias has not looked at
    response,   \* response[c]: what it will send
    log,        \* lines written by EventWriter
    lost,       \* history: events whose line EventWriter did not write
    summary,    \* EventBuffer.profiles
    observed,   \* counters of the digest store
    forgotten,  \* history: counts that the digest store has deleted
    inForce     \* history: what Endpoint[c] led to since c's message was read

gatewayVars == <<profile, query, event, targets, unchecked, response>>
sinkVars == <<log, lost, summary, observed, forgotten>>
worldVars == <<store, clock, challenge>>
vars == <<store, clock, challenge, pc, profile, query, event, targets,
          unchecked, response, log, lost, summary, observed, forgotten, inForce>>

(* Profile(hostname), and ProfileLabel for the first label of one.  NewStore *)
(* files a profile under its own hostname only.                             *)
Served(host) == {p \in Profiles : p.hostname = host} \union {NoProfile}

Lookups == Profiles \union {NoProfile}
Stores == {s \in [Hostnames -> Lookups] : \A host \in Hostnames : s[host] \in Served(host)}
Events == [time : Instants, profile : ProfileIDs, query : Names,
           action : Actions, category : Categories \union {Uncategorized},
           domain : Names \union {Unmatched}]
Responses == {"none", "formerr", "nxdomain", "servfail", "answer"}

(* Stages of resolve after the decision, and those that write the event.    *)
Writing == {"log", "summary", "digest"}
Resolving == {"upstream", "aliases"} \union Writing
Busy == {"read", "body", "resolve", "respond"} \union Resolving

Summaries == [total : Nat, blocked : Nat, observed : Nat,
              categories : [Categories \union {Uncategorized} -> Nat]]

NoEvent == [time |-> 0, profile |-> CHOOSE id \in ProfileIDs : TRUE,
            query |-> PairingName, action |-> "allow",
            category |-> Uncategorized, domain |-> Unmatched]

TypeOK ==
    /\ store \in Stores
    /\ clock \in Instants
    /\ challenge \in {"none", "open"} \union ProfileIDs
    /\ pc \in [Clients -> {"closed", "reading"} \union Busy]
    /\ profile \in [Clients -> Lookups]
    /\ query \in [Clients -> Names \union {Malformed}]
    /\ event \in [Clients -> Events]
    /\ targets \in [Clients -> SUBSET Names]
    /\ unchecked \in [Clients -> SUBSET Names]
    /\ response \in [Clients -> Responses]
    /\ log \in Seq(Events)
    /\ lost \in Seq(Events)
    /\ summary \in [ProfileIDs -> Summaries]
    /\ observed \in [ProfileIDs \X Names -> Nat]
    /\ forgotten \in [ProfileIDs \X Names -> Nat]
    /\ inForce \in [Clients -> SUBSET Lookups]

Init ==
    /\ store \in Stores
    /\ clock = 0
    /\ challenge = "none"
    /\ pc = [c \in Clients |-> "closed"]
    /\ profile = [c \in Clients |-> NoProfile]
    /\ query = [c \in Clients |-> Malformed]
    /\ event = [c \in Clients |-> NoEvent]
    /\ targets = [c \in Clients |-> {}]
    /\ unchecked = [c \in Clients |-> {}]
    /\ response = [c \in Clients |-> "none"]
    /\ log = <<>>
    /\ lost = <<>>
    /\ summary = [id \in ProfileIDs |->
                     [total |-> 0, blocked |-> 0, observed |-> 0,
                      categories |-> [k \in Categories \union {Uncategorized} |-> 0]]]
    /\ observed = [entry \in ProfileIDs \X Names |-> 0]
    /\ forgotten = [entry \in ProfileIDs \X Names |-> 0]
    /\ inForce = [c \in Clients |-> {}]

-----------------------------------------------------------------------------
(* handleConnection: TLS handshake and first lookup.  An unknown endpoint   *)
(* closes the connection at once.                                           *)
Handshake(c) ==
    /\ c \in Connections
    /\ pc[c] = "closed"
    /\ store[Endpoint[c]] # NoProfile
    /\ pc' = [pc EXCEPT ![c] = "reading"]
    /\ profile' = [profile EXCEPT ![c] = store[Endpoint[c]]]
    /\ UNCHANGED <<query, event, targets, unchecked, response>>
    /\ UNCHANGED <<worldVars, sinkVars, inForce>>

(* The handler of client c returns; its local variables are gone. *)
Ends(c) ==
    /\ pc' = [pc EXCEPT ![c] = "closed"]
    /\ profile' = [profile EXCEPT ![c] = NoProfile]
    /\ query' = [query EXCEPT ![c] = Malformed]
    /\ event' = [event EXCEPT ![c] = NoEvent]
    /\ targets' = [targets EXCEPT ![c] = {}]
    /\ unchecked' = [unchecked EXCEPT ![c] = {}]
    /\ response' = [response EXCEPT ![c] = "none"]
    /\ inForce' = [inForce EXCEPT ![c] = {}]

BelowBound ==
    Len(log) + Len(lost) + Cardinality({c \in Clients : pc[c] \in Busy}) < MaxEvents

(* dns.Conn.ReadMsg returns a message. *)
ReadMsg(c) ==
    /\ pc[c] = "reading"
    /\ BelowBound
    /\ \E question \in Names \union {Malformed} :
          query' = [query EXCEPT ![c] = question]
    /\ pc' = [pc EXCEPT ![c] = "read"]
    /\ inForce' = [inForce EXCEPT ![c] = {store[Endpoint[c]]}]
    /\ UNCHANGED <<profile, event, targets, unchecked, response>>
    /\ UNCHANGED <<worldVars, sinkVars>>

(* ReadMsg fails: the client hung up or the deadline of 30 s passed. *)
ReadFails(c) ==
    /\ pc[c] = "reading"
    /\ Ends(c)
    /\ UNCHANGED <<worldVars, sinkVars>>

(* Bug: the profile of the handshake serves the whole connection. *)
Lookup_AtHandshakeOnly(c) ==
    /\ pc[c] = "read"
    /\ pc' = [pc EXCEPT ![c] = "resolve"]
    /\ UNCHANGED <<worldVars, gatewayVars, sinkVars, inForce>>

(* The lookup that handleConnection repeats for every message. *)
Lookup(c) ==
    /\ pc[c] = "read"
    /\ \/ /\ store[Endpoint[c]] # NoProfile
          /\ profile' = [profile EXCEPT ![c] = store[Endpoint[c]]]
          /\ pc' = [pc EXCEPT ![c] = "resolve"]
          /\ UNCHANGED <<query, event, targets, unchecked, response, inForce>>
       \/ /\ store[Endpoint[c]] = NoProfile
          /\ Ends(c)
    /\ UNCHANGED <<worldVars, sinkVars>>

(* handleDoH: the profile is looked up when the request arrives, before the *)
(* body is read; an unknown label is answered 404 and nothing else happens. *)
DohRequest(c) ==
    /\ c \in DohRequests
    /\ pc[c] = "closed"
    /\ BelowBound
    /\ store[Endpoint[c]] # NoProfile
    /\ profile' = [profile EXCEPT ![c] = store[Endpoint[c]]]
    /\ inForce' = [inForce EXCEPT ![c] = {store[Endpoint[c]]}]
    /\ pc' = [pc EXCEPT ![c] = "body"]
    /\ UNCHANGED <<query, event, targets, unchecked, response>>
    /\ UNCHANGED <<worldVars, sinkVars>>

(* dohRequestMessage and Unpack: the message, or an HTTP error. *)
DohMessage(c) ==
    /\ pc[c] = "body"
    /\ \/ /\ \E question \in Names \union {Malformed} :
                query' = [query EXCEPT ![c] = question]
          /\ pc' = [pc EXCEPT ![c] = "resolve"]
          /\ UNCHANGED <<profile, event, targets, unchecked, response, inForce>>
       \/ Ends(c)
    /\ UNCHANGED <<worldVars, sinkVars>>

-----------------------------------------------------------------------------
Respond(c, rcode) ==
    /\ pc' = [pc EXCEPT ![c] = "respond"]
    /\ response' = [response EXCEPT ![c] = rcode]

(* resolve, a message without exactly one well-formed question. *)
ResolveMalformed(c) ==
    /\ pc[c] = "resolve"
    /\ query[c] = Malformed
    /\ Respond(c, "formerr")
    /\ UNCHANGED <<profile, query, event, targets, unchecked>>
    /\ UNCHANGED <<worldVars, sinkVars, inForce>>

Claims(c) == query[c] = PairingName /\ challenge # "none"

(* Bug: a later profile takes the challenge over. *)
ResolvePairing_Rebinds(c) ==
    /\ pc[c] = "resolve"
    /\ Claims(c)
    /\ challenge' = profile[c].id
    /\ Respond(c, "nxdomain")
    /\ UNCHANGED <<store, clock, profile, query, event, targets, unchecked>>
    /\ UNCHANGED <<sinkVars, inForce>>

(* resolve, a pending pairing challenge: Observe binds it to the profile    *)
(* that resolves it first, and the query is neither forwarded nor logged.   *)
ResolvePairing(c) ==
    /\ pc[c] = "resolve"
    /\ Claims(c)
    /\ challenge' = IF challenge = "open" THEN profile[c].id ELSE challenge
    /\ Respond(c, "nxdomain")
    /\ UNCHANGED <<store, clock, profile, query, event, targets, unchecked>>
    /\ UNCHANGED <<sinkVars, inForce>>

(* resolve, any other question: the decision and the event. *)
ResolveDecide(c) ==
    LET decision == profile[c].decide[clock][query[c]]
    IN /\ pc[c] = "resolve"
       /\ query[c] # Malformed
       /\ ~ Claims(c)
       /\ event' = [event EXCEPT ![c] =
             [time |-> clock, profile |-> profile[c].id, query |-> query[c],
              action |-> decision.action, category |-> decision.category,
              domain |-> decision.domain]]
       /\ \/ /\ decision.action = "block"
             /\ response' = [response EXCEPT ![c] = "nxdomain"]
             /\ pc' = [pc EXCEPT ![c] = "log"]
          \/ /\ decision.action # "block"
             /\ pc' = [pc EXCEPT ![c] = "upstream"]
             /\ UNCHANGED response
       /\ UNCHANGED <<profile, query, targets, unchecked>>
       /\ UNCHANGED <<worldVars, sinkVars, inForce>>

(* Bug: the exchange has no timeout. *)
ExchangeFails_Never(c) == FALSE /\ UNCHANGED vars

(* client.Exchange fails, or its 3 s pass. *)
ExchangeFails(c) ==
    /\ pc[c] = "upstream"
    /\ response' = [response EXCEPT ![c] = "servfail"]
    /\ pc' = [pc EXCEPT ![c] = "log"]
    /\ UNCHANGED <<profile, query, event, targets, unchecked>>
    /\ UNCHANGED <<worldVars, sinkVars, inForce>>

(* The upstream answers, with any CNAME targets among its records. *)
ExchangeAnswers(c) ==
    /\ pc[c] = "upstream"
    /\ \E aliases \in AliasSets :
          /\ targets' = [targets EXCEPT ![c] = aliases]
          /\ unchecked' = [unchecked EXCEPT ![c] = aliases]
    /\ pc' = [pc EXCEPT ![c] = "aliases"]
    /\ UNCHANGED <<profile, query, event, response>>
    /\ UNCHANGED <<worldVars, sinkVars, inForce>>

(* A blocked target replaces the action and the category of the event; the  *)
(* domain, reason and group of the first decision stay.                     *)
redirected(e, decision) ==
    [time |-> e.time, profile |-> e.profile, query |-> e.query,
     action |-> decision.action, category |-> decision.category,
     domain |-> e.domain]

(* Bug: only the first alias of the answer is looked at. *)
CheckAlias_FirstOnly(c) ==
    /\ pc[c] = "aliases"
    /\ \E alias \in unchecked[c] :
          LET decision == profile[c].decide[clock][alias]
          IN IF decision.action = "block"
             THEN /\ event' = [event EXCEPT ![c] = redirected(@, decision)]
                  /\ response' = [response EXCEPT ![c] = "nxdomain"]
                  /\ pc' = [pc EXCEPT ![c] = "log"]
                  /\ UNCHANGED unchecked
             ELSE /\ unchecked' = [unchecked EXCEPT ![c] = {}]
                  /\ UNCHANGED <<event, response, pc>>
    /\ UNCHANGED <<profile, query, targets>>
    /\ UNCHANGED <<worldVars, sinkVars, inForce>>

(* Bug: the event keeps the decision made for the queried name. *)
CheckAlias_EventKept(c) ==
    /\ pc[c] = "aliases"
    /\ \E alias \in unchecked[c] :
          IF profile[c].decide[clock][alias].action = "block"
          THEN /\ response' = [response EXCEPT ![c] = "nxdomain"]
               /\ pc' = [pc EXCEPT ![c] = "log"]
               /\ UNCHANGED <<event, unchecked>>
          ELSE /\ unchecked' = [unchecked EXCEPT ![c] = @ \ {alias}]
               /\ UNCHANGED <<event, response, pc>>
    /\ UNCHANGED <<profile, query, targets>>
    /\ UNCHANGED <<worldVars, sinkVars, inForce>>

(* blockedAlias, one record: its target is decided at the time of the check.*)
CheckAlias(c) ==
    /\ pc[c] = "aliases"
    /\ \E alias \in unchecked[c] :
          LET decision == profile[c].decide[clock][alias]
          IN \/ /\ decision.action = "block"
                /\ event' = [event EXCEPT ![c] = redirected(@, decision)]
                /\ response' = [response EXCEPT ![c] = "nxdomain"]
                /\ pc' = [pc EXCEPT ![c] = "log"]
                /\ UNCHANGED unchecked
             \/ /\ decision.action # "block"
                /\ unchecked' = [unchecked EXCEPT ![c] = @ \ {alias}]
                /\ UNCHANGED <<event, response, pc>>
    /\ UNCHANGED <<profile, query, targets>>
    /\ UNCHANGED <<worldVars, sinkVars, inForce>>

AliasesDone(c) ==
    /\ pc[c] = "aliases"
    /\ unchecked[c] = {}
    /\ response' = [response EXCEPT ![c] = "answer"]
    /\ pc' = [pc EXCEPT ![c] = "log"]
    /\ UNCHANGED <<profile, query, event, targets, unchecked>>
    /\ UNCHANGED <<worldVars, sinkVars, inForce>>

-----------------------------------------------------------------------------
(* MultiEventSink.Write: the sinks one after the other, each under its lock.*)

(* Bug: an event whose line is lost reaches no other sink. *)
WriteLog_StopsAtError(c) ==
    /\ pc[c] = "log"
    /\ \/ /\ lost = <<>>
          /\ log' = Append(log, event[c])
          /\ pc' = [pc EXCEPT ![c] = "summary"]
          /\ UNCHANGED lost
       \/ /\ lost' = Append(lost, event[c])
          /\ pc' = [pc EXCEPT ![c] = "respond"]
          /\ UNCHANGED log
    /\ UNCHANGED <<worldVars, gatewayVars, summary, observed, forgotten, inForce>>

(* EventWriter.Write.  The encoder may fail to write the line, and then     *)
(* keeps its error and writes none after it; the error is only reported.    *)
WriteLog(c) ==
    /\ pc[c] = "log"
    /\ \/ /\ lost = <<>>
          /\ log' = Append(log, event[c])
          /\ UNCHANGED lost
       \/ /\ lost' = Append(lost, event[c])
          /\ UNCHANGED log
    /\ pc' = [pc EXCEPT ![c] = "summary"]
    /\ UNCHANGED <<worldVars, gatewayVars, summary, observed, forgotten, inForce>>

(* The body of EventBuffer.Write.  The code counts an uncategorized event   *)
(* under "unknown", both in the list of categories and in a field Unknown.  *)
counted(s, e) ==
    [total |-> s.total + 1,
     blocked |-> IF e.action = "block" THEN s.blocked + 1 ELSE s.blocked,
     observed |-> IF e.action = "observe" THEN s.observed + 1 ELSE s.observed,
     categories |-> [s.categories EXCEPT ![e.category] = @ + 1]]

(* EventBuffer.Write. *)
WriteSummary(c) ==
    /\ pc[c] = "summary"
    /\ summary' = [summary EXCEPT ![event[c].profile] = counted(@, event[c])]
    /\ pc' = [pc EXCEPT ![c] = "digest"]
    /\ UNCHANGED <<worldVars, gatewayVars, log, lost, observed, forgotten, inForce>>

(* The events that digest.Store.Write keeps. *)
Accumulates(e) == e.action = "observe" /\ e.domain # Unmatched

(* digest.Store.Write. *)
WriteDigest(c) ==
    /\ pc[c] = "digest"
    /\ observed' = IF Accumulates(event[c])
                   THEN [observed EXCEPT ![<<event[c].profile, event[c].domain>>] = @ + 1]
                   ELSE observed
    /\ pc' = [pc EXCEPT ![c] = "respond"]
    /\ UNCHANGED <<worldVars, gatewayVars, log, lost, summary, forgotten, inForce>>

(* WriteMsg, or the end of the HTTP request: the response is sent, or the   *)
(* client is gone.                                                          *)
Send(c) ==
    /\ pc[c] = "respond"
    /\ \/ /\ c \in Connections
          /\ pc' = [pc EXCEPT ![c] = "reading"]
          /\ query' = [query EXCEPT ![c] = Malformed]
          /\ event' = [event EXCEPT ![c] = NoEvent]
          /\ targets' = [targets EXCEPT ![c] = {}]
          /\ unchecked' = [unchecked EXCEPT ![c] = {}]
          /\ response' = [response EXCEPT ![c] = "none"]
          /\ inForce' = [inForce EXCEPT ![c] = {}]
          /\ UNCHANGED profile
       \/ Ends(c)
    /\ UNCHANGED <<worldVars, sinkVars>>

-----------------------------------------------------------------------------
(* policy.Manager.Replace, called by the control plane: the pointer to the  *)
(* store is exchanged.                                                      *)
Publish ==
    /\ \E host \in Hostnames : \E p \in Served(host) :
          store' = [store EXCEPT ![host] = p]
    /\ inForce' = [c \in Clients |->
                      IF pc[c] \in Busy THEN inForce[c] \union {store'[Endpoint[c]]}
                      ELSE inForce[c]]
    /\ UNCHANGED <<clock, challenge, pc, gatewayVars, sinkVars>>

Tick ==
    /\ clock < LastInstant
    /\ clock' = clock + 1
    /\ UNCHANGED <<store, challenge, pc, gatewayVars, sinkVars, inForce>>

(* pairing.Manager.Create, and cleanup when the challenge expires. *)
CreateChallenge ==
    /\ challenge = "none"
    /\ challenge' = "open"
    /\ UNCHANGED <<store, clock, pc, gatewayVars, sinkVars, inForce>>

ExpireChallenge ==
    /\ challenge # "none"
    /\ challenge' = "none"
    /\ UNCHANGED <<store, clock, pc, gatewayVars, sinkVars, inForce>>

(* digest.Store.CompleteDigest and Forget, called by the scheduler after a  *)
(* mail and by the control plane when a house is deleted: the counts of the *)
(* profiles of a house are deleted (module Digest says when).               *)
DeleteCounts ==
    /\ \E ids \in SUBSET ProfileIDs :
          LET deleted == ids \X Names
          IN /\ observed' = [entry \in ProfileIDs \X Names |->
                                IF entry \in deleted THEN 0 ELSE observed[entry]]
             /\ forgotten' = [entry \in ProfileIDs \X Names |->
                                IF entry \in deleted THEN forgotten[entry] + observed[entry]
                                ELSE forgotten[entry]]
    /\ UNCHANGED <<worldVars, pc, gatewayVars, log, lost, summary, inForce>>

(* What the goroutine of a client does by itself once it has a message. *)
Resolve(c) ==
    \/ Lookup(c)
    \/ ResolveMalformed(c)
    \/ ResolvePairing(c)
    \/ ResolveDecide(c)
    \/ ExchangeFails(c)
    \/ CheckAlias(c)
    \/ AliasesDone(c)
    \/ WriteLog(c)
    \/ WriteSummary(c)
    \/ WriteDigest(c)
    \/ Send(c)

(* What it does when the client or the upstream sends something. *)
Receive(c) ==
    \/ Handshake(c)
    \/ ReadMsg(c)
    \/ ReadFails(c)
    \/ DohRequest(c)
    \/ DohMessage(c)
    \/ ExchangeAnswers(c)

Next ==
    \/ \E c \in Clients : Resolve(c) \/ Receive(c)
    \/ Publish
    \/ Tick
    \/ CreateChallenge
    \/ ExpireChallenge
    \/ DeleteCounts

(* A goroutine that can run does run, and the exchange with the upstream    *)
(* ends after at most 3 s: ExchangeFails is its timeout.                    *)
Fairness == \A c \in Clients : WF_vars(Resolve(c))

Spec == Init /\ [][Next]_vars /\ Fairness
-----------------------------------------------------------------------------
(* A message is answered from a profile that its endpoint led to at some    *)
(* moment between the message's arrival and the answer: a revoked endpoint, *)
(* or a replaced policy, never serves a message that arrives afterwards,    *)
(* however long the connection has been open.                               *)
AnswerUsesPolicyInForce ==
    \A c \in Clients :
        pc[c] \in (Busy \ {"read"}) => profile[c] \in inForce[c]

(* At some moment since the given one, p did not block the name. *)
LetThrough(p, name, since) ==
    \E t \in since .. clock : p.decide[t][name].action # "block"

(* What the client gets from the upstream leads to nothing the profile has  *)
(* blocked: neither the queried name nor any CNAME target was blocked       *)
(* during the whole time the query took ("CNAME não contorna bloqueio",     *)
(* docs/status.md), although a pause may begin while the upstream answers.  *)
NothingBlockedIsForwarded ==
    \A c \in Clients :
        response[c] = "answer" =>
            \A name \in {query[c]} \union targets[c] :
                LetThrough(profile[c], name, event[c].time)

(* The event tells what the client got: it is a block exactly when the      *)
(* client is told that the name does not exist, also when an alias was the  *)
(* reason, so a blocked query never counts as an observation.  (A name that *)
(* the upstream itself does not know is relayed, as an answer.)             *)
EventTellsAnswer ==
    \A c \in Clients :
        pc[c] \in Writing => (event[c].action = "block" <=> response[c] = "nxdomain")

(* Of the events of a kind: the lines in the log, those that were lost, and *)
(* the clients that are on their way from there to a later sink.            *)
OfKind(events, kind) == {i \in DOMAIN events : events[i] \in kind}
Waits(kind, stages) == {c \in Clients : pc[c] \in stages /\ event[c] \in kind}

LoggedIn(kind) == Cardinality(OfKind(log, kind))
LostIn(kind) == Cardinality(OfKind(lost, kind))
WaitingIn(kind, stages) == Cardinality(Waits(kind, stages))

Agrees(counter, kind, stages) ==
    counter + WaitingIn(kind, stages) = LoggedIn(kind) + LostIn(kind)

ToSummary == {"summary"}
ToDigest == {"summary", "digest"}

EventsOf(id) == {e \in Events : e.profile = id}
ActedOn(id, action) == {e \in Events : e.profile = id /\ e.action = action}
FiledUnder(id, k) == {e \in Events : e.profile = id /\ e.category = k}
Observed(id, name) == {e \in ActedOn(id, "observe") : e.domain = name}

(* The three sinks have three locks and are written one after the other,    *)
(* and still no event is counted twice or not at all, also when its line is *)
(* lost: for every profile, each counter of the panel, plus the events      *)
(* still to reach it, is the number of lines in the log and of lines lost;  *)
(* so are the counts of the digest, with those deleted after a mail or with *)
(* a house.                                                                 *)
SinksAgree ==
    \A id \in ProfileIDs :
        /\ Agrees(summary[id].total, EventsOf(id), ToSummary)
        /\ Agrees(summary[id].blocked, ActedOn(id, "block"), ToSummary)
        /\ Agrees(summary[id].observed, ActedOn(id, "observe"), ToSummary)
        /\ \A k \in Categories \union {Uncategorized} :
              Agrees(summary[id].categories[k], FiledUnder(id, k), ToSummary)
        /\ \A name \in Names :
              Agrees(observed[<<id, name>>] + forgotten[<<id, name>>],
                     Observed(id, name), ToDigest)

(* A pairing challenge that a profile has resolved stays with that profile  *)
(* until it expires, whoever resolves its name later.                       *)
ChallengeStaysBound ==
    [][(challenge \in ProfileIDs) => challenge' \in {challenge, "none"}]_vars

(* Every message a connection has read is answered, or the connection is    *)
(* closed, also when the upstream never answers.                            *)
EveryMessageEnds ==
    \A c \in Clients : pc[c] = "read" ~> pc[c] \in {"reading", "closed"}
=============================================================================
