---------------------------- MODULE GatewayProofs ---------------------------
(***************************************************************************)
(* What holds of the gateway for every number of clients, endpoints, names *)
(* and profiles.  TypeOK is inductive; Consistent adds to it what resolve  *)
(* knows about its local variables at each of its stages, and the promises *)
(* of module Gateway to the client follow from it.                         *)
(***************************************************************************)
EXTENDS Gateway, FiniteSetTheorems, TLAPS

(* The event of a client that has none is an event.                         *)
LEMMA BlankEvent == NoEvent \in Events
  <1>1. (CHOOSE id \in ProfileIDs : TRUE) \in ProfileIDs
    BY ProfileIDsAssumption
  <1>2. 0 \in Instants
    BY BoundsAssumption DEF Instants
  <1> QED BY <1>1, <1>2, NamesAssumption DEF NoEvent, Events, Actions

(* Counting an event keeps a summary a summary.                              *)
LEMMA CountedType ==
    ASSUME NEW s \in Summaries, NEW e \in Events
    PROVE  counted(s, e) \in Summaries
  <1>1. s.total + 1 \in Nat /\ s.blocked + 1 \in Nat /\ s.observed + 1 \in Nat
    BY DEF Summaries
  <1>2. [s.categories EXCEPT ![e.category] = @ + 1]
           \in [Categories \union {Uncategorized} -> Nat]
    BY DEF Summaries, Events
  <1> QED BY <1>1, <1>2 DEF counted, Summaries

(* An event that a blocked alias redirects is still an event.               *)
LEMMA RedirectedType ==
    ASSUME NEW e \in Events, NEW d \in Decisions
    PROVE  redirected(e, d) \in Events
  BY DEF redirected, Events, Decisions

(* A handler that is past its first lookup has a profile.                   *)
HasProfile == \A c \in Clients : pc[c] # "closed" => profile[c] \in Profiles

TypeInv == TypeOK /\ HasProfile

(* A client's endpoint leads to a profile or to none.                       *)
LEMMA LookupType ==
    ASSUME TypeOK, NEW c \in Clients
    PROVE  store[Endpoint[c]] \in Lookups
  BY ClientsAssumption DEF TypeOK, Stores

(* The initial state has the types, and nobody is past a lookup.            *)
LEMMA TypeInit == Init => TypeInv
  <1> SUFFICES ASSUME Init PROVE TypeInv
    OBVIOUS
  <1>1. 0 \in Instants
    BY BoundsAssumption DEF Instants
  <1>2. summary \in [ProfileIDs -> Summaries]
    BY DEF Init, Summaries
  <1>3. log \in Seq(Events) /\ lost \in Seq(Events)
    BY DEF Init
  <1> QED BY <1>1, <1>2, <1>3, BlankEvent
          DEF Init, TypeInv, TypeOK, HasProfile, Responses, Lookups

(* The end of a connection or request keeps the types.                      *)
LEMMA EndsType ==
    ASSUME TypeInv, NEW c \in Clients, Ends(c),
           UNCHANGED <<worldVars, sinkVars>>
    PROVE  TypeInv'
  BY BlankEvent
  DEF TypeInv, TypeOK, HasProfile, Ends, worldVars, sinkVars, Lookups, Responses

(* A step of a client's goroutine keeps the types. *)
LEMMA ResolveType ==
    ASSUME TypeInv, NEW c \in Clients, Resolve(c)
    PROVE  TypeInv'
  <1> USE DEF TypeInv, TypeOK, HasProfile, worldVars, sinkVars,
              Busy, Resolving, Writing, Responses
  <1>1. CASE Lookup(c)
    <2>1. CASE Ends(c)
      BY <1>1, <2>1, EndsType DEF Lookup
    <2>2. CASE store[Endpoint[c]] # NoProfile
      BY <1>1, <2>2, LookupType DEF Lookup, Lookups
    <2> QED BY <1>1, <2>1, <2>2 DEF Lookup
  <1>2. CASE ResolveMalformed(c)
    BY <1>2 DEF ResolveMalformed, Respond
  <1>3. CASE ResolvePairing(c)
    <2>1. profile[c].id \in ProfileIDs
      BY <1>3, ProfilesAssumption DEF ResolvePairing
    <2> QED BY <1>3, <2>1 DEF ResolvePairing, Respond
  <1>4. CASE ResolveDecide(c)
    <2> DEFINE decision == profile[c].decide[clock][query[c]]
               fresh == [time |-> clock, profile |-> profile[c].id,
                         query |-> query[c], action |-> decision.action,
                         category |-> decision.category,
                         domain |-> decision.domain]
    <2>1. /\ profile[c].id \in ProfileIDs
          /\ decision \in Decisions
          /\ query[c] \in Names
      BY <1>4, ProfilesAssumption DEF ResolveDecide
    <2>2. fresh \in Events
      BY <2>1 DEF Events, Decisions
    <2>3. event' = [event EXCEPT ![c] = fresh]
      BY <1>4 DEF ResolveDecide
    <2>4. /\ pc' \in {[pc EXCEPT ![c] = "log"], [pc EXCEPT ![c] = "upstream"]}
          /\ response' \in {response, [response EXCEPT ![c] = "nxdomain"]}
          /\ pc[c] = "resolve"
          /\ UNCHANGED <<worldVars, sinkVars, inForce>>
          /\ UNCHANGED <<profile, query, targets, unchecked>>
      BY <1>4 DEF ResolveDecide
    <2> HIDE DEF fresh, decision
    <2> QED BY <2>2, <2>3, <2>4
  <1>5. CASE ExchangeFails(c)
    BY <1>5 DEF ExchangeFails
  <1>6. CASE CheckAlias(c)
    <2>1. PICK alias \in unchecked[c] :
             \/ /\ event' = [event EXCEPT
                       ![c] = redirected(@, profile[c].decide[clock][alias])]
                /\ response' = [response EXCEPT ![c] = "nxdomain"]
                /\ pc' = [pc EXCEPT ![c] = "log"]
                /\ UNCHANGED unchecked
             \/ /\ unchecked' = [unchecked EXCEPT ![c] = @ \ {alias}]
                /\ UNCHANGED <<event, response, pc>>
      BY <1>6 DEF CheckAlias
    <2>2. profile[c].decide[clock][alias] \in Decisions
      BY <1>6, ProfilesAssumption DEF CheckAlias
    <2>3. redirected(event[c], profile[c].decide[clock][alias]) \in Events
      BY <2>2, RedirectedType
    <2>4. pc[c] = "aliases" /\ UNCHANGED <<worldVars, sinkVars, inForce>>
                            /\ UNCHANGED <<profile, query, targets>>
      BY <1>6 DEF CheckAlias
    <2>5. event' \in [Clients -> Events]
      BY <2>1, <2>3
    <2>6. /\ response' \in [Clients -> Responses]
          /\ unchecked' \in [Clients -> SUBSET Names]
          /\ pc' \in [Clients -> {"closed", "reading"} \union Busy]
          /\ \A k \in Clients : pc'[k] # "closed" => pc[k] # "closed"
      BY <2>1, <2>4
    <2> QED BY <2>4, <2>5, <2>6
  <1>7. CASE AliasesDone(c)
    BY <1>7 DEF AliasesDone
  <1>8. CASE WriteLog(c)
    <2>1. event[c] \in Events
      OBVIOUS
    <2>2. log' \in Seq(Events) /\ lost' \in Seq(Events)
      <3>1. Append(log, event[c]) \in Seq(Events) /\ Append(lost, event[c]) \in Seq(Events)
        BY <2>1
      <3>2. log' \in {log, Append(log, event[c])} /\ lost' \in {lost, Append(lost, event[c])}
        BY <1>8 DEF WriteLog
      <3> QED BY <3>1, <3>2
    <2>3. /\ pc' = [pc EXCEPT ![c] = "summary"] /\ pc[c] = "log"
          /\ UNCHANGED <<worldVars, gatewayVars, summary, observed, forgotten, inForce>>
      BY <1>8 DEF WriteLog
    <2> QED BY <2>2, <2>3 DEF gatewayVars
  <1>9. CASE WriteSummary(c)
    <2>1. counted(summary[event[c].profile], event[c]) \in Summaries
      BY CountedType DEF Events
    <2>2. summary' \in [ProfileIDs -> Summaries]
      BY <1>9, <2>1 DEF WriteSummary
    <2> QED BY <1>9, <2>2 DEF WriteSummary, gatewayVars
  <1>10. CASE WriteDigest(c)
    <2>1. observed' \in [ProfileIDs \X Names -> Nat]
      <3>1. CASE Accumulates(event[c])
        <4>1. <<event[c].profile, event[c].domain>> \in ProfileIDs \X Names
          BY <3>1 DEF Accumulates, Events
        <4> QED BY <1>10, <3>1, <4>1 DEF WriteDigest
      <3> QED BY <1>10, <3>1 DEF WriteDigest
    <2> QED BY <1>10, <2>1 DEF WriteDigest, gatewayVars
  <1>11. CASE Send(c)
    <2>1. CASE Ends(c)
      BY <1>11, <2>1, EndsType DEF Send
    <2>2. CASE ~ Ends(c)
      <3>1. /\ pc' = [pc EXCEPT ![c] = "reading"]
            /\ query' = [query EXCEPT ![c] = Malformed]
            /\ event' = [event EXCEPT ![c] = NoEvent]
            /\ targets' = [targets EXCEPT ![c] = {}]
            /\ unchecked' = [unchecked EXCEPT ![c] = {}]
            /\ response' = [response EXCEPT ![c] = "none"]
            /\ inForce' = [inForce EXCEPT ![c] = {}]
            /\ pc[c] = "respond"
            /\ UNCHANGED <<profile, worldVars, sinkVars>>
        BY <1>11, <2>2 DEF Send
      <3> QED BY <3>1, BlankEvent
    <2> QED BY <2>1, <2>2
  <1> HIDE DEF TypeInv
  <1> QED BY <1>1, <1>2, <1>3, <1>4, <1>5, <1>6, <1>7, <1>8, <1>9, <1>10, <1>11
          DEF Resolve

(* So does a step that a message from outside causes. *)
LEMMA ReceiveType ==
    ASSUME TypeInv, NEW c \in Clients, Receive(c)
    PROVE  TypeInv'
  <1> USE DEF TypeInv, TypeOK, HasProfile, worldVars, sinkVars,
              Busy, Resolving, Writing, Lookups
  <1>1. CASE Handshake(c)
    BY <1>1, LookupType DEF Handshake
  <1>2. CASE ReadMsg(c)
    BY <1>2, LookupType DEF ReadMsg
  <1>3. CASE ReadFails(c)
    BY <1>3, EndsType DEF ReadFails
  <1>4. CASE DohRequest(c)
    BY <1>4, LookupType DEF DohRequest
  <1>5. CASE DohMessage(c)
    <2>1. CASE Ends(c)
      BY <1>5, <2>1, EndsType DEF DohMessage
    <2>2. CASE ~ Ends(c)
      BY <1>5, <2>2 DEF DohMessage
    <2> QED BY <2>1, <2>2
  <1>6. CASE ExchangeAnswers(c)
    BY <1>6, NamesAssumption DEF ExchangeAnswers
  <1> QED BY <1>1, <1>2, <1>3, <1>4, <1>5, <1>6 DEF Receive

(* So do publications, the clock and the pairing challenges.                *)
LEMMA WorldType ==
    ASSUME TypeInv, Publish \/ Tick \/ CreateChallenge \/ ExpireChallenge \/ DeleteCounts
    PROVE  TypeInv'
  <1> USE DEF TypeInv, TypeOK, HasProfile, gatewayVars, sinkVars
  <1>1. CASE Publish
    <2>1. PICK host \in Hostnames :
             \E p \in Served(host) : store' = [store EXCEPT ![host] = p]
      BY <1>1 DEF Publish
    <2>2. store' \in Stores
      BY <2>1 DEF Stores, Served, Lookups
    <2>3. \A c \in Clients : store'[Endpoint[c]] \in Lookups
      BY <2>2, ClientsAssumption DEF Stores
    <2> QED BY <1>1, <2>2, <2>3 DEF Publish
  <1>2. CASE Tick
    BY <1>2, BoundsAssumption DEF Tick, Instants
  <1>3. CASE CreateChallenge \/ ExpireChallenge
    BY <1>3 DEF CreateChallenge, ExpireChallenge
  <1>4. CASE DeleteCounts
    <2>1. /\ observed' \in [ProfileIDs \X Names -> Nat]
          /\ forgotten' \in [ProfileIDs \X Names -> Nat]
      BY <1>4 DEF DeleteCounts
    <2> QED BY <1>4, <2>1 DEF DeleteCounts, worldVars
  <1> QED BY <1>1, <1>2, <1>3, <1>4

(* Every step keeps the types.                                              *)
LEMMA TypeStep == TypeInv /\ [Next]_vars => TypeInv'
  <1> SUFFICES ASSUME TypeInv, [Next]_vars PROVE TypeInv'
    OBVIOUS
  <1>1. CASE UNCHANGED vars
    BY <1>1 DEF TypeInv, TypeOK, HasProfile, vars
  <1> QED BY <1>1, ResolveType, ReceiveType, WorldType DEF Next

(* The types of module Gateway, and that no handler resolves a message      *)
(* without a profile, hold in every state.                                  *)
THEOREM TypeCorrect == Spec => []TypeOK
  <1>1. TypeInv => TypeOK
    BY DEF TypeInv
  <1> QED BY <1>1, TypeInit, TypeStep, PTL DEF Spec
-----------------------------------------------------------------------------
(* What a handler knows at each stage: that its profile was in force while  *)
(* it works on the message, and what its decisions so far established.      *)

FreshSource(c) ==
    /\ pc[c] \in Busy => store[Endpoint[c]] \in inForce[c]
    /\ pc[c] \in (Busy \ {"read"}) => profile[c] \in inForce[c]

QueryLetThrough(c) ==
    pc[c] \in {"upstream", "aliases"} =>
        /\ event[c].action # "block"
        /\ LetThrough(profile[c], query[c], event[c].time)

CheckedLetThrough(c) ==
    pc[c] = "aliases" =>
        \A name \in targets[c] \ unchecked[c] :
            LetThrough(profile[c], name, event[c].time)

AnswerLetThrough(c) ==
    response[c] = "answer" =>
        \A name \in {query[c]} \union targets[c] :
            LetThrough(profile[c], name, event[c].time)

EventTells(c) ==
    pc[c] \in Writing => (event[c].action = "block" <=> response[c] = "nxdomain")

Safe(c) ==
    /\ event[c].time <= clock
    /\ response[c] # "none" => pc[c] \in Writing \union {"respond"}
    /\ FreshSource(c)
    /\ QueryLetThrough(c)
    /\ CheckedLetThrough(c)
    /\ AnswerLetThrough(c)
    /\ EventTells(c)

SafeInv == \A c \in Clients : Safe(c)

(* Closed clients are safe.                                                 *)
LEMMA SafeInit == Init => SafeInv
  BY BoundsAssumption
  DEF Init, SafeInv, Safe, FreshSource, QueryLetThrough, CheckedLetThrough,
      AnswerLetThrough, EventTells, NoEvent, Busy, Resolving, Writing, Instants

LocalVars(d) == <<pc[d], profile[d], query[d], event[d], targets[d],
                  unchecked[d], response[d], inForce[d]>>

(* A goroutine touches nobody else's local variables, nor the world's but   *)
(* for the pairing challenge.                                               *)
LEMMA StepsAreLocal ==
    ASSUME TypeOK, NEW c \in Clients, Resolve(c) \/ Receive(c),
           NEW d \in Clients, d # c
    PROVE  UNCHANGED <<store, clock, LocalVars(d)>>
  <1> USE DEF TypeOK, LocalVars, worldVars, sinkVars, gatewayVars
  <1>1. CASE Ends(c) /\ UNCHANGED worldVars
    BY <1>1 DEF Ends
  <1>2. CASE Lookup(c)
    BY <1>1, <1>2 DEF Lookup
  <1>3. CASE ResolveMalformed(c) \/ ResolvePairing(c)
    BY <1>3 DEF ResolveMalformed, ResolvePairing, Respond
  <1>4. CASE ResolveDecide(c)
    BY <1>4 DEF ResolveDecide
  <1>5. CASE ExchangeFails(c) \/ ExchangeAnswers(c)
    BY <1>5 DEF ExchangeFails, ExchangeAnswers
  <1>6. CASE CheckAlias(c)
    BY <1>6 DEF CheckAlias
  <1>7. CASE AliasesDone(c)
    BY <1>7 DEF AliasesDone
  <1>8. CASE WriteLog(c) \/ WriteSummary(c) \/ WriteDigest(c)
    BY <1>8 DEF WriteLog, WriteSummary, WriteDigest
  <1>9. CASE Send(c)
    BY <1>1, <1>9 DEF Send
  <1>10. CASE Handshake(c) \/ ReadMsg(c) \/ DohRequest(c)
    BY <1>10 DEF Handshake, ReadMsg, DohRequest
  <1>11. CASE ReadFails(c)
    BY <1>1, <1>11 DEF ReadFails
  <1>12. CASE DohMessage(c)
    BY <1>1, <1>12 DEF DohMessage
  <1> QED BY <1>2, <1>3, <1>4, <1>5, <1>6, <1>7, <1>8, <1>9, <1>10, <1>11, <1>12
          DEF Resolve, Receive

(* A step that leaves a client's variables, the store and the clock alone   *)
(* leaves it safe.                                                          *)
LEMMA OthersStaySafe ==
    ASSUME NEW d \in Clients, Safe(d), UNCHANGED <<store, clock, LocalVars(d)>>
    PROVE  Safe(d)'
  BY DEF LocalVars, Safe, FreshSource, QueryLetThrough, CheckedLetThrough,
         AnswerLetThrough, EventTells, LetThrough

(* A client that has just ended is safe.                                    *)
LEMMA EndedIsSafe ==
    ASSUME TypeOK, NEW c \in Clients, Ends(c), UNCHANGED worldVars
    PROVE  Safe(c)'
  <1>1. /\ pc'[c] = "closed"
        /\ event'[c] = NoEvent
        /\ response'[c] = "none"
        /\ clock' = clock /\ 0 <= clock
    BY BoundsAssumption DEF TypeOK, Ends, worldVars, Instants
  <1> QED BY <1>1 DEF Safe, FreshSource, QueryLetThrough, CheckedLetThrough,
                      AnswerLetThrough, EventTells, NoEvent,
                      Busy, Resolving, Writing
(* The steps of a goroutine keep its own handler safe. *)
LEMMA ResolveSafe ==
    ASSUME TypeInv, NEW c \in Clients, Safe(c), Resolve(c)
    PROVE  Safe(c)'
  <1> USE DEF TypeInv, TypeOK, Busy, Resolving, Writing, worldVars, sinkVars
  <1>1. CASE Lookup(c)
    <2>1. CASE store[Endpoint[c]] = NoProfile
      BY <1>1, <2>1, EndedIsSafe DEF Lookup
    <2>2. CASE store[Endpoint[c]] # NoProfile
      BY <1>1, <2>2
      DEF Lookup, Safe, FreshSource, QueryLetThrough, CheckedLetThrough,
          AnswerLetThrough, EventTells
    <2> QED BY <2>1, <2>2
  <1>2. CASE ResolveMalformed(c) \/ ResolvePairing(c)
    BY <1>2
    DEF ResolveMalformed, ResolvePairing, Respond, Safe, FreshSource,
        QueryLetThrough, CheckedLetThrough, AnswerLetThrough, EventTells
  <1>3. CASE ResolveDecide(c)
    <2>1. /\ pc[c] = "resolve"
          /\ event'[c].time = clock
          /\ event'[c].action = profile[c].decide[clock][query[c]].action
          /\ UNCHANGED <<worldVars, profile, query, targets, unchecked, inForce>>
          /\ response[c] = "none"
      BY <1>3 DEF ResolveDecide, Safe
    <2>2. clock \in clock .. clock
      BY BoundsAssumption DEF Instants
    <2>3. CASE event'[c].action = "block"
      <3>1. pc'[c] = "log" /\ response'[c] = "nxdomain"
        BY <1>3, <2>1, <2>3 DEF ResolveDecide
      <3> QED BY <2>1, <2>2, <2>3, <3>1, BoundsAssumption
              DEF Safe, FreshSource, QueryLetThrough, CheckedLetThrough,
                  AnswerLetThrough, EventTells, Instants
    <2>4. CASE event'[c].action # "block"
      <3>1. pc'[c] = "upstream" /\ response'[c] = "none"
        BY <1>3, <2>1, <2>4 DEF ResolveDecide
      <3>2. LetThrough(profile[c], query[c], clock)
        BY <2>1, <2>2, <2>4 DEF LetThrough
      <3>3. QueryLetThrough(c)'
        BY <2>1, <2>4, <3>2 DEF QueryLetThrough, LetThrough
      <3> QED BY <2>1, <2>2, <3>1, <3>3, BoundsAssumption
              DEF Safe, FreshSource, CheckedLetThrough, AnswerLetThrough,
                  EventTells, Instants
    <2> QED BY <2>3, <2>4
  <1>4. CASE ExchangeFails(c)
    BY <1>4
    DEF ExchangeFails, Safe, FreshSource, QueryLetThrough, CheckedLetThrough,
        AnswerLetThrough, EventTells
  <1>5. CASE CheckAlias(c)
    <2>1. PICK alias \in unchecked[c] :
             LET decision == profile[c].decide[clock][alias]
             IN \/ /\ decision.action = "block"
                   /\ event' = [event EXCEPT ![c] = redirected(@, decision)]
                   /\ response' = [response EXCEPT ![c] = "nxdomain"]
                   /\ pc' = [pc EXCEPT ![c] = "log"]
                   /\ UNCHANGED unchecked
                \/ /\ decision.action # "block"
                   /\ unchecked' = [unchecked EXCEPT ![c] = @ \ {alias}]
                   /\ UNCHANGED <<event, response, pc>>
      BY <1>5 DEF CheckAlias
    <2>2. /\ pc[c] = "aliases"
          /\ UNCHANGED <<worldVars, profile, query, targets, inForce>>
          /\ response[c] = "none"
      BY <1>5 DEF CheckAlias, Safe
    <2>3. CASE profile[c].decide[clock][alias].action = "block"
      <3>1. /\ pc'[c] = "log"
            /\ response'[c] = "nxdomain"
            /\ event'[c].time = event[c].time
            /\ event'[c].action = "block"
        BY <2>1, <2>3 DEF redirected
      <3> QED BY <2>2, <3>1
              DEF Safe, FreshSource, QueryLetThrough, CheckedLetThrough,
                  AnswerLetThrough, EventTells
    <2>4. CASE profile[c].decide[clock][alias].action # "block"
      <3>1. /\ unchecked'[c] = unchecked[c] \ {alias}
            /\ UNCHANGED <<event, response, pc>>
        BY <2>1, <2>4
      <3>2. clock \in event[c].time .. clock
        BY BoundsAssumption DEF Safe, Instants, Events
      <3>3. LetThrough(profile[c], alias, event[c].time)
        BY <2>4, <3>2 DEF LetThrough
      <3>4. CheckedLetThrough(c)'
        BY <2>2, <3>1, <3>3 DEF Safe, CheckedLetThrough, LetThrough
      <3> QED BY <2>2, <3>1, <3>4
              DEF Safe, FreshSource, QueryLetThrough, AnswerLetThrough,
                  EventTells, LetThrough
    <2> QED BY <2>3, <2>4
  <1>6. CASE AliasesDone(c)
    <2>1. /\ pc[c] = "aliases" /\ unchecked[c] = {}
          /\ pc'[c] = "log" /\ response'[c] = "answer"
          /\ UNCHANGED <<worldVars, profile, query, event, targets, inForce>>
      BY <1>6 DEF AliasesDone
    <2>2. AnswerLetThrough(c)'
      BY <2>1
      DEF Safe, QueryLetThrough, CheckedLetThrough, AnswerLetThrough, LetThrough
    <2> QED BY <2>1, <2>2
            DEF Safe, FreshSource, QueryLetThrough, CheckedLetThrough, EventTells
  <1>7. CASE WriteLog(c) \/ WriteSummary(c) \/ WriteDigest(c)
    BY <1>7
    DEF WriteLog, WriteSummary, WriteDigest, gatewayVars, Safe, FreshSource,
        QueryLetThrough, CheckedLetThrough, AnswerLetThrough, EventTells, LetThrough
  <1>8. CASE Send(c)
    <2>1. CASE Ends(c)
      BY <1>8, <2>1, EndedIsSafe DEF Send
    <2>2. CASE ~ Ends(c)
      <3>1. /\ pc'[c] = "reading"
            /\ event'[c] = NoEvent
            /\ response'[c] = "none"
            /\ clock' = clock /\ 0 <= clock
        BY <1>8, <2>2, BoundsAssumption DEF Send, Instants
      <3> QED BY <3>1
              DEF Safe, FreshSource, QueryLetThrough, CheckedLetThrough,
                  AnswerLetThrough, EventTells, NoEvent
    <2> QED BY <2>1, <2>2
  <1> QED BY <1>1, <1>2, <1>3, <1>4, <1>5, <1>6, <1>7, <1>8 DEF Resolve

(* What the client or the upstream sends leaves the handler safe.           *)
LEMMA ReceiveSafe ==
    ASSUME TypeInv, NEW c \in Clients, Safe(c), Receive(c)
    PROVE  Safe(c)'
  <1> USE DEF TypeInv, TypeOK, Busy, Resolving, Writing, worldVars, sinkVars,
              Safe, FreshSource, QueryLetThrough, CheckedLetThrough,
              AnswerLetThrough, EventTells
  <1>1. CASE Handshake(c) \/ ReadMsg(c) \/ DohRequest(c)
    BY <1>1 DEF Handshake, ReadMsg, DohRequest
  <1>2. CASE ReadFails(c)
    BY <1>2, EndedIsSafe DEF ReadFails
  <1>3. CASE DohMessage(c)
    <2>1. CASE Ends(c)
      BY <1>3, <2>1, EndedIsSafe DEF DohMessage
    <2>2. CASE ~ Ends(c)
      BY <1>3, <2>2 DEF DohMessage
    <2> QED BY <2>1, <2>2
  <1>4. CASE ExchangeAnswers(c)
    BY <1>4 DEF ExchangeAnswers, LetThrough
  <1> QED BY <1>1, <1>2, <1>3, <1>4 DEF Receive

(* Publications and the passing of time only add to what was in force and   *)
(* to the moments at which a name may have been let through.                *)
LEMMA WorldSafe ==
    ASSUME TypeInv, NEW c \in Clients, Safe(c),
           Publish \/ Tick \/ CreateChallenge \/ ExpireChallenge \/ DeleteCounts
    PROVE  Safe(c)'
  <1> USE DEF TypeInv, TypeOK, gatewayVars, sinkVars
  <1>1. CASE Publish
    BY <1>1
    DEF Publish, Safe, FreshSource, QueryLetThrough, CheckedLetThrough,
        AnswerLetThrough, EventTells, LetThrough
  <1>2. CASE Tick
    <2>1. \A p, name, since : LetThrough(p, name, since) => LetThrough(p, name, since)'
      <3> SUFFICES ASSUME NEW p, NEW name, NEW since, LetThrough(p, name, since)
                   PROVE  \E t \in since .. (clock + 1) : p.decide[t][name].action # "block"
        BY <1>2 DEF Tick, LetThrough
      <3>1. PICK t \in since .. clock : p.decide[t][name].action # "block"
        BY DEF LetThrough
      <3> QED BY <3>1, BoundsAssumption DEF Instants
    <2> QED BY <1>2, <2>1, BoundsAssumption
            DEF Tick, Safe, FreshSource, QueryLetThrough, CheckedLetThrough,
                AnswerLetThrough, EventTells, Instants, Events
  <1>3. CASE CreateChallenge \/ ExpireChallenge
    BY <1>3
    DEF CreateChallenge, ExpireChallenge, Safe, FreshSource, QueryLetThrough,
        CheckedLetThrough, AnswerLetThrough, EventTells, LetThrough
  <1>4. CASE DeleteCounts
    BY <1>4
    DEF DeleteCounts, worldVars, Safe, FreshSource, QueryLetThrough,
        CheckedLetThrough, AnswerLetThrough, EventTells, LetThrough
  <1> QED BY <1>1, <1>2, <1>3, <1>4

(* Every step of anybody leaves every client safe.                          *)
LEMMA SafeStep == TypeInv /\ SafeInv /\ [Next]_vars => SafeInv'
  <1> SUFFICES ASSUME TypeInv, SafeInv, [Next]_vars, NEW d \in Clients
               PROVE  Safe(d)'
    BY DEF SafeInv
  <1>0. TypeOK /\ Safe(d)
    BY DEF SafeInv, TypeInv
  <1>1. ASSUME NEW c \in Clients, Resolve(c) \/ Receive(c) PROVE Safe(d)'
    <2>1. CASE c = d
      BY <1>0, <1>1, <2>1, ResolveSafe, ReceiveSafe
    <2>2. CASE c # d
      BY <1>0, <1>1, <2>2, StepsAreLocal, OthersStaySafe
    <2> QED BY <2>1, <2>2
  <1>2. CASE Publish \/ Tick \/ CreateChallenge \/ ExpireChallenge \/ DeleteCounts
    BY <1>0, <1>2, WorldSafe
  <1>3. CASE UNCHANGED vars
    <2>1. UNCHANGED <<store, clock, LocalVars(d)>>
      BY <1>3 DEF vars, LocalVars
    <2> QED BY <1>0, <2>1, OthersStaySafe
  <1> QED BY <1>1, <1>2, <1>3 DEF Next

(* The inductive invariant that the theorems below are read off.            *)
LEMMA SafeInvariant == Spec => [](TypeInv /\ SafeInv)
  BY TypeInit, TypeStep, SafeInit, SafeStep, PTL DEF Spec

(* No message is ever answered from a policy that its endpoint had stopped  *)
(* leading to before the message arrived.                                   *)
THEOREM AnswersAreFresh == Spec => []AnswerUsesPolicyInForce
  <1>1. SafeInv => AnswerUsesPolicyInForce
    BY DEF SafeInv, Safe, FreshSource, AnswerUsesPolicyInForce
  <1> QED BY <1>1, SafeInvariant, PTL

(* No name that stayed blocked while the query was processed is forwarded,  *)
(* directly or through a chain of aliases of any length.                    *)
THEOREM NoAliasBypass == Spec => []NothingBlockedIsForwarded
  <1>1. SafeInv => NothingBlockedIsForwarded
    BY DEF SafeInv, Safe, AnswerLetThrough, NothingBlockedIsForwarded
  <1> QED BY <1>1, SafeInvariant, PTL

(* What the sinks are told of a query is what its client was told.          *)
THEOREM EventsTellAnswers == Spec => []EventTellsAnswer
  <1>1. SafeInv => EventTellsAnswer
    BY DEF SafeInv, Safe, EventTells, EventTellsAnswer
  <1> QED BY <1>1, SafeInvariant, PTL

(* A resolved pairing challenge keeps its profile until it expires.         *)
THEOREM ChallengeIsKept == Spec => ChallengeStaysBound
  <1>1. ASSUME TypeInv, [Next]_vars
        PROVE  [(challenge \in ProfileIDs) => challenge' \in {challenge, "none"}]_vars
    <2>1. CASE UNCHANGED vars
      BY <2>1
    <2>2. ASSUME NEW c \in Clients, Resolve(c) \/ Receive(c)
          PROVE  challenge' = challenge \/ challenge = "open"
      BY <2>2
      DEF Resolve, Receive, Lookup, ResolveMalformed, ResolvePairing,
          ResolveDecide, ExchangeFails, CheckAlias, AliasesDone, WriteLog,
          WriteSummary, WriteDigest, Send, Handshake, ReadMsg, ReadFails,
          DohRequest, DohMessage, ExchangeAnswers, worldVars
    <2>3. CASE Publish \/ Tick \/ CreateChallenge \/ ExpireChallenge \/ DeleteCounts
      BY <2>3, NamesAssumption
      DEF Publish, Tick, CreateChallenge, ExpireChallenge, DeleteCounts, worldVars
    <2> QED BY <1>1, <2>1, <2>2, <2>3, NamesAssumption DEF Next
  <1> QED BY <1>1, TypeInit, TypeStep, PTL DEF Spec, ChallengeStaysBound
-----------------------------------------------------------------------------
(* The three sinks.  Only finitely many goroutines are ever between two of  *)
(* them, so that the events on their way can be counted.                    *)
FewWriting == IsFiniteSet({c \in Clients : pc[c] \in ToDigest})

SinkInv == FewWriting /\ SinksAgree

(* An event counts once for the kinds it belongs to.                        *)
One(kind, e) == IF e \in kind THEN 1 ELSE 0

(* The events of a kind that were taken: their lines, written or lost.      *)
TakenIn(kind) == LoggedIn(kind) + LostIn(kind)

(* The lines of a kind are finitely many.                                   *)
LEMMA LinesFinite ==
    ASSUME NEW events \in Seq(Events), NEW kind
    PROVE  /\ IsFiniteSet(OfKind(events, kind))
           /\ Cardinality(OfKind(events, kind)) \in Nat
  <1>1. DOMAIN events = 1 .. Len(events) /\ Len(events) \in Nat
    OBVIOUS
  <1>2. IsFiniteSet(1 .. Len(events))
    BY <1>1, FS_Interval
  <1>3. OfKind(events, kind) \in SUBSET (1 .. Len(events))
    BY <1>1 DEF OfKind
  <1>4. IsFiniteSet(OfKind(events, kind))
    BY <1>2, <1>3, FS_Subset
  <1> QED BY <1>4, FS_CardinalityType

(* So are the events on their way.                                          *)
LEMMA WaitsFinite ==
    ASSUME FewWriting, NEW kind, NEW stages \in {ToSummary, ToDigest}
    PROVE  IsFiniteSet(Waits(kind, stages)) /\ WaitingIn(kind, stages) \in Nat
  <1>1. Waits(kind, stages) \in SUBSET {c \in Clients : pc[c] \in ToDigest}
    BY DEF Waits, ToSummary, ToDigest
  <1>2. IsFiniteSet(Waits(kind, stages))
    BY <1>1, FS_Subset DEF FewWriting
  <1> QED BY <1>2, FS_CardinalityType DEF WaitingIn

(* A line that is appended counts in its kinds.                             *)
LEMMA LineCounts ==
    ASSUME NEW events \in Seq(Events), NEW e \in Events, NEW kind
    PROVE  Cardinality(OfKind(Append(events, e), kind))
              = Cardinality(OfKind(events, kind)) + One(kind, e)
  <1> DEFINE longer == Append(events, e)
  <1>1. /\ Len(events) \in Nat
        /\ DOMAIN events = 1 .. Len(events)
        /\ DOMAIN longer = 1 .. (Len(events) + 1)
        /\ \A i \in 1 .. Len(events) : longer[i] = events[i]
        /\ longer[Len(events) + 1] = e
    OBVIOUS
  <1> HIDE DEF longer
  <1>2. Len(events) + 1 \notin OfKind(events, kind)
    BY <1>1 DEF OfKind
  <1>3. CASE e \in kind
    <2>1. OfKind(longer, kind) = OfKind(events, kind) \union {Len(events) + 1}
      BY <1>1, <1>3 DEF OfKind
    <2>2. Cardinality(OfKind(longer, kind)) = Cardinality(OfKind(events, kind)) + 1
      BY <1>2, <2>1, LinesFinite, FS_AddElement
    <2> QED BY <1>3, <2>2 DEF One, longer
  <1>4. CASE e \notin kind
    <2>1. OfKind(longer, kind) = OfKind(events, kind)
      BY <1>1, <1>4 DEF OfKind
    <2> QED BY <1>4, <2>1, LinesFinite DEF One, longer
  <1> QED BY <1>3, <1>4

(* EventWriter takes the event, whether it writes its line or loses it.     *)
LEMMA LogCounts ==
    ASSUME TypeOK, NEW c \in Clients, WriteLog(c), NEW kind
    PROVE  TakenIn(kind)' = TakenIn(kind) + One(kind, event[c])
  <1>1. event[c] \in Events /\ log \in Seq(Events) /\ lost \in Seq(Events)
    BY DEF TypeOK
  <1>2. LoggedIn(kind) \in Nat /\ LostIn(kind) \in Nat /\ One(kind, event[c]) \in Nat
    BY <1>1, LinesFinite DEF LoggedIn, LostIn, One
  <1>3. CASE log' = Append(log, event[c]) /\ lost' = lost
    <2>1. LoggedIn(kind)' = LoggedIn(kind) + One(kind, event[c])
      BY <1>1, <1>3, LineCounts DEF LoggedIn
    <2>2. LostIn(kind)' = LostIn(kind)
      BY <1>3 DEF LostIn
    <2> QED BY <1>2, <2>1, <2>2 DEF TakenIn
  <1>4. CASE lost' = Append(lost, event[c]) /\ log' = log
    <2>1. LostIn(kind)' = LostIn(kind) + One(kind, event[c])
      BY <1>1, <1>4, LineCounts DEF LostIn
    <2>2. LoggedIn(kind)' = LoggedIn(kind)
      BY <1>4 DEF LoggedIn
    <2> QED BY <1>2, <2>1, <2>2 DEF TakenIn
  <1> QED BY <1>3, <1>4 DEF WriteLog

(* A goroutine that comes to a sink brings its event ...                    *)
LEMMA WaitCountsIn ==
    ASSUME TypeOK, FewWriting, NEW c \in Clients, NEW kind,
           NEW stages \in {ToSummary, ToDigest}, NEW to \in stages,
           pc[c] \notin stages, pc' = [pc EXCEPT ![c] = to], event' = event
    PROVE  WaitingIn(kind, stages)' = WaitingIn(kind, stages) + One(kind, event[c])
  <1>1. pc'[c] = to /\ \A d \in Clients : d # c => pc'[d] = pc[d]
    BY DEF TypeOK
  <1>2. c \notin Waits(kind, stages)
    BY DEF Waits
  <1>3. CASE event[c] \in kind
    <2>1. Waits(kind, stages)' = Waits(kind, stages) \union {c}
      BY <1>1, <1>3 DEF Waits
    <2> QED BY <1>2, <1>3, <2>1, WaitsFinite, FS_AddElement DEF WaitingIn, One
  <1>4. CASE event[c] \notin kind
    <2>1. Waits(kind, stages)' = Waits(kind, stages)
      BY <1>1, <1>4 DEF Waits
    <2> QED BY <1>4, <2>1, WaitsFinite DEF WaitingIn, One
  <1> QED BY <1>3, <1>4

(* ... and takes it along when it is past it.                               *)
LEMMA WaitCountsOut ==
    ASSUME TypeOK, FewWriting, NEW c \in Clients, NEW kind,
           NEW stages \in {ToSummary, ToDigest}, NEW to, to \notin stages,
           pc[c] \in stages, pc' = [pc EXCEPT ![c] = to], event' = event
    PROVE  /\ WaitingIn(kind, stages)' \in Nat
           /\ WaitingIn(kind, stages) = WaitingIn(kind, stages)' + One(kind, event[c])
  <1>1. pc'[c] = to /\ \A d \in Clients : d # c => pc'[d] = pc[d]
    BY DEF TypeOK
  <1>2. IsFiniteSet(Waits(kind, stages)) /\ WaitingIn(kind, stages) \in Nat
    BY WaitsFinite
  <1>3. CASE event[c] \in kind
    <2>1. Waits(kind, stages)' = Waits(kind, stages) \ {c} /\ c \in Waits(kind, stages)
      BY <1>1, <1>3 DEF Waits
    <2>2. /\ IsFiniteSet(Waits(kind, stages)')
          /\ Cardinality(Waits(kind, stages)') = Cardinality(Waits(kind, stages)) - 1
      BY <1>2, <2>1, FS_RemoveElement
    <2>3. Cardinality(Waits(kind, stages)') \in Nat
      BY <2>2, FS_CardinalityType
    <2> QED BY <1>2, <1>3, <2>2, <2>3 DEF WaitingIn, One
  <1>4. CASE event[c] \notin kind
    <2>1. Waits(kind, stages)' = Waits(kind, stages)
      BY <1>1, <1>4 DEF Waits
    <2> QED BY <1>2, <1>4, <2>1 DEF WaitingIn, One
  <1> QED BY <1>3, <1>4

(* Nothing changes for a sink when goroutines before or behind it move.     *)
LEMMA WaitStays ==
    ASSUME NEW kind, NEW stages, event' = event,
           \A d \in Clients : pc'[d] \in stages <=> pc[d] \in stages
    PROVE  WaitingIn(kind, stages)' = WaitingIn(kind, stages)
  <1>1. Waits(kind, stages)' = Waits(kind, stages)
    BY DEF Waits
  <1> QED BY <1>1 DEF WaitingIn

(* The log: a new line, and one more event on its way to both other sinks.  *)
LEMMA LogAgrees ==
    ASSUME TypeOK, FewWriting, NEW c \in Clients, WriteLog(c), NEW kind,
           NEW stages \in {ToSummary, ToDigest}, NEW n \in Nat, Agrees(n, kind, stages)
    PROVE  n + WaitingIn(kind, stages)' = TakenIn(kind)'
  <1>1. /\ pc' = [pc EXCEPT ![c] = "summary"]
        /\ pc[c] \notin stages /\ "summary" \in stages
        /\ event' = event
    BY DEF WriteLog, gatewayVars, ToSummary, ToDigest
  <1>2. TakenIn(kind)' = TakenIn(kind) + One(kind, event[c])
    BY LogCounts
  <1>3. WaitingIn(kind, stages)' = WaitingIn(kind, stages) + One(kind, event[c])
    BY <1>1, WaitCountsIn
  <1>4. WaitingIn(kind, stages) \in Nat /\ One(kind, event[c]) \in Nat
    BY WaitsFinite DEF One
  <1>5. TakenIn(kind) \in Nat
    BY LinesFinite DEF TypeOK, TakenIn, LoggedIn, LostIn
  <1> QED BY <1>2, <1>3, <1>4, <1>5 DEF Agrees, TakenIn

(* A sink that is written: its counter takes over what was on its way.      *)
LEMMA WrittenAgrees ==
    ASSUME TypeOK, FewWriting, NEW c \in Clients, NEW kind,
           NEW stages \in {ToSummary, ToDigest}, NEW to, to \notin stages,
           pc[c] \in stages, pc' = [pc EXCEPT ![c] = to], event' = event,
           log' = log, lost' = lost,
           NEW n \in Nat, Agrees(n, kind, stages)
    PROVE  (n + One(kind, event[c])) + WaitingIn(kind, stages)' = TakenIn(kind)'
  <1>1. /\ WaitingIn(kind, stages)' \in Nat
        /\ WaitingIn(kind, stages) = WaitingIn(kind, stages)' + One(kind, event[c])
    BY WaitCountsOut
  <1>2. One(kind, event[c]) \in Nat
    BY DEF One
  <1>3. TakenIn(kind)' = TakenIn(kind)
    BY DEF TakenIn, LoggedIn, LostIn
  <1> QED BY <1>1, <1>2, <1>3 DEF Agrees, TakenIn

(* The counters of the panel and of the digest are numbers.                  *)
LEMMA CountersType ==
    ASSUME TypeOK, NEW id \in ProfileIDs
    PROVE  /\ summary[id].total \in Nat
           /\ summary[id].blocked \in Nat
           /\ summary[id].observed \in Nat
           /\ \A k \in Categories \union {Uncategorized} : summary[id].categories[k] \in Nat
           /\ \A name \in Names :
                 observed[<<id, name>>] \in Nat /\ forgotten[<<id, name>>] \in Nat
  BY DEF TypeOK, Summaries

(* At first nothing is logged, counted or on its way.                       *)
LEMMA SinkInit == Init => SinkInv
  <1> SUFFICES ASSUME Init PROVE SinkInv
    OBVIOUS
  <1>1. {c \in Clients : pc[c] \in ToDigest} = {}
    BY DEF Init, ToDigest
  <1>2. ASSUME NEW kind, NEW stages \in {ToSummary, ToDigest} PROVE Agrees(0, kind, stages)
    <2>1. Waits(kind, stages) = {} /\ OfKind(log, kind) = {} /\ OfKind(lost, kind) = {}
      BY DEF Init, Waits, OfKind, ToSummary, ToDigest
    <2> QED BY <2>1, FS_EmptySet DEF Agrees, LoggedIn, LostIn, WaitingIn
  <1>3. ASSUME NEW id \in ProfileIDs
        PROVE  /\ summary[id].total = 0
               /\ summary[id].blocked = 0
               /\ summary[id].observed = 0
               /\ \A k \in Categories \union {Uncategorized} : summary[id].categories[k] = 0
               /\ \A name \in Names : observed[<<id, name>>] + forgotten[<<id, name>>] = 0
    BY DEF Init
  <1> QED BY <1>1, <1>2, <1>3, FS_EmptySet DEF SinkInv, FewWriting, SinksAgree

(* A step that writes no sink moves no goroutine to, from or between them.  *)
LEMMA QuietSteps ==
    ASSUME TypeOK, NEW c \in Clients, Resolve(c) \/ Receive(c),
           ~ WriteLog(c), ~ WriteSummary(c), ~ WriteDigest(c)
    PROVE  UNCHANGED sinkVars /\ pc[c] \notin ToDigest /\ pc'[c] \notin ToDigest
  <1> USE DEF TypeOK, ToDigest
  <1>1. ASSUME Ends(c) PROVE pc'[c] = "closed"
    BY <1>1 DEF Ends
  <1>2. CASE Lookup(c)
    BY <1>1, <1>2 DEF Lookup
  <1>3. CASE ResolveMalformed(c) \/ ResolvePairing(c)
    BY <1>3 DEF ResolveMalformed, ResolvePairing, Respond
  <1>4. CASE ResolveDecide(c)
    BY <1>4 DEF ResolveDecide
  <1>5. CASE ExchangeFails(c) \/ ExchangeAnswers(c)
    BY <1>5 DEF ExchangeFails, ExchangeAnswers
  <1>6. CASE CheckAlias(c)
    BY <1>6 DEF CheckAlias
  <1>7. CASE AliasesDone(c)
    BY <1>7 DEF AliasesDone
  <1>8. CASE Send(c)
    BY <1>1, <1>8 DEF Send
  <1>9. CASE Handshake(c) \/ ReadMsg(c) \/ DohRequest(c)
    BY <1>9 DEF Handshake, ReadMsg, DohRequest
  <1>10. CASE ReadFails(c)
    BY <1>1, <1>10 DEF ReadFails
  <1>11. CASE DohMessage(c)
    BY <1>1, <1>11 DEF DohMessage
  <1> QED BY <1>2, <1>3, <1>4, <1>5, <1>6, <1>7, <1>8, <1>9, <1>10, <1>11
          DEF Resolve, Receive

(* A goroutine that does not move at the sinks.                             *)
Settled(d) == \/ pc'[d] = pc[d] /\ event'[d] = event[d]
              \/ pc[d] \notin ToDigest /\ pc'[d] \notin ToDigest

(* What moves nothing at the sinks leaves their agreement alone.            *)
LEMMA QuietAgrees ==
    ASSUME SinkInv, UNCHANGED sinkVars,
           \A d \in Clients : Settled(d)
    PROVE  SinkInv'
  <1>1. {d \in Clients : pc[d] \in ToDigest}' = {d \in Clients : pc[d] \in ToDigest}
    BY DEF Settled
  <1>2. ASSUME NEW kind, NEW stages \in {ToSummary, ToDigest}
        PROVE  /\ WaitingIn(kind, stages)' = WaitingIn(kind, stages)
               /\ TakenIn(kind)' = TakenIn(kind)
    <2>1. TakenIn(kind)' = TakenIn(kind)
      BY DEF TakenIn, LoggedIn, LostIn, sinkVars
    <2>2. Waits(kind, stages)' = Waits(kind, stages)
      BY DEF Settled, Waits, ToSummary, ToDigest
    <2> QED BY <2>1, <2>2 DEF WaitingIn
  <1>3. SinksAgree'
    BY <1>2 DEF SinkInv, SinksAgree, Agrees, TakenIn, sinkVars
  <1> QED BY <1>1, <1>3 DEF SinkInv, FewWriting

(* The log is written.                                                      *)
LEMMA LogSinks ==
    ASSUME TypeOK, SinkInv, NEW c \in Clients, WriteLog(c)
    PROVE  SinkInv'
  <1>1. FewWriting'
    <2>1. {d \in Clients : pc[d] \in ToDigest}'
             = {d \in Clients : pc[d] \in ToDigest} \union {c}
      BY DEF WriteLog, ToDigest, TypeOK
    <2> QED BY <2>1, FS_AddElement DEF SinkInv, FewWriting
  <1>2. ASSUME NEW kind, NEW stages \in {ToSummary, ToDigest}, NEW n \in Nat,
               Agrees(n, kind, stages)
        PROVE  n + WaitingIn(kind, stages)' = TakenIn(kind)'
    BY <1>2, LogAgrees DEF SinkInv
  <1>3. UNCHANGED <<summary, observed, forgotten>>
    BY DEF WriteLog
  <1>4. SinksAgree'
    BY <1>2, <1>3, CountersType DEF SinkInv, SinksAgree, Agrees, TakenIn
  <1> QED BY <1>1, <1>4 DEF SinkInv

(* What counted adds to each counter of the event's profile.                *)
LEMMA CountedAdds ==
    ASSUME TypeOK, NEW c \in Clients, WriteSummary(c), NEW id \in ProfileIDs
    PROVE  LET e == event[c]
           IN /\ summary'[id].total = summary[id].total + One(EventsOf(id), e)
              /\ summary'[id].blocked = summary[id].blocked + One(ActedOn(id, "block"), e)
              /\ summary'[id].observed = summary[id].observed + One(ActedOn(id, "observe"), e)
              /\ \A k \in Categories \union {Uncategorized} :
                    summary'[id].categories[k]
                        = summary[id].categories[k] + One(FiledUnder(id, k), e)
  <1>1. event[c] \in Events /\ summary[id] \in Summaries
    BY DEF TypeOK
  <1>2. summary' = [summary EXCEPT ![event[c].profile] = counted(@, event[c])]
    BY DEF WriteSummary
  <1>3. CASE event[c].profile = id
    <2>1. summary'[id] = counted(summary[id], event[c])
      BY <1>2, <1>3 DEF TypeOK
    <2>2. /\ One(EventsOf(id), event[c]) = 1
          /\ \A a : One(ActedOn(id, a), event[c]) = IF event[c].action = a THEN 1 ELSE 0
          /\ \A k : One(FiledUnder(id, k), event[c]) = IF event[c].category = k THEN 1 ELSE 0
      BY <1>1, <1>3 DEF One, EventsOf, ActedOn, FiledUnder
    <2>3. /\ summary'[id].total = summary[id].total + 1
          /\ summary'[id].blocked
                = IF event[c].action = "block" THEN summary[id].blocked + 1 ELSE summary[id].blocked
          /\ summary'[id].observed
                = IF event[c].action = "observe" THEN summary[id].observed + 1
                  ELSE summary[id].observed
          /\ summary'[id].categories
                = [summary[id].categories EXCEPT ![event[c].category] = @ + 1]
      BY <2>1 DEF counted
    <2>4. ASSUME NEW k \in Categories \union {Uncategorized}
          PROVE  summary'[id].categories[k]
                    = summary[id].categories[k] + One(FiledUnder(id, k), event[c])
      BY <1>1, <2>2, <2>3 DEF Summaries
    <2> QED BY <2>2, <2>3, <2>4, CountersType
  <1>4. CASE event[c].profile # id
    <2>1. summary'[id] = summary[id]
      BY <1>1, <1>2, <1>4 DEF TypeOK
    <2>2. /\ One(EventsOf(id), event[c]) = 0
          /\ \A a : One(ActedOn(id, a), event[c]) = 0
          /\ \A k : One(FiledUnder(id, k), event[c]) = 0
      BY <1>4 DEF One, EventsOf, ActedOn, FiledUnder
    <2> QED BY <2>1, <2>2, CountersType
  <1> QED BY <1>3, <1>4

(* The panel's counters are written.                                        *)
LEMMA SummarySinks ==
    ASSUME TypeOK, SinkInv, NEW c \in Clients, WriteSummary(c)
    PROVE  SinkInv'
  <1>1. /\ pc[c] = "summary"
        /\ pc' = [pc EXCEPT ![c] = "digest"]
        /\ event' = event
        /\ UNCHANGED <<log, lost, observed, forgotten>>
        /\ "digest" \notin ToSummary /\ pc[c] \in ToSummary
        /\ pc[c] \in ToDigest /\ "digest" \in ToDigest
    BY DEF WriteSummary, gatewayVars, ToSummary, ToDigest
  <1>2. FewWriting'
    <2>1. {d \in Clients : pc[d] \in ToDigest}' = {d \in Clients : pc[d] \in ToDigest}
      BY <1>1 DEF TypeOK
    <2> QED BY <2>1 DEF SinkInv, FewWriting
  <1>3. ASSUME NEW kind, NEW n \in Nat, Agrees(n, kind, ToSummary)
        PROVE  (n + One(kind, event[c])) + WaitingIn(kind, ToSummary)' = TakenIn(kind)'
    BY <1>1, <1>3, WrittenAgrees DEF SinkInv
  <1>4. ASSUME NEW kind, NEW n, Agrees(n, kind, ToDigest)
        PROVE  n + WaitingIn(kind, ToDigest)' = TakenIn(kind)'
    <2>1. \A d \in Clients : pc'[d] \in ToDigest <=> pc[d] \in ToDigest
      BY <1>1 DEF TypeOK
    <2>2. WaitingIn(kind, ToDigest)' = WaitingIn(kind, ToDigest)
      BY <1>1, <2>1, WaitStays
    <2> QED BY <1>1, <1>4, <2>2 DEF Agrees, TakenIn, LoggedIn, LostIn
  <1>5. SinksAgree'
    <2> SUFFICES ASSUME NEW id \in ProfileIDs
                 PROVE  /\ Agrees(summary[id].total, EventsOf(id), ToSummary)'
                        /\ Agrees(summary[id].blocked, ActedOn(id, "block"), ToSummary)'
                        /\ Agrees(summary[id].observed, ActedOn(id, "observe"), ToSummary)'
                        /\ \A k \in Categories \union {Uncategorized} :
                              Agrees(summary[id].categories[k], FiledUnder(id, k), ToSummary)'
                        /\ \A name \in Names :
                              Agrees(observed[<<id, name>>] + forgotten[<<id, name>>],
                                     Observed(id, name), ToDigest)'
      BY DEF SinksAgree
    <2>1. /\ Agrees(summary[id].total, EventsOf(id), ToSummary)'
          /\ Agrees(summary[id].blocked, ActedOn(id, "block"), ToSummary)'
          /\ Agrees(summary[id].observed, ActedOn(id, "observe"), ToSummary)'
          /\ \A k \in Categories \union {Uncategorized} :
                Agrees(summary[id].categories[k], FiledUnder(id, k), ToSummary)'
      BY <1>3, CountersType, CountedAdds DEF SinkInv, SinksAgree, Agrees, TakenIn
    <2>2. ASSUME NEW name \in Names
          PROVE  Agrees(observed[<<id, name>>] + forgotten[<<id, name>>],
                        Observed(id, name), ToDigest)'
      BY <1>1, <1>4 DEF SinkInv, SinksAgree, Agrees, TakenIn
    <2> QED BY <2>1, <2>2
  <1> QED BY <1>2, <1>5 DEF SinkInv

(* The digest's counters are written.                                       *)
LEMMA DigestSinks ==
    ASSUME TypeOK, SinkInv, NEW c \in Clients, WriteDigest(c)
    PROVE  SinkInv'
  <1>1. /\ pc[c] = "digest"
        /\ pc' = [pc EXCEPT ![c] = "respond"]
        /\ event' = event
        /\ UNCHANGED <<log, lost, summary, forgotten>>
        /\ pc[c] \notin ToSummary /\ "respond" \notin ToSummary
        /\ pc[c] \in ToDigest /\ "respond" \notin ToDigest
    BY DEF WriteDigest, gatewayVars, ToSummary, ToDigest
  <1>2. FewWriting'
    <2>1. {d \in Clients : pc[d] \in ToDigest}' = {d \in Clients : pc[d] \in ToDigest} \ {c}
      BY <1>1 DEF TypeOK
    <2> QED BY <2>1, FS_RemoveElement DEF SinkInv, FewWriting
  <1>3. ASSUME NEW kind, NEW n \in Nat, Agrees(n, kind, ToDigest)
        PROVE  (n + One(kind, event[c])) + WaitingIn(kind, ToDigest)' = TakenIn(kind)'
    BY <1>1, <1>3, WrittenAgrees DEF SinkInv
  <1>4. ASSUME NEW kind, NEW n, Agrees(n, kind, ToSummary)
        PROVE  n + WaitingIn(kind, ToSummary)' = TakenIn(kind)'
    <2>1. \A d \in Clients : pc'[d] \in ToSummary <=> pc[d] \in ToSummary
      BY <1>1 DEF TypeOK
    <2>2. WaitingIn(kind, ToSummary)' = WaitingIn(kind, ToSummary)
      BY <1>1, <2>1, WaitStays
    <2> QED BY <1>1, <1>4, <2>2 DEF Agrees, TakenIn, LoggedIn, LostIn
  <1>5. ASSUME NEW id \in ProfileIDs, NEW name \in Names
        PROVE  observed'[<<id, name>>]
                  = observed[<<id, name>>] + One(Observed(id, name), event[c])
    <2>1. event[c] \in Events
      BY DEF TypeOK
    <2>2. observed' = IF Accumulates(event[c])
                      THEN [observed EXCEPT ![<<event[c].profile, event[c].domain>>] = @ + 1]
                      ELSE observed
      BY DEF WriteDigest
    <2>3. event[c] \in Observed(id, name) <=>
             Accumulates(event[c]) /\ <<event[c].profile, event[c].domain>> = <<id, name>>
      BY <2>1, NamesAssumption DEF Observed, ActedOn, Accumulates
    <2>4. observed \in [ProfileIDs \X Names -> Nat] /\ <<id, name>> \in ProfileIDs \X Names
      BY DEF TypeOK
    <2>5. CASE event[c] \in Observed(id, name)
      BY <2>2, <2>3, <2>4, <2>5 DEF One
    <2>6. CASE event[c] \notin Observed(id, name)
      BY <2>2, <2>3, <2>4, <2>6 DEF One
    <2> QED BY <2>5, <2>6
  <1>6. SinksAgree'
    <2> SUFFICES ASSUME NEW id \in ProfileIDs
                 PROVE  /\ Agrees(summary[id].total, EventsOf(id), ToSummary)'
                        /\ Agrees(summary[id].blocked, ActedOn(id, "block"), ToSummary)'
                        /\ Agrees(summary[id].observed, ActedOn(id, "observe"), ToSummary)'
                        /\ \A k \in Categories \union {Uncategorized} :
                              Agrees(summary[id].categories[k], FiledUnder(id, k), ToSummary)'
                        /\ \A name \in Names :
                              Agrees(observed[<<id, name>>] + forgotten[<<id, name>>],
                                     Observed(id, name), ToDigest)'
      BY DEF SinksAgree
    <2>1. /\ Agrees(summary[id].total, EventsOf(id), ToSummary)'
          /\ Agrees(summary[id].blocked, ActedOn(id, "block"), ToSummary)'
          /\ Agrees(summary[id].observed, ActedOn(id, "observe"), ToSummary)'
          /\ \A k \in Categories \union {Uncategorized} :
                Agrees(summary[id].categories[k], FiledUnder(id, k), ToSummary)'
      BY <1>1, <1>4 DEF SinkInv, SinksAgree, Agrees, TakenIn
    <2>2. ASSUME NEW name \in Names
          PROVE  Agrees(observed[<<id, name>>] + forgotten[<<id, name>>],
                        Observed(id, name), ToDigest)'
      <3> DEFINE n == observed[<<id, name>>] + forgotten[<<id, name>>]
                 e == event[c]
      <3>1. n \in Nat /\ Agrees(n, Observed(id, name), ToDigest)
        BY CountersType DEF SinkInv, SinksAgree
      <3>2. (n + One(Observed(id, name), e)) + WaitingIn(Observed(id, name), ToDigest)'
               = TakenIn(Observed(id, name))'
        BY <1>3, <3>1
      <3>3. One(Observed(id, name), e) \in Nat
        BY DEF One
      <3>4. n' = n + One(Observed(id, name), e)
        BY <1>1, <1>5, <3>3, CountersType
      <3> QED BY <3>2, <3>4 DEF Agrees, TakenIn
    <2> QED BY <2>1, <2>2
  <1> QED BY <1>2, <1>6 DEF SinkInv

(* Deleted counts stay accounted for.                                       *)
LEMMA DeleteSinks ==
    ASSUME TypeOK, SinkInv, DeleteCounts
    PROVE  SinkInv'
  <1>1. UNCHANGED <<pc, event, log, lost, summary>>
    BY DEF DeleteCounts, gatewayVars
  <1>2. ASSUME NEW id \in ProfileIDs, NEW name \in Names
        PROVE  observed'[<<id, name>>] + forgotten'[<<id, name>>]
                  = observed[<<id, name>>] + forgotten[<<id, name>>]
    <2>1. PICK ids \in SUBSET ProfileIDs :
             /\ observed' = [entry \in ProfileIDs \X Names |->
                                IF entry \in ids \X Names THEN 0 ELSE observed[entry]]
             /\ forgotten' = [entry \in ProfileIDs \X Names |->
                                IF entry \in ids \X Names THEN forgotten[entry] + observed[entry]
                                ELSE forgotten[entry]]
      BY DEF DeleteCounts
    <2>2. <<id, name>> \in ProfileIDs \X Names
      OBVIOUS
    <2> QED BY <2>1, <2>2, CountersType
  <1>3. \A kind, stages : /\ WaitingIn(kind, stages)' = WaitingIn(kind, stages)
                          /\ TakenIn(kind)' = TakenIn(kind)
    BY <1>1 DEF WaitingIn, Waits, TakenIn, LoggedIn, LostIn
  <1>4. SinksAgree'
    BY <1>1, <1>2, <1>3 DEF SinkInv, SinksAgree, Agrees, TakenIn
  <1> QED BY <1>1, <1>4 DEF SinkInv, FewWriting

LEMMA SinkStep == TypeInv /\ SinkInv /\ [Next]_vars => SinkInv'
  <1> SUFFICES ASSUME TypeOK, SinkInv, [Next]_vars PROVE SinkInv'
    BY DEF TypeInv
  <1>1. ASSUME NEW c \in Clients, Resolve(c) \/ Receive(c) PROVE SinkInv'
    <2>1. CASE WriteLog(c)
      BY <2>1, LogSinks
    <2>2. CASE WriteSummary(c)
      BY <2>2, SummarySinks
    <2>3. CASE WriteDigest(c)
      BY <2>3, DigestSinks
    <2>4. CASE ~ WriteLog(c) /\ ~ WriteSummary(c) /\ ~ WriteDigest(c)
      <3>1. UNCHANGED sinkVars /\ pc[c] \notin ToDigest /\ pc'[c] \notin ToDigest
        BY <1>1, <2>4, QuietSteps
      <3>2. ASSUME NEW d \in Clients PROVE Settled(d)
        <4>1. CASE d = c
          BY <3>1, <4>1 DEF Settled
        <4>2. CASE d # c
          BY <1>1, <4>2, StepsAreLocal DEF LocalVars, Settled
        <4> QED BY <4>1, <4>2
      <3> QED BY <3>1, <3>2, QuietAgrees
    <2> QED BY <2>1, <2>2, <2>3, <2>4
  <1>2. CASE Publish \/ Tick \/ CreateChallenge \/ ExpireChallenge
    <2>1. UNCHANGED sinkVars /\ pc' = pc /\ event' = event
      BY <1>2 DEF Publish, Tick, CreateChallenge, ExpireChallenge, gatewayVars
    <2> QED BY <2>1, QuietAgrees DEF Settled
  <1>3. CASE UNCHANGED vars
    <2>1. UNCHANGED sinkVars /\ pc' = pc /\ event' = event
      BY <1>3 DEF vars, sinkVars
    <2> QED BY <2>1, QuietAgrees DEF Settled
  <1>4. CASE DeleteCounts
    BY <1>4, DeleteSinks
  <1> QED BY <1>1, <1>2, <1>3, <1>4 DEF Next

(* For any number of clients, lost lines and deletions, each counter of the*)
(* panel and each count of the digest differs from the events that were     *)
(* taken by those on their way and those deleted, and by nothing else.      *)
THEOREM SinksStayTogether == Spec => []SinksAgree
  <1>1. SinkInv => SinksAgree
    BY DEF SinkInv
  <1> QED BY <1>1, TypeInit, TypeStep, SinkInit, SinkStep, PTL DEF Spec
=============================================================================
