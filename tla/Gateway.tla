------------------------------ MODULE Gateway ------------------------------
(***************************************************************************)
(* The HTTP front of the input and the output server.  DataService spawns  *)
(* an actor per query or command; that actor asks a worker (queries) or    *)
(* the RpcActor of a remote engine (commands), waits for one message and   *)
(* stops.  An OutputWorker answers when a Cassandra future completes, to   *)
(* the sender it captured when it took the query.  Only spray's request    *)
(* timeout bounds the wait of the client; nothing bounds the actor's.      *)
(***************************************************************************)
EXTENDS Integers, Sequences, FiniteSets

CONSTANTS
    Requests,    \* the HTTP requests of a behaviour
    Kind,        \* of a request: "query", "push", "cmd" or "statics"
    Known,       \* requests that name a table or command the code knows
    Start, End,  \* the range of a query, as the path gives it
    MaxInt,      \* the largest Int
    Servers,     \* the programs considered: role, "input" or "output"; engine, the
                 \* RpcActor linked, "flink" or "spark"; requests, those it is sent
    Workers,     \* routees workerRouter can have
    MaxFaults    \* bound: failures

ASSUME RequestAssumption ==
    /\ Kind \in [Requests -> {"query", "push", "cmd", "statics"}]
    /\ Known \subseteq Requests
    /\ MaxInt \in Nat
    /\ Start \in [Requests -> 0 .. MaxInt] /\ End \in [Requests -> 0 .. MaxInt]
ASSUME RoleAssumption ==
    /\ Servers \subseteq [role : {"input", "output"}, engine : {"flink", "spark"},
                           requests : SUBSET Requests]
    /\ MaxFaults \in Nat

VARIABLES
    client,     \* "idle", "open", "answered" or "timedout"
    body,       \* the answers each client has received
    inbox,      \* mailbox of DataService
    handler,    \* the request's actor: "none", "new", "waiting" or "stopped"
    hmail,      \* its mailbox
    responses,  \* responses on their way to the responders
    routees,    \* routees workerRouter knows
    wmail,      \* mailbox of every worker
    futures,    \* Cassandra queries under way
    server,     \* which program this is
    rpcup,      \* the engine's actor system is reachable
    rpcmail,    \* mailbox of the RpcActor
    relayed,    \* pushes an InputWorker handed to Kafka
    lost,       \* history: requests whose message or answer is gone, and why
    faults

http_vars   == <<client, body, inbox, responses>>
actor_vars  == <<handler, hmail>>
worker_vars == <<routees, wmail, futures, relayed>>
rpc_vars    == <<server, rpcup, rpcmail>>
vars == <<http_vars, actor_vars, worker_vars, rpc_vars, lost, faults>>

Texts    == {"rows", "not_found", "result", "ok", "empty"}
Answer   == [of : Requests, text : Texts]
Reply    == [of : Requests, text : {"rows", "not_found", "result", "failure"}]
Response == [to : Requests, of : Requests, text : Texts]
Query    == [req : Requests, from : Requests]
Future   == [req : Requests, to : Requests, at : Workers]
Loss     == [req : Requests, why : {"no_routee", "ignored", "swallowed", "node",
                                    "rpc_down", "rpc_threw"}]

LoseAll(rs, why) == lost' = lost \cup {[req |-> r, why |-> why] : r \in rs}

Init ==
    /\ client = [r \in Requests |-> "idle"] /\ body = [r \in Requests |-> {}]
    /\ inbox = <<>> /\ responses = {}
    /\ handler = [r \in Requests |-> "none"] /\ hmail = [r \in Requests |-> <<>>]
    /\ routees = {} /\ wmail = [w \in Workers |-> <<>>] /\ futures = {} /\ relayed = {}
    /\ server \in Servers /\ rpcup = TRUE /\ rpcmail = <<>>
    /\ lost = {} /\ faults = 0

-----------------------------------------------------------------------------
(* spray: connections and their timeout.                                   *)

Open(r) ==
    /\ client[r] = "idle" /\ r \in server.requests
    /\ client' = [client EXCEPT ![r] = "open"]
    /\ inbox' = Append(inbox, r)
    /\ UNCHANGED <<body, responses, actor_vars, worker_vars, rpc_vars, lost, faults>>

\* A response that comes after the timeout is dropped.
Respond(p) ==
    /\ p \in responses
    /\ responses' = responses \ {p}
    /\ IF client[p.to] = "open"
       THEN /\ client' = [client EXCEPT ![p.to] = "answered"]
            /\ body' = [body EXCEPT ![p.to] = @ \cup {[of |-> p.of, text |-> p.text]}]
       ELSE UNCHANGED <<client, body>>
    /\ UNCHANGED <<inbox, actor_vars, worker_vars, rpc_vars, lost, faults>>

TimesOut(r) ==
    /\ client[r] = "open"
    /\ client' = [client EXCEPT ![r] = "timedout"]
    /\ UNCHANGED <<body, inbox, responses, actor_vars, worker_vars, rpc_vars, lost, faults>>

-----------------------------------------------------------------------------
(* DataService.                                                            *)

\* Int addition wraps around.
PlusInt(a, b) == IF a + b > MaxInt THEN a + b - 2 * (MaxInt + 1) ELSE a + b

\* doHistoryQuery's guard; past it the range is not used (the tables answer ten rows).
Refused(r) == Start[r] < 0 \/ End[r] < 0 \/ PlusInt(Start[r], End[r]) <= 0

\* Slip: the event is told to every routee (BroadcastPool).
BugToRoutee(m) ==
    /\ wmail' = [w \in Workers |-> IF w \in routees THEN Append(wmail[w], m) ELSE wmail[w]]
    /\ IF routees = {} THEN LoseAll({m.req}, "no_routee") ELSE UNCHANGED lost

\* workerRouter: consistent hashing picks one routee; dead letters without any.
ToRoutee(m) ==
    \/ routees = {} /\ LoseAll({m.req}, "no_routee") /\ UNCHANGED wmail
    \/ \E w \in routees :
         /\ wmail' = [wmail EXCEPT ![w] = Append(@, m)]
         /\ UNCHANGED lost

\* doPushData: the answer is "ok" whatever becomes of the event.
Push(r) ==
    /\ Kind[r] = "push"
    /\ ToRoutee([req |-> r, from |-> r])
    /\ responses' = responses \cup {[to |-> r, of |-> r, text |-> "ok"]}
    /\ UNCHANGED handler

Refuse(r) ==
    /\ Kind[r] = "query" /\ Refused(r)
    /\ responses' = responses \cup {[to |-> r, of |-> r, text |-> "empty"]}
    /\ UNCHANGED <<handler, wmail, lost>>

\* doHistoryQuery, doCmd, doCmdStatics: an actor of its own, started asynchronously.
Spawn(r) ==
    /\ Kind[r] \in {"cmd", "statics"} \/ (Kind[r] = "query" /\ ~Refused(r))
    /\ handler' = [handler EXCEPT ![r] = "new"]
    /\ UNCHANGED <<responses, wmail, lost>>

Dispatch ==
    /\ inbox # <<>>
    /\ inbox' = Tail(inbox)
    /\ LET r == Head(inbox) IN Push(r) \/ Refuse(r) \/ Spawn(r)
    /\ UNCHANGED <<client, body, hmail, routees, futures, relayed, rpc_vars, faults>>

\* The constructor sends the event; the handler only waits from then on.
Ask(r) ==
    /\ handler[r] = "new"
    /\ handler' = [handler EXCEPT ![r] = "waiting"]
    /\ \/ Kind[r] = "query" /\ ToRoutee([req |-> r, from |-> r]) /\ UNCHANGED rpcmail
       \/ /\ Kind[r] # "query" /\ rpcup
          /\ rpcmail' = Append(rpcmail, r) /\ UNCHANGED <<wmail, lost>>
       \/ /\ Kind[r] # "query" /\ ~rpcup
          /\ LoseAll({r}, "rpc_down") /\ UNCHANGED <<wmail, rpcmail>>
    /\ UNCHANGED <<http_vars, hmail, routees, futures, relayed, server, rpcup, faults>>

\* Slip: the first case of receive has no type pattern.
BugIsString(m) == m.of \in Requests

\* case history: String
IsString(m) == m.text # "failure"

\* A String is the answer; anything else (a Failure) just stops the actor.
Receive(r) ==
    /\ handler[r] = "waiting" /\ hmail[r] # <<>>
    /\ LET m == Head(hmail[r]) IN
         responses' = IF IsString(m)
                      THEN responses \cup {[to |-> r, of |-> m.of, text |-> m.text]}
                      ELSE responses
    /\ hmail' = [hmail EXCEPT ![r] = Tail(@)]
    /\ handler' = [handler EXCEPT ![r] = "stopped"]
    /\ UNCHANGED <<client, body, inbox, worker_vars, rpc_vars, lost, faults>>

SendReply(to, of, text) ==
    hmail' = [hmail EXCEPT ![to] = Append(@, [of |-> of, text |-> text])]

-----------------------------------------------------------------------------
(* Workers.                                                                *)

JoinRoutee(w) ==
    /\ w \notin routees
    /\ routees' = routees \cup {w}
    /\ UNCHANGED <<http_vars, actor_vars, wmail, futures, relayed, rpc_vars, lost, faults>>

\* A node leaves with the mailboxes and the futures of its routee.
LoseNode(w) ==
    /\ w \in routees /\ faults < MaxFaults
    /\ faults' = faults + 1
    /\ routees' = routees \ {w}
    /\ LoseAll({wmail[w][i].req : i \in DOMAIN wmail[w]}
                 \cup {f.req : f \in {g \in futures : g.at = w}}, "node")
    /\ wmail' = [wmail EXCEPT ![w] = <<>>]
    /\ futures' = {f \in futures : f.at # w}
    /\ UNCHANGED <<http_vars, actor_vars, relayed, rpc_vars>>

\* InputWorker: a pushed event goes to Kafka, a query is only logged.
InputReceive(m) ==
    /\ server.role = "input"
    /\ \/ /\ Kind[m.req] = "push"
          /\ relayed' = relayed \cup {m.req} /\ UNCHANGED <<futures, hmail, lost>>
       \/ /\ Kind[m.req] # "push"
          /\ LoseAll({m.req}, "ignored") /\ UNCHANGED <<futures, hmail, relayed>>

\* OutputWorker: a query becomes a future that knows its sender; an event pushed
\* to the output server is only logged.
OutputReceive(w, m) ==
    /\ server.role = "output"
    /\ \/ /\ Kind[m.req] = "push"
          /\ LoseAll({m.req}, "ignored") /\ UNCHANGED <<futures, hmail>>
       \/ /\ Kind[m.req] = "query" /\ m.req \notin Known
          /\ SendReply(m.from, m.req, "not_found") /\ UNCHANGED <<futures, lost>>
       \/ /\ Kind[m.req] = "query" /\ m.req \in Known
          /\ futures' = futures \cup {[req |-> m.req, to |-> m.from, at |-> w]}
          /\ UNCHANGED <<hmail, lost>>
    /\ UNCHANGED relayed

WorkerReceive(w) ==
    /\ wmail[w] # <<>>
    /\ wmail' = [wmail EXCEPT ![w] = Tail(@)]
    /\ LET m == Head(wmail[w]) IN InputReceive(m) \/ OutputReceive(w, m)
    /\ UNCHANGED <<http_vars, handler, routees, rpc_vars, faults>>

\* deal: the service throws before it returns a future (no session): swallowed.
DealThrows(w) ==
    /\ server.role = "output" /\ wmail[w] # <<>> /\ faults < MaxFaults
    /\ LET m == Head(wmail[w]) IN
         /\ Kind[m.req] = "query" /\ m.req \in Known
         /\ LoseAll({m.req}, "swallowed")
    /\ wmail' = [wmail EXCEPT ![w] = Tail(@)]
    /\ faults' = faults + 1
    /\ UNCHANGED <<http_vars, actor_vars, routees, futures, relayed, rpc_vars>>

\* Slip: sender() is read when the future completes, while the worker is at
\* another query.
BugReplyTo(f) == IF wmail[f.at] # <<>> THEN Head(wmail[f.at]).from ELSE f.to

\* deal(evt, sender()): the sender is an argument, evaluated with the message.
ReplyTo(f) == f.to

FutureSucceeds(f) ==
    /\ f \in futures
    /\ SendReply(ReplyTo(f), f.req, "rows")
    /\ futures' = futures \ {f}
    /\ UNCHANGED <<http_vars, handler, routees, wmail, relayed, rpc_vars, lost, faults>>

\* case x => actor ! x
FutureFails(f) ==
    /\ f \in futures /\ faults < MaxFaults
    /\ SendReply(ReplyTo(f), f.req, "failure")
    /\ futures' = futures \ {f}
    /\ faults' = faults + 1
    /\ UNCHANGED <<http_vars, handler, routees, wmail, relayed, rpc_vars, lost>>

-----------------------------------------------------------------------------
(* The RpcActor: synchronous, one command at a time.                       *)

\* Slip: the pattern of Spark's RpcActor in Flink's.
BugAnswers(r) == Kind[r] = "statics"

\* Spark's RpcActor has no case for CmdMessage.
Answers(r) == server.engine = "flink" \/ Kind[r] = "statics"

RpcReceive ==
    /\ rpcup /\ rpcmail # <<>>
    /\ rpcmail' = Tail(rpcmail)
    /\ LET r == Head(rpcmail) IN
         \/ /\ Answers(r)
            /\ SendReply(r, r, IF r \in Known THEN "result" ELSE "not_found")
            /\ UNCHANGED lost
         \/ ~Answers(r) /\ LoseAll({r}, "ignored") /\ UNCHANGED hmail
    /\ UNCHANGED <<http_vars, handler, worker_vars, server, rpcup, faults>>

\* A handler throws (no such format, no rows, Cassandra down): the actor is
\* restarted, its mailbox stays, the command is gone.
RpcThrows ==
    /\ rpcup /\ rpcmail # <<>> /\ faults < MaxFaults
    /\ Answers(Head(rpcmail)) /\ Head(rpcmail) \in Known
    /\ rpcmail' = Tail(rpcmail)
    /\ LoseAll({Head(rpcmail)}, "rpc_threw")
    /\ faults' = faults + 1
    /\ UNCHANGED <<http_vars, actor_vars, worker_vars, server, rpcup>>

RpcDies ==
    /\ rpcup /\ faults < MaxFaults
    /\ rpcup' = FALSE
    /\ LoseAll({rpcmail[i] : i \in DOMAIN rpcmail}, "rpc_down")
    /\ rpcmail' = <<>>
    /\ faults' = faults + 1
    /\ UNCHANGED <<http_vars, actor_vars, worker_vars, server>>

RpcStarts ==
    /\ ~rpcup
    /\ rpcup' = TRUE
    /\ UNCHANGED <<http_vars, actor_vars, worker_vars, server, rpcmail, lost, faults>>

-----------------------------------------------------------------------------
Next ==
    \/ Dispatch \/ RpcReceive \/ RpcThrows \/ RpcDies \/ RpcStarts
    \/ \E r \in Requests : Open(r) \/ TimesOut(r) \/ Ask(r) \/ Receive(r)
    \/ \E p \in responses : Respond(p)
    \/ \E w \in Workers : JoinRoutee(w) \/ LoseNode(w) \/ WorkerReceive(w) \/ DealThrows(w)
    \/ \E f \in futures : FutureSucceeds(f) \/ FutureFails(f)

Spec == Init /\ [][Next]_vars

\* Actors with mail run, drivers complete their futures; clients may never ask.
Fairness ==
    /\ WF_vars(Dispatch) /\ WF_vars(RpcReceive)
    /\ \A r \in Requests : WF_vars(Ask(r)) /\ WF_vars(Receive(r))
    /\ \A w \in Workers : WF_vars(WorkerReceive(w))
    /\ WF_vars(\E f \in futures : FutureSucceeds(f))
    /\ WF_vars(\E p \in responses : Respond(p))

FairSpec == Spec /\ Fairness

-----------------------------------------------------------------------------
(* Properties.                                                             *)

\* Every variable stays in its type.
TypeOK ==
    /\ client \in [Requests -> {"idle", "open", "answered", "timedout"}]
    /\ body \in [Requests -> SUBSET Answer]
    /\ inbox \in Seq(Requests)
    /\ handler \in [Requests -> {"none", "new", "waiting", "stopped"}]
    /\ hmail \in [Requests -> Seq(Reply)]
    /\ responses \subseteq Response
    /\ routees \subseteq Workers
    /\ wmail \in [Workers -> Seq(Query)]
    /\ futures \subseteq Future
    /\ server \in Servers /\ rpcup \in BOOLEAN /\ rpcmail \in Seq(Requests)
    /\ relayed \subseteq Requests /\ lost \subseteq Loss
    /\ faults \in 0 .. MaxFaults

\* What a client is told is the outcome of its own request, although workers
\* take the next query before the futures of the last ones complete
\* (OutputWorker.scala:24,34), and it is told once.  Only an empty range, and one
\* whose bounds add up to more than an Int, is turned away with an empty answer.
AnswerIsOwn ==
    \A r \in Requests :
      /\ Cardinality(body[r]) <= 1
      /\ \A a \in body[r] :
           /\ a.of = r
           /\ a.text = "empty" => \/ Start[r] = 0 /\ End[r] = 0
                                  \/ Start[r] + End[r] > MaxInt
           /\ a.text = "rows" => Kind[r] = "query" /\ r \in Known
           /\ a.text = "ok" <=> Kind[r] = "push"

Places(r) ==
    (UNION {{<<"worker", w, i>> : i \in {j \in DOMAIN wmail[w] : wmail[w][j].req = r}} : w \in Workers})
      \cup {<<"rpc", i>> : i \in {j \in DOMAIN rpcmail : rpcmail[j] = r}}
      \cup {<<"future", f>> : f \in {g \in futures : g.req = r}}
      \cup {<<"reply", i>> : i \in DOMAIN hmail[r]}
      \cup {<<"lost", l>> : l \in {k \in lost : k.req = r}}

\* A waiting actor waits for exactly one thing: its question is in one mailbox,
\* in one future, answered in its own mailbox, or lost for one named reason (and
\* then the actor waits for ever).  Before it asks and after it stops nothing of
\* it is left anywhere.
OneQuestion ==
    \A r \in Requests :
      Kind[r] # "push" => Cardinality(Places(r)) = IF handler[r] = "waiting" THEN 1 ELSE 0

\* DataService has answered the push and told the event to its router.
Taken(r) == client[r] # "idle" /\ \A i \in DOMAIN inbox : inbox[i] # r

\* The "ok" a push is answered with says that its event was told, no more: from then on the
\* event is in one worker's mailbox, handed to Kafka, or lost, because the router had no
\* routee, the routee's node died, or the server is one whose workers only log events.
OneEvent ==
    \A r \in Requests : Kind[r] = "push" =>
      /\ r \in relayed => Taken(r) /\ server.role = "input"
      /\ Cardinality(Places(r)) = IF Taken(r) /\ r \notin relayed THEN 1 ELSE 0
      /\ \A l \in lost : l.req = r =>
           l.why \in {"no_routee", "node"} \/ (l.why = "ignored" /\ server.role = "output")

\* Each request is in one place: what its actor waits for, and what was told for a push.
OneCarrier == OneQuestion /\ OneEvent

\* Without failures no actor outlives its question: every actor whose question
\* reached someone who answers such questions is answered and stops.
Pending(r) == Cardinality(Places(r)) > 0 /\ \A l \in lost : l.req # r
ActorsStop ==
    \A r \in Requests : (handler[r] = "waiting" /\ Pending(r)) ~> (handler[r] = "stopped")
=============================================================================
