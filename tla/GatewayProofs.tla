--------------------------- MODULE GatewayProofs ---------------------------
(***************************************************************************)
(* Whatever the requests, workers, failures and orders: every variable of  *)
(* the gateway stays in its type, and a client is told the outcome of its  *)
(* own request, once.  The second needs to know of every carrier on the    *)
(* way (worker mailbox, future, actor mailbox, response) that the address  *)
(* it bears is that of the request it is about.  And the question of a     *)
(* waiting actor, like an event that was told and is not with Kafka yet,   *)
(* is in exactly one place, because every step that takes it out of one    *)
(* carrier puts it into one other.                                         *)
(***************************************************************************)
EXTENDS Gateway, TLAPS, SequenceTheorems, FiniteSetTheorems

\* What may be said of a request.
Fits(r, text) ==
    /\ text = "empty" => Refused(r)
    /\ text = "rows" => Kind[r] = "query" /\ r \in Known
    /\ text = "ok" <=> Kind[r] = "push"

WorkersOwn  == \A w \in Workers : \A i \in DOMAIN wmail[w] : wmail[w][i].from = wmail[w][i].req
FuturesOwn  == \A f \in futures : f.to = f.req /\ Kind[f.req] = "query" /\ f.req \in Known
HandlersOwn == \A r \in Requests : \A i \in DOMAIN hmail[r] :
                 /\ hmail[r][i].of = r
                 /\ hmail[r][i].text = "rows" => Kind[r] = "query" /\ r \in Known
ResponsesOwn == \A p \in responses : p.to = p.of /\ Fits(p.of, p.text)
BodiesOwn    == \A r \in Requests : \A a \in body[r] : a.of = r /\ Fits(r, a.text)
\* Who has an answer has it from the one response that closed the connection.
ToldOnce     == \A r \in Requests :
                  /\ client[r] \in {"idle", "open"} => body[r] = {}
                  /\ \A a, b \in body[r] : a = b
\* A push has no actor.
NoPushActor  == \A r \in Requests : handler[r] # "none" => Kind[r] # "push"

Own == /\ WorkersOwn /\ FuturesOwn /\ HandlersOwn /\ ResponsesOwn /\ BodiesOwn
       /\ ToldOnce /\ NoPushActor

-----------------------------------------------------------------------------
(* Mailboxes.                                                              *)

LEMMA MailHead ==
    ASSUME NEW S, NEW s \in Seq(S), s # <<>>
    PROVE  /\ Head(s) \in S /\ Tail(s) \in Seq(S)
           /\ 1 \in DOMAIN s /\ Head(s) = s[1]
           /\ \A i \in DOMAIN Tail(s) : i + 1 \in DOMAIN s /\ Tail(s)[i] = s[i + 1]
  <1>1. /\ Head(s) \in S /\ Tail(s) \in Seq(S) /\ Len(Tail(s)) = Len(s) - 1
        /\ \A i \in 1 .. Len(Tail(s)) : Tail(s)[i] = s[i + 1]
    BY HeadTailProperties
  <1>2. Len(s) \in Nat \ {0} /\ DOMAIN s = 1 .. Len(s) /\ DOMAIN Tail(s) = 1 .. Len(Tail(s))
    BY <1>1, EmptySeq, LenProperties
  <1>3. Head(s) = s[1]
    BY HeadTailProperties
  <1> QED  BY <1>1, <1>2, <1>3

LEMMA MailAppend ==
    ASSUME NEW S, NEW s \in Seq(S), NEW m \in S
    PROVE  /\ Append(s, m) \in Seq(S)
           /\ \A i \in DOMAIN Append(s, m) :
                (i \in DOMAIN s /\ Append(s, m)[i] = s[i]) \/ Append(s, m)[i] = m
  <1>1. /\ Append(s, m) \in Seq(S) /\ Len(Append(s, m)) = Len(s) + 1
        /\ \A i \in 1 .. Len(s) : Append(s, m)[i] = s[i]
        /\ Append(s, m)[Len(s) + 1] = m
    BY AppendProperties
  <1>2. /\ Len(s) \in Nat /\ DOMAIN s = 1 .. Len(s)
        /\ DOMAIN Append(s, m) = 1 .. Len(Append(s, m))
    BY <1>1, LenProperties
  <1> QED  BY <1>1, <1>2

LEMMA NoMail ==
    ASSUME NEW S
    PROVE  <<>> \in Seq(S) /\ DOMAIN <<>> = {}
  <1>1. <<>> \in Seq(S) /\ Len(<<>>) = 0
    BY EmptySeq
  <1> QED  BY <1>1, LenProperties

-----------------------------------------------------------------------------
(* What the operators shared by several actions do.                        *)

LEMMA LoseAllOK ==
    ASSUME lost \subseteq Loss, NEW rs, rs \subseteq Requests,
           NEW why \in {"no_routee", "ignored", "swallowed", "node", "rpc_down", "rpc_threw"},
           LoseAll(rs, why)
    PROVE  lost' \subseteq Loss
  BY DEF LoseAll, Loss

LEMMA SendReplyOK ==
    ASSUME TypeOK, HandlersOwn, NEW r \in Requests,
           NEW text \in {"rows", "not_found", "result", "failure"},
           text = "rows" => Kind[r] = "query" /\ r \in Known,
           SendReply(r, r, text)
    PROVE  hmail' \in [Requests -> Seq(Reply)] /\ HandlersOwn'
  <1> DEFINE m == [of |-> r, text |-> text]
  <1>1. m \in Reply /\ m.of = r /\ m.text = text
    BY DEF Reply
  <1>2. hmail \in [Requests -> Seq(Reply)] /\ hmail' = [hmail EXCEPT ![r] = Append(hmail[r], m)]
    BY DEF TypeOK, SendReply
  <1> HIDE DEF m
  <1>3. /\ Append(hmail[r], m) \in Seq(Reply)
        /\ \A i \in DOMAIN Append(hmail[r], m) :
             (i \in DOMAIN hmail[r] /\ Append(hmail[r], m)[i] = hmail[r][i])
               \/ Append(hmail[r], m)[i] = m
    BY <1>1, <1>2, MailAppend
  <1>4. hmail' \in [Requests -> Seq(Reply)]
    BY <1>2, <1>3
  <1>5. ASSUME NEW q \in Requests, NEW i \in DOMAIN hmail'[q]
        PROVE  /\ hmail'[q][i].of = q
               /\ hmail'[q][i].text = "rows" => Kind[q] = "query" /\ q \in Known
    <2>1. CASE q = r
      BY <1>1, <1>2, <1>3, <1>5, <2>1 DEF HandlersOwn
    <2>2. CASE q # r
      BY <1>2, <1>5, <2>2 DEF HandlersOwn
    <2> QED  BY <2>1, <2>2
  <1> QED  BY <1>4, <1>5 DEF HandlersOwn

LEMMA ToRouteeOK ==
    ASSUME TypeOK, WorkersOwn, NEW r \in Requests, ToRoutee([req |-> r, from |-> r])
    PROVE  wmail' \in [Workers -> Seq(Query)] /\ WorkersOwn' /\ lost' \subseteq Loss
  <1> DEFINE m == [req |-> r, from |-> r]
  <1>1. m \in Query /\ m.from = m.req /\ m.req = r
    BY DEF Query
  <1>2. wmail \in [Workers -> Seq(Query)] /\ lost \subseteq Loss /\ routees \subseteq Workers
    BY DEF TypeOK
  <1>3. ToRoutee(m)
    OBVIOUS
  <1> HIDE DEF m
  <1>4. CASE LoseAll({m.req}, "no_routee") /\ UNCHANGED wmail
    BY <1>1, <1>2, <1>4, LoseAllOK DEF WorkersOwn
  <1>5. ASSUME NEW w \in routees, wmail' = [wmail EXCEPT ![w] = Append(@, m)], UNCHANGED lost
        PROVE  wmail' \in [Workers -> Seq(Query)] /\ WorkersOwn' /\ lost' \subseteq Loss
    <2>1. w \in Workers /\ wmail[w] \in Seq(Query)
      BY <1>2
    <2>2. /\ Append(wmail[w], m) \in Seq(Query)
          /\ \A i \in DOMAIN Append(wmail[w], m) :
               (i \in DOMAIN wmail[w] /\ Append(wmail[w], m)[i] = wmail[w][i])
                 \/ Append(wmail[w], m)[i] = m
      BY <1>1, <2>1, MailAppend
    <2>3. wmail' \in [Workers -> Seq(Query)]
      BY <1>2, <1>5, <2>1, <2>2
    <2>4. ASSUME NEW v \in Workers, NEW i \in DOMAIN wmail'[v]
          PROVE  wmail'[v][i].from = wmail'[v][i].req
      <3>1. CASE v = w
        BY <1>1, <1>2, <1>5, <2>1, <2>2, <2>4, <3>1 DEF WorkersOwn
      <3>2. CASE v # w
        BY <1>2, <1>5, <2>4, <3>2 DEF WorkersOwn
      <3> QED  BY <3>1, <3>2
    <2> QED  BY <1>2, <1>5, <2>3, <2>4 DEF WorkersOwn
  <1> QED  BY <1>3, <1>4, <1>5 DEF ToRoutee

\* A worker is done with the first message of its mailbox.
LEMMA WorkerTakes ==
    ASSUME TypeOK, WorkersOwn, NEW w \in Workers, wmail[w] # <<>>,
           wmail' = [wmail EXCEPT ![w] = Tail(@)]
    PROVE  /\ Head(wmail[w]) \in Query /\ Head(wmail[w]).from = Head(wmail[w]).req
           /\ wmail' \in [Workers -> Seq(Query)] /\ WorkersOwn'
  <1>1. wmail \in [Workers -> Seq(Query)]
    BY DEF TypeOK
  <1>2. /\ Head(wmail[w]) \in Query /\ Tail(wmail[w]) \in Seq(Query)
        /\ 1 \in DOMAIN wmail[w] /\ Head(wmail[w]) = wmail[w][1]
        /\ \A i \in DOMAIN Tail(wmail[w]) :
             i + 1 \in DOMAIN wmail[w] /\ Tail(wmail[w])[i] = wmail[w][i + 1]
    BY <1>1, MailHead
  <1>3. wmail' \in [Workers -> Seq(Query)]
    BY <1>1, <1>2
  <1>4. ASSUME NEW v \in Workers, NEW i \in DOMAIN wmail'[v]
        PROVE  wmail'[v][i].from = wmail'[v][i].req
    <2>1. CASE v = w
      BY <1>1, <1>2, <1>4, <2>1 DEF WorkersOwn
    <2>2. CASE v # w
      BY <1>1, <1>4, <2>2 DEF WorkersOwn
    <2> QED  BY <2>1, <2>2
  <1> QED  BY <1>2, <1>3, <1>4 DEF WorkersOwn
-----------------------------------------------------------------------------
(* The invariant.                                                          *)

Inv == TypeOK /\ Own

LEMMA InvInit == Init => Inv
  <1> SUFFICES ASSUME Init PROVE TypeOK /\ Own
    BY DEF Inv
  <1>1. /\ inbox \in Seq(Requests) /\ rpcmail \in Seq(Requests)
        /\ hmail \in [Requests -> Seq(Reply)] /\ wmail \in [Workers -> Seq(Query)]
    BY NoMail DEF Init
  <1>2. faults \in 0 .. MaxFaults
    BY RoleAssumption DEF Init
  <1>3. TypeOK
    BY <1>1, <1>2 DEF Init, TypeOK
  <1>4. WorkersOwn /\ HandlersOwn
    BY NoMail DEF Init, WorkersOwn, HandlersOwn
  <1>5. FuturesOwn /\ ResponsesOwn /\ BodiesOwn /\ ToldOnce /\ NoPushActor
    BY DEF Init, FuturesOwn, ResponsesOwn, BodiesOwn, ToldOnce, NoPushActor
  <1> QED  BY <1>3, <1>4, <1>5 DEF Own

\* The connections.
LEMMA OpenOK == ASSUME Inv, NEW r \in Requests, Open(r) PROVE Inv'
  <1>1. inbox' \in Seq(Requests)
    BY MailAppend DEF Inv, TypeOK, Open
  <1>2. TypeOK'
    BY <1>1 DEF Inv, TypeOK, Open, actor_vars, worker_vars, rpc_vars
  <1>3. Own'
    BY DEF Inv, TypeOK, Own, WorkersOwn, FuturesOwn, HandlersOwn, ResponsesOwn, BodiesOwn,
           ToldOnce, NoPushActor, Open, actor_vars, worker_vars, rpc_vars
  <1> QED  BY <1>2, <1>3 DEF Inv

LEMMA TimesOutOK == ASSUME Inv, NEW r \in Requests, TimesOut(r) PROVE Inv'
  <1>1. TypeOK'
    BY DEF Inv, TypeOK, TimesOut, actor_vars, worker_vars, rpc_vars
  <1>2. Own'
    BY DEF Inv, TypeOK, Own, WorkersOwn, FuturesOwn, HandlersOwn, ResponsesOwn, BodiesOwn,
           ToldOnce, NoPushActor, TimesOut, actor_vars, worker_vars, rpc_vars
  <1> QED  BY <1>1, <1>2 DEF Inv

LEMMA RespondOK == ASSUME Inv, NEW p \in responses, Respond(p) PROVE Inv'
  <1>1. p \in Response /\ p.to = p.of /\ Fits(p.of, p.text)
    BY DEF Inv, TypeOK, Own, ResponsesOwn
  <1> DEFINE a == [of |-> p.of, text |-> p.text]
  <1>2. p.to \in Requests /\ a \in Answer /\ a.of = p.to /\ a.text = p.text
    BY <1>1 DEF Response, Answer
  <1>3. \/ /\ client[p.to] = "open"
           /\ client' = [client EXCEPT ![p.to] = "answered"]
           /\ body' = [body EXCEPT ![p.to] = @ \cup {a}]
        \/ UNCHANGED <<client, body>>
    BY DEF Respond
  <1> HIDE DEF a
  <1>4. client \in [Requests -> {"idle", "open", "answered", "timedout"}]
        /\ body \in [Requests -> SUBSET Answer] /\ BodiesOwn /\ ToldOnce
    BY DEF Inv, TypeOK, Own
  <1>5. /\ client' \in [Requests -> {"idle", "open", "answered", "timedout"}]
        /\ body' \in [Requests -> SUBSET Answer] /\ BodiesOwn' /\ ToldOnce'
    <2>1. CASE /\ client[p.to] = "open"
               /\ client' = [client EXCEPT ![p.to] = "answered"]
               /\ body' = [body EXCEPT ![p.to] = @ \cup {a}]
      <3>1. body[p.to] = {}
        BY <1>2, <1>4, <2>1 DEF ToldOnce
      <3>2. body'[p.to] = {a} /\ client'[p.to] = "answered"
        BY <1>2, <1>4, <2>1, <3>1
      <3>3. \A r \in Requests : r # p.to => body'[r] = body[r] /\ client'[r] = client[r]
        BY <1>2, <1>4, <2>1
      <3>4. /\ client' \in [Requests -> {"idle", "open", "answered", "timedout"}]
            /\ body' \in [Requests -> SUBSET Answer]
        BY <1>2, <1>4, <2>1
      <3>5. BodiesOwn'
        BY <1>1, <1>2, <1>4, <3>2, <3>3 DEF BodiesOwn, Fits, Refused, PlusInt
      <3>6. ToldOnce'
        BY <1>2, <1>4, <3>2, <3>3 DEF ToldOnce
      <3> QED  BY <3>4, <3>5, <3>6
    <2>2. CASE UNCHANGED <<client, body>>
      BY <1>4, <2>2 DEF BodiesOwn, ToldOnce
    <2> QED  BY <1>3, <2>1, <2>2
  <1>6. TypeOK'
    BY <1>5 DEF Inv, TypeOK, Respond, actor_vars, worker_vars, rpc_vars
  <1>7. WorkersOwn' /\ FuturesOwn' /\ HandlersOwn' /\ ResponsesOwn' /\ NoPushActor'
    BY DEF Inv, Own, WorkersOwn, FuturesOwn, HandlersOwn, ResponsesOwn, NoPushActor,
           Respond, actor_vars, worker_vars, rpc_vars
  <1> QED  BY <1>5, <1>6, <1>7 DEF Inv, Own

\* DataService.
LEMMA DispatchOK == ASSUME Inv, Dispatch PROVE Inv'
  <1> DEFINE r == Head(inbox)
  <1>1. r \in Requests /\ inbox' \in Seq(Requests)
    BY MailHead DEF Inv, TypeOK, Dispatch
  <1>2. Push(r) \/ Refuse(r) \/ Spawn(r)
    BY DEF Dispatch
  <1>3. UNCHANGED <<client, body, hmail, routees, futures, relayed, server, rpcup, rpcmail, faults>>
    BY DEF Dispatch, rpc_vars
  <1> HIDE DEF r
  <1>4. /\ wmail' \in [Workers -> Seq(Query)] /\ WorkersOwn' /\ lost' \subseteq Loss
        /\ handler' \in [Requests -> {"none", "new", "waiting", "stopped"}] /\ NoPushActor'
        /\ responses' \subseteq Response /\ ResponsesOwn'
    <2>1. CASE Push(r)
      <3>1. wmail' \in [Workers -> Seq(Query)] /\ WorkersOwn' /\ lost' \subseteq Loss
        BY <1>1, <2>1, ToRouteeOK DEF Push, Inv, Own
      <3>2. [to |-> r, of |-> r, text |-> "ok"] \in Response
        BY <1>1 DEF Response, Texts
      <3>3. Fits(r, "ok")
        BY <2>1 DEF Push, Fits
      <3>4. responses' \subseteq Response /\ ResponsesOwn'
        BY <2>1, <3>2, <3>3 DEF Push, Inv, TypeOK, Own, ResponsesOwn, Fits, Refused, PlusInt
      <3>5. handler' \in [Requests -> {"none", "new", "waiting", "stopped"}] /\ NoPushActor'
        BY <2>1 DEF Push, Inv, TypeOK, Own, NoPushActor
      <3> QED  BY <3>1, <3>4, <3>5
    <2>2. CASE Refuse(r)
      <3>1. [to |-> r, of |-> r, text |-> "empty"] \in Response
        BY <1>1 DEF Response, Texts
      <3>2. Fits(r, "empty")
        BY <2>2 DEF Refuse, Fits
      <3>3. responses' \subseteq Response /\ ResponsesOwn'
        BY <2>2, <3>1, <3>2 DEF Refuse, Inv, TypeOK, Own, ResponsesOwn, Fits, Refused, PlusInt
      <3> QED  BY <2>2, <3>3 DEF Refuse, Inv, TypeOK, Own, WorkersOwn, NoPushActor
    <2>3. CASE Spawn(r)
      <3>1. Kind[r] # "push"
        BY <2>3 DEF Spawn
      <3>2. handler' \in [Requests -> {"none", "new", "waiting", "stopped"}] /\ NoPushActor'
        BY <1>1, <2>3, <3>1 DEF Spawn, Inv, TypeOK, Own, NoPushActor
      <3> QED  BY <2>3, <3>2 DEF Spawn, Inv, TypeOK, Own, WorkersOwn, ResponsesOwn, Fits, Refused, PlusInt
    <2> QED  BY <1>2, <2>1, <2>2, <2>3
  <1>5. TypeOK'
    BY <1>1, <1>3, <1>4 DEF Inv, TypeOK
  <1>6. FuturesOwn' /\ HandlersOwn' /\ BodiesOwn' /\ ToldOnce'
    BY <1>3 DEF Inv, Own, FuturesOwn, HandlersOwn, BodiesOwn, ToldOnce, Fits, Refused, PlusInt
  <1> QED  BY <1>4, <1>5, <1>6 DEF Inv, Own

\* The actor of a request.
LEMMA AskOK == ASSUME Inv, NEW r \in Requests, Ask(r) PROVE Inv'
  <1>1. /\ wmail' \in [Workers -> Seq(Query)] /\ WorkersOwn' /\ lost' \subseteq Loss
        /\ rpcmail' \in Seq(Requests)
    <2>1. CASE Kind[r] = "query" /\ ToRoutee([req |-> r, from |-> r]) /\ UNCHANGED rpcmail
      BY <2>1, ToRouteeOK DEF Inv, TypeOK, Own
    <2>2. CASE rpcmail' = Append(rpcmail, r) /\ UNCHANGED <<wmail, lost>>
      BY <2>2, MailAppend DEF Inv, TypeOK, Own, WorkersOwn
    <2>3. CASE LoseAll({r}, "rpc_down") /\ UNCHANGED <<wmail, rpcmail>>
      BY <2>3, LoseAllOK DEF Inv, TypeOK, Own, WorkersOwn
    <2> QED  BY <2>1, <2>2, <2>3 DEF Ask
  <1>2. /\ handler' = [handler EXCEPT ![r] = "waiting"] /\ handler[r] = "new"
        /\ UNCHANGED <<http_vars, hmail, routees, futures, relayed, server, rpcup, faults>>
    BY DEF Ask
  <1>3. TypeOK'
    BY <1>1, <1>2 DEF Inv, TypeOK, http_vars
  <1>4. NoPushActor'
    BY <1>2 DEF Inv, TypeOK, Own, NoPushActor
  <1>5. FuturesOwn' /\ HandlersOwn' /\ ResponsesOwn' /\ BodiesOwn' /\ ToldOnce'
    BY <1>2 DEF Inv, Own, FuturesOwn, HandlersOwn, ResponsesOwn, BodiesOwn, ToldOnce, http_vars
  <1> QED  BY <1>1, <1>3, <1>4, <1>5 DEF Inv, Own

LEMMA ReceiveOK == ASSUME Inv, NEW r \in Requests, Receive(r) PROVE Inv'
  <1>1. /\ handler' = [handler EXCEPT ![r] = "stopped"] /\ handler[r] = "waiting"
        /\ hmail' = [hmail EXCEPT ![r] = Tail(hmail[r])] /\ hmail[r] # <<>>
        /\ UNCHANGED <<client, body, inbox, worker_vars, rpc_vars, lost, faults>>
    BY DEF Receive
  <1>2. hmail \in [Requests -> Seq(Reply)] /\ HandlersOwn /\ Kind[r] # "push"
    BY <1>1 DEF Inv, TypeOK, Own, NoPushActor
  <1>3. /\ Head(hmail[r]) \in Reply /\ Tail(hmail[r]) \in Seq(Reply)
        /\ 1 \in DOMAIN hmail[r] /\ Head(hmail[r]) = hmail[r][1]
        /\ \A i \in DOMAIN Tail(hmail[r]) :
             i + 1 \in DOMAIN hmail[r] /\ Tail(hmail[r])[i] = hmail[r][i + 1]
    BY <1>1, <1>2, MailHead
  <1>4. hmail' \in [Requests -> Seq(Reply)]
    BY <1>1, <1>2, <1>3
  <1>5. HandlersOwn'
    <2>1. ASSUME NEW q \in Requests, NEW i \in DOMAIN hmail'[q]
          PROVE  /\ hmail'[q][i].of = q
                 /\ hmail'[q][i].text = "rows" => Kind[q] = "query" /\ q \in Known
      <3>1. CASE q = r
        BY <1>1, <1>2, <1>3, <2>1, <3>1 DEF HandlersOwn
      <3>2. CASE q # r
        BY <1>1, <1>2, <2>1, <3>2 DEF HandlersOwn
      <3> QED  BY <3>1, <3>2
    <2> QED  BY <2>1 DEF HandlersOwn
  <1>6. responses' \subseteq Response /\ ResponsesOwn'
    <2> DEFINE m == Head(hmail[r])
               p == [to |-> r, of |-> m.of, text |-> m.text]
    <2>1. /\ m \in Reply /\ m.of = r
          /\ m.text = "rows" => Kind[r] = "query" /\ r \in Known
      BY <1>2, <1>3 DEF HandlersOwn
    <2>2. CASE IsString(m)
      <3>1. m.text \in {"rows", "not_found", "result"}
        BY <2>1, <2>2 DEF Reply, IsString
      <3>2. p \in Response /\ p.to = p.of
        BY <2>1, <3>1 DEF Response, Texts
      <3>3. Fits(p.of, p.text)
        BY <1>2, <2>1, <3>1 DEF Fits
      <3>4. responses' = responses \cup {p}
        BY <2>2 DEF Receive
      <3> HIDE DEF p
      <3> QED  BY <3>2, <3>3, <3>4 DEF Inv, TypeOK, Own, ResponsesOwn, Fits, Refused, PlusInt
    <2>3. CASE ~IsString(m)
      BY <2>3 DEF Receive, Inv, TypeOK, Own, ResponsesOwn
    <2> QED  BY <2>2, <2>3
  <1>7. TypeOK'
    BY <1>1, <1>4, <1>6 DEF Inv, TypeOK, worker_vars, rpc_vars
  <1>8. NoPushActor'
    BY <1>1 DEF Inv, TypeOK, Own, NoPushActor
  <1>9. WorkersOwn' /\ FuturesOwn' /\ BodiesOwn' /\ ToldOnce'
    BY <1>1 DEF Inv, Own, WorkersOwn, FuturesOwn, BodiesOwn, ToldOnce, worker_vars
  <1> QED  BY <1>5, <1>6, <1>7, <1>8, <1>9 DEF Inv, Own

\* The workers.
LEMMA JoinRouteeOK == ASSUME Inv, NEW w \in Workers, JoinRoutee(w) PROVE Inv'
  <1>1. TypeOK'
    BY DEF Inv, TypeOK, JoinRoutee, http_vars, actor_vars, rpc_vars
  <1>2. Own'
    BY DEF Inv, Own, WorkersOwn, FuturesOwn, HandlersOwn, ResponsesOwn, BodiesOwn,
           ToldOnce, NoPushActor, JoinRoutee, http_vars, actor_vars, rpc_vars
  <1> QED  BY <1>1, <1>2 DEF Inv

LEMMA LoseNodeOK == ASSUME Inv, NEW w \in Workers, LoseNode(w) PROVE Inv'
  <1>1. wmail \in [Workers -> Seq(Query)] /\ futures \subseteq Future /\ lost \subseteq Loss
    BY DEF Inv, TypeOK
  <1> DEFINE gone == {wmail[w][i].req : i \in DOMAIN wmail[w]}
                       \cup {f.req : f \in {g \in futures : g.at = w}}
  <1>2. gone \subseteq Requests
    <2>1. \A i \in DOMAIN wmail[w] : wmail[w][i] \in Query
      BY <1>1, ElementOfSeq, LenProperties
    <2> QED  BY <1>1, <2>1 DEF Query, Future
  <1>3. LoseAll(gone, "node")
    BY DEF LoseNode
  <1> HIDE DEF gone
  <1>4. lost' \subseteq Loss
    BY <1>1, <1>2, <1>3, LoseAllOK
  <1>5. wmail' = [wmail EXCEPT ![w] = <<>>]
    BY DEF LoseNode
  <1>6. wmail' \in [Workers -> Seq(Query)] /\ WorkersOwn'
    BY <1>1, <1>5, NoMail DEF Inv, Own, WorkersOwn
  <1>7. faults' \in 0 .. MaxFaults
    BY RoleAssumption DEF LoseNode, Inv, TypeOK
  <1>8. TypeOK'
    BY <1>4, <1>6, <1>7 DEF Inv, TypeOK, LoseNode, http_vars, actor_vars, rpc_vars
  <1>9. FuturesOwn' /\ HandlersOwn' /\ ResponsesOwn' /\ BodiesOwn' /\ ToldOnce' /\ NoPushActor'
    BY DEF Inv, Own, FuturesOwn, HandlersOwn, ResponsesOwn, BodiesOwn, ToldOnce,
           NoPushActor, LoseNode, http_vars, actor_vars, rpc_vars
  <1> QED  BY <1>6, <1>8, <1>9 DEF Inv, Own

LEMMA WorkerReceiveOK == ASSUME Inv, NEW w \in Workers, WorkerReceive(w) PROVE Inv'
  <1> DEFINE m == Head(wmail[w])
  <1>1. /\ m \in Query /\ m.from = m.req
        /\ wmail' \in [Workers -> Seq(Query)] /\ WorkersOwn'
    BY WorkerTakes DEF WorkerReceive, Inv, Own
  <1>2. InputReceive(m) \/ OutputReceive(w, m)
    BY DEF WorkerReceive
  <1>3. UNCHANGED <<http_vars, handler, routees, rpc_vars, faults>>
    BY DEF WorkerReceive
  <1> HIDE DEF m
  <1>4. m.req \in Requests
    BY <1>1 DEF Query
  <1>5. LoseAll({m.req}, "ignored") => lost' \subseteq Loss
    <2>1. {m.req} \subseteq Requests
      BY <1>4
    <2> QED  BY <2>1, LoseAllOK DEF Inv, TypeOK
  <1>6. /\ relayed' \subseteq Requests /\ lost' \subseteq Loss
        /\ futures' \subseteq Future /\ FuturesOwn'
        /\ hmail' \in [Requests -> Seq(Reply)] /\ HandlersOwn'
    <2>1. CASE InputReceive(m)
      <3>1. CASE relayed' = relayed \cup {m.req} /\ UNCHANGED <<futures, hmail, lost>>
        BY <1>4, <3>1 DEF Inv, TypeOK, Own, FuturesOwn, HandlersOwn
      <3>2. CASE LoseAll({m.req}, "ignored") /\ UNCHANGED <<futures, hmail, relayed>>
        BY <1>5, <3>2 DEF Inv, TypeOK, Own, FuturesOwn, HandlersOwn
      <3> QED  BY <2>1, <3>1, <3>2 DEF InputReceive
    <2>2. CASE OutputReceive(w, m)
      <3>1. CASE LoseAll({m.req}, "ignored") /\ UNCHANGED <<futures, hmail, relayed>>
        BY <1>5, <3>1 DEF Inv, TypeOK, Own, FuturesOwn, HandlersOwn
      <3>2. CASE SendReply(m.from, m.req, "not_found") /\ UNCHANGED <<futures, lost, relayed>>
        <4>1. SendReply(m.req, m.req, "not_found")
          BY <1>1, <3>2
        <4>2. hmail' \in [Requests -> Seq(Reply)] /\ HandlersOwn'
          BY <1>4, <4>1, SendReplyOK DEF Inv, Own
        <4> QED  BY <3>2, <4>2 DEF Inv, TypeOK, Own, FuturesOwn
      <3>3. CASE /\ Kind[m.req] = "query" /\ m.req \in Known
                 /\ futures' = futures \cup {[req |-> m.req, to |-> m.from, at |-> w]}
                 /\ UNCHANGED <<hmail, lost, relayed>>
        <4>1. [req |-> m.req, to |-> m.from, at |-> w] \in Future
          BY <1>1, <1>4 DEF Future
        <4> QED  BY <1>1, <1>4, <3>3, <4>1 DEF Inv, TypeOK, Own, FuturesOwn, HandlersOwn
      <3> QED  BY <2>2, <3>1, <3>2, <3>3 DEF OutputReceive
    <2> QED  BY <1>2, <2>1, <2>2
  <1>7. TypeOK'
    BY <1>1, <1>3, <1>6 DEF Inv, TypeOK, http_vars, rpc_vars
  <1>8. ResponsesOwn' /\ BodiesOwn' /\ ToldOnce' /\ NoPushActor'
    BY <1>3 DEF Inv, Own, ResponsesOwn, BodiesOwn, ToldOnce, NoPushActor, http_vars
  <1> QED  BY <1>1, <1>6, <1>7, <1>8 DEF Inv, Own

LEMMA DealThrowsOK == ASSUME Inv, NEW w \in Workers, DealThrows(w) PROVE Inv'
  <1>1. /\ Head(wmail[w]) \in Query
        /\ wmail' \in [Workers -> Seq(Query)] /\ WorkersOwn'
    BY WorkerTakes DEF DealThrows, Inv, Own
  <1>2. lost' \subseteq Loss
    <2>1. Head(wmail[w]).req \in Requests
      BY <1>1 DEF Query
    <2>2. LoseAll({Head(wmail[w]).req}, "swallowed")
      BY DEF DealThrows
    <2> QED  BY <2>1, <2>2, LoseAllOK DEF Inv, TypeOK
  <1>3. faults' \in 0 .. MaxFaults
    BY RoleAssumption DEF DealThrows, Inv, TypeOK
  <1>4. TypeOK'
    BY <1>1, <1>2, <1>3 DEF Inv, TypeOK, DealThrows, http_vars, actor_vars, rpc_vars
  <1>5. FuturesOwn' /\ HandlersOwn' /\ ResponsesOwn' /\ BodiesOwn' /\ ToldOnce' /\ NoPushActor'
    BY DEF Inv, Own, FuturesOwn, HandlersOwn, ResponsesOwn, BodiesOwn, ToldOnce,
           NoPushActor, DealThrows, http_vars, actor_vars, rpc_vars
  <1> QED  BY <1>1, <1>4, <1>5 DEF Inv, Own

\* A future ends, whichever way, at the actor that asked.
LEMMA FutureOK ==
    ASSUME Inv, NEW f \in futures, FutureSucceeds(f) \/ FutureFails(f)
    PROVE  Inv'
  <1>1. /\ f.req \in Requests /\ f.to = f.req
        /\ Kind[f.req] = "query" /\ f.req \in Known
    BY DEF Inv, TypeOK, Own, FuturesOwn, Future
  <1>2. /\ futures' = futures \ {f}
        /\ UNCHANGED <<http_vars, handler, routees, wmail, relayed, rpc_vars, lost>>
    BY DEF FutureSucceeds, FutureFails
  <1>3. hmail' \in [Requests -> Seq(Reply)] /\ HandlersOwn'
    <2>1. CASE SendReply(f.req, f.req, "rows")
      BY <1>1, <2>1, SendReplyOK DEF Inv, Own
    <2>2. CASE SendReply(f.req, f.req, "failure")
      BY <1>1, <2>2, SendReplyOK DEF Inv, Own
    <2> QED  BY <1>1, <2>1, <2>2 DEF FutureSucceeds, FutureFails, ReplyTo
  <1>4. faults' \in 0 .. MaxFaults
    BY RoleAssumption DEF FutureSucceeds, FutureFails, Inv, TypeOK
  <1>5. TypeOK'
    BY <1>2, <1>3, <1>4 DEF Inv, TypeOK, http_vars, rpc_vars
  <1>6. /\ WorkersOwn' /\ FuturesOwn' /\ ResponsesOwn' /\ BodiesOwn' /\ ToldOnce'
        /\ NoPushActor'
    BY <1>2 DEF Inv, Own, WorkersOwn, FuturesOwn, ResponsesOwn, BodiesOwn, ToldOnce,
           NoPushActor, http_vars
  <1> QED  BY <1>3, <1>5, <1>6 DEF Inv, Own

\* The RpcActor.
LEMMA RpcReceiveOK == ASSUME Inv, RpcReceive PROVE Inv'
  <1> DEFINE r == Head(rpcmail)
  <1>1. r \in Requests /\ rpcmail' \in Seq(Requests)
    BY MailHead DEF Inv, TypeOK, RpcReceive
  <1>2. \/ /\ SendReply(r, r, IF r \in Known THEN "result" ELSE "not_found")
           /\ UNCHANGED lost
        \/ LoseAll({r}, "ignored") /\ UNCHANGED hmail
    BY DEF RpcReceive
  <1>3. UNCHANGED <<http_vars, handler, worker_vars, server, rpcup, faults>>
    BY DEF RpcReceive
  <1> HIDE DEF r
  <1>4. hmail' \in [Requests -> Seq(Reply)] /\ HandlersOwn' /\ lost' \subseteq Loss
    <2>1. CASE /\ SendReply(r, r, IF r \in Known THEN "result" ELSE "not_found")
               /\ UNCHANGED lost
      <3>1. CASE r \in Known
        <4>1. SendReply(r, r, "result")
          BY <2>1, <3>1
        <4> QED  BY <1>1, <2>1, <4>1, SendReplyOK DEF Inv, TypeOK, Own
      <3>2. CASE r \notin Known
        <4>1. SendReply(r, r, "not_found")
          BY <2>1, <3>2
        <4> QED  BY <1>1, <2>1, <4>1, SendReplyOK DEF Inv, TypeOK, Own
      <3> QED  BY <3>1, <3>2
    <2>2. CASE LoseAll({r}, "ignored") /\ UNCHANGED hmail
      BY <1>1, <2>2, LoseAllOK DEF Inv, TypeOK, Own, HandlersOwn
    <2> QED  BY <1>2, <2>1, <2>2
  <1>5. TypeOK'
    BY <1>1, <1>3, <1>4 DEF Inv, TypeOK, http_vars, worker_vars
  <1>6. /\ WorkersOwn' /\ FuturesOwn' /\ ResponsesOwn' /\ BodiesOwn' /\ ToldOnce'
        /\ NoPushActor'
    BY <1>3 DEF Inv, Own, WorkersOwn, FuturesOwn, ResponsesOwn, BodiesOwn, ToldOnce,
           NoPushActor, http_vars, worker_vars
  <1> QED  BY <1>4, <1>5, <1>6 DEF Inv, Own

\* Its failures take commands away and leave every answer where it is.
LEMMA RpcFaultOK == ASSUME Inv, RpcThrows \/ RpcDies \/ RpcStarts PROVE Inv'
  <1>1. UNCHANGED <<http_vars, actor_vars, worker_vars, server>>
    BY DEF RpcThrows, RpcDies, RpcStarts
  <1>2. /\ rpcup' \in BOOLEAN /\ rpcmail' \in Seq(Requests) /\ lost' \subseteq Loss
        /\ faults' \in 0 .. MaxFaults
    <2>1. CASE RpcThrows
      <3>1. Head(rpcmail) \in Requests /\ rpcmail' \in Seq(Requests)
        BY <2>1, MailHead DEF RpcThrows, Inv, TypeOK
      <3>2. LoseAll({Head(rpcmail)}, "rpc_threw")
        BY <2>1 DEF RpcThrows
      <3>3. lost' \subseteq Loss
        BY <3>1, <3>2, LoseAllOK DEF Inv, TypeOK
      <3> QED  BY <2>1, <3>1, <3>3, RoleAssumption DEF RpcThrows, Inv, TypeOK
    <2>2. CASE RpcDies
      <3>1. {rpcmail[i] : i \in DOMAIN rpcmail} \subseteq Requests
        BY ElementOfSeq, LenProperties DEF Inv, TypeOK
      <3>2. lost' \subseteq Loss
        BY <2>2, <3>1, LoseAllOK DEF RpcDies, Inv, TypeOK
      <3>3. rpcmail' \in Seq(Requests)
        BY <2>2, NoMail DEF RpcDies
      <3>4. faults' \in 0 .. MaxFaults
        BY <2>2, RoleAssumption DEF RpcDies, Inv, TypeOK
      <3> QED  BY <2>2, <3>2, <3>3, <3>4 DEF RpcDies
    <2>3. CASE RpcStarts
      BY <2>3 DEF RpcStarts, Inv, TypeOK
    <2> QED  BY <2>1, <2>2, <2>3
  <1>3. TypeOK'
    BY <1>1, <1>2 DEF Inv, TypeOK, http_vars, actor_vars, worker_vars
  <1>4. Own'
    BY <1>1 DEF Inv, Own, WorkersOwn, FuturesOwn, HandlersOwn, ResponsesOwn, BodiesOwn,
           ToldOnce, NoPushActor, http_vars, actor_vars, worker_vars
  <1> QED  BY <1>3, <1>4 DEF Inv

LEMMA InvStep == Inv /\ [Next]_vars => Inv'
  <1> SUFFICES ASSUME Inv, [Next]_vars PROVE Inv'
    OBVIOUS
  <1>1. CASE Dispatch
    BY <1>1, DispatchOK
  <1>2. CASE RpcReceive
    BY <1>2, RpcReceiveOK
  <1>3. CASE RpcThrows \/ RpcDies \/ RpcStarts
    BY <1>3, RpcFaultOK
  <1>4. ASSUME NEW r \in Requests, Open(r) \/ TimesOut(r) \/ Ask(r) \/ Receive(r) PROVE Inv'
    BY <1>4, OpenOK, TimesOutOK, AskOK, ReceiveOK
  <1>5. ASSUME NEW p \in responses, Respond(p) PROVE Inv'
    BY <1>5, RespondOK
  <1>6. ASSUME NEW w \in Workers,
               JoinRoutee(w) \/ LoseNode(w) \/ WorkerReceive(w) \/ DealThrows(w)
        PROVE  Inv'
    BY <1>6, JoinRouteeOK, LoseNodeOK, WorkerReceiveOK, DealThrowsOK
  <1>7. ASSUME NEW f \in futures, FutureSucceeds(f) \/ FutureFails(f) PROVE Inv'
    BY <1>7, FutureOK
  <1>8. CASE UNCHANGED vars
    <2>1. TypeOK'
      BY <1>8 DEF Inv, TypeOK, vars, http_vars, actor_vars, worker_vars, rpc_vars
    <2>2. Own'
      BY <1>8 DEF Inv, Own, WorkersOwn, FuturesOwn, HandlersOwn, ResponsesOwn, BodiesOwn, ToldOnce,
             NoPushActor, vars, http_vars, actor_vars, worker_vars, rpc_vars
    <2> QED  BY <2>1, <2>2 DEF Inv
  <1> QED  BY <1>1, <1>2, <1>3, <1>4, <1>5, <1>6, <1>7, <1>8 DEF Next

-----------------------------------------------------------------------------
(* What is promised to the clients.                                        *)

\* The sum of two Ints is not positive when both are 0 or it has wrapped around.
LEMMA RefusedRanges ==
    ASSUME NEW r \in Requests, Refused(r)
    PROVE  (Start[r] = 0 /\ End[r] = 0) \/ Start[r] + End[r] > MaxInt
  <1>1. Start[r] \in Nat /\ End[r] \in Nat /\ MaxInt \in Nat
    BY RequestAssumption
  <1> QED  BY <1>1 DEF Refused, PlusInt

LEMMA OwnAnswers == Inv => AnswerIsOwn
  <1> SUFFICES ASSUME Inv, NEW r \in Requests
               PROVE  /\ Cardinality(body[r]) <= 1
                      /\ \A a \in body[r] :
                           /\ a.of = r
                           /\ a.text = "empty" => \/ Start[r] = 0 /\ End[r] = 0
                                                  \/ Start[r] + End[r] > MaxInt
                           /\ a.text = "rows" => Kind[r] = "query" /\ r \in Known
                           /\ a.text = "ok" <=> Kind[r] = "push"
    BY DEF AnswerIsOwn
  <1>1. BodiesOwn /\ ToldOnce
    BY DEF Inv, Own
  <1>2. Cardinality(body[r]) <= 1
    <2>1. CASE body[r] = {}
      BY <2>1, FS_EmptySet
    <2>2. ASSUME NEW a \in body[r] PROVE Cardinality(body[r]) <= 1
      <3>1. body[r] = {a}
        BY <1>1 DEF ToldOnce
      <3>2. Cardinality({a}) = 1
        BY FS_Singleton
      <3> QED  BY <3>1, <3>2
    <2> QED  BY <2>1, <2>2
  <1>3. \A a \in body[r] : a.of = r /\ Fits(r, a.text)
    BY <1>1 DEF BodiesOwn
  <1> QED  BY <1>2, <1>3, RefusedRanges DEF Fits

\* Every variable stays in its type, whatever is asked and whatever fails.
THEOREM TypeCorrect == Spec => []TypeOK
  <1>1. Inv => TypeOK
    BY DEF Inv
  <1> QED  BY <1>1, InvInit, InvStep, PTL DEF Spec

\* Each client gets at most one answer and it is the outcome of its own request,
\* whichever workers, futures and failures came between.
THEOREM AnswersAreOwn == Spec => []AnswerIsOwn
  BY InvInit, InvStep, OwnAnswers, PTL DEF Spec

-----------------------------------------------------------------------------
(* Where a question is.  It sits in a worker's mailbox, in the RpcActor's, *)
(* in a future, as a reply in its actor's mailbox, or among the lost ones: *)
(* in one of these, once, as long as its actor waits.  A pushed event has  *)
(* no actor: it is in one of them until a worker hands it to Kafka.        *)

WorkerHas(r, w, i) == i \in DOMAIN wmail[w] /\ wmail[w][i].req = r

InWorkers(r)   == \E w \in Workers : \E i : WorkerHas(r, w, i)
OnceWorkers(r) == \A v, w \in Workers : \A i, j :
                    WorkerHas(r, v, i) /\ WorkerHas(r, w, j) => v = w /\ i = j

InRpc(r)   == \E i \in DOMAIN rpcmail : rpcmail[i] = r
OnceRpc(r) == \A i, j \in DOMAIN rpcmail : rpcmail[i] = r /\ rpcmail[j] = r => i = j

InFutures(r)   == \E f \in futures : f.req = r
OnceFutures(r) == \A f, g \in futures : f.req = r /\ g.req = r => f = g

InReply(r)   == \E i : i \in DOMAIN hmail[r]
OnceReply(r) == \A i, j \in DOMAIN hmail[r] : i = j

InLost(r)   == \E l \in lost : l.req = r
OnceLost(r) == \A k, l \in lost : k.req = r /\ l.req = r => k = l

Somewhere(r) == InWorkers(r) \/ InRpc(r) \/ InFutures(r) \/ InReply(r) \/ InLost(r)
Once(r) ==
    /\ OnceWorkers(r) /\ OnceRpc(r) /\ OnceFutures(r) /\ OnceReply(r) /\ OnceLost(r)
    /\ InWorkers(r) => ~InRpc(r) /\ ~InFutures(r) /\ ~InReply(r) /\ ~InLost(r)
    /\ InRpc(r)     => ~InFutures(r) /\ ~InReply(r) /\ ~InLost(r)
    /\ InFutures(r) => ~InReply(r) /\ ~InLost(r)
    /\ InReply(r)   => ~InLost(r)
Waits(r) == IF Kind[r] = "push" THEN Taken(r) /\ r \notin relayed ELSE handler[r] = "waiting"
One(r)   == Once(r) /\ (Somewhere(r) <=> Waits(r))

\* A request reaches DataService once, before it has an actor.
InboxNew ==
    /\ \A i, j \in DOMAIN inbox : inbox[i] = inbox[j] => i = j
    /\ \A i \in DOMAIN inbox : handler[inbox[i]] = "none" /\ client[inbox[i]] # "idle"
    /\ \A r \in Requests : client[r] = "idle" => handler[r] = "none"

AllOne == \A r \in Requests : One(r)

\* What becomes of events: only an input server's workers hand them to Kafka, once DataService
\* took them, and none is among the commands.
Pushed ==
    /\ \A r \in relayed : Kind[r] = "push" /\ Taken(r) /\ server.role = "input"
    /\ \A i \in DOMAIN rpcmail : Kind[rpcmail[i]] # "push"
    /\ \A l \in lost : Kind[l.req] = "push" =>
         l.why \in {"no_routee", "node"} \/ (l.why = "ignored" /\ server.role = "output")

\* What a step does not touch.
KeepsWorkers(r) == (InWorkers(r)' <=> InWorkers(r)) /\ (OnceWorkers(r) => OnceWorkers(r)')
KeepsRpc(r)     == (InRpc(r)' <=> InRpc(r)) /\ (OnceRpc(r) => OnceRpc(r)')
KeepsFutures(r) == (InFutures(r)' <=> InFutures(r)) /\ (OnceFutures(r) => OnceFutures(r)')
KeepsReply(r)   == (InReply(r)' <=> InReply(r)) /\ (OnceReply(r) => OnceReply(r)')
KeepsLost(r)    == (InLost(r)' <=> InLost(r)) /\ (OnceLost(r) => OnceLost(r)')

LEMMA SameWorkers == UNCHANGED wmail => \A r : KeepsWorkers(r)
  BY DEF KeepsWorkers, InWorkers, OnceWorkers, WorkerHas

LEMMA SameRpc == UNCHANGED rpcmail => \A r : KeepsRpc(r)
  BY DEF KeepsRpc, InRpc, OnceRpc

LEMMA SameFutures == UNCHANGED futures => \A r : KeepsFutures(r)
  BY DEF KeepsFutures, InFutures, OnceFutures

LEMMA SameReply == UNCHANGED hmail => \A r : KeepsReply(r)
  BY DEF KeepsReply, InReply, OnceReply

LEMMA SameLost == UNCHANGED lost => \A r : KeepsLost(r)
  BY DEF KeepsLost, InLost, OnceLost

LEMMA KeepOne ==
    ASSUME NEW r, One(r), KeepsWorkers(r), KeepsRpc(r), KeepsFutures(r), KeepsReply(r),
           KeepsLost(r), Waits(r)' <=> Waits(r)
    PROVE  One(r)'
  BY DEF One, Once, Somewhere, KeepsWorkers, KeepsRpc, KeepsFutures, KeepsReply, KeepsLost

LEMMA WaitsKept ==
    ASSUME NEW r, UNCHANGED <<inbox, relayed>>, client'[r] = "idle" <=> client[r] = "idle",
           handler'[r] = "waiting" <=> handler[r] = "waiting"
    PROVE  Waits(r)' <=> Waits(r)
  BY DEF Waits, Taken

-----------------------------------------------------------------------------
(* What the moves of a message do to where questions are.                  *)

LEMMA MailEnd ==
    ASSUME NEW S, NEW s \in Seq(S), NEW m \in S
    PROVE  /\ \A i \in DOMAIN s : i \in DOMAIN Append(s, m) /\ Append(s, m)[i] = s[i]
           /\ Len(s) + 1 \in DOMAIN Append(s, m) /\ Append(s, m)[Len(s) + 1] = m
           /\ Len(s) + 1 \notin DOMAIN s
           /\ \A i \in DOMAIN Append(s, m) : i \in DOMAIN s \/ i = Len(s) + 1
  <1>1. /\ Len(Append(s, m)) = Len(s) + 1 /\ Append(s, m) \in Seq(S)
        /\ \A i \in 1 .. Len(s) : Append(s, m)[i] = s[i]
        /\ Append(s, m)[Len(s) + 1] = m
    BY AppendProperties
  <1>2. /\ Len(s) \in Nat /\ DOMAIN s = 1 .. Len(s)
        /\ DOMAIN Append(s, m) = 1 .. Len(Append(s, m))
    BY <1>1, LenProperties
  <1> QED  BY <1>1, <1>2

LEMMA MailRest ==
    ASSUME NEW S, NEW s \in Seq(S), s # <<>>
    PROVE  /\ 1 \in DOMAIN s /\ Head(s) = s[1] /\ DOMAIN Tail(s) \subseteq Nat \ {0}
           /\ DOMAIN s \subseteq Nat
           /\ \A i \in DOMAIN Tail(s) : i + 1 \in DOMAIN s /\ Tail(s)[i] = s[i + 1]
           /\ \A i \in DOMAIN s : i = 1 \/ (i - 1 \in DOMAIN Tail(s) /\ Tail(s)[i - 1] = s[i])
  <1>1. /\ Tail(s) \in Seq(S) /\ Len(Tail(s)) = Len(s) - 1
        /\ \A i \in 1 .. Len(Tail(s)) : Tail(s)[i] = s[i + 1]
        /\ Head(s) = s[1]
    BY HeadTailProperties
  <1>2. Len(s) \in Nat \ {0} /\ DOMAIN s = 1 .. Len(s) /\ DOMAIN Tail(s) = 1 .. Len(Tail(s))
    BY <1>1, EmptySeq, LenProperties
  <1> QED  BY <1>1, <1>2

\* A message put into a worker's mailbox.
LEMMA WorkerPut ==
    ASSUME wmail \in [Workers -> Seq(Query)], NEW w \in Workers, NEW m \in Query,
           wmail' = [wmail EXCEPT ![w] = Append(@, m)]
    PROVE  /\ \A r : r # m.req => KeepsWorkers(r)
           /\ ~InWorkers(m.req) => InWorkers(m.req)' /\ OnceWorkers(m.req)'
  <1>0. PICK n : n = Len(wmail[w]) + 1
    OBVIOUS
  <1>1. /\ wmail'[w] = Append(wmail[w], m)
        /\ \A v \in Workers : v # w => wmail'[v] = wmail[v]
    OBVIOUS
  <1>2. /\ \A i \in DOMAIN wmail[w] : i \in DOMAIN wmail'[w] /\ wmail'[w][i] = wmail[w][i]
        /\ n \in DOMAIN wmail'[w] /\ wmail'[w][n] = m
        /\ n \notin DOMAIN wmail[w]
        /\ \A i \in DOMAIN wmail'[w] : i \in DOMAIN wmail[w] \/ i = n
    BY <1>0, <1>1, MailEnd
  <1>3. \A v \in Workers : \A i, r :
          WorkerHas(r, v, i)' <=> WorkerHas(r, v, i) \/ (v = w /\ i = n /\ r = m.req)
    <2> SUFFICES ASSUME NEW v \in Workers, NEW i, NEW r
                 PROVE  WorkerHas(r, v, i)' <=> WorkerHas(r, v, i) \/ (v = w /\ i = n /\ r = m.req)
      OBVIOUS
    <2>1. CASE v = w
      BY <1>2, <2>1 DEF WorkerHas
    <2>2. CASE v # w
      BY <1>1, <2>2 DEF WorkerHas
    <2> QED  BY <2>1, <2>2
  <1>4. ASSUME NEW r, r # m.req PROVE KeepsWorkers(r)
    BY <1>3, <1>4 DEF KeepsWorkers, InWorkers, OnceWorkers
  <1>5. ASSUME ~InWorkers(m.req) PROVE InWorkers(m.req)' /\ OnceWorkers(m.req)'
    <2>1. WorkerHas(m.req, w, n)'
      BY <1>3
    <2>2. ASSUME NEW v \in Workers, NEW i, WorkerHas(m.req, v, i)' PROVE v = w /\ i = n
      BY <1>3, <1>5, <2>2 DEF InWorkers
    <2>3. InWorkers(m.req)'
      BY <2>1 DEF InWorkers
    <2> QED  BY <2>2, <2>3 DEF OnceWorkers
  <1> QED  BY <1>4, <1>5

\* The first message taken out of it.
LEMMA WorkerTake ==
    ASSUME wmail \in [Workers -> Seq(Query)], NEW w \in Workers, wmail[w] # <<>>,
           wmail' = [wmail EXCEPT ![w] = Tail(@)]
    PROVE  \A r : IF r = Head(wmail[w]).req
                  THEN InWorkers(r) /\ (OnceWorkers(r) => ~InWorkers(r)' /\ OnceWorkers(r)')
                  ELSE KeepsWorkers(r)
  <1>0. PICK q : q = Head(wmail[w]).req
    OBVIOUS
  <1>1. /\ wmail'[w] = Tail(wmail[w])
        /\ \A v \in Workers : v # w => wmail'[v] = wmail[v]
    OBVIOUS
  <1>2. /\ 1 \in DOMAIN wmail[w] /\ wmail[w][1].req = q
        /\ DOMAIN wmail[w] \subseteq Nat /\ DOMAIN wmail'[w] \subseteq Nat \ {0}
        /\ \A i \in DOMAIN wmail'[w] : i + 1 \in DOMAIN wmail[w] /\ wmail'[w][i] = wmail[w][i + 1]
        /\ \A i \in DOMAIN wmail[w] :
             i = 1 \/ (i - 1 \in DOMAIN wmail'[w] /\ wmail'[w][i - 1] = wmail[w][i])
    BY <1>0, <1>1, MailRest
  <1>3. WorkerHas(q, w, 1)
    BY <1>2 DEF WorkerHas
  <1>4. ASSUME NEW r, NEW v \in Workers, NEW i, WorkerHas(r, v, i)'
        PROVE  \E k : /\ WorkerHas(r, v, k)
                      /\ (v = w /\ i \in Nat \ {0} /\ k = i + 1) \/ (v # w /\ k = i)
    <2>1. CASE v = w
      BY <1>2, <1>4, <2>1 DEF WorkerHas
    <2>2. CASE v # w
      BY <1>1, <1>4, <2>2 DEF WorkerHas
    <2> QED  BY <2>1, <2>2
  <1>5. ASSUME NEW r, r # q, InWorkers(r) PROVE InWorkers(r)'
    <2>0. PICK v \in Workers : \E i : WorkerHas(r, v, i)
      BY <1>5 DEF InWorkers
    <2>1. PICK i : WorkerHas(r, v, i)
      BY <2>0
    <2>2. CASE v = w
      <3>1. i # 1
        BY <1>2, <1>5, <2>1, <2>2 DEF WorkerHas
      <3>2. WorkerHas(r, w, i - 1)'
        BY <1>2, <2>1, <2>2, <3>1 DEF WorkerHas
      <3> QED  BY <3>2 DEF InWorkers
    <2>3. CASE v # w
      <3>1. WorkerHas(r, v, i)'
        BY <1>1, <2>1, <2>3 DEF WorkerHas
      <3> QED  BY <3>1 DEF InWorkers
    <2> QED  BY <2>2, <2>3
  <1>6. ASSUME NEW r, OnceWorkers(r) PROVE OnceWorkers(r)'
    <2> SUFFICES ASSUME NEW u \in Workers, NEW v \in Workers, NEW i, NEW j,
                        WorkerHas(r, u, i)', WorkerHas(r, v, j)'
                 PROVE  u = v /\ i = j
      BY DEF OnceWorkers
    <2>1. PICK k : /\ WorkerHas(r, u, k)
                   /\ (u = w /\ i \in Nat \ {0} /\ k = i + 1) \/ (u # w /\ k = i)
      BY <1>4
    <2>2. PICK l : /\ WorkerHas(r, v, l)
                   /\ (v = w /\ j \in Nat \ {0} /\ l = j + 1) \/ (v # w /\ l = j)
      BY <1>4
    <2>3. u = v /\ k = l
      BY <1>6, <2>1, <2>2 DEF OnceWorkers
    <2> QED  BY <2>1, <2>2, <2>3
  <1>7. ASSUME OnceWorkers(q) PROVE ~InWorkers(q)'
    <2> SUFFICES ASSUME NEW v \in Workers, NEW i, WorkerHas(q, v, i)' PROVE FALSE
      BY DEF InWorkers
    <2>1. PICK k : /\ WorkerHas(q, v, k)
                   /\ (v = w /\ i \in Nat \ {0} /\ k = i + 1) \/ (v # w /\ k = i)
      BY <1>4
    <2>2. v = w /\ k = 1
      BY <1>3, <1>7, <2>1 DEF OnceWorkers
    <2> QED  BY <2>1, <2>2
  <1>8. \A r : InWorkers(r)' => InWorkers(r)
    BY <1>4 DEF InWorkers
  <1>9. InWorkers(q)
    BY <1>3 DEF InWorkers
  <1>10. \A r : r # q => KeepsWorkers(r)
    BY <1>5, <1>6, <1>8 DEF KeepsWorkers
  <1> QED  BY <1>0, <1>6, <1>7, <1>9, <1>10

\* A mailbox that goes with its node.
LEMMA WorkerClear ==
    ASSUME wmail \in [Workers -> Seq(Query)], NEW w \in Workers,
           wmail' = [wmail EXCEPT ![w] = <<>>]
    PROVE  LET gone == {wmail[w][i].req : i \in DOMAIN wmail[w]}
           IN  /\ \A r : r \notin gone => KeepsWorkers(r)
               /\ \A r \in gone : /\ InWorkers(r)
                                  /\ OnceWorkers(r) => ~InWorkers(r)' /\ OnceWorkers(r)'
  <1> DEFINE gone == {wmail[w][i].req : i \in DOMAIN wmail[w]}
  <1>1. /\ DOMAIN wmail'[w] = {}
        /\ \A v \in Workers : v # w => wmail'[v] = wmail[v]
    BY NoMail
  <1>2. \A r : r \in gone <=> \E i : WorkerHas(r, w, i)
    BY DEF WorkerHas
  <1> HIDE DEF gone
  <1>3. ASSUME NEW r, NEW v \in Workers, NEW i
        PROVE  WorkerHas(r, v, i)' <=> v # w /\ WorkerHas(r, v, i)
    <2>1. CASE v = w
      BY <1>1, <2>1 DEF WorkerHas
    <2>2. CASE v # w
      BY <1>1, <2>2 DEF WorkerHas
    <2> QED  BY <2>1, <2>2
  <1>4. ASSUME NEW r, r \notin gone PROVE KeepsWorkers(r)
    BY <1>2, <1>3, <1>4 DEF KeepsWorkers, InWorkers, OnceWorkers
  <1>5. ASSUME NEW r \in gone
        PROVE  /\ InWorkers(r)
               /\ OnceWorkers(r) => ~InWorkers(r)' /\ OnceWorkers(r)'
    <2>1. PICK i : WorkerHas(r, w, i)
      BY <1>2
    <2>2. InWorkers(r)
      BY <2>1 DEF InWorkers
    <2>3. ASSUME OnceWorkers(r) PROVE ~InWorkers(r)' /\ OnceWorkers(r)'
      BY <1>3, <2>1, <2>3 DEF InWorkers, OnceWorkers
    <2> QED  BY <2>2, <2>3
  <1> QED  BY <1>4, <1>5 DEF gone

\* The same of the RpcActor's mailbox.
LEMMA RpcPut ==
    ASSUME rpcmail \in Seq(Requests), NEW q \in Requests, rpcmail' = Append(rpcmail, q)
    PROVE  \A r : IF r = q THEN ~InRpc(r) => InRpc(r)' /\ OnceRpc(r)' ELSE KeepsRpc(r)
  <1>1. PICK n : n = Len(rpcmail) + 1
    OBVIOUS
  <1>2. /\ \A i \in DOMAIN rpcmail : i \in DOMAIN rpcmail' /\ rpcmail'[i] = rpcmail[i]
        /\ n \in DOMAIN rpcmail' /\ rpcmail'[n] = q /\ n \notin DOMAIN rpcmail
        /\ \A i \in DOMAIN rpcmail' : i \in DOMAIN rpcmail \/ i = n
    BY <1>1, MailEnd
  <1>3. ASSUME NEW r, r # q PROVE KeepsRpc(r)
    <2>1. InRpc(r)' <=> InRpc(r)
      BY <1>2, <1>3 DEF InRpc
    <2>2. OnceRpc(r) => OnceRpc(r)'
      BY <1>2, <1>3 DEF OnceRpc
    <2> QED  BY <2>1, <2>2 DEF KeepsRpc
  <1>4. ASSUME NEW r, r = q, ~InRpc(r) PROVE InRpc(r)' /\ OnceRpc(r)'
    <2>1. \A i \in DOMAIN rpcmail' : rpcmail'[i] = r => i = n
      BY <1>2, <1>4 DEF InRpc
    <2> QED  BY <1>2, <1>4, <2>1 DEF InRpc, OnceRpc
  <1> QED  BY <1>3, <1>4

LEMMA RpcTake ==
    ASSUME rpcmail \in Seq(Requests), rpcmail # <<>>, rpcmail' = Tail(rpcmail)
    PROVE  \A r : IF r = Head(rpcmail)
                  THEN InRpc(r) /\ (OnceRpc(r) => ~InRpc(r)' /\ OnceRpc(r)')
                  ELSE KeepsRpc(r)
  <1>1. /\ 1 \in DOMAIN rpcmail /\ Head(rpcmail) = rpcmail[1]
        /\ DOMAIN rpcmail \subseteq Nat /\ DOMAIN rpcmail' \subseteq Nat \ {0}
        /\ \A i \in DOMAIN rpcmail' : i + 1 \in DOMAIN rpcmail /\ rpcmail'[i] = rpcmail[i + 1]
        /\ \A i \in DOMAIN rpcmail :
             i = 1 \/ (i - 1 \in DOMAIN rpcmail' /\ rpcmail'[i - 1] = rpcmail[i])
    BY MailRest
  <1>2. ASSUME NEW r, OnceRpc(r) PROVE OnceRpc(r)'
    <2> SUFFICES ASSUME NEW i \in DOMAIN rpcmail', NEW j \in DOMAIN rpcmail',
                        rpcmail'[i] = r, rpcmail'[j] = r
                 PROVE  i = j
      BY DEF OnceRpc
    <2>1. i + 1 = j + 1
      BY <1>1, <1>2 DEF OnceRpc
    <2> QED  BY <1>1, <2>1
  <1>3. \A r : InRpc(r)' => InRpc(r)
    BY <1>1 DEF InRpc
  <1>4. ASSUME NEW r, r # Head(rpcmail), InRpc(r) PROVE InRpc(r)'
    BY <1>1, <1>4 DEF InRpc
  <1>5. ASSUME NEW r, r = Head(rpcmail) PROVE InRpc(r) /\ (OnceRpc(r) => ~InRpc(r)')
    <2>1. InRpc(r)
      BY <1>1, <1>5 DEF InRpc
    <2>2. ASSUME OnceRpc(r), NEW i \in DOMAIN rpcmail', rpcmail'[i] = r PROVE FALSE
      <3>1. i + 1 = 1
        BY <1>1, <1>5, <2>2 DEF OnceRpc
      <3> QED  BY <1>1, <3>1
    <2> QED  BY <2>1, <2>2 DEF InRpc
  <1> QED  BY <1>2, <1>3, <1>4, <1>5 DEF KeepsRpc

LEMMA RpcClear ==
    ASSUME rpcmail' = <<>>
    PROVE  \A r : /\ ~InRpc(r)' /\ OnceRpc(r)'
                  /\ r \in {rpcmail[i] : i \in DOMAIN rpcmail} <=> InRpc(r)
  BY NoMail DEF InRpc, OnceRpc

\* A reply reaches the actor that asked, and is taken.
LEMMA ReplyPut ==
    ASSUME hmail \in [Requests -> Seq(Reply)], NEW q \in Requests, NEW m \in Reply,
           hmail' = [hmail EXCEPT ![q] = Append(@, m)]
    PROVE  \A r \in Requests :
             IF r = q THEN ~InReply(r) => InReply(r)' /\ OnceReply(r)' ELSE KeepsReply(r)
  <1>1. hmail'[q] = Append(hmail[q], m) /\ \A r \in Requests : r # q => hmail'[r] = hmail[r]
    OBVIOUS
  <1>2. PICK n : n = Len(hmail[q]) + 1
    OBVIOUS
  <1>3. n \in DOMAIN hmail'[q] /\ \A i \in DOMAIN hmail'[q] : i \in DOMAIN hmail[q] \/ i = n
    BY <1>1, <1>2, MailEnd
  <1>4. ASSUME NEW r \in Requests, r # q PROVE KeepsReply(r)
    BY <1>1, <1>4 DEF KeepsReply, InReply, OnceReply
  <1>5. ASSUME NEW r \in Requests, r = q, ~InReply(r) PROVE InReply(r)' /\ OnceReply(r)'
    <2>1. \A i \in DOMAIN hmail'[r] : i = n
      BY <1>3, <1>5 DEF InReply
    <2> QED  BY <1>3, <1>5, <2>1 DEF InReply, OnceReply
  <1> QED  BY <1>4, <1>5

LEMMA ReplyTake ==
    ASSUME hmail \in [Requests -> Seq(Reply)], NEW q \in Requests, hmail[q] # <<>>,
           hmail' = [hmail EXCEPT ![q] = Tail(@)]
    PROVE  \A r \in Requests :
             IF r = q THEN InReply(r) /\ (OnceReply(r) => ~InReply(r)' /\ OnceReply(r)')
                      ELSE KeepsReply(r)
  <1>1. hmail'[q] = Tail(hmail[q]) /\ \A r \in Requests : r # q => hmail'[r] = hmail[r]
    OBVIOUS
  <1>2. /\ 1 \in DOMAIN hmail[q] /\ DOMAIN hmail'[q] \subseteq Nat \ {0}
        /\ \A i \in DOMAIN hmail'[q] : i + 1 \in DOMAIN hmail[q]
    BY <1>1, MailRest
  <1>3. ASSUME NEW r \in Requests, r # q PROVE KeepsReply(r)
    BY <1>1, <1>3 DEF KeepsReply, InReply, OnceReply
  <1>4. ASSUME NEW r \in Requests, r = q, OnceReply(r) PROVE ~InReply(r)' /\ OnceReply(r)'
    <2>1. ASSUME NEW i \in DOMAIN hmail'[q] PROVE FALSE
      <3>1. i + 1 = 1
        BY <1>2, <1>4 DEF OnceReply
      <3> QED  BY <1>2, <3>1
    <2> QED  BY <1>4, <2>1 DEF InReply, OnceReply
  <1>5. \A r : r = q => InReply(r)
    BY <1>2 DEF InReply
  <1> QED  BY <1>3, <1>4, <1>5

\* A future starts, and ends.
LEMMA FutureAdd ==
    ASSUME NEW f, futures' = futures \cup {f}
    PROVE  \A r : IF r = f.req THEN ~InFutures(r) => InFutures(r)' /\ OnceFutures(r)'
                  ELSE KeepsFutures(r)
  BY DEF KeepsFutures, InFutures, OnceFutures

LEMMA FutureEnd ==
    ASSUME NEW f \in futures, futures' = futures \ {f}
    PROVE  \A r : IF r = f.req
                  THEN InFutures(r) /\ (OnceFutures(r) => ~InFutures(r)' /\ OnceFutures(r)')
                  ELSE KeepsFutures(r)
  BY DEF KeepsFutures, InFutures, OnceFutures

LEMMA FuturesLeave ==
    ASSUME NEW w, futures' = {f \in futures : f.at # w}
    PROVE  \A r : IF r \in {f.req : f \in {g \in futures : g.at = w}}
                  THEN InFutures(r) /\ (OnceFutures(r) => ~InFutures(r)' /\ OnceFutures(r)')
                  ELSE KeepsFutures(r)
  BY DEF KeepsFutures, InFutures, OnceFutures

\* Questions are lost.
LEMMA LostAdd ==
    ASSUME NEW rs, NEW why, LoseAll(rs, why)
    PROVE  \A r : IF r \in rs THEN ~InLost(r) => InLost(r)' /\ OnceLost(r)' ELSE KeepsLost(r)
  <1> DEFINE l(r) == [req |-> r, why |-> why]
  <1>1. \A x : x \in lost' <=> x \in lost \/ \E r \in rs : x = l(r)
    BY DEF LoseAll
  <1>2. \A r : l(r).req = r
    OBVIOUS
  <1> HIDE DEF l
  <1>3. ASSUME NEW r, r \notin rs PROVE KeepsLost(r)
    BY <1>1, <1>2, <1>3 DEF KeepsLost, InLost, OnceLost
  <1>4. ASSUME NEW r \in rs, ~InLost(r) PROVE InLost(r)' /\ OnceLost(r)'
    <2>1. ASSUME NEW x \in lost', x.req = r PROVE x = l(r)
      BY <1>1, <1>2, <1>4, <2>1 DEF InLost
    <2>2. l(r) \in lost'
      BY <1>1
    <2> QED  BY <1>2, <2>1, <2>2 DEF InLost, OnceLost
  <1> QED  BY <1>3, <1>4

-----------------------------------------------------------------------------
(* Steps.                                                                  *)

Asked == Inv /\ InboxNew /\ AllOne /\ Pushed

LEMMA InboxEntries == Inv => \A i \in DOMAIN inbox : inbox[i] \in Requests
  BY ElementOfSeq, LenProperties DEF Inv, TypeOK

LEMMA InboxKeeps ==
    ASSUME Inv, InboxNew, inbox' = inbox,
           \A r \in Requests : client'[r] = "idle" <=> client[r] = "idle",
           \A r \in Requests : handler'[r] = "none" <=> handler[r] = "none"
    PROVE  InboxNew'
  BY InboxEntries DEF InboxNew

\* A step that moves no question.
LEMMA AllKeep ==
    ASSUME AllOne, UNCHANGED <<wmail, rpcmail, futures, hmail, lost>>,
           \A r \in Requests : Waits(r)' <=> Waits(r)
    PROVE  AllOne'
  BY SameWorkers, SameRpc, SameFutures, SameReply, SameLost, KeepOne DEF AllOne

LEMMA OneOpen == ASSUME Asked, NEW q \in Requests, Open(q) PROVE InboxNew' /\ AllOne'
  <1>2. /\ inbox \in Seq(Requests) /\ inbox' = Append(inbox, q)
        /\ client \in [Requests -> {"idle", "open", "answered", "timedout"}]
        /\ client[q] = "idle" /\ client' = [client EXCEPT ![q] = "open"] /\ handler' = handler
    BY DEF Asked, Inv, TypeOK, Open, actor_vars
  <1>3. PICK n : n = Len(inbox) + 1
    OBVIOUS
  <1>4. /\ \A i \in DOMAIN inbox : i \in DOMAIN inbox' /\ inbox'[i] = inbox[i]
        /\ n \in DOMAIN inbox' /\ inbox'[n] = q
        /\ \A i \in DOMAIN inbox' : i \in DOMAIN inbox \/ i = n
    BY <1>2, <1>3, MailEnd
  <1>5. /\ \A i, j \in DOMAIN inbox : inbox[i] = inbox[j] => i = j
        /\ \A i \in DOMAIN inbox :
             handler[inbox[i]] = "none" /\ client[inbox[i]] # "idle" /\ inbox[i] \in Requests
        /\ \A r \in Requests : client[r] = "idle" => handler[r] = "none"
    BY InboxEntries DEF Asked, InboxNew
  <1>6. \A i, j \in DOMAIN inbox' : inbox'[i] = inbox'[j] => i = j
    BY <1>2, <1>4, <1>5
  <1>7. \A i \in DOMAIN inbox' : handler'[inbox'[i]] = "none" /\ client'[inbox'[i]] # "idle"
    BY <1>2, <1>4, <1>5
  <1>8. \A r \in Requests : client'[r] = "idle" => handler'[r] = "none"
    BY <1>2, <1>5
  <1>9. \A r \in Requests : Taken(r)' <=> Taken(r)
    <2>1. \A r \in Requests : r # q =>
            /\ client'[r] = client[r]
            /\ (\E i \in DOMAIN inbox' : inbox'[i] = r) <=> (\E i \in DOMAIN inbox : inbox[i] = r)
      BY <1>2, <1>4
    <2>2. ~Taken(q) /\ ~Taken(q)'
      BY <1>2, <1>4 DEF Taken
    <2> QED  BY <2>1, <2>2 DEF Taken
  <1>10. UNCHANGED <<handler, relayed, wmail, rpcmail, futures, hmail, lost>>
    BY DEF Open, actor_vars, worker_vars, rpc_vars
  <1>11. AllOne'
    BY <1>9, <1>10, AllKeep DEF Asked, Waits
  <1> QED  BY <1>6, <1>7, <1>8, <1>11 DEF InboxNew

LEMMA OneClient ==
    ASSUME Asked, (\E p \in responses : Respond(p)) \/ (\E r \in Requests : TimesOut(r))
    PROVE  InboxNew' /\ AllOne'
  <1>1. UNCHANGED <<inbox, wmail, rpcmail, futures, hmail, handler, lost, relayed>>
    BY DEF Respond, TimesOut, actor_vars, worker_vars, rpc_vars
  <1>2. client \in [Requests -> {"idle", "open", "answered", "timedout"}]
    BY DEF Asked, Inv, TypeOK
  <1>3. \A r \in Requests : client'[r] = "idle" <=> client[r] = "idle"
    <2>1. ASSUME NEW p \in responses, Respond(p), NEW r \in Requests
          PROVE  client'[r] = "idle" <=> client[r] = "idle"
      BY <1>2, <2>1 DEF Respond
    <2>2. ASSUME NEW q \in Requests, TimesOut(q), NEW r \in Requests
          PROVE  client'[r] = "idle" <=> client[r] = "idle"
      BY <1>2, <2>2 DEF TimesOut
    <2> QED  BY <2>1, <2>2
  <1> QED  BY <1>1, <1>3, InboxKeeps, WaitsKept, AllKeep DEF Asked

\* An actor is made for a request that has none, and asks nothing yet; an event is told.
LEMMA OneDispatch == ASSUME Asked, Dispatch PROVE InboxNew' /\ AllOne'
  <1>1. PICK q : q = Head(inbox)
    OBVIOUS
  <1>2. /\ inbox \in Seq(Requests) /\ inbox # <<>> /\ inbox' = Tail(inbox) /\ client' = client
        /\ handler \in [Requests -> {"none", "new", "waiting", "stopped"}]
        /\ wmail \in [Workers -> Seq(Query)] /\ routees \subseteq Workers
        /\ Push(q) \/ Refuse(q) \/ Spawn(q)
        /\ UNCHANGED <<hmail, futures, rpcmail, relayed>>
    BY <1>1 DEF Asked, Inv, TypeOK, Dispatch, rpc_vars
  <1>3. /\ 1 \in DOMAIN inbox /\ q = inbox[1]
        /\ DOMAIN inbox \subseteq Nat /\ DOMAIN inbox' \subseteq Nat \ {0}
        /\ \A i \in DOMAIN inbox' : i + 1 \in DOMAIN inbox /\ inbox'[i] = inbox[i + 1]
        /\ \A i \in DOMAIN inbox : i = 1 \/ (i - 1 \in DOMAIN inbox' /\ inbox'[i - 1] = inbox[i])
    BY <1>1, <1>2, MailRest
  <1>4. /\ \A i, j \in DOMAIN inbox : inbox[i] = inbox[j] => i = j
        /\ \A i \in DOMAIN inbox :
             handler[inbox[i]] = "none" /\ client[inbox[i]] # "idle" /\ inbox[i] \in Requests
        /\ \A r \in Requests : client[r] = "idle" => handler[r] = "none"
    BY InboxEntries DEF Asked, InboxNew
  <1>5. q \in Requests /\ handler[q] = "none" /\ client[q] # "idle"
    BY <1>3, <1>4
  <1>6. \A r \in Requests : r # q => handler'[r] = handler[r]
    BY <1>2 DEF Push, Refuse, Spawn
  <1>7. handler'[q] \in {"none", "new"}
    BY <1>2, <1>5 DEF Push, Refuse, Spawn
  <1>8. InboxNew'
    <2>1. ASSUME NEW i \in DOMAIN inbox' PROVE inbox'[i] # q /\ inbox'[i] \in Requests
                                               /\ handler[inbox'[i]] = "none" /\ client[inbox'[i]] # "idle"
      <3>1. i + 1 # 1 /\ i + 1 \in DOMAIN inbox
        BY <1>3
      <3> QED  BY <1>3, <1>4, <3>1
    <2>2. ASSUME NEW i \in DOMAIN inbox', NEW j \in DOMAIN inbox', inbox'[i] = inbox'[j] PROVE i = j
      <3>1. i + 1 = j + 1
        BY <1>3, <1>4, <2>2
      <3> QED  BY <1>3, <3>1
    <2>3. \A r \in Requests : client'[r] = "idle" => handler'[r] = "none"
      BY <1>2, <1>4, <1>5, <1>6
    <2>4. \A i \in DOMAIN inbox' : handler'[inbox'[i]] = "none" /\ client'[inbox'[i]] # "idle"
      BY <1>2, <1>6, <2>1
    <2> QED  BY <2>2, <2>3, <2>4 DEF InboxNew
  <1>9. Taken(q)' /\ ~Taken(q) /\ \A r \in Requests : r # q => (Taken(r)' <=> Taken(r))
    <2>1. \A i \in DOMAIN inbox' : inbox'[i] # q
      <3>1. \A i \in DOMAIN inbox' : i + 1 # 1
        BY <1>3
      <3> QED  BY <1>3, <1>4, <3>1
    <2>2. \A r \in Requests : r # q =>
            ((\E i \in DOMAIN inbox' : inbox'[i] = r) <=> (\E i \in DOMAIN inbox : inbox[i] = r))
      BY <1>3
    <2> QED  BY <1>2, <1>3, <1>5, <2>1, <2>2 DEF Taken
  <1>10. AllOne'
    <2> SUFFICES ASSUME NEW r \in Requests PROVE One(r)'
      BY DEF AllOne
    <2>1. One(r)
      BY DEF Asked, AllOne
    <2>2. r # q \/ Kind[q] # "push" => (Waits(r)' <=> Waits(r))
      BY <1>2, <1>5, <1>6, <1>7, <1>9 DEF Waits
    <2>3. KeepsRpc(r) /\ KeepsFutures(r) /\ KeepsReply(r)
      BY <1>2, SameRpc, SameFutures, SameReply
    <2>4. CASE Refuse(q) \/ Spawn(q)
      <3>1. KeepsWorkers(r) /\ KeepsLost(r) /\ Kind[q] # "push"
        BY <2>4, SameWorkers, SameLost DEF Refuse, Spawn
      <3> QED  BY <2>1, <2>2, <2>3, <3>1, KeepOne
    <2>5. CASE Push(q)
      <3> DEFINE m == [req |-> q, from |-> q]
      <3>1. m \in Query /\ m.req = q /\ ToRoutee(m) /\ Kind[q] = "push"
        BY <1>5, <2>5 DEF Push, Query
      <3> HIDE DEF m
      <3>2. CASE r # q
        <4>1. CASE LoseAll({m.req}, "no_routee") /\ UNCHANGED wmail
          <5>1. KeepsWorkers(r) /\ KeepsLost(r)
            BY <3>1, <3>2, <4>1, LostAdd, SameWorkers
          <5> QED  BY <2>1, <2>2, <2>3, <3>2, <5>1, KeepOne
        <4>2. ASSUME NEW w \in routees, wmail' = [wmail EXCEPT ![w] = Append(@, m)], UNCHANGED lost
              PROVE  One(r)'
          <5>1. KeepsWorkers(r) /\ KeepsLost(r)
            BY <1>2, <3>1, <3>2, <4>2, WorkerPut, SameLost
          <5> QED  BY <2>1, <2>2, <2>3, <3>2, <5>1, KeepOne
        <4> QED  BY <3>1, <4>1, <4>2 DEF ToRoutee
      <3>3. CASE r = q
        <4>1. Waits(r)' /\ ~Waits(r)
          BY <1>2, <1>5, <1>9, <3>1, <3>3 DEF Waits, Asked, Pushed
        <4>2. ~InWorkers(r) /\ ~InLost(r) /\ ~Somewhere(r) /\ Once(r)
          BY <2>1, <4>1 DEF One, Somewhere
        <4>3. \/ InWorkers(r)' /\ OnceWorkers(r)' /\ KeepsLost(r)
              \/ InLost(r)' /\ OnceLost(r)' /\ KeepsWorkers(r)
          <5>1. CASE LoseAll({m.req}, "no_routee") /\ UNCHANGED wmail
            BY <3>1, <3>3, <4>2, <5>1, LostAdd, SameWorkers
          <5>2. ASSUME NEW w \in routees, wmail' = [wmail EXCEPT ![w] = Append(@, m)], UNCHANGED lost
                PROVE  InWorkers(r)' /\ OnceWorkers(r)' /\ KeepsLost(r)
            BY <1>2, <3>1, <3>3, <4>2, <5>2, WorkerPut, SameLost
          <5> QED  BY <3>1, <5>1, <5>2 DEF ToRoutee
        <4> QED  BY <2>3, <4>1, <4>2, <4>3 DEF One, Once, Somewhere, KeepsWorkers, KeepsRpc,
                    KeepsFutures, KeepsReply, KeepsLost
      <3> QED  BY <3>2, <3>3
    <2> QED  BY <1>2, <2>4, <2>5
  <1> QED  BY <1>8, <1>10

\* The actor asks: its question is in one place now.
LEMMA OneAsk == ASSUME Asked, NEW q \in Requests, Ask(q) PROVE InboxNew' /\ AllOne'
  <1>1. /\ handler \in [Requests -> {"none", "new", "waiting", "stopped"}]
        /\ handler[q] = "new" /\ handler' = [handler EXCEPT ![q] = "waiting"]
        /\ UNCHANGED <<inbox, client, hmail, futures, relayed>>
        /\ wmail \in [Workers -> Seq(Query)] /\ routees \subseteq Workers /\ rpcmail \in Seq(Requests)
        /\ Kind[q] # "push"
    BY DEF Asked, Inv, TypeOK, Own, NoPushActor, Ask, http_vars
  <1>2. InboxNew'
    BY <1>1, InboxKeeps DEF Asked
  <1>3. AllOne'
    <2> SUFFICES ASSUME NEW r \in Requests PROVE One(r)'
      BY DEF AllOne
    <2>1. One(r)
      BY DEF Asked, AllOne
    <2>2. KeepsFutures(r) /\ KeepsReply(r)
      BY <1>1, SameFutures, SameReply
    <2>3. CASE r # q
      <3>1. KeepsWorkers(r) /\ KeepsRpc(r) /\ KeepsLost(r)
        <4>1. CASE ToRoutee([req |-> q, from |-> q]) /\ UNCHANGED rpcmail
          <5> DEFINE m == [req |-> q, from |-> q]
          <5>1. m \in Query /\ m.req = q /\ ToRoutee(m) /\ KeepsRpc(r)
            BY <4>1, SameRpc DEF Query
          <5> HIDE DEF m
          <5>2. CASE LoseAll({m.req}, "no_routee") /\ UNCHANGED wmail
            BY <2>3, <5>1, <5>2, LostAdd, SameWorkers
          <5>3. ASSUME NEW w \in routees, wmail' = [wmail EXCEPT ![w] = Append(@, m)], UNCHANGED lost
                PROVE  KeepsWorkers(r) /\ KeepsLost(r)
            BY <1>1, <2>3, <5>1, <5>3, WorkerPut, SameLost
          <5> QED  BY <5>1, <5>2, <5>3 DEF ToRoutee
        <4>2. CASE rpcmail' = Append(rpcmail, q) /\ UNCHANGED <<wmail, lost>>
          BY <1>1, <2>3, <4>2, RpcPut, SameWorkers, SameLost
        <4>3. CASE LoseAll({q}, "rpc_down") /\ UNCHANGED <<wmail, rpcmail>>
          BY <2>3, <4>3, LostAdd, SameWorkers, SameRpc
        <4> QED  BY <4>1, <4>2, <4>3 DEF Ask
      <3>2. Waits(r)' <=> Waits(r)
        BY <1>1, <2>3, WaitsKept
      <3> QED  BY <2>1, <2>2, <3>1, <3>2, KeepOne
    <2>4. CASE r = q
      <3>1. Waits(r)' /\ ~Somewhere(r) /\ Once(r)
        BY <1>1, <2>1, <2>4 DEF One, Waits
      <3>2. \/ InWorkers(r)' /\ OnceWorkers(r)' /\ KeepsRpc(r) /\ KeepsLost(r)
            \/ InRpc(r)' /\ OnceRpc(r)' /\ KeepsWorkers(r) /\ KeepsLost(r)
            \/ InLost(r)' /\ OnceLost(r)' /\ KeepsWorkers(r) /\ KeepsRpc(r)
        <4>0. ~InWorkers(r) /\ ~InRpc(r) /\ ~InLost(r)
          BY <3>1 DEF Somewhere
        <4>1. CASE ToRoutee([req |-> q, from |-> q]) /\ UNCHANGED rpcmail
          <5> DEFINE m == [req |-> q, from |-> q]
          <5>1. m \in Query /\ m.req = r /\ ToRoutee(m) /\ KeepsRpc(r)
            BY <2>4, <4>1, SameRpc DEF Query
          <5> HIDE DEF m
          <5>2. CASE LoseAll({m.req}, "no_routee") /\ UNCHANGED wmail
            BY <4>0, <5>1, <5>2, LostAdd, SameWorkers
          <5>3. ASSUME NEW w \in routees, wmail' = [wmail EXCEPT ![w] = Append(@, m)], UNCHANGED lost
                PROVE  InWorkers(r)' /\ OnceWorkers(r)' /\ KeepsLost(r)
            BY <1>1, <4>0, <5>1, <5>3, WorkerPut, SameLost
          <5> QED  BY <5>1, <5>2, <5>3 DEF ToRoutee
        <4>2. CASE rpcmail' = Append(rpcmail, q) /\ UNCHANGED <<wmail, lost>>
          BY <1>1, <2>4, <4>0, <4>2, RpcPut, SameWorkers, SameLost
        <4>3. CASE LoseAll({q}, "rpc_down") /\ UNCHANGED <<wmail, rpcmail>>
          BY <2>4, <4>0, <4>3, LostAdd, SameWorkers, SameRpc
        <4> QED  BY <4>1, <4>2, <4>3 DEF Ask
      <3> QED  BY <2>2, <3>1, <3>2 DEF One, Once, Somewhere, KeepsWorkers, KeepsRpc,
                  KeepsFutures, KeepsReply, KeepsLost
    <2> QED  BY <2>3, <2>4
  <1> QED  BY <1>2, <1>3

\* The actor takes its one reply and stops: nothing of it is left.
LEMMA OneReceive == ASSUME Asked, NEW q \in Requests, Receive(q) PROVE InboxNew' /\ AllOne'
  <1>1. /\ handler \in [Requests -> {"none", "new", "waiting", "stopped"}]
        /\ handler[q] = "waiting" /\ handler' = [handler EXCEPT ![q] = "stopped"]
        /\ hmail \in [Requests -> Seq(Reply)] /\ hmail[q] # <<>>
        /\ hmail' = [hmail EXCEPT ![q] = Tail(@)]
        /\ UNCHANGED <<inbox, client, wmail, futures, relayed, rpcmail, lost>>
        /\ Kind[q] # "push"
    BY DEF Asked, Inv, TypeOK, Own, NoPushActor, Receive, worker_vars, rpc_vars
  <1>2. InboxNew'
    BY <1>1, InboxKeeps DEF Asked
  <1>3. AllOne'
    <2> SUFFICES ASSUME NEW r \in Requests PROVE One(r)'
      BY DEF AllOne
    <2>1. One(r)
      BY DEF Asked, AllOne
    <2>2. KeepsWorkers(r) /\ KeepsRpc(r) /\ KeepsFutures(r) /\ KeepsLost(r)
      BY <1>1, SameWorkers, SameRpc, SameFutures, SameLost
    <2>3. IF r = q THEN InReply(r) /\ (OnceReply(r) => ~InReply(r)' /\ OnceReply(r)') ELSE KeepsReply(r)
      BY <1>1, ReplyTake
    <2>4. CASE r = q
      <3>1. ~Waits(r)'
        BY <1>1, <2>4 DEF Waits
      <3> QED  BY <2>1, <2>2, <2>3, <2>4, <3>1 DEF One, Once, Somewhere, KeepsWorkers,
                  KeepsRpc, KeepsFutures, KeepsLost
    <2>5. CASE r # q
      <3>1. Waits(r)' <=> Waits(r)
        BY <1>1, <2>5, WaitsKept
      <3> QED  BY <2>1, <2>2, <2>3, <2>5, <3>1, KeepOne
    <2> QED  BY <2>4, <2>5
  <1> QED  BY <1>2, <1>3

LEMMA OneJoin == ASSUME Asked, NEW w \in Workers, JoinRoutee(w) PROVE InboxNew' /\ AllOne'
  <1>1. UNCHANGED <<inbox, client, handler, wmail, rpcmail, futures, relayed, hmail, lost>>
    BY DEF JoinRoutee, http_vars, actor_vars, rpc_vars
  <1> QED  BY <1>1, InboxKeeps, WaitsKept, AllKeep DEF Asked

\* A node takes mailbox and futures with it; no question was in both.
LEMMA OneLoseNode == ASSUME Asked, NEW w \in Workers, LoseNode(w) PROVE InboxNew' /\ AllOne'
  <1> DEFINE mine == {wmail[w][i].req : i \in DOMAIN wmail[w]}
             open == {f.req : f \in {g \in futures : g.at = w}}
  <1>1. /\ wmail \in [Workers -> Seq(Query)] /\ wmail' = [wmail EXCEPT ![w] = <<>>]
        /\ futures' = {f \in futures : f.at # w} /\ LoseAll(mine \cup open, "node")
        /\ UNCHANGED <<inbox, client, handler, rpcmail, hmail, relayed>>
    BY DEF Asked, Inv, TypeOK, LoseNode, http_vars, actor_vars, rpc_vars
  <1>2. InboxNew'
    BY <1>1, InboxKeeps DEF Asked
  <1>3. AllOne'
    <2> SUFFICES ASSUME NEW r \in Requests PROVE One(r)'
      BY DEF AllOne
    <2>1. One(r)
      BY DEF Asked, AllOne
    <2>2. KeepsRpc(r) /\ KeepsReply(r) /\ (Waits(r)' <=> Waits(r))
      BY <1>1, SameRpc, SameReply, WaitsKept
    <2>3. /\ r \notin mine => KeepsWorkers(r)
          /\ r \in mine => InWorkers(r) /\ (OnceWorkers(r) => ~InWorkers(r)' /\ OnceWorkers(r)')
      BY <1>1, WorkerClear
    <2>4. IF r \in open THEN InFutures(r) /\ (OnceFutures(r) => ~InFutures(r)' /\ OnceFutures(r)')
                        ELSE KeepsFutures(r)
      BY <1>1, FuturesLeave
    <2> HIDE DEF mine, open
    <2>5. IF r \in mine \cup open THEN ~InLost(r) => InLost(r)' /\ OnceLost(r)' ELSE KeepsLost(r)
      BY <1>1, LostAdd
    <2>6. CASE r \in mine
      BY <2>1, <2>2, <2>3, <2>4, <2>5, <2>6 DEF One, Once, Somewhere, KeepsRpc, KeepsReply, KeepsFutures
    <2>7. CASE r \notin mine /\ r \in open
      BY <2>1, <2>2, <2>3, <2>4, <2>5, <2>7 DEF One, Once, Somewhere, KeepsRpc, KeepsReply, KeepsWorkers
    <2>8. CASE r \notin mine /\ r \notin open
      BY <2>1, <2>2, <2>3, <2>4, <2>5, <2>8, KeepOne
    <2> QED  BY <2>6, <2>7, <2>8
  <1> QED  BY <1>2, <1>3

\* A worker takes a query: it is a future, a reply or lost after that.
LEMMA OneWorker ==
    ASSUME Asked, NEW w \in Workers, WorkerReceive(w) \/ DealThrows(w)
    PROVE  InboxNew' /\ AllOne'
  <1>1. PICK m : m = Head(wmail[w])
    OBVIOUS
  <1>2. /\ wmail \in [Workers -> Seq(Query)] /\ wmail[w] # <<>> /\ wmail' = [wmail EXCEPT ![w] = Tail(@)]
        /\ UNCHANGED <<inbox, client, handler, rpcmail>>
        /\ hmail \in [Requests -> Seq(Reply)]
    BY DEF Asked, Inv, TypeOK, WorkerReceive, DealThrows, http_vars, actor_vars, rpc_vars
  <1>3. m \in Query /\ m.from = m.req /\ m.req \in Requests
    BY <1>1, <1>2, WorkerTakes DEF Asked, Inv, Own, Query
  <1>4. \/ /\ Kind[m.req] = "push" /\ relayed' = relayed \cup {m.req}
           /\ UNCHANGED <<futures, hmail, lost>>
        \/ (\E why : LoseAll({m.req}, why)) /\ UNCHANGED <<futures, hmail, relayed>>
        \/ SendReply(m.req, m.req, "not_found") /\ UNCHANGED <<futures, lost, relayed>>
        \/ /\ \E f : f.req = m.req /\ futures' = futures \cup {f}
           /\ UNCHANGED <<hmail, lost, relayed>>
    <2>1. CASE WorkerReceive(w)
      <3>1. InputReceive(m) \/ OutputReceive(w, m)
        BY <1>1, <2>1 DEF WorkerReceive
      <3>2. CASE InputReceive(m)
        BY <3>2 DEF InputReceive
      <3>3. CASE OutputReceive(w, m)
        <4> DEFINE f == [req |-> m.req, to |-> m.from, at |-> w]
        <4>1. f.req = m.req
          OBVIOUS
        <4>2. \/ (LoseAll({m.req}, "ignored") /\ UNCHANGED <<futures, hmail, relayed>>)
              \/ (SendReply(m.from, m.req, "not_found") /\ UNCHANGED <<futures, lost, relayed>>)
              \/ (futures' = futures \cup {f} /\ UNCHANGED <<hmail, lost, relayed>>)
          BY <3>3 DEF OutputReceive
        <4> HIDE DEF f
        <4> QED  BY <1>3, <4>1, <4>2
      <3> QED  BY <3>1, <3>2, <3>3
    <2>2. CASE DealThrows(w)
      BY <1>1, <2>2 DEF DealThrows, actor_vars
    <2> QED  BY <2>1, <2>2
  <1>5. InboxNew'
    BY <1>2, InboxKeeps DEF Asked
  <1>6. AllOne'
    <2> SUFFICES ASSUME NEW r \in Requests PROVE One(r)'
      BY DEF AllOne
    <2>1. One(r)
      BY DEF Asked, AllOne
    <2>2. KeepsRpc(r)
      BY <1>2, SameRpc
    <2>3. IF r = m.req THEN InWorkers(r) /\ (OnceWorkers(r) => ~InWorkers(r)' /\ OnceWorkers(r)')
                       ELSE KeepsWorkers(r)
      BY <1>1, <1>2, WorkerTake
    <2>4. CASE r # m.req
      <3>2. Waits(r)' <=> Waits(r)
        BY <1>2, <1>4, <2>4 DEF Waits, Taken
      <3>1. KeepsFutures(r) /\ KeepsReply(r) /\ KeepsLost(r)
        <4>1. CASE UNCHANGED <<futures, hmail, lost>>
          BY <4>1, SameFutures, SameReply, SameLost
        <4>2. ASSUME NEW why, LoseAll({m.req}, why), UNCHANGED <<futures, hmail>>
              PROVE  KeepsFutures(r) /\ KeepsReply(r) /\ KeepsLost(r)
          BY <2>4, <4>2, SameFutures, SameReply, LostAdd
        <4>3. CASE SendReply(m.req, m.req, "not_found") /\ UNCHANGED <<futures, lost>>
          <5>1. [of |-> m.req, text |-> "not_found"] \in Reply
            BY <1>3 DEF Reply
          <5>2. KeepsReply(r)
            BY <1>2, <1>3, <2>4, <4>3, <5>1, ReplyPut DEF SendReply
          <5> QED  BY <4>3, <5>2, SameFutures, SameLost
        <4>4. ASSUME NEW f, f.req = m.req, futures' = futures \cup {f}, UNCHANGED <<hmail, lost>>
              PROVE  KeepsFutures(r) /\ KeepsReply(r) /\ KeepsLost(r)
          BY <2>4, <4>4, FutureAdd, SameReply, SameLost
        <4> QED  BY <1>4, <4>1, <4>2, <4>3, <4>4
      <3> QED  BY <2>1, <2>2, <2>3, <2>4, <3>1, <3>2, KeepOne
    <2>5. CASE r = m.req /\ Kind[r] = "push" /\ relayed' = relayed \cup {m.req}
                 /\ UNCHANGED <<futures, hmail, lost>>
      <3>1. ~Waits(r)'
        BY <2>5 DEF Waits
      <3>2. KeepsFutures(r) /\ KeepsReply(r) /\ KeepsLost(r)
        BY <2>5, SameFutures, SameReply, SameLost
      <3> QED  BY <2>1, <2>2, <2>3, <2>5, <3>1, <3>2 DEF One, Once, Somewhere, KeepsRpc,
                  KeepsFutures, KeepsReply, KeepsLost
    <2>6. CASE r = m.req /\ UNCHANGED relayed
      <3>0. Waits(r)' <=> Waits(r)
        BY <1>2, <2>6, WaitsKept
      <3>1. ~InRpc(r) /\ ~InFutures(r) /\ ~InReply(r) /\ ~InLost(r) /\ OnceWorkers(r)
        BY <2>1, <2>3, <2>6 DEF One, Once
      <3>2. \/ InLost(r)' /\ OnceLost(r)' /\ KeepsFutures(r) /\ KeepsReply(r)
            \/ InReply(r)' /\ OnceReply(r)' /\ KeepsFutures(r) /\ KeepsLost(r)
            \/ InFutures(r)' /\ OnceFutures(r)' /\ KeepsReply(r) /\ KeepsLost(r)
        <4>1. \/ (\E why : LoseAll({m.req}, why)) /\ UNCHANGED <<futures, hmail>>
              \/ SendReply(m.req, m.req, "not_found") /\ UNCHANGED <<futures, lost>>
              \/ (\E f : f.req = m.req /\ futures' = futures \cup {f}) /\ UNCHANGED <<hmail, lost>>
          BY <1>4, <2>1, <2>3, <2>6, <3>0 DEF One, Somewhere, Waits
        <4>2. ASSUME NEW why, LoseAll({m.req}, why), UNCHANGED <<futures, hmail>>
              PROVE  InLost(r)' /\ OnceLost(r)' /\ KeepsFutures(r) /\ KeepsReply(r)
          BY <2>6, <3>1, <4>2, SameFutures, SameReply, LostAdd
        <4>3. ASSUME SendReply(m.req, m.req, "not_found"), UNCHANGED <<futures, lost>>
              PROVE  InReply(r)' /\ OnceReply(r)' /\ KeepsFutures(r) /\ KeepsLost(r)
          <5>1. [of |-> m.req, text |-> "not_found"] \in Reply
            BY <1>3 DEF Reply
          <5>2. InReply(r)' /\ OnceReply(r)'
            BY <1>2, <1>3, <2>6, <3>1, <4>3, <5>1, ReplyPut DEF SendReply
          <5> QED  BY <4>3, <5>2, SameFutures, SameLost
        <4>4. ASSUME NEW f, f.req = m.req, futures' = futures \cup {f}, UNCHANGED <<hmail, lost>>
              PROVE  InFutures(r)' /\ OnceFutures(r)' /\ KeepsReply(r) /\ KeepsLost(r)
          BY <2>6, <3>1, <4>4, FutureAdd, SameReply, SameLost
        <4> QED  BY <2>6, <4>1, <4>2, <4>3, <4>4
      <3> QED  BY <2>1, <2>2, <2>3, <2>6, <3>0, <3>1, <3>2 DEF One, Once, Somewhere, KeepsRpc,
                  KeepsFutures, KeepsReply, KeepsLost
    <2> QED  BY <1>4, <2>4, <2>5, <2>6
  <1> QED  BY <1>5, <1>6

\* A future becomes the reply of the actor it was started for.
LEMMA OneFuture ==
    ASSUME Asked, NEW f \in futures, FutureSucceeds(f) \/ FutureFails(f)
    PROVE  InboxNew' /\ AllOne'
  <1>1. f.to = f.req /\ f.req \in Requests /\ hmail \in [Requests -> Seq(Reply)]
    BY DEF Asked, Inv, TypeOK, Own, FuturesOwn, Future
  <1>2. /\ futures' = futures \ {f}
        /\ UNCHANGED <<inbox, client, handler, wmail, rpcmail, lost, relayed>>
    BY DEF FutureSucceeds, FutureFails, http_vars, rpc_vars
  <1>3. \E m \in Reply : hmail' = [hmail EXCEPT ![f.req] = Append(@, m)]
    <2>1. [of |-> f.req, text |-> "rows"] \in Reply /\ [of |-> f.req, text |-> "failure"] \in Reply
      BY <1>1 DEF Reply
    <2> QED  BY <1>1, <2>1 DEF FutureSucceeds, FutureFails, SendReply, ReplyTo
  <1>4. InboxNew'
    BY <1>2, InboxKeeps DEF Asked
  <1>5. AllOne'
    <2> SUFFICES ASSUME NEW r \in Requests PROVE One(r)'
      BY DEF AllOne
    <2>1. One(r) /\ (Waits(r)' <=> Waits(r))
      BY <1>2, WaitsKept DEF Asked, AllOne
    <2>2. KeepsWorkers(r) /\ KeepsRpc(r) /\ KeepsLost(r)
      BY <1>2, SameWorkers, SameRpc, SameLost
    <2>3. IF r = f.req THEN InFutures(r) /\ (OnceFutures(r) => ~InFutures(r)' /\ OnceFutures(r)')
                       ELSE KeepsFutures(r)
      BY <1>2, FutureEnd
    <2>4. IF r = f.req THEN ~InReply(r) => InReply(r)' /\ OnceReply(r)' ELSE KeepsReply(r)
      BY <1>1, <1>3, ReplyPut
    <2>5. CASE r = f.req
      BY <2>1, <2>2, <2>3, <2>4, <2>5 DEF One, Once, Somewhere, KeepsWorkers, KeepsRpc, KeepsLost
    <2>6. CASE r # f.req
      BY <2>1, <2>2, <2>3, <2>4, <2>6, KeepOne
    <2> QED  BY <2>5, <2>6
  <1> QED  BY <1>4, <1>5

\* The RpcActor takes a command: it is a reply or lost after that.
LEMMA OneRpc == ASSUME Asked, RpcReceive \/ RpcThrows PROVE InboxNew' /\ AllOne'
  <1>1. PICK q : q = Head(rpcmail)
    OBVIOUS
  <1>2. /\ rpcmail \in Seq(Requests) /\ rpcmail # <<>> /\ rpcmail' = Tail(rpcmail)
        /\ UNCHANGED <<inbox, client, handler, wmail, futures, relayed>>
        /\ hmail \in [Requests -> Seq(Reply)]
    BY DEF Asked, Inv, TypeOK, RpcReceive, RpcThrows, http_vars, actor_vars, worker_vars
  <1>3. q \in Requests
    BY <1>1, <1>2, MailHead
  <1>4. \/ (\E why : LoseAll({q}, why)) /\ UNCHANGED hmail
        \/ (\E m \in Reply : hmail' = [hmail EXCEPT ![q] = Append(@, m)]) /\ UNCHANGED lost
    <2>1. CASE RpcThrows
      BY <1>1, <2>1 DEF RpcThrows, actor_vars
    <2>2. CASE RpcReceive
      <3>1. PICK text \in {"result", "not_found"} : text = IF q \in Known THEN "result" ELSE "not_found"
        OBVIOUS
      <3>2. [of |-> q, text |-> text] \in Reply
        BY <1>3 DEF Reply
      <3>3. \/ SendReply(q, q, text) /\ UNCHANGED lost
            \/ LoseAll({q}, "ignored") /\ UNCHANGED hmail
        BY <1>1, <2>2, <3>1 DEF RpcReceive
      <3> QED  BY <3>2, <3>3 DEF SendReply
    <2> QED  BY <2>1, <2>2
  <1>5. InboxNew'
    BY <1>2, InboxKeeps DEF Asked
  <1>6. AllOne'
    <2> SUFFICES ASSUME NEW r \in Requests PROVE One(r)'
      BY DEF AllOne
    <2>1. One(r) /\ (Waits(r)' <=> Waits(r))
      BY <1>2, WaitsKept DEF Asked, AllOne
    <2>2. KeepsWorkers(r) /\ KeepsFutures(r)
      BY <1>2, SameWorkers, SameFutures
    <2>3. IF r = q THEN InRpc(r) /\ (OnceRpc(r) => ~InRpc(r)' /\ OnceRpc(r)') ELSE KeepsRpc(r)
      BY <1>1, <1>2, RpcTake
    <2>4. ASSUME NEW why, LoseAll({q}, why), UNCHANGED hmail PROVE One(r)'
      <3>1. KeepsReply(r) /\ IF r = q THEN ~InLost(r) => InLost(r)' /\ OnceLost(r)' ELSE KeepsLost(r)
        BY <2>4, SameReply, LostAdd
      <3>2. CASE r = q
        BY <2>1, <2>2, <2>3, <3>1, <3>2 DEF One, Once, Somewhere, KeepsWorkers, KeepsFutures, KeepsReply
      <3> QED  BY <2>1, <2>2, <2>3, <3>1, <3>2, KeepOne
    <2>5. ASSUME NEW m \in Reply, hmail' = [hmail EXCEPT ![q] = Append(@, m)], UNCHANGED lost
          PROVE  One(r)'
      <3>1. KeepsLost(r) /\ IF r = q THEN ~InReply(r) => InReply(r)' /\ OnceReply(r)' ELSE KeepsReply(r)
        BY <1>2, <1>3, <2>5, SameLost, ReplyPut
      <3>2. CASE r = q
        BY <2>1, <2>2, <2>3, <3>1, <3>2 DEF One, Once, Somewhere, KeepsWorkers, KeepsFutures, KeepsLost
      <3> QED  BY <2>1, <2>2, <2>3, <3>1, <3>2, KeepOne
    <2> QED  BY <1>4, <2>4, <2>5
  <1> QED  BY <1>5, <1>6

\* Its node dies with every command that waits there, or is back.
LEMMA OneRpcNode == ASSUME Asked, RpcDies \/ RpcStarts PROVE InboxNew' /\ AllOne'
  <1>1. UNCHANGED <<inbox, client, handler, hmail, wmail, futures, relayed>>
    BY DEF RpcDies, RpcStarts, http_vars, actor_vars, worker_vars
  <1>2. InboxNew'
    BY <1>1, InboxKeeps DEF Asked
  <1>3. CASE RpcStarts
    BY <1>1, <1>2, <1>3, WaitsKept, AllKeep DEF Asked, RpcStarts
  <1>4. CASE RpcDies
    <2> DEFINE gone == {rpcmail[i] : i \in DOMAIN rpcmail}
    <2> SUFFICES ASSUME NEW r \in Requests PROVE One(r)'
      BY <1>2 DEF AllOne
    <2>1. One(r) /\ (Waits(r)' <=> Waits(r))
      BY <1>1, WaitsKept DEF Asked, AllOne
    <2>2. KeepsWorkers(r) /\ KeepsFutures(r) /\ KeepsReply(r)
      BY <1>1, SameWorkers, SameFutures, SameReply
    <2>3. ~InRpc(r)' /\ OnceRpc(r)' /\ (r \in gone <=> InRpc(r))
      BY <1>4, RpcClear DEF RpcDies
    <2>4. LoseAll(gone, "rpc_down")
      BY <1>4 DEF RpcDies
    <2> HIDE DEF gone
    <2>5. IF r \in gone THEN ~InLost(r) => InLost(r)' /\ OnceLost(r)' ELSE KeepsLost(r)
      BY <2>4, LostAdd
    <2> QED  BY <2>1, <2>2, <2>3, <2>5 DEF One, Once, Somewhere, KeepsWorkers, KeepsFutures,
                KeepsReply, KeepsLost
  <1> QED  BY <1>3, <1>4

\* An event leaves DataService once, for a worker of the server it was sent to.
LEMMA PushedStep == Asked /\ [Next]_vars => Pushed'
  <1> SUFFICES ASSUME Asked, [Next]_vars PROVE Pushed'
    OBVIOUS
  <1>1. /\ \A r \in relayed : Kind[r] = "push" /\ Taken(r) /\ server.role = "input" /\ r \in Requests
        /\ rpcmail \in Seq(Requests) /\ \A i \in DOMAIN rpcmail : Kind[rpcmail[i]] # "push"
        /\ \A l \in lost : Kind[l.req] = "push" =>
             l.why \in {"no_routee", "node"} \/ (l.why = "ignored" /\ server.role = "output")
    BY DEF Asked, Inv, TypeOK, Pushed
  <1>2. server' = server /\ \A r \in Requests : Taken(r) => Taken(r)'
    <2>1. UNCHANGED server
      BY DEF Next, vars, Dispatch, RpcReceive, RpcThrows, RpcDies, RpcStarts, Open, TimesOut, Ask,
             Receive, Respond, JoinRoutee, LoseNode, WorkerReceive, DealThrows, FutureSucceeds,
             FutureFails, rpc_vars
    <2>2. \A r \in Requests : Taken(r) => Taken(r)'
      <3> SUFFICES ASSUME NEW r \in Requests, Taken(r) PROVE Taken(r)'
        OBVIOUS
      <3>1. client \in [Requests -> {"idle", "open", "answered", "timedout"}]
            /\ inbox \in Seq(Requests) /\ client[r] # "idle" /\ \A i \in DOMAIN inbox : inbox[i] # r
        BY DEF Asked, Inv, TypeOK, Taken
      <3>2. CASE Dispatch
        <4>1. inbox # <<>> /\ inbox' = Tail(inbox) /\ client' = client
          BY <3>2 DEF Dispatch
        <4> QED  BY <3>1, <4>1, MailRest DEF Taken
      <3>3. ASSUME NEW q \in Requests, Open(q) PROVE Taken(r)'
        <4>1. /\ q # r /\ client' = [client EXCEPT ![q] = "open"] /\ inbox' = Append(inbox, q)
          BY <3>1, <3>3 DEF Open
        <4>2. \A i \in DOMAIN inbox' : (i \in DOMAIN inbox /\ inbox'[i] = inbox[i]) \/ inbox'[i] = q
          BY <3>1, <4>1, MailAppend
        <4> QED  BY <3>1, <4>1, <4>2 DEF Taken
      <3>4. ASSUME UNCHANGED inbox, client'[r] # "idle" PROVE Taken(r)'
        BY <3>1, <3>4 DEF Taken
      <3>5. ASSUME NEW p \in responses, Respond(p) PROVE UNCHANGED inbox /\ client'[r] # "idle"
        BY <3>1, <3>5 DEF Respond
      <3>6. ASSUME NEW q \in Requests, TimesOut(q) PROVE UNCHANGED inbox /\ client'[r] # "idle"
        BY <3>1, <3>6 DEF TimesOut
      <3>7. \/ Dispatch \/ (\E q \in Requests : Open(q) \/ TimesOut(q))
            \/ (\E p \in responses : Respond(p)) \/ UNCHANGED <<inbox, client>>
        BY DEF Next, vars, RpcReceive, RpcThrows, RpcDies, RpcStarts, Ask,
               Receive, JoinRoutee, LoseNode, WorkerReceive, DealThrows, FutureSucceeds,
               FutureFails, http_vars
      <3> QED  BY <3>1, <3>2, <3>3, <3>4, <3>5, <3>6, <3>7
    <2> QED  BY <2>1, <2>2
  <1>3. \A r \in relayed' : Kind[r] = "push" /\ Taken(r)' /\ server'.role = "input"
    <2>1. CASE UNCHANGED relayed
      BY <1>1, <1>2, <2>1
    <2>2. ASSUME NEW w \in Workers, WorkerReceive(w)
          PROVE  \A r \in relayed' : Kind[r] = "push" /\ Taken(r)' /\ server'.role = "input"
      <3>1. PICK m : m = Head(wmail[w]) /\ wmail[w] # <<>> /\ (InputReceive(m) \/ OutputReceive(w, m))
        BY <2>2 DEF WorkerReceive
      <3>2. CASE InputReceive(m) /\ Kind[m.req] = "push"
        <4>1. relayed' = relayed \cup {m.req} /\ server.role = "input"
          BY <3>2 DEF InputReceive
        <4>2. m.req \in Requests /\ WorkerHas(m.req, w, 1)
          <5>1. wmail[w] \in Seq(Query) /\ wmail[w] # <<>>
            BY <3>1 DEF Asked, Inv, TypeOK
          <5>2. m \in Query /\ 1 \in DOMAIN wmail[w] /\ m = wmail[w][1]
            BY <3>1, <5>1, MailHead
          <5> QED  BY <5>2 DEF Query, WorkerHas
        <4>3. Taken(m.req)
          BY <3>2, <4>2 DEF Asked, AllOne, One, Somewhere, InWorkers, Waits
        <4> QED  BY <1>1, <1>2, <3>2, <4>1, <4>2, <4>3
      <3> QED  BY <2>1, <3>1, <3>2 DEF InputReceive, OutputReceive
    <2>3. UNCHANGED relayed \/ \E w \in Workers : WorkerReceive(w)
      BY DEF Next, vars, Dispatch, RpcReceive, RpcThrows, RpcDies, RpcStarts, Open, TimesOut, Ask,
             Receive, Respond, JoinRoutee, LoseNode, DealThrows, FutureSucceeds,
             FutureFails, worker_vars
    <2> QED  BY <2>1, <2>2, <2>3
  <1>4. \A i \in DOMAIN rpcmail' : Kind[rpcmail'[i]] # "push"
    <2>1. CASE rpcmail # <<>> /\ rpcmail' = Tail(rpcmail)
      BY <1>1, <2>1, MailRest
    <2>2. CASE rpcmail' = <<>>
      BY <2>2, NoMail
    <2>3. ASSUME NEW q \in Requests, Ask(q), rpcmail' = Append(rpcmail, q)
          PROVE  \A i \in DOMAIN rpcmail' : Kind[rpcmail'[i]] # "push"
      <3>1. Kind[q] # "push"
        BY <2>3 DEF Asked, Inv, Own, NoPushActor, Ask
      <3> QED  BY <1>1, <2>3, <3>1, MailAppend
    <2>4. \/ rpcmail # <<>> /\ rpcmail' = Tail(rpcmail)
          \/ rpcmail' = <<>>
          \/ UNCHANGED rpcmail
          \/ \E q \in Requests : Ask(q) /\ rpcmail' = Append(rpcmail, q)
      BY DEF Next, vars, Dispatch, RpcReceive, RpcThrows, RpcDies, RpcStarts, Open, TimesOut, Ask,
             Receive, Respond, JoinRoutee, LoseNode, WorkerReceive, DealThrows, FutureSucceeds,
             FutureFails, rpc_vars
    <2> QED  BY <1>1, <2>1, <2>2, <2>3, <2>4
  <1>5. \A l \in lost' : Kind[l.req] = "push" =>
          l.why \in {"no_routee", "node"} \/ (l.why = "ignored" /\ server'.role = "output")
    <2> DEFINE Fine(rs, why) == \A r \in rs : Kind[r] = "push" =>
                 why \in {"no_routee", "node"} \/ (why = "ignored" /\ server.role = "output")
    <2>1. ASSUME NEW rs, NEW why, LoseAll(rs, why), Fine(rs, why)
          PROVE  \A l \in lost' : Kind[l.req] = "push" =>
                   l.why \in {"no_routee", "node"} \/ (l.why = "ignored" /\ server'.role = "output")
      <3>1. \A l \in lost' : l \in lost \/ \E r \in rs : l = [req |-> r, why |-> why]
        BY <2>1 DEF LoseAll
      <3> QED  BY <1>1, <1>2, <2>1, <3>1
    <2>2. ASSUME NEW m, ToRoutee(m)
          PROVE  UNCHANGED lost \/ \E rs, why : LoseAll(rs, why) /\ Fine(rs, why)
      BY <2>2 DEF ToRoutee
    <2>3. ASSUME NEW q \in Requests, Ask(q)
          PROVE  UNCHANGED lost \/ \E rs, why : LoseAll(rs, why) /\ Fine(rs, why)
      <3>1. Kind[q] # "push"
        BY <2>3 DEF Asked, Inv, Own, NoPushActor, Ask
      <3>2. CASE ToRoutee([req |-> q, from |-> q])
        BY <2>2, <3>2
      <3>3. CASE LoseAll({q}, "rpc_down")
        BY <3>1, <3>3
      <3> QED  BY <2>3, <3>2, <3>3 DEF Ask
    <2>4. ASSUME Dispatch
          PROVE  UNCHANGED lost \/ \E rs, why : LoseAll(rs, why) /\ Fine(rs, why)
      <3>1. PICK q : Push(q) \/ Refuse(q) \/ Spawn(q)
        BY <2>4 DEF Dispatch
      <3>2. CASE Push(q)
        BY <2>2, <3>2 DEF Push
      <3>3. CASE Refuse(q) \/ Spawn(q)
        BY <3>3 DEF Refuse, Spawn
      <3> QED  BY <3>1, <3>2, <3>3
    <2>5. ASSUME NEW w \in Workers, LoseNode(w)
          PROVE  \E rs, why : LoseAll(rs, why) /\ Fine(rs, why)
      BY <2>5 DEF LoseNode
    <2>6. ASSUME NEW w \in Workers, WorkerReceive(w) \/ DealThrows(w)
          PROVE  UNCHANGED lost \/ \E rs, why : LoseAll(rs, why) /\ Fine(rs, why)
      <3>1. PICK m : m = Head(wmail[w])
        OBVIOUS
      <3>2. CASE DealThrows(w)
        <4>1. Kind[m.req] = "query" /\ LoseAll({m.req}, "swallowed")
          BY <3>1, <3>2 DEF DealThrows
        <4> QED  BY <4>1
      <3>3. CASE InputReceive(m)
        BY <3>3 DEF InputReceive
      <3>4. CASE OutputReceive(w, m)
        BY <3>4 DEF OutputReceive
      <3> QED  BY <2>6, <3>1, <3>2, <3>3, <3>4 DEF WorkerReceive
    <2>7. ASSUME RpcReceive \/ RpcThrows
          PROVE  UNCHANGED lost \/ \E rs, why : LoseAll(rs, why) /\ Fine(rs, why)
      <3>1. PICK q : q = Head(rpcmail)
        OBVIOUS
      <3>2. rpcmail # <<>>
        BY <2>7 DEF RpcReceive, RpcThrows
      <3>3. Kind[q] # "push"
        BY <1>1, <3>1, <3>2, MailRest
      <3>4. UNCHANGED lost \/ \E why : LoseAll({q}, why)
        BY <2>7, <3>1 DEF RpcReceive, RpcThrows
      <3>5. \A why : Fine({q}, why)
        BY <3>3
      <3> QED  BY <3>4, <3>5
    <2>8. ASSUME RpcDies
          PROVE  \E rs, why : LoseAll(rs, why) /\ Fine(rs, why)
      <3> DEFINE gone == {rpcmail[i] : i \in DOMAIN rpcmail}
      <3>1. LoseAll(gone, "rpc_down")
        BY <2>8 DEF RpcDies
      <3>2. \A r \in gone : Kind[r] # "push"
        BY <1>1
      <3> QED  BY <3>1, <3>2
    <2> HIDE DEF Fine
    <2>9. \/ UNCHANGED lost \/ Dispatch \/ RpcReceive \/ RpcThrows \/ RpcDies
          \/ \E q \in Requests : Ask(q)
          \/ \E w \in Workers : LoseNode(w) \/ WorkerReceive(w) \/ DealThrows(w)
      BY DEF Next, vars, RpcStarts, Open, TimesOut, Receive, Respond, JoinRoutee,
             FutureSucceeds, FutureFails
    <2>10. UNCHANGED lost \/ \E rs, why : LoseAll(rs, why) /\ Fine(rs, why)
      BY <2>3, <2>4, <2>5, <2>6, <2>7, <2>8, <2>9
    <2> QED  BY <1>1, <1>2, <2>1, <2>10
  <1> QED  BY <1>3, <1>4, <1>5 DEF Pushed

LEMMA AskedInit == Init => Asked
  <1> SUFFICES ASSUME Init PROVE Asked
    OBVIOUS
  <1>1. Inv
    BY InvInit
  <1>2. DOMAIN <<>> = {}
    BY NoMail
  <1>3. InboxNew
    BY <1>2 DEF Init, InboxNew
  <1>4. Pushed
    BY <1>2 DEF Init, Pushed
  <1>5. ASSUME NEW r \in Requests PROVE One(r)
    <2>1. ~Waits(r) /\ futures = {} /\ lost = {}
      BY DEF Init, Waits, Taken
    <2>2. DOMAIN rpcmail = {} /\ DOMAIN hmail[r] = {} /\ \A w \in Workers : DOMAIN wmail[w] = {}
      BY <1>2 DEF Init
    <2>3. \A w \in Workers : \A i : ~WorkerHas(r, w, i)
      BY <2>2 DEF WorkerHas
    <2>4. ~InWorkers(r) /\ OnceWorkers(r)
      BY <2>3 DEF InWorkers, OnceWorkers
    <2> QED  BY <2>1, <2>2, <2>4 DEF One, Once, Somewhere, InRpc, OnceRpc, InFutures, OnceFutures,
                InReply, OnceReply, InLost, OnceLost
  <1> QED  BY <1>1, <1>3, <1>4, <1>5 DEF Asked, AllOne

LEMMA AskedStep == Asked /\ [Next]_vars => Asked'
  <1> SUFFICES ASSUME Asked, [Next]_vars PROVE InboxNew' /\ AllOne'
    BY InvStep, PushedStep DEF Asked
  <1>1. CASE Dispatch
    BY <1>1, OneDispatch
  <1>2. CASE RpcReceive \/ RpcThrows
    BY <1>2, OneRpc
  <1>3. CASE RpcDies \/ RpcStarts
    BY <1>3, OneRpcNode
  <1>4. ASSUME NEW r \in Requests, Open(r) \/ TimesOut(r) \/ Ask(r) \/ Receive(r)
        PROVE  InboxNew' /\ AllOne'
    BY <1>4, OneOpen, OneClient, OneAsk, OneReceive
  <1>5. ASSUME NEW p \in responses, Respond(p) PROVE InboxNew' /\ AllOne'
    BY <1>5, OneClient
  <1>6. ASSUME NEW w \in Workers, JoinRoutee(w) \/ LoseNode(w) \/ WorkerReceive(w) \/ DealThrows(w)
        PROVE  InboxNew' /\ AllOne'
    BY <1>6, OneJoin, OneLoseNode, OneWorker
  <1>7. ASSUME NEW f \in futures, FutureSucceeds(f) \/ FutureFails(f) PROVE InboxNew' /\ AllOne'
    BY <1>7, OneFuture
  <1>8. CASE UNCHANGED vars
    <2>1. UNCHANGED <<inbox, client, handler, wmail, rpcmail, futures, relayed, hmail, lost>>
      BY <1>8 DEF vars, http_vars, actor_vars, worker_vars, rpc_vars
    <2> QED  BY <2>1, InboxKeeps, WaitsKept, AllKeep DEF Asked
  <1> QED  BY <1>1, <1>2, <1>3, <1>4, <1>5, <1>6, <1>7, <1>8 DEF Next

-----------------------------------------------------------------------------
(* The places of a question, counted.                                      *)

LEMMA PlaceOf ==
    ASSUME NEW r, NEW p
    PROVE  p \in Places(r) <=>
             \/ \E w \in Workers : \E i : WorkerHas(r, w, i) /\ p = <<"worker", w, i>>
             \/ \E i \in DOMAIN rpcmail : rpcmail[i] = r /\ p = <<"rpc", i>>
             \/ \E f \in futures : f.req = r /\ p = <<"future", f>>
             \/ \E i \in DOMAIN hmail[r] : p = <<"reply", i>>
             \/ \E l \in lost : l.req = r /\ p = <<"lost", l>>
  <1> DEFINE mine(w)  == {j \in DOMAIN wmail[w] : wmail[w][j].req = r}
             at(w)    == {<<"worker", w, i>> : i \in mine(w)}
             workers  == UNION {at(w) : w \in Workers}
             rpc      == {<<"rpc", i>> : i \in {j \in DOMAIN rpcmail : rpcmail[j] = r}}
             open     == {<<"future", f>> : f \in {g \in futures : g.req = r}}
             answered == {<<"reply", i>> : i \in DOMAIN hmail[r]}
             gone     == {<<"lost", l>> : l \in {k \in lost : k.req = r}}
  <1>1. Places(r) = workers \cup rpc \cup open \cup answered \cup gone
    BY DEF Places
  <1>2. ASSUME NEW w \in Workers
        PROVE  p \in at(w) <=> \E i : WorkerHas(r, w, i) /\ p = <<"worker", w, i>>
    BY DEF WorkerHas
  <1>3. p \in rpc <=> \E i \in DOMAIN rpcmail : rpcmail[i] = r /\ p = <<"rpc", i>>
    OBVIOUS
  <1>4. p \in open <=> \E f \in futures : f.req = r /\ p = <<"future", f>>
    OBVIOUS
  <1>5. p \in answered <=> \E i \in DOMAIN hmail[r] : p = <<"reply", i>>
    OBVIOUS
  <1>6. p \in gone <=> \E l \in lost : l.req = r /\ p = <<"lost", l>>
    OBVIOUS
  <1> HIDE DEF at, rpc, open, answered, gone
  <1>7. p \in workers <=> \E w \in Workers : p \in at(w)
    OBVIOUS
  <1>8. p \in workers <=> \E w \in Workers : \E i : WorkerHas(r, w, i) /\ p = <<"worker", w, i>>
    BY <1>2, <1>7
  <1> HIDE DEF workers
  <1> QED  BY <1>1, <1>3, <1>4, <1>5, <1>6, <1>8

LEMMA OnePlace ==
    ASSUME NEW r, One(r)
    PROVE  Cardinality(Places(r)) = IF Waits(r) THEN 1 ELSE 0
  <1>1. CASE ~Somewhere(r)
    <2>1. \A p : p \notin Places(r)
      BY <1>1, PlaceOf DEF Somewhere, InWorkers, InRpc, InFutures, InReply, InLost
    <2>2. Places(r) = {}
      BY <2>1
    <2> QED  BY <1>1, <2>2, FS_EmptySet DEF One
  <1>2. CASE Somewhere(r)
    <2>1. \E p : p \in Places(r)
      BY <1>2, PlaceOf DEF Somewhere, InWorkers, InRpc, InFutures, InReply, InLost
    <2>2. ASSUME NEW p \in Places(r), NEW q \in Places(r) PROVE p = q
      <3>1. CASE InWorkers(r)
        <4>1. ~InRpc(r) /\ ~InFutures(r) /\ ~InReply(r) /\ ~InLost(r) /\ OnceWorkers(r)
          BY <3>1 DEF One, Once
        <4>2. /\ \E w \in Workers : \E i : WorkerHas(r, w, i) /\ p = <<"worker", w, i>>
              /\ \E w \in Workers : \E i : WorkerHas(r, w, i) /\ q = <<"worker", w, i>>
          BY <2>2, <4>1, PlaceOf DEF InRpc, InFutures, InReply, InLost
        <4> QED  BY <4>1, <4>2 DEF OnceWorkers
      <3>2. CASE InRpc(r)
        <4>1. ~InWorkers(r) /\ ~InFutures(r) /\ ~InReply(r) /\ ~InLost(r) /\ OnceRpc(r)
          BY <3>2 DEF One, Once
        <4>2. /\ \E i \in DOMAIN rpcmail : rpcmail[i] = r /\ p = <<"rpc", i>>
              /\ \E i \in DOMAIN rpcmail : rpcmail[i] = r /\ q = <<"rpc", i>>
          BY <2>2, <4>1, PlaceOf DEF InWorkers, InFutures, InReply, InLost
        <4> QED  BY <4>1, <4>2 DEF OnceRpc
      <3>3. CASE InFutures(r)
        <4>1. ~InWorkers(r) /\ ~InRpc(r) /\ ~InReply(r) /\ ~InLost(r) /\ OnceFutures(r)
          BY <3>3 DEF One, Once
        <4>2. /\ \E f \in futures : f.req = r /\ p = <<"future", f>>
              /\ \E f \in futures : f.req = r /\ q = <<"future", f>>
          BY <2>2, <4>1, PlaceOf DEF InWorkers, InRpc, InReply, InLost
        <4> QED  BY <4>1, <4>2 DEF OnceFutures
      <3>4. CASE InReply(r)
        <4>1. ~InWorkers(r) /\ ~InRpc(r) /\ ~InFutures(r) /\ ~InLost(r) /\ OnceReply(r)
          BY <3>4 DEF One, Once
        <4>2. /\ \E i \in DOMAIN hmail[r] : p = <<"reply", i>>
              /\ \E i \in DOMAIN hmail[r] : q = <<"reply", i>>
          BY <2>2, <4>1, PlaceOf DEF InWorkers, InRpc, InFutures, InLost
        <4> QED  BY <4>1, <4>2 DEF OnceReply
      <3>5. CASE InLost(r)
        <4>1. ~InWorkers(r) /\ ~InRpc(r) /\ ~InFutures(r) /\ ~InReply(r) /\ OnceLost(r)
          BY <3>5 DEF One, Once
        <4>2. /\ \E l \in lost : l.req = r /\ p = <<"lost", l>>
              /\ \E l \in lost : l.req = r /\ q = <<"lost", l>>
          BY <2>2, <4>1, PlaceOf DEF InWorkers, InRpc, InFutures, InReply
        <4> QED  BY <4>1, <4>2 DEF OnceLost
      <3> QED  BY <1>2, <3>1, <3>2, <3>3, <3>4, <3>5 DEF Somewhere
    <2>3. PICK p : Places(r) = {p}
      BY <2>1, <2>2
    <2> QED  BY <1>2, <2>3, FS_Singleton DEF One
  <1> QED  BY <1>1, <1>2

\* A waiting actor's question is in exactly one place, in a mailbox, in a future,
\* answered or lost, and nothing is left of the question of any other.  An event that was
\* answered "ok" is from then on in one mailbox, with Kafka, or lost for one of three
\* reasons, never in two of these, and only an input server relays it.  This holds for
\* however many requests, workers and failures.
THEOREM OneCarrierEach == Spec => []OneCarrier
  <1>1. Asked => OneQuestion
    BY OnePlace DEF Asked, AllOne, OneQuestion, Waits
  <1>2. Asked => OneEvent
    BY OnePlace DEF Asked, AllOne, Pushed, OneEvent, Waits
  <1>3. Asked => OneCarrier
    BY <1>1, <1>2 DEF OneCarrier
  <1> QED  BY <1>3, AskedInit, AskedStep, PTL DEF Spec
=============================================================================
