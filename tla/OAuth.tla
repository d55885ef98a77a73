------------------------------- MODULE OAuth --------------------------------
(* How a remote tool server gets its access token (harness-mcp, oauth.rs).   *)
(* /mcp auth start asks the server where its authorization server is,        *)
(* settles as which client to appear, and opens a listener for the browser;  *)
(* the user approves in a browser tab, which may also be an old one, and the *)
(* listener takes the first caller's answer, whoever that is; /mcp auth      *)
(* finish checks the answer, exchanges the code for tokens and stores them   *)
(* one after the other.  Refresh, client credentials and cross-app access    *)
(* get tokens without a browser.  The user's commands come from one thread,  *)
(* so the flow that another start would open in the middle of one cannot     *)
(* arise; listeners, tabs, clocks and the death of the process are           *)
(* concurrent.  A flow, its state and its verifier are one number here, and  *)
(* so are the tokens of one grant.                                           *)
(*                                                                           *)
(* Bounds: MaxFlow flows, MaxGrant grants of tokens, MaxKill deaths.  The    *)
(* entry of a server in the configuration does not change here.              *)
EXTENDS Integers, Sequences, FiniteSets

CONSTANTS Server, Configs, Replies, MaxFlow, MaxGrant, MaxKill

VARIABLES config, flows, pending, listening, answer, late, hand, creds, grants,
          asked, kills

vars == <<config, flows, pending, listening, answer, late, hand, creds, grants,
          asked, kills>>

Methods == {"none", "basic", "post", "key"}
Flow == 1..MaxFlow

Client == [as: {"configured", "document", "registered"}, method: Methods,
           secret: BOOLEAN, key: BOOLEAN]

NoAnswer == [kind |-> "none", state |-> 0, fits |-> FALSE]
Error == [kind |-> "error", state |-> 0, fits |-> FALSE]
Answer == [kind: {"none", "code", "error"}, state: 0..MaxFlow, fits: BOOLEAN]

(* What is being stored: the grant, for which server, and the tokens left to *)
(* write.                                                                    *)
NoHand == [grant |-> 0, server |-> CHOOSE s \in Server : TRUE, left |-> <<>>]
NotAsked == [by |-> "nobody", flow |-> 0, code |-> 0, server |-> NoHand.server,
             client |-> [as |-> "configured", method |-> "none", secret |-> FALSE,
                         key |-> FALSE]]

-----------------------------------------------------------------------------
(* The metadata                                                              *)

(* When neither well-known address knows the issuer, the endpoints of the    *)
(* older protocol are assumed.                                               *)
Assumed ==
  [found |-> TRUE, resource |-> "own", listed |-> TRUE, issuer |-> "own", s256 |-> TRUE,
   methods |-> {"none"}, signs |-> FALSE, documents |-> FALSE, registers |-> TRUE]

IssuerFits(c, m) ==
  m.issuer = "own" \/ (m.issuer = "neighbour" /\ c.legacy /\ ~c.published)

(* What is believed of the reply m: nothing, when a check fails.             *)
Discover(c, m) ==
  IF c.published /\ (m.resource # "own" \/ (c.expected /\ ~m.listed)) THEN {}
  ELSE IF ~m.found THEN IF c.published THEN {} ELSE {Assumed}
  ELSE {r \in {m} : IssuerFits(c, r) /\ r.s256}

Valid(c) == (c.published => ~c.legacy) /\ (~c.published => c.expected)

-----------------------------------------------------------------------------
(* The client                                                                *)

MethodOf(c, m) ==
  IF c.method # "auto" THEN c.method
  ELSE IF c.key /\ "key" \in m.methods THEN "key"
  ELSE IF c.secret /\ "basic" \in m.methods THEN "basic"
  ELSE IF c.secret /\ "post" \in m.methods THEN "post"
  ELSE "none"

(* A client whose number is in the configuration, if its credentials and     *)
(* the method agree.                                                         *)
(* Faulty: a secret that the method does not use is passed over.             *)
SecretPassedOver(c, m) ==
  {k \in {[as |-> "configured", method |-> MethodOf(c, m), secret |-> c.secret,
           key |-> c.key]} :
     /\ ~(k.secret /\ k.key)
     /\ k.method \in m.methods
     /\ IF k.method = "key" THEN k.key /\ c.signs /\ m.signs ELSE ~k.key}

ConfiguredClient(c, m) ==
  {k \in {[as |-> "configured", method |-> MethodOf(c, m), secret |-> c.secret,
           key |-> c.key]} :
     /\ ~(k.secret /\ k.key)
     /\ k.method \in m.methods
     /\ IF k.method = "key" THEN k.key /\ c.signs /\ m.signs ELSE ~k.key
     /\ k.method = "none" => ~k.secret
     /\ k.method \in {"basic", "post"} => k.secret}

DocumentClient(c, m) ==
  IF c.method \in {"auto", "none"} /\ "none" \in m.methods
    THEN {[as |-> "document", method |-> "none", secret |-> FALSE, key |-> FALSE]}
    ELSE {}

(* The authorization server answers a registration as it likes, within the   *)
(* methods it has named.                                                     *)
RegisteredClient(m) ==
  IF m.registers /\ m.methods \cap {"none", "basic", "post"} # {}
    THEN [as: {"registered"}, method: m.methods, secret: BOOLEAN, key: {FALSE}]
    ELSE {}

ResolveClient(c, m) ==
  IF c.id THEN ConfiguredClient(c, m)
  ELSE IF m.documents /\ c.document THEN DocumentClient(c, m)
  ELSE RegisteredClient(m)

(* What a request for tokens needs in order to be sent at all.               *)
CanAsk(k) ==
  /\ k.method \in {"basic", "post"} => k.secret
  /\ k.method = "key" => k.key

-----------------------------------------------------------------------------
Init ==
  /\ config \in Configs
  /\ flows = <<>> /\ grants = <<>>
  /\ pending = [s \in Server |-> 0]
  /\ listening = {} /\ late = {}
  /\ answer = [f \in Flow |-> NoAnswer]
  /\ hand = NoHand
  /\ creds = [s \in Server |-> [access |-> 0, refresh |-> 0]]
  /\ asked = NotAsked
  /\ kills = 0

Idle == hand.grant = 0

(* `asked' is the request for tokens of the step just taken, if it made one. *)
NothingAsked == asked' = NotAsked

(* Configured callback ports are one and the same.                           *)
PortFree(s) ==
  config[s].fixed => \A f \in listening : ~config[flows[f].server].fixed

(* /mcp auth start.  A refusal changes nothing.                              *)
Start(s) ==
  /\ Idle /\ pending[s] = 0 /\ Valid(config[s]) /\ PortFree(s) /\ Len(flows) < MaxFlow
  /\ \E reply \in Replies : \E m \in Discover(config[s], reply) :
       \E k \in ResolveClient(config[s], m) :
         flows' = Append(flows, [server |-> s, client |-> k])
  /\ pending' = [pending EXCEPT ![s] = Len(flows')]
  /\ listening' = listening \union {Len(flows')}
  /\ NothingAsked
  /\ UNCHANGED <<config, answer, late, hand, creds, grants, kills>>

Waited(f) == \E s \in Server : pending[s] = f

(* The listener hands an answer to the flow, if that is still there, and     *)
(* closes.                                                                   *)
Hear(f, a) ==
  /\ answer' = IF Waited(f) THEN [answer EXCEPT ![f] = a] ELSE answer
  /\ listening' = listening \ {f}
  /\ NothingAsked
  /\ UNCHANGED <<config, flows, pending, late, hand, creds, grants, kills>>

(* A browser tab, opened for flow f, comes to the listener of flow g: its    *)
(* own, or the one that has the same port now.  The first caller counts;     *)
(* what is not a call of the path with a code and a state is an error, and   *)
(* so is a refusal by the user.                                              *)
Reaches(f, g) ==
  f = g \/ (config[flows[f].server].fixed /\ config[flows[g].server].fixed)

Callback(f, g) ==
  /\ f \in DOMAIN flows /\ g \in listening /\ Reaches(f, g)
  /\ \E a \in {r \in Answer : r.kind = "code" /\ r.state = f} \union {Error} : Hear(g, a)

(* Five minutes without a caller.                                            *)
ListenerTimesOut(f) == f \in listening /\ Hear(f, Error)

(* The flow's own clock, which need not agree with the listener's.           *)
Expires(f) ==
  /\ Waited(f) /\ f \notin late
  /\ late' = late \union {f}
  /\ NothingAsked
  /\ UNCHANGED <<config, flows, pending, listening, answer, hand, creds, grants, kills>>

-----------------------------------------------------------------------------
(* A request for tokens                                                      *)

(* Faulty: the access token is written before the refresh token.             *)
AccessFirst(renewable) ==
  IF renewable THEN <<"access", "refresh">> ELSE <<"access">>
WriteOrder(renewable) ==
  IF renewable THEN <<"refresh", "access">> ELSE <<"access">>

(* The request, and the authorization server's answer: no tokens, or tokens  *)
(* with or without a new refresh token, in place of the one named `old'.     *)
Ask(by, s, k, f, code, old, allowed) ==
  /\ asked' = [by |-> by, flow |-> f, code |-> code, server |-> s, client |-> k]
  /\ \/ UNCHANGED <<grants, hand>>
     \/ /\ allowed /\ Len(grants) < MaxGrant
        /\ \E renewable \in BOOLEAN :
             /\ grants' = Append(grants, [plain |-> k.as = "configured" /\ k.method = "none",
                                          renewable |-> renewable,
                                          old |-> IF renewable THEN old ELSE 0])
             /\ hand' = [grant |-> Len(grants'), server |-> s,
                         left |-> WriteOrder(renewable)]

(* Faulty: the state that the browser brings is not compared.                *)
AnyAnswerFits(f) == f \notin late /\ answer[f].kind = "code" /\ answer[f].fits
AnswerFits(f) ==
  f \notin late /\ answer[f].kind = "code" /\ answer[f].state = f /\ answer[f].fits

(* /mcp auth finish.  While the browser has not answered, the flow is put    *)
(* back; otherwise it is over, whatever comes of it.                         *)
(* Faulty: it is not put back.                                               *)
EarlyForgets(s) == [pending EXCEPT ![s] = 0]
Early(s) == pending

FinishEarly(s) ==
  /\ Idle /\ pending[s] \in listening \ late
  /\ pending' = Early(s)
  /\ NothingAsked
  /\ UNCHANGED <<config, flows, listening, answer, late, hand, creds, grants, kills>>

Finish(s) ==
  LET f == pending[s]  k == flows[f].client IN
    /\ Idle /\ f > 0 /\ f \notin listening \ late
    /\ pending' = [pending EXCEPT ![s] = 0]
    /\ answer' = [answer EXCEPT ![f] = NoAnswer]
    /\ IF AnswerFits(f) /\ CanAsk(k)
         THEN Ask("code", s, k, f, answer[f].state, 0, TRUE)
         ELSE NothingAsked /\ UNCHANGED <<grants, hand>>
    /\ UNCHANGED <<config, flows, listening, late, creds, kills>>

(* The client a refresh appears as is the configured one without a           *)
(* credential, never the one that was resolved.                              *)
RefreshClient ==
  [as |-> "configured", method |-> "none", secret |-> FALSE, key |-> FALSE]

(* The authorization server's part: the refresh token must be in force, and  *)
(* used by the client it was given to.                                       *)
MayRefresh(s) ==
  LET r == creds[s].refresh IN
    grants[r].plain /\ config[s].id /\ \A g \in DOMAIN grants : grants[g].old # r

(* /mcp auth refresh.                                                        *)
Refresh(s) ==
  /\ Idle /\ creds[s].refresh > 0
  /\ \E m \in Replies : Discover(config[s], m) # {}
  /\ Ask("refresh", s, RefreshClient, 0, 0, creds[s].refresh, MayRefresh(s))
  /\ UNCHANGED <<config, flows, pending, listening, answer, late, creds, kills>>

(* The grants without a browser: as the client itself, or with an identity   *)
(* token of the company, which needs a client with a secret.  A step of      *)
(* these that fails before the last request changes nothing.                 *)
AskDirectly(by, s, methods) ==
  /\ Idle /\ Valid(config[s]) /\ config[s].id
  /\ \E reply \in Replies : \E m \in Discover(config[s], reply) :
       \E k \in ResolveClient(config[s], m) :
         k.method \in methods /\ CanAsk(k) /\ Ask(by, s, k, 0, 0, 0, TRUE)
  /\ UNCHANGED <<config, flows, pending, listening, answer, late, creds, kills>>

ClientCredentials(s) == AskDirectly("client", s, Methods)
CrossAppAccess(s) == AskDirectly("cross-app", s, {"basic", "post"})

(* Writing the tokens, one at a time; a failing store ends it.               *)
StoreTokens ==
  /\ ~Idle
  /\ LET rest == Tail(hand.left) IN
       \/ /\ creds' = [creds EXCEPT ![hand.server][Head(hand.left)] = hand.grant]
          /\ hand' = IF rest = <<>> THEN NoHand ELSE [hand EXCEPT !.left = rest]
       \/ UNCHANGED creds /\ hand' = NoHand
  /\ NothingAsked
  /\ UNCHANGED <<config, flows, pending, listening, answer, late, grants, kills>>

(* The process dies; tabs and stored tokens stay.                            *)
Die ==
  /\ kills < MaxKill
  /\ kills' = kills + 1
  /\ pending' = [s \in Server |-> 0]
  /\ listening' = {} /\ late' = {}
  /\ answer' = [f \in Flow |-> NoAnswer]
  /\ hand' = NoHand
  /\ NothingAsked
  /\ UNCHANGED <<config, flows, creds, grants>>

Next ==
  \/ \E s \in Server : Start(s) \/ FinishEarly(s) \/ Finish(s) \/ Refresh(s)
                       \/ ClientCredentials(s) \/ CrossAppAccess(s)
  \/ \E f, g \in Flow : Callback(f, g)
  \/ \E f \in Flow : ListenerTimesOut(f) \/ Expires(f)
  \/ StoreTokens
  \/ Die

Spec == Init /\ [][Next]_vars

-----------------------------------------------------------------------------
(* The variables stay within their types.                                    *)
TypeOK ==
  /\ config \in Configs
  /\ Len(flows) <= MaxFlow /\ Len(grants) <= MaxGrant
  /\ \A f \in DOMAIN flows : flows[f] \in [server: Server, client: Client]
  /\ pending \in [Server -> 0..MaxFlow]
  /\ listening \subseteq Flow /\ late \subseteq Flow
  /\ answer \in [Flow -> Answer]
  /\ hand.grant \in 0..MaxGrant /\ Len(hand.left) <= 2
  /\ creds \in [Server -> [access: 0..MaxGrant, refresh: 0..MaxGrant]]
  /\ asked.client \in Client
  /\ kills \in 0..MaxKill

(* A code is only ever exchanged in the flow it was given for, though tabs   *)
(* of earlier flows, or of another server's, may call the same port.         *)
CodesStayHome == asked.code = asked.flow

(* An access token is never stored without the refresh token that came with  *)
(* it, which may have replaced the one stored before: whichever write fails  *)
(* and wherever the process dies, what is in use can be refreshed.           *)
LoginIsRenewable ==
  \A s \in Server :
    LET a == creds[s].access IN
      a > 0 /\ grants[a].renewable => creds[s].refresh >= a

(* A browser that answers in time finds a listener, and the answer is found  *)
(* by finish: a listener is never left without its flow unless the flow has  *)
(* expired, and no flow waits for an answer that cannot come.                *)
FlowIsReachable ==
  /\ \A f \in listening : (\E s \in Server : pending[s] = f) \/ f \in late
  /\ \A s \in Server : pending[s] > 0 =>
       pending[s] \in listening \/ answer[pending[s]].kind # "none"

(* Outside of a refresh, a credential that is configured is used, and no     *)
(* client appears with a method it has no credential for.                    *)
ClientIsWhole ==
  asked.by \in {"code", "client", "cross-app"} =>
    LET k == asked.client  c == config[asked.server] IN
      /\ k.method \in {"basic", "post"} => k.secret
      /\ k.method = "key" <=> k.key
      /\ (c.id /\ c.secret) => k.method \in {"basic", "post"}
      /\ (c.id /\ c.key) => k.method = "key"
=============================================================================
