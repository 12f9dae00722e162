------------------------------ MODULE Failover ------------------------------
(***************************************************************************)
(* Several pools, of which one is mined for: the stratum client of each,   *)
(* base/net/stratum/Client.cpp, and FailoverStrategy, which decides from   *)
(* their callbacks which of them to connect and which to abandon.          *)
(*                                                                         *)
(* All of it runs on the event loop: a callback of the loop is one action, *)
(* with the calls it makes into the strategy and from there into other     *)
(* clients.  What goes wrong here goes wrong between callbacks: an answer  *)
(* comes to a client that was abandoned meanwhile.                         *)
(*                                                                         *)
(* What a pool sends is left out but for the answer to the login; a        *)
(* connection that is closed for what it sent is one that was Lost.  What  *)
(* remains for the listener of the strategy to see is Strategy.            *)
(***************************************************************************)
EXTENDS Integers

CONSTANTS Last,   \* the pools are numbered from 0 to Last
          Retries \* m_retries

ASSUME SizeAssumption == Last \in Nat /\ Retries \in Nat \ {0}

Pools == 0..Last
None  == -1

VARIABLES
  up,     \* the pools that can be reached, and serve
  client, \* of each pool, a record: see Client
  index,  \* FailoverStrategy::m_index
  active, \* FailoverStrategy::m_active
  wanted  \* connect() has been called, and not stop() since

vars == <<up, client, index, active, wanted>>

States == {"Unconnected", "HostLookup", "Connecting", "Connected", "Closing", "Reconnecting"}

Client ==
  [state    : States,            \* m_state
   failures : -1..Retries,       \* m_failures, -1 once abandoned
   expire   : BOOLEAN,           \* m_expire # 0: a timeout is armed
   lookup   : BOOLEAN,           \* m_dns: an answer of the resolver is to come
   session  : BOOLEAN]           \* the pool accepted the login

TypeOK ==
  /\ up \subseteq Pools
  /\ client \in [Pools -> Client]
  /\ index \in Pools
  /\ active \in Pools \cup {None}
  /\ wanted \in BOOLEAN

-----------------------------------------------------------------------------
(* What the methods of a client make of it.                                *)

(* connect(): the resolver is asked; an earlier request is dropped.        *)
(* During a lookup no timeout is armed, nor was one before a repeated one. *)
Resolving(c) ==
  [c EXCEPT !.state = "HostLookup", !.lookup = TRUE, !.expire = FALSE,
            !.failures = IF @ = -1 THEN 0 ELSE @]

(* m_socket # nullptr.                                                     *)
HasSocket(c) == c.state \in {"Connecting", "Connected", "Closing"}

Close(c) == IF HasSocket(c) THEN [c EXCEPT !.state = "Closing", !.session = FALSE] ELSE c

(* disconnect(): there is nothing to close during a lookup.                *)
LeavesTimeout(c) == Close([c EXCEPT !.failures = -1])
Disconnect(c) == Close([c EXCEPT !.expire = FALSE, !.failures = -1])

(* reconnect(), without the call of the listener.  Failures are counted on *)
(* and on; all that is asked of them is whether they are fewer than        *)
(* Retries.                                                                *)
Failed(n) == IF n = Retries THEN n ELSE n + 1

Reconnect(c) ==
  IF c.failures = -1 THEN c
  ELSE [c EXCEPT !.state = "Reconnecting", !.expire = TRUE, !.failures = Failed(@)]

-----------------------------------------------------------------------------
(* What the strategy makes of the clients' callbacks: clients is what the  *)
(* client that calls has already done.                                     *)

(* onClose() goes on to the next pool, but has some patience with the      *)
(* first.  Bound: the next one has given its last socket back.  Otherwise  *)
(* connect() would be called of a client that has one, which a slow        *)
(* abandoned connection can lead to when the pool in use fails at once.    *)
AdvancesTooRarely(p, failures) ==
  ~(index = 0 /\ failures < Retries) /\ index = p /\ p + 1 < Last
Advances(p, failures) ==
  ~(index = 0 /\ failures < Retries) /\ index = p /\ p < Last

OnClose(clients, p) ==
  IF clients[p].failures = -1 THEN client' = clients /\ UNCHANGED <<index, active>>
  ELSE /\ active' = IF active = p THEN None ELSE active
       /\ IF Advances(p, clients[p].failures)
          THEN /\ ~HasSocket(clients[p + 1])
               /\ index' = p + 1
               /\ client' = [clients EXCEPT ![p + 1] = Resolving(@)]
          ELSE client' = clients /\ UNCHANGED index

(* onLoginSuccess(): the first pool is preferred, any other only while     *)
(* there is none; all the rest are abandoned, except the first.            *)
KeepsAllBefore(d, now) == d <= now
KeepsFormer(d, now) == d = 0 \/ d = active
KeepsOnlyOne(d, now) == d = now
Kept(d, now) == d = 0 \/ d = now

NeverPreferred(p) == IF active = None THEN p ELSE active
Chosen(p) == IF p = 0 \/ active = None THEN p ELSE active

IndexAfter(now) == IF now # active THEN now ELSE index

OnLoginSuccess(clients, p) ==
  LET now == Chosen(p) IN
    /\ client' = [d \in Pools |-> IF Kept(d, now) THEN clients[d] ELSE Disconnect(clients[d])]
    /\ active' = now
    /\ index' = IndexAfter(now)

-----------------------------------------------------------------------------
(* What the owner of the strategy calls.                                   *)
New == [state |-> "Unconnected", failures |-> 0, expire |-> FALSE,
        lookup |-> FALSE, session |-> FALSE]

Init ==
  /\ up \in SUBSET Pools
  /\ client = [p \in Pools |-> New]
  /\ index = 0
  /\ active = None
  /\ wanted = FALSE

(* Somebody will tell the strategy how it went on with the client, which   *)
(* waits for no timeout that was disarmed and no callback that will not    *)
(* come.                                                                   *)
Tried(c) ==
  /\ c.failures # -1
  /\ \/ c.lookup
     \/ HasSocket(c)
     \/ c.state = "Reconnecting" /\ c.expire

(* connect().  The user's pools are connected once; between two donations  *)
(* lie minutes, after which (a bound) no client has a socket.              *)
Connect ==
  /\ ~wanted /\ active = None
  /\ \A p \in Pools : ~HasSocket(client[p]) /\ ~Tried(client[p])
  /\ client' = [client EXCEPT ![index] = Resolving(@)]
  /\ wanted' = TRUE
  /\ UNCHANGED <<up, index, active>>

(* stop() abandons all clients.  Those in a lookup will connect, and one   *)
(* of them may become the active one.                                      *)
Stop ==
  /\ client' = [p \in Pools |-> Disconnect(client[p])]
  /\ index' = 0
  /\ active' = None
  /\ wanted' = FALSE
  /\ UNCHANGED up

-----------------------------------------------------------------------------
(* A pool goes down or comes back.                                         *)
PoolChanges(p) ==
  /\ up' = IF p \in up THEN up \ {p} ELSE up \cup {p}
  /\ UNCHANGED <<client, index, active, wanted>>

(* The client of p changes, and nobody is told.                            *)
Becomes(p, c) == client' = [client EXCEPT ![p] = c] /\ UNCHANGED <<up, index, active, wanted>>

(* tick(), after the pause between two attempts.                           *)
Retry(p) ==
  /\ client[p].state = "Reconnecting" /\ client[p].expire
  /\ Becomes(p, Resolving(client[p]))

(* onResolved(): the answer connects the client, wanted or not.            *)
Answered(p) == [client[p] EXCEPT !.lookup = FALSE]

Resolved(p) ==
  /\ client[p].lookup
  /\ Becomes(p, [Answered(p) EXCEPT !.state = "Connecting", !.expire = TRUE])

LookupFails(p) ==
  /\ client[p].lookup /\ p \notin up
  /\ OnClose([client EXCEPT ![p] = Reconnect(Answered(p))], p)
  /\ UNCHANGED <<up, wanted>>

(* onConnect(), and the login sent at once.                                *)
ConnectSucceeds(p) ==
  /\ client[p].state = "Connecting" /\ p \in up
  /\ Becomes(p, [client[p] EXCEPT !.state = "Connected", !.expire = TRUE])

(* An error, or no answer in time.                                         *)
ConnectFails(p) ==
  /\ client[p].state = "Connecting" /\ p \notin up
  /\ Becomes(p, Close(client[p]))

(* parseResponse(): the failures are forgotten before the strategy hears   *)
(* of the login, which may be for it to abandon this very client.          *)
AwaitsLogin(p) == client[p].state = "Connected" /\ ~client[p].session /\ client[p].expire

LoginSucceeds(p) ==
  /\ AwaitsLogin(p) /\ p \in up
  /\ OnLoginSuccess([client EXCEPT ![p].failures = 0, ![p].session = TRUE, ![p].expire = FALSE], p)
  /\ UNCHANGED <<up, wanted>>

(* An error closes the connection when it is a critical one, or when the   *)
(* client (not the request) has the number 1.  Otherwise the client stays  *)
(* connected, no timeout armed, until the pool hangs up.                   *)
LoginRefused(p) ==
  /\ AwaitsLogin(p) /\ p \notin up
  /\ \E critical \in BOOLEAN :
       LET c == [client[p] EXCEPT !.expire = FALSE]
       IN Becomes(p, IF p = 1 \/ critical THEN Close(c) ELSE c)

(* A read error, a request that is not answered in time, a job that cannot *)
(* be parsed or is a duplicate.                                            *)
Refused(c) == ~c.session /\ ~c.expire

Lost(p) ==
  /\ client[p].state = "Connected" /\ (p \notin up \/ Refused(client[p]))
  /\ Becomes(p, Close(client[p]))

(* onClose(): the socket is gone.                                          *)
Closed(p) ==
  /\ client[p].state = "Closing"
  /\ OnClose([client EXCEPT ![p] = Reconnect([client[p] EXCEPT !.state = "Unconnected"])], p)
  /\ UNCHANGED <<up, wanted>>

-----------------------------------------------------------------------------
Callback(p) ==
  \/ Retry(p)
  \/ Resolved(p) \/ LookupFails(p)
  \/ ConnectSucceeds(p) \/ ConnectFails(p)
  \/ LoginSucceeds(p) \/ LoginRefused(p)
  \/ Lost(p)
  \/ Closed(p)

Next ==
  \/ Connect \/ Stop
  \/ \E p \in Pools : PoolChanges(p) \/ Callback(p)

(* The event loop runs its timers and callbacks; a pool that is up answers *)
(* in time; of one that is down the connection ends sooner or later, by an *)
(* error of the socket, on which keepalive is switched on; and one that    *)
(* refused a login hangs up.                                               *)
Fairness == \A p \in Pools : WF_vars(Callback(p))

Spec == Init /\ [][Next]_vars

FairSpec == Spec /\ Fairness
-----------------------------------------------------------------------------
(* Jobs are only taken from the active pool, so no other is left with a    *)
(* session: a client abandoned during its lookup connects all the same,    *)
(* and is abandoned once more when it logs in.                             *)
OneSession == \A p \in Pools : client[p].session => p = active

(* The active pool is one the client has a session with, or will hear from *)
(* the client that it is lost: otherwise the miner would go on with the    *)
(* last job of a dead connection.                                          *)
ActiveIsServed ==
  active # None =>
    \/ client[active].session
    \/ client[active].state = "Closing" /\ client[active].failures # -1

(* While no pool is active some are being tried: the one m_index points    *)
(* at, and the first.                                                      *)
KeepsTrying ==
  wanted => Tried(client[0]) /\ (active = None => Tried(client[index]))

(* Once the first pool can be reached again the miner returns to it.       *)
ReturnsToFirst == <>[](wanted /\ 0 \in up) => <>[](active = 0)

(* A pool that can be reached is found, whatever becomes of the others, as *)
(* long as m_index has not passed it: then there is an active pool again   *)
(* and again.  It never passes the last one.                               *)
ReachableIsFound ==
  \A p \in Pools : <>[](wanted /\ p \in up /\ index <= p) => []<>(active # None)

(* While the first pool is mined for, the others fall silent: no answer,   *)
(* timeout or retry leads an abandoned client to connect again.            *)
Silent(c) ==
  /\ ~c.lookup /\ ~HasSocket(c)
  /\ ~(c.state = "Reconnecting" /\ c.expire)

OthersFallSilent ==
  <>[](active = 0) => \A p \in Pools \ {0} : <>[]Silent(client[p])

-----------------------------------------------------------------------------
(* The refinement: a client that was abandoned may log in if it is looked  *)
(* up or connected.                                                        *)
MayLogIn(c) == c.lookup \/ c.state \in {"Connecting", "Connected"}

status ==
  IF active # None THEN "Active"
  ELSE IF \E p \in Pools : Tried(client[p]) THEN "Trying"
  ELSE IF \E p \in Pools : MayLogIn(client[p]) THEN "Late"
  ELSE "Stopped"

Abstract == INSTANCE Strategy

(* However many clients it has, and in whatever order their callbacks      *)
(* come, its listener sees one strategy that tries from connect() to       *)
(* stop(), and after stop() may come back once more by a late login.       *)
ImplementsStrategy == Abstract!Spec
=============================================================================
