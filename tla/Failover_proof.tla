--------------------------- MODULE Failover_proof ---------------------------
(***************************************************************************)
(* The safety of Failover, for any number of pools and of retries.         *)
(***************************************************************************)
EXTENDS Failover, TLAPS

(* A session is on an open connection that was not abandoned, who waits    *)
(* for the resolver has no connection, and no abandoned client is retried. *)
Shape(c) ==
  /\ c.session => c.state = "Connected" /\ c.failures # -1
  /\ c.lookup => c.state = "HostLookup"
  /\ c.state = "Reconnecting" /\ c.expire => c.failures # -1

(* What ActiveIsServed asks of the client of the active pool.              *)
Served(c) == c.session \/ (c.state = "Closing" /\ c.failures # -1)

(* The inductive invariant.  The last but one conjunct is why the loss of  *)
(* the active pool, which is the one m_index points at, leaves a pool that *)
(* is tried: it itself, or the next.  The last says where connect() will   *)
(* begin.                                                                  *)
AllQuiet == \A p \in Pools : ~Tried(client[p])

IInv ==
  /\ TypeOK
  /\ \A p \in Pools : Shape(client[p])
  /\ OneSession
  /\ active # None => Served(client[active])
  /\ KeepsTrying
  /\ active # None => index = active
  /\ active = None /\ AllQuiet => index = 0

LEMMA NonePool == None \notin Pools /\ 0 \in Pools
  BY SizeAssumption DEF None, Pools

(* The values a client can be given.                                       *)
LEMMA ResolvingIsClient ==
  ASSUME NEW c \in Client
  PROVE  /\ Resolving(c) \in Client /\ Tried(Resolving(c))
         /\ Resolving(c).state = "HostLookup"
         /\ Resolving(c).session = c.session
<1> DEFINE f == IF c.failures = -1 THEN 0 ELSE c.failures
<1>1. f \in -1..Retries /\ f # -1
  BY SizeAssumption DEF Client
<1>2. Resolving(c) = [c EXCEPT !.state = "HostLookup", !.lookup = TRUE,
                               !.expire = FALSE, !.failures = f]
  BY DEF Resolving
<1> HIDE DEF f
<1>3. Resolving(c) \in Client
  BY <1>1, <1>2 DEF Client, States
<1>4. /\ Resolving(c).failures = f /\ Resolving(c).lookup
      /\ Resolving(c).state = "HostLookup" /\ Resolving(c).session = c.session
  BY <1>2 DEF Client
<1> QED
  BY <1>1, <1>3, <1>4 DEF Tried

LEMMA CloseIsClient ==
  ASSUME NEW c \in Client
  PROVE  /\ Close(c) \in Client
         /\ Close(c).failures = c.failures /\ Close(c).lookup = c.lookup
         /\ HasSocket(c) => Close(c).state = "Closing" /\ ~Close(c).session
         /\ ~HasSocket(c) => Close(c) = c
<1>1. CASE HasSocket(c)
  <2>1. Close(c) = [c EXCEPT !.state = "Closing", !.session = FALSE]
    BY <1>1 DEF Close
  <2>2. Close(c) \in Client
    BY <2>1 DEF Client, States
  <2> QED
    BY <1>1, <2>1, <2>2 DEF Client
<1>2. CASE ~HasSocket(c)
  BY <1>2 DEF Close
<1> QED
  BY <1>1, <1>2

LEMMA DisconnectIsClient ==
  ASSUME NEW c \in Client, Shape(c)
  PROVE  /\ Disconnect(c) \in Client /\ Shape(Disconnect(c))
         /\ ~Disconnect(c).session /\ Disconnect(c).failures = -1
<1> DEFINE e == [c EXCEPT !.expire = FALSE, !.failures = -1]
<1>1. /\ e \in Client /\ e.state = c.state /\ e.lookup = c.lookup
      /\ e.session = c.session /\ ~e.expire /\ e.failures = -1
  <2>1. -1 \in -1..Retries
    BY SizeAssumption
  <2>2. e \in Client
    BY <2>1 DEF Client
  <2> QED
    BY <2>2 DEF Client
<1>2. Disconnect(c) = Close(e)
  BY DEF Disconnect
<1>3. HasSocket(e) <=> HasSocket(c)
  BY <1>1 DEF HasSocket
<1> HIDE DEF e
<1>4. CASE HasSocket(c)
  BY <1>1, <1>2, <1>3, <1>4, CloseIsClient DEF Shape, HasSocket
<1>5. CASE ~HasSocket(c)
  BY <1>1, <1>2, <1>3, <1>5, CloseIsClient DEF Shape, HasSocket
<1> QED
  BY <1>4, <1>5

LEMMA ReconnectIsClient ==
  ASSUME NEW c \in Client
  PROVE  /\ Reconnect(c) \in Client
         /\ Reconnect(c).session = c.session /\ Reconnect(c).lookup = c.lookup
         /\ c.failures = -1 => Reconnect(c) = c
         /\ c.failures # -1 => /\ Reconnect(c).state = "Reconnecting"
                               /\ Reconnect(c).expire
                               /\ Reconnect(c).failures # -1
<1>1. CASE c.failures = -1
  BY <1>1 DEF Reconnect
<1>2. CASE c.failures # -1
  <2>1. Failed(c.failures) \in -1..Retries /\ Failed(c.failures) # -1
    BY <1>2, SizeAssumption DEF Failed, Client
  <2>2. Reconnect(c) = [c EXCEPT !.state = "Reconnecting", !.expire = TRUE,
                                 !.failures = Failed(c.failures)]
    BY <1>2 DEF Reconnect
  <2>3. Reconnect(c) \in Client
    BY <2>1, <2>2 DEF Client, States
  <2> QED
    BY <1>2, <2>1, <2>2, <2>3 DEF Client
<1> QED
  BY <1>1, <1>2

LEMMA InitIInv == Init => IInv
<1> SUFFICES ASSUME Init PROVE IInv
  OBVIOUS
<1>1. New \in Client
  BY SizeAssumption DEF New, Client, States
<1>2. TypeOK
  BY <1>1, NonePool DEF Init, TypeOK
<1>3. Shape(New) /\ ~New.session
  BY DEF Shape, New
<1>4. (\A p \in Pools : Shape(client[p])) /\ OneSession
  BY <1>3 DEF Init, OneSession
<1> QED
  BY <1>2, <1>4 DEF Init, IInv, KeepsTrying

(* A callback that changes one client and does not reach the strategy.     *)
LEMMA BecomesStep ==
  ASSUME IInv, NEW p \in Pools, NEW c \in Client, Becomes(p, c),
         Shape(c),
         c.session => client[p].session,
         Served(client[p]) => Served(c),
         Tried(client[p]) => Tried(c)
  PROVE  IInv'
<1>1. client \in [Pools -> Client]
  BY DEF IInv, TypeOK
<1>2. client' = [client EXCEPT ![p] = c] /\ UNCHANGED <<up, index, active, wanted>>
  BY DEF Becomes
<1>3. client'[p] = c /\ \A q \in Pools \ {p} : client'[q] = client[q]
  BY <1>1, <1>2
<1>4. TypeOK'
  BY <1>1, <1>2 DEF IInv, TypeOK
<1>5. \A q \in Pools : Shape(client'[q]) /\ (client'[q].session => client[q].session)
  BY <1>3 DEF IInv
<1>6. \A q \in Pools : Served(client[q]) => Served(client'[q])
  BY <1>3
<1>7. \A q \in Pools : Tried(client[q]) => Tried(client'[q])
  BY <1>3
<1>8. index \in Pools /\ active \in Pools \cup {None} /\ 0 \in Pools
  BY NonePool DEF IInv, TypeOK
<1>9. OneSession'
  BY <1>2, <1>5 DEF IInv, OneSession
<1>10. (active # None => Served(client[active]))'
  BY <1>2, <1>6, <1>8 DEF IInv
<1>11. KeepsTrying'
  BY <1>2, <1>7, <1>8 DEF IInv, KeepsTrying
<1>12. (\A q \in Pools : Shape(client[q]))'
  BY <1>5
<1>13. (active # None => index = active)'
  BY <1>2 DEF IInv
<1>14. (active = None /\ AllQuiet => index = 0)'
  BY <1>2, <1>7 DEF IInv, AllQuiet
<1> QED
  BY <1>4, <1>9, <1>10, <1>11, <1>12, <1>13, <1>14 DEF IInv

(* A callback that ends in reconnect() and tells the strategy: c is the    *)
(* client just before.                                                     *)
LEMMA OnCloseStep ==
  ASSUME IInv, UNCHANGED <<up, wanted>>, NEW p \in Pools, NEW c \in Client,
         Shape(c), c.failures = client[p].failures,
         ~c.session, ~c.lookup, ~HasSocket(c),
         ~client[p].session,
         OnClose([client EXCEPT ![p] = Reconnect(c)], p)
  PROVE  IInv'
<1> DEFINE clients == [client EXCEPT ![p] = Reconnect(c)]
<1>1. /\ client \in [Pools -> Client]
      /\ index \in Pools /\ active \in Pools \cup {None} /\ 0 \in Pools
      /\ up \subseteq Pools /\ wanted \in BOOLEAN
  BY NonePool DEF IInv, TypeOK
<1>2. Reconnect(c) \in Client
  BY ReconnectIsClient
<1>3. /\ clients \in [Pools -> Client]
      /\ clients[p] = Reconnect(c)
      /\ \A q \in Pools \ {p} : clients[q] = client[q]
  BY <1>1, <1>2
<1>4. /\ ~Reconnect(c).session /\ ~Reconnect(c).lookup
      /\ ~HasSocket(Reconnect(c))
      /\ Reconnect(c).failures = -1 <=> c.failures = -1
  BY ReconnectIsClient DEF HasSocket
<1>5. c.failures # -1 => Tried(Reconnect(c))
  BY ReconnectIsClient DEF Tried
<1>6. \A q \in Pools : Shape(clients[q]) /\ (clients[q].session => q = active /\ q # p)
  <2>1. Shape(Reconnect(c))
    BY <1>4, ReconnectIsClient DEF Shape
  <2> QED
    BY <1>3, <1>4, <2>1 DEF IInv, OneSession
<1>7. CASE c.failures = -1
  <2>1. client' = clients /\ UNCHANGED <<index, active>>
    BY <1>3, <1>4, <1>7 DEF OnClose
  <2>2. active # p /\ ~Tried(client[p])
    BY <1>1, <1>7, NonePool DEF IInv, Tried, Served
  <2>3. TypeOK'
    BY <1>1, <1>3, <2>1 DEF TypeOK
  <2>4. KeepsTrying'
    <3>1. \A q \in Pools : Tried(client[q]) => Tried(client'[q])
      BY <1>3, <2>1, <2>2
    <3> QED
      BY <1>1, <2>1, <3>1 DEF IInv, KeepsTrying
  <2>5. (active # None => Served(client[active]))'
    BY <1>1, <1>3, <2>1, <2>2 DEF IInv
  <2>6. (active = None /\ AllQuiet => index = 0)'
    BY <1>3, <2>1, <2>2 DEF IInv, AllQuiet
  <2>7. (\A q \in Pools : Shape(client[q]))' /\ OneSession'
    BY <1>6, <2>1 DEF OneSession
  <2> QED
    BY <2>1, <2>3, <2>4, <2>5, <2>6, <2>7 DEF IInv
<1>8. CASE c.failures # -1 /\ ~Advances(p, clients[p].failures)
  <2>1. /\ client' = clients /\ UNCHANGED index
        /\ active' = IF active = p THEN None ELSE active
    BY <1>3, <1>4, <1>8 DEF OnClose
  <2>2. TypeOK'
    BY <1>1, <1>3, <2>1 DEF TypeOK
  <2>3. KeepsTrying'
    BY <1>1, <1>3, <1>5, <1>8, <2>1 DEF IInv, KeepsTrying
  <2>4. (active # None => Served(client[active]))'
    BY <1>1, <1>3, <2>1 DEF IInv
  <2>5. (\A q \in Pools : Shape(client[q]))' /\ OneSession'
    BY <1>6, <2>1 DEF OneSession
  <2>6. ~AllQuiet'
    BY <1>3, <1>5, <1>8, <2>1 DEF AllQuiet
  <2>7. (active # None => index = active)'
    BY <2>1 DEF IInv
  <2> QED
    BY <2>2, <2>3, <2>4, <2>5, <2>6, <2>7 DEF IInv
<1>9. CASE c.failures # -1 /\ Advances(p, clients[p].failures)
  <2>1. /\ client' = [clients EXCEPT ![p + 1] = Resolving(clients[p + 1])]
        /\ ~HasSocket(clients[p + 1])
        /\ index' = p + 1 /\ index = p /\ p < Last
        /\ active' = IF active = p THEN None ELSE active
    BY <1>3, <1>4, <1>9 DEF OnClose, Advances
  <2>2. p + 1 \in Pools /\ p + 1 # p /\ p + 1 # 0
    BY <2>1, SizeAssumption DEF Pools
  <2>3. Resolving(clients[p + 1]) \in Client /\ Tried(Resolving(clients[p + 1]))
    BY <1>3, <2>2, ResolvingIsClient
  <2>4. /\ client'[p + 1] = Resolving(clients[p + 1])
        /\ client' \in [Pools -> Client]
        /\ \A q \in Pools \ {p + 1} : client'[q] = clients[q]
    BY <1>3, <2>1, <2>2, <2>3
  <2>5. active' = None
    BY <1>1, <2>1 DEF IInv
  <2>6. ~clients[p + 1].session
    BY <1>6, <2>1, <2>2 DEF Shape, HasSocket
  <2>7. Shape(Resolving(clients[p + 1])) /\ ~Resolving(clients[p + 1]).session
    BY <2>6, <1>3, <2>2, ResolvingIsClient DEF Shape
  <2>8. \A q \in Pools : Shape(client'[q]) /\ ~client'[q].session
    <3>1. active # None => active = p
      BY <2>1 DEF IInv
    <3>2. \A q \in Pools : ~clients[q].session
      BY <1>1, <1>6, <3>1, NonePool
    <3> QED
      BY <1>6, <2>4, <2>7, <3>2
  <2>9. (wanted => Tried(client'[0])) /\ Tried(client'[index'])
    BY <1>1, <1>3, <1>5, <1>9, <2>1, <2>2, <2>3, <2>4 DEF IInv, KeepsTrying
  <2>10. TypeOK'
    BY <1>1, <2>1, <2>2, <2>4, <2>5 DEF TypeOK
  <2>11. ~AllQuiet'
    BY <2>1, <2>2, <2>9 DEF AllQuiet
  <2>12. KeepsTrying'
    BY <2>9 DEF KeepsTrying
  <2>13. (\A q \in Pools : Shape(client[q]))' /\ OneSession'
    BY <2>8 DEF OneSession
  <2> QED
    BY <2>5, <2>10, <2>11, <2>12, <2>13 DEF IInv
<1> QED
  BY <1>7, <1>8, <1>9

(* A login: whoever else has a session is abandoned in the same callback.  *)
LEMMA LoginStep ==
  ASSUME IInv, NEW p \in Pools, LoginSucceeds(p)
  PROVE  IInv'
<1> DEFINE in == [client[p] EXCEPT !.failures = 0, !.session = TRUE, !.expire = FALSE]
           clients == [client EXCEPT ![p] = in]
           now == Chosen(p)
<1>1. /\ client \in [Pools -> Client]
      /\ index \in Pools /\ active \in Pools \cup {None} /\ 0 \in Pools
      /\ up \subseteq Pools /\ wanted \in BOOLEAN
      /\ client[p].state = "Connected" /\ ~client[p].session
  BY NonePool DEF IInv, TypeOK, LoginSucceeds, AwaitsLogin
<1>2. clients = [client EXCEPT ![p].failures = 0, ![p].session = TRUE, ![p].expire = FALSE]
  BY <1>1 DEF Client
<1>3. /\ client' = [d \in Pools |-> IF Kept(d, now) THEN clients[d] ELSE Disconnect(clients[d])]
      /\ active' = now
      /\ index' = IndexAfter(now)
      /\ UNCHANGED <<up, wanted>>
  <2>1. OnLoginSuccess([client EXCEPT ![p].failures = 0, ![p].session = TRUE,
                                      ![p].expire = FALSE], p) /\ UNCHANGED <<up, wanted>>
    BY DEF LoginSucceeds
  <2>2. OnLoginSuccess(clients, p)
    BY <1>2, <2>1, Zenon
  <2> HIDE DEF clients
  <2> QED
    BY <2>1, <2>2 DEF OnLoginSuccess
<1>4. in \in Client /\ Shape(in) /\ Served(in) /\ Tried(in) /\ in.session
  <2>1. client[p] \in Client /\ Shape(client[p])
    BY <1>1 DEF IInv
  <2>2. in \in Client
    <3>1. 0 \in -1..Retries
      BY SizeAssumption
    <3> QED
      BY <2>1, <3>1 DEF Client
  <2>3. in.session /\ in.failures = 0 /\ in.state = "Connected" /\ in.lookup = client[p].lookup
    BY <1>1, <2>1 DEF Client
  <2>4. ~client[p].lookup
    BY <1>1, <2>1 DEF Shape
  <2> QED
    BY <2>2, <2>3, <2>4 DEF Shape, Served, Tried, HasSocket
<1>5. /\ clients \in [Pools -> Client]
      /\ clients[p] = in
      /\ \A q \in Pools \ {p} : clients[q] = client[q]
  BY <1>1, <1>4
<1>6. now \in Pools /\ (now = p \/ now = active) /\ (p = 0 => now = 0)
  BY <1>1 DEF Chosen
<1>7. index' = now
  BY <1>3, <1>6, NonePool DEF IndexAfter, IInv
<1>8. \A q \in Pools : clients[q] \in Client /\ Shape(clients[q])
  BY <1>4, <1>5 DEF IInv
<1>9. ASSUME NEW d \in Pools, ~Kept(d, now)
      PROVE  /\ Disconnect(clients[d]) \in Client
             /\ Shape(Disconnect(clients[d]))
             /\ ~Disconnect(clients[d]).session
  <2>1. clients[d] \in Client /\ Shape(clients[d])
    BY <1>8
  <2> QED
    BY <2>1, DisconnectIsClient
<1>10. \A d \in Pools : Kept(d, now) => client'[d] = clients[d]
  BY <1>3
<1>11. \A d \in Pools : ~Kept(d, now) => client'[d] = Disconnect(clients[d])
  BY <1>3
<1>12. client' \in [Pools -> Client]
  BY <1>3, <1>8, <1>9
<1>13. \A d \in Pools : Shape(client'[d])
  BY <1>8, <1>9, <1>10, <1>11
<1>14. ASSUME NEW d \in Pools, client'[d].session
       PROVE  d = now
  <2>1. CASE d = 0
    BY <1>1, <1>5, <1>6, <1>10, <1>14, <2>1, NonePool
    DEF Kept, IInv, OneSession, Chosen
  <2>2. CASE d # 0
    BY <1>9, <1>11, <1>14, <2>2 DEF Kept
  <2> QED
    BY <2>1, <2>2
<1>15. Served(client'[now])
  BY <1>1, <1>4, <1>5, <1>6, <1>10, NonePool DEF Kept, IInv
<1>16. wanted => Tried(client'[0])
  BY <1>1, <1>4, <1>5, <1>10 DEF Kept, IInv, KeepsTrying
<1>17. now # None
  BY <1>6, NonePool
<1>18. TypeOK'
  BY <1>1, <1>3, <1>6, <1>7, <1>12 DEF TypeOK
<1> QED
  BY <1>3, <1>7, <1>13, <1>14, <1>15, <1>16, <1>17, <1>18
  DEF IInv, OneSession, KeepsTrying

(* The calls of the strategy's owner.                                      *)
LEMMA ConnectStep ==
  ASSUME IInv, Connect
  PROVE  IInv'
<1> DEFINE c == Resolving(client[0])
<1>1. /\ client \in [Pools -> Client] /\ 0 \in Pools
      /\ active = None /\ index = 0 /\ up \subseteq Pools
  BY NonePool DEF IInv, TypeOK, Connect, AllQuiet
<1>2. Shape(client[0]) /\ ~client[0].session
  BY <1>1, NonePool DEF IInv, OneSession
<1>3. c \in Client /\ Tried(c) /\ Shape(c) /\ ~c.session
  BY <1>1, <1>2, ResolvingIsClient DEF Shape
<1>4. client' = [client EXCEPT ![0] = c] /\ wanted' = TRUE /\ UNCHANGED <<up, index, active>>
  BY <1>1 DEF Connect
<1> HIDE DEF c
<1>5. client'[0] = c /\ \A q \in Pools \ {0} : client'[q] = client[q]
  BY <1>1, <1>4
<1>6. TypeOK'
  BY <1>1, <1>3, <1>4 DEF IInv, TypeOK
<1>7. (\A q \in Pools : Shape(client[q]))' /\ OneSession'
  BY <1>1, <1>3, <1>4, <1>5 DEF IInv, OneSession
<1>8. KeepsTrying'
  BY <1>1, <1>3, <1>4, <1>5 DEF KeepsTrying
<1> QED
  BY <1>1, <1>4, <1>6, <1>7, <1>8 DEF IInv

LEMMA StopStep ==
  ASSUME IInv, Stop
  PROVE  IInv' /\ \A q \in Pools : ~Tried(client'[q])
<1>1. client \in [Pools -> Client] /\ 0 \in Pools /\ up \subseteq Pools
  BY NonePool DEF IInv, TypeOK
<1>2. ASSUME NEW q \in Pools
      PROVE  /\ Disconnect(client[q]) \in Client /\ Shape(Disconnect(client[q]))
             /\ ~Disconnect(client[q]).session /\ ~Tried(Disconnect(client[q]))
  BY <1>1, DisconnectIsClient DEF IInv, Tried
<1>3. /\ client' = [q \in Pools |-> Disconnect(client[q])]
      /\ index' = 0 /\ active' = None /\ wanted' = FALSE /\ up' = up
  BY DEF Stop
<1>4. \A q \in Pools : client'[q] = Disconnect(client[q])
  BY <1>3
<1>5. TypeOK'
  BY <1>1, <1>2, <1>3 DEF TypeOK
<1>6. (\A q \in Pools : Shape(client[q]))' /\ OneSession'
  BY <1>2, <1>4 DEF OneSession
<1>7. \A q \in Pools : ~Tried(client'[q])
  BY <1>2, <1>4
<1>8. KeepsTrying'
  BY <1>3 DEF KeepsTrying
<1> QED
  BY <1>3, <1>5, <1>6, <1>7, <1>8 DEF IInv

(* One step of a client's callbacks, of the environment or of the owner.   *)
LEMMA NextIInv == IInv /\ [Next]_vars => IInv'
<1> SUFFICES ASSUME IInv, [Next]_vars PROVE IInv'
  OBVIOUS
<1> USE DEF States
<1>1. CASE UNCHANGED vars
  BY <1>1 DEF vars, IInv, TypeOK, OneSession, KeepsTrying, AllQuiet
<1>2. ASSUME NEW p \in Pools, PoolChanges(p) PROVE IInv'
  BY <1>2 DEF PoolChanges, IInv, TypeOK, OneSession, KeepsTrying, AllQuiet
<1>3. ASSUME NEW p \in Pools, Callback(p) PROVE IInv'
  <2>1. client[p] \in Client /\ Shape(client[p])
    BY <1>3 DEF IInv, TypeOK
  <2>2. CASE Retry(p)
    <3> DEFINE c == Resolving(client[p])
    <3>1. /\ c \in Client /\ Tried(c)
          /\ c.state = "HostLookup" /\ c.session = client[p].session
      BY <2>1, ResolvingIsClient
    <3>2. ~client[p].session /\ ~Served(client[p])
      BY <2>1, <2>2 DEF Retry, Shape, Served
    <3>3. Shape(c) /\ (c.session => client[p].session)
      BY <3>1, <3>2 DEF Shape
    <3> QED
      BY <2>2, <3>1, <3>2, <3>3, BecomesStep DEF Retry
  <2>3. CASE Resolved(p)
    <3> DEFINE c == [Answered(p) EXCEPT !.state = "Connecting", !.expire = TRUE]
    <3>1. client[p].state = "HostLookup" /\ ~client[p].session
      BY <2>1, <2>3 DEF Resolved, Shape
    <3>2. /\ c \in Client /\ c.state = "Connecting"
          /\ ~c.session /\ ~c.lookup /\ c.failures = client[p].failures
      BY <2>1, <3>1 DEF Answered, Client
    <3>3. /\ Shape(c) /\ ~Served(client[p])
          /\ Tried(client[p]) => Tried(c)
      BY <3>1, <3>2 DEF Shape, Served, Tried, HasSocket
    <3> QED
      BY <2>3, <3>2, <3>3, BecomesStep DEF Resolved
  <2>4. CASE LookupFails(p)
    <3> DEFINE c == Answered(p)
    <3>1. client[p].state = "HostLookup" /\ ~client[p].session
      BY <2>1, <2>4 DEF LookupFails, Shape
    <3>2. /\ c \in Client /\ c.state = "HostLookup"
          /\ ~c.session /\ ~c.lookup /\ c.failures = client[p].failures
      BY <2>1, <3>1 DEF Answered, Client
    <3>3. ~HasSocket(c) /\ Shape(c)
      BY <3>2 DEF HasSocket, Shape
    <3> QED
      BY <2>4, <3>1, <3>2, <3>3, OnCloseStep DEF LookupFails
  <2>5. CASE ConnectSucceeds(p)
    <3> DEFINE c == [client[p] EXCEPT !.state = "Connected", !.expire = TRUE]
    <3>1. client[p].state = "Connecting" /\ ~client[p].session /\ ~client[p].lookup
      BY <2>1, <2>5 DEF ConnectSucceeds, Shape, Client
    <3>2. /\ c \in Client /\ c.state = "Connected"
          /\ ~c.session /\ ~c.lookup /\ c.failures = client[p].failures
      BY <2>1, <3>1 DEF Client
    <3>3. /\ Shape(c) /\ ~Served(client[p])
          /\ Tried(client[p]) => Tried(c)
      BY <3>1, <3>2 DEF Shape, Served, Tried, HasSocket
    <3> QED
      BY <2>5, <3>2, <3>3, BecomesStep DEF ConnectSucceeds
  <2>6. ASSUME NEW c \in Client, Becomes(p, Close(c)), client[p].state \in {"Connecting", "Connected"},
               c.state = client[p].state, c.failures = client[p].failures, c.lookup = client[p].lookup
        PROVE  IInv'
    <3>1. /\ Close(c) \in Client /\ Close(c).state = "Closing"
          /\ ~Close(c).session /\ ~Close(c).lookup
          /\ Close(c).failures = client[p].failures
      BY <2>1, <2>6, CloseIsClient DEF HasSocket, Shape
    <3>2. /\ Shape(Close(c))
          /\ Served(client[p]) => Served(Close(c))
          /\ Tried(client[p]) => Tried(Close(c))
      BY <2>1, <2>6, <3>1 DEF Shape, Served, Tried, HasSocket
    <3> QED
      BY <2>6, <3>1, <3>2, BecomesStep
  <2>7. CASE ConnectFails(p) \/ Lost(p)
    BY <2>1, <2>6, <2>7 DEF ConnectFails, Lost
  <2>8. CASE LoginSucceeds(p)
    BY <2>8, LoginStep
  <2>9. CASE LoginRefused(p)
    <3> DEFINE c == [client[p] EXCEPT !.expire = FALSE]
    <3>1. client[p].state = "Connected" /\ ~client[p].session
      BY <2>9 DEF LoginRefused, AwaitsLogin
    <3>2. /\ c \in Client /\ c.state = "Connected" /\ ~c.session
          /\ c.lookup = client[p].lookup /\ c.failures = client[p].failures
      BY <2>1, <3>1 DEF Client
    <3>3. Becomes(p, Close(c)) \/ Becomes(p, c)
      BY <2>9 DEF LoginRefused
    <3>4. CASE Becomes(p, Close(c))
      BY <2>6, <3>1, <3>2, <3>4
    <3>5. CASE Becomes(p, c)
      <4>1. /\ Shape(c) /\ ~Served(client[p])
            /\ Tried(client[p]) => Tried(c)
        BY <2>1, <3>1, <3>2 DEF Shape, Served, Tried, HasSocket
      <4> QED
        BY <3>2, <3>5, <4>1, BecomesStep
    <3> QED
      BY <3>3, <3>4, <3>5
  <2>10. CASE Closed(p)
    <3> DEFINE c == [client[p] EXCEPT !.state = "Unconnected"]
    <3>1. client[p].state = "Closing" /\ ~client[p].session /\ ~client[p].lookup
      BY <2>1, <2>10 DEF Closed, Shape, Client
    <3>2. /\ c \in Client /\ c.state = "Unconnected"
          /\ ~c.session /\ ~c.lookup /\ c.failures = client[p].failures
      BY <2>1, <3>1 DEF Client
    <3>3. ~HasSocket(c) /\ Shape(c)
      BY <3>2 DEF HasSocket, Shape
    <3> QED
      BY <2>10, <3>1, <3>2, <3>3, OnCloseStep DEF Closed
  <2> QED
    BY <1>3, <2>2, <2>3, <2>4, <2>5, <2>7, <2>8, <2>9, <2>10 DEF Callback
<1>4. CASE Connect
  BY <1>4, ConnectStep
<1>5. CASE Stop
  BY <1>5, StopStep
<1> QED
  BY <1>1, <1>2, <1>3, <1>4, <1>5 DEF Next

LEMMA Inductive == Spec => []IInv
  BY InitIInv, NextIInv, PTL DEF Spec

(* Every variable keeps its type: m_index never leaves the vector of the   *)
(* pools.                                                                  *)
THEOREM TypeCorrect == Spec => []TypeOK
  BY Inductive, PTL DEF IInv

(* However lookups, logins and losses interleave, only the active pool has *)
(* a session.                                                              *)
THEOREM NoOtherSession == Spec => []OneSession
  BY Inductive, PTL DEF IInv

(* onPause() is never missed: a pool without a session does not stay the   *)
(* active one.                                                             *)
THEOREM ActivePoolServes == Spec => []ActiveIsServed
<1>1. IInv => ActiveIsServed
  BY DEF IInv, Served, ActiveIsServed
<1> QED
  BY <1>1, Inductive, PTL

(* FailoverStrategy never waits for a client that does not try.            *)
THEOREM SomePoolIsTried == Spec => []KeepsTrying
  BY Inductive, PTL DEF IInv

-----------------------------------------------------------------------------
(* The refinement.                                                         *)
AbstractStep == [Abstract!Next]_<<status, wanted>>

(* A callback that neither begins nor ends an attempt, and after which the *)
(* client can only log in if it could before, or was tried anyway.         *)
LEMMA BecomesRefines ==
  ASSUME IInv, NEW p \in Pools, NEW c \in Client,
         client' = [client EXCEPT ![p] = c], active' = active, wanted' = wanted,
         Tried(c) <=> Tried(client[p]),
         MayLogIn(c) => MayLogIn(client[p]) \/ Tried(client[p])
  PROVE  AbstractStep
<1>1. client'[p] = c /\ \A q \in Pools \ {p} : client'[q] = client[q]
  BY DEF IInv, TypeOK
<1>2. \A q \in Pools : Tried(client'[q]) <=> Tried(client[q])
  BY <1>1
<1>3. ASSUME AllQuiet, NEW q \in Pools, MayLogIn(client'[q])
      PROVE  MayLogIn(client[q])
  BY <1>1, <1>3 DEF AllQuiet
<1> QED
  BY <1>2, <1>3
  DEF AbstractStep, AllQuiet, status, Abstract!Next, Abstract!Fade

(* The end of an attempt.  An abandoned client has no further part; any    *)
(* other is going to be tried again.                                       *)
LEMMA OnCloseRefines ==
  ASSUME IInv, NEW p \in Pools, NEW c \in Client, Shape(c),
         c.failures = client[p].failures, ~c.lookup, ~HasSocket(c),
         client[p].lookup \/ HasSocket(client[p]),
         OnClose([client EXCEPT ![p] = Reconnect(c)], p), wanted' = wanted
  PROVE  AbstractStep
<1> DEFINE clients == [client EXCEPT ![p] = Reconnect(c)]
<1>1. client \in [Pools -> Client] /\ active \in Pools \cup {None}
  BY DEF IInv, TypeOK
<1>2. Reconnect(c) \in Client
  BY ReconnectIsClient
<1>3. clients \in [Pools -> Client] /\ clients[p] = Reconnect(c)
  BY <1>1, <1>2
<1>4. CASE c.failures = -1
  <2>1. Reconnect(c) = c
    BY <1>4, ReconnectIsClient
  <2>2. client' = [client EXCEPT ![p] = c] /\ active' = active
    BY <1>3, <1>4, <2>1 DEF OnClose
  <2>3. ~Tried(c) /\ ~Tried(client[p]) /\ ~MayLogIn(c)
    BY <1>4 DEF Tried, MayLogIn, HasSocket
  <2> QED
    BY <2>2, <2>3, BecomesRefines
<1>5. CASE c.failures # -1
  <2>1. Tried(client[p]) /\ Tried(clients[p]) /\ clients[p].failures # -1
    BY <1>3, <1>5, ReconnectIsClient DEF Tried
  <2>2. client' = clients \/ client' = [clients EXCEPT ![p + 1] = Resolving(@)]
    BY <2>1 DEF OnClose
  <2>3. p + 1 # p
    BY SizeAssumption DEF Pools
  <2>4. client'[p] = clients[p]
    BY <1>3, <2>2, <2>3
  <2>5. active' = IF active = p THEN None ELSE active
    BY <2>1 DEF OnClose
  <2>6. CASE active' = None
    <3>1. status' = "Trying"
      BY <2>1, <2>4, <2>6 DEF status
    <3>2. status \in {"Active", "Trying"}
      BY <2>1 DEF status
    <3> QED
      BY <3>1, <3>2 DEF AbstractStep, Abstract!Next, Abstract!Lose
  <2>7. CASE active' # None
    BY <2>5, <2>7 DEF AbstractStep, status
  <2> QED
    BY <2>6, <2>7
<1> QED
  BY <1>4, <1>5

LEMMA OwnerRefines ==
  ASSUME IInv, IInv', Connect \/ Stop
  PROVE  AbstractStep
<1>1. client \in [Pools -> Client] /\ 0 \in Pools
  BY NonePool DEF IInv, TypeOK
<1>2. CASE Connect
  <2>1. active = None /\ AllQuiet /\ ~wanted /\ wanted' = TRUE
    BY <1>2 DEF Connect, AllQuiet
  <2>2. status \in {"Late", "Stopped"}
    BY <2>1 DEF status, AllQuiet
  <2>3. active' = None /\ Tried(client'[0])
    BY <1>2 DEF Connect, IInv, KeepsTrying
  <2>4. status' = "Trying"
    BY <1>1, <2>3 DEF status
  <2> QED
    BY <2>1, <2>2, <2>4 DEF AbstractStep, Abstract!Next, Abstract!Connect
<1>3. CASE Stop
  <2>1. active' = None /\ \A q \in Pools : ~Tried(client'[q])
    BY <1>3, StopStep DEF Stop
  <2>2. ASSUME NEW q \in Pools, MayLogIn(client'[q])
        PROVE  MayLogIn(client[q])
    <3> DEFINE e == [client[q] EXCEPT !.expire = FALSE, !.failures = -1]
    <3>1. e \in Client /\ e.state = client[q].state /\ e.lookup = client[q].lookup
      <4>1. -1 \in -1..Retries /\ client[q] \in Client
        BY <1>1, SizeAssumption
      <4> QED
        BY <4>1 DEF Client
    <3>2. client'[q] = Close(e)
      BY <1>3 DEF Stop, Disconnect
    <3> HIDE DEF e
    <3>3. HasSocket(e) <=> HasSocket(client[q])
      BY <3>1 DEF HasSocket
    <3>4. client'[q].lookup => client[q].lookup
      BY <3>1, <3>2, CloseIsClient
    <3>5. client'[q].state \in {client[q].state, "Closing"}
      BY <3>1, <3>2, CloseIsClient
    <3> QED
      BY <2>2, <3>4, <3>5 DEF MayLogIn
  <2>3. status' \in {"Late", "Stopped"}
    BY <2>1 DEF status
  <2>4. status = "Stopped" => status' = "Stopped"
    BY <2>1, <2>2 DEF status
  <2> QED
    BY <1>3, <2>3, <2>4 DEF AbstractStep, Abstract!Next, Abstract!Stop, Stop
<1> QED
  BY <1>2, <1>3

LEMMA LoginRefines ==
  ASSUME IInv, NEW p \in Pools, LoginSucceeds(p)
  PROVE  AbstractStep
<1>1. active' # None
  BY NonePool DEF LoginSucceeds, OnLoginSuccess, Chosen
<1>2. status # "Stopped"
  BY DEF LoginSucceeds, AwaitsLogin, MayLogIn, status
<1>3. status' = "Active"
  BY <1>1 DEF status
<1> QED
  BY <1>2, <1>3 DEF AbstractStep, Abstract!Next, Abstract!Login, LoginSucceeds

LEMMA CallbackRefines ==
  ASSUME IInv, NEW p \in Pools, Callback(p)
  PROVE  AbstractStep
<1>1. client[p] \in Client /\ Shape(client[p])
  BY DEF IInv, TypeOK
<1>2. CASE Retry(p)
  <2>1. Resolving(client[p]) \in Client /\ Tried(Resolving(client[p]))
    BY <1>1, ResolvingIsClient
  <2>2. Tried(client[p])
    BY <1>1, <1>2 DEF Retry, Shape, Tried
  <2> QED
    BY <1>2, <2>1, <2>2, BecomesRefines DEF Retry, Becomes
<1>3. CASE Resolved(p)
  <2> DEFINE c == [Answered(p) EXCEPT !.state = "Connecting", !.expire = TRUE]
  <2>1. c \in Client /\ c.state = "Connecting" /\ c.failures = client[p].failures
    BY <1>1 DEF Answered, Client, States
  <2>2. MayLogIn(client[p]) /\ (Tried(c) <=> Tried(client[p]))
    BY <1>3, <2>1 DEF Resolved, MayLogIn, Tried, HasSocket
  <2> QED
    BY <1>3, <2>1, <2>2, BecomesRefines DEF Resolved, Becomes
<1>4. CASE LookupFails(p)
  <2>1. client[p].state = "HostLookup" /\ client[p].lookup
    BY <1>1, <1>4 DEF LookupFails, Shape
  <2>2. /\ Answered(p) \in Client /\ Answered(p).state = "HostLookup"
        /\ ~Answered(p).lookup /\ Answered(p).session = client[p].session
        /\ Answered(p).failures = client[p].failures
    BY <1>1, <2>1 DEF Answered, Client
  <2>3. ~HasSocket(Answered(p)) /\ Shape(Answered(p))
    BY <1>1, <2>1, <2>2 DEF HasSocket, Shape
  <2> QED
    BY <1>4, <2>1, <2>2, <2>3, OnCloseRefines DEF LookupFails
<1>5. ASSUME NEW c \in Client, Becomes(p, c), client[p].state \in {"Connecting", "Connected"},
             c.state \in {"Connecting", "Connected", "Closing"}, c.failures = client[p].failures
      PROVE  AbstractStep
  <2>1. MayLogIn(client[p]) /\ (Tried(c) <=> Tried(client[p]))
    BY <1>5 DEF MayLogIn, Tried, HasSocket
  <2> QED
    BY <1>5, <2>1, BecomesRefines DEF Becomes
<1>6. ASSUME NEW c \in Client, Becomes(p, Close(c)), client[p].state \in {"Connecting", "Connected"},
             c.state = client[p].state, c.failures = client[p].failures
      PROVE  AbstractStep
  <2>1. Close(c) \in Client /\ Close(c).state = "Closing" /\ Close(c).failures = c.failures
    BY <1>6, CloseIsClient DEF HasSocket
  <2> QED
    BY <1>5, <1>6, <2>1
<1>7. CASE ConnectSucceeds(p)
  <2> DEFINE c == [client[p] EXCEPT !.state = "Connected", !.expire = TRUE]
  <2>1. c \in Client /\ c.state = "Connected" /\ c.failures = client[p].failures
    BY <1>1 DEF Client, States
  <2> QED
    BY <1>5, <1>7, <2>1 DEF ConnectSucceeds
<1>8. CASE ConnectFails(p) \/ Lost(p)
  BY <1>1, <1>6, <1>8 DEF ConnectFails, Lost
<1>9. CASE LoginSucceeds(p)
  BY <1>9, LoginRefines
<1>10. CASE LoginRefused(p)
  <2> DEFINE c == [client[p] EXCEPT !.expire = FALSE]
  <2>1. c \in Client /\ c.state = client[p].state /\ c.failures = client[p].failures
    BY <1>1 DEF Client
  <2>2. client[p].state = "Connected" /\ (Becomes(p, Close(c)) \/ Becomes(p, c))
    BY <1>10 DEF LoginRefused, AwaitsLogin
  <2> QED
    BY <1>5, <1>6, <2>1, <2>2
<1>11. CASE Closed(p)
  <2> DEFINE c == [client[p] EXCEPT !.state = "Unconnected"]
  <2>1. client[p].state = "Closing" /\ ~client[p].session /\ ~client[p].lookup
    BY <1>1, <1>11 DEF Closed, Shape, Client
  <2>2. /\ c \in Client /\ c.state = "Unconnected" /\ c.failures = client[p].failures
        /\ ~c.session /\ ~c.lookup
    BY <1>1, <2>1 DEF Client, States
  <2>3. ~HasSocket(c) /\ Shape(c) /\ HasSocket(client[p])
    BY <2>1, <2>2 DEF HasSocket, Shape
  <2> QED
    BY <1>11, <2>2, <2>3, OnCloseRefines DEF Closed
<1> QED
  BY <1>2, <1>3, <1>4, <1>7, <1>8, <1>9, <1>10, <1>11 DEF Callback

LEMMA InitRefines == Init => Abstract!Init
  BY DEF Init, New, Tried, MayLogIn, HasSocket, status, Abstract!Init

LEMMA NextRefines == IInv /\ IInv' /\ [Next]_vars => AbstractStep
<1> SUFFICES ASSUME IInv, IInv', [Next]_vars PROVE AbstractStep
  OBVIOUS
<1>1. CASE UNCHANGED vars \/ \E p \in Pools : PoolChanges(p)
  BY <1>1 DEF vars, PoolChanges, AbstractStep, status
<1> QED
  BY <1>1, OwnerRefines, CallbackRefines DEF Next

(* To its listener the strategy is the one of Strategy: it is active or    *)
(* tries from connect() to stop(), whatever its clients do.                *)
THEOREM FailoverImplementsStrategy == Spec => ImplementsStrategy
  BY InitRefines, NextRefines, Inductive, PTL
  DEF Spec, ImplementsStrategy, Abstract!Spec, AbstractStep
=============================================================================
