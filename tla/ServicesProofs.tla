--------------------------- MODULE ServicesProofs ---------------------------
(***************************************************************************)
(* Proofs about the HTTP server and the socket transport, for any number   *)
(* of connections; about the delimited streams, for any chunk size and     *)
(* streams of any length; about the HTTP reader, for any requests; and     *)
(* about the HTTP writer, for messages and buffers of any size.            *)
(***************************************************************************)
EXTENDS Services, SequenceLemmas, TLAPS

-----------------------------------------------------------------------------
(* The HTTP server. *)

ServerTyped ==
    /\ serverMutex \in {"free", "destroyer"}
    /\ connections \in Seq(Conn)
    /\ index \in [Conn -> Nat]
    /\ life \in [Conn -> {"none", "live", "freed"}]
    /\ holder \in [Conn -> {"free", "tasklet", "exchange", "timeout", "destroyer"}]
    /\ stage \in [Conn -> {"no", "remove", "fini"}]
    /\ timer \in [Conn -> {"off", "set", "fired"}]
    /\ timeoutQueued \in [Conn -> BOOLEAN]
    /\ exchange \in [Conn -> {"none", "body", "write", "done", "failed"}]
    /\ victim \in Conn \cup {NoConn}
    /\ destroyer = "transfer" => victim \in Conn /\ life[victim] = "live"

(* The array holds those that live and were not removed, at their index.   *)
Listed(c) == \E n \in 1..Len(connections) : connections[n] = c
ArraySound ==
    /\ \A n \in 1..Len(connections) : index[connections[n]] = n
    /\ \A c \in Conn : life[c] = "live" /\ stage[c] # "fini" <=> Listed(c)

(* Who destroys a connection holds its mutex, and it lives.                *)
TeardownSound ==
    /\ \A c \in Conn : stage[c] # "no" => holder[c] # "free" /\ life[c] = "live"
    /\ \A c \in Conn : life[c] = "none" => exchange[c] = "none"

(* The timer is off during an exchange, so that only the server's end      *)
(* takes a connection from it.                                             *)
ExchangeSound ==
    \A c \in Conn : exchange[c] # "none" =>
        /\ timer[c] = "off"
        /\ destroyer = "no" => life[c] = "live" /\ stage[c] = "no"

ServerInv == ServerTyped /\ ArraySound /\ TeardownSound /\ ExchangeSound

(* The invariant implies what is said about the connections. *)
LEMMA ServerInvSound == ServerInv => ConnectionsSound
<1> SUFFICES ASSUME ServerInv PROVE ConnectionsSound
  OBVIOUS
<1>1. DOMAIN connections = 1..Len(connections)
  BY DEF ServerInv, ServerTyped
<1>2. \A c \in Conn : c \in Range(connections) <=> Listed(c)
  BY <1>1 DEF Range, Listed
<1> QED
  BY <1>1, <1>2 DEF ServerInv, ServerTyped, ArraySound, ExchangeSound, ConnectionsSound

(* A server starts without connections. *)
LEMMA ServerInvInit == HttpServerInit => ServerInv
<1> SUFFICES ASSUME HttpServerInit PROVE ServerInv
  OBVIOUS
<1>1. connections \in Seq(Conn) /\ Len(connections) = 0
  BY DEF HttpServerInit
<1>2. ServerTyped
  BY <1>1 DEF HttpServerInit, ServerTyped
<1>3. ArraySound
  BY <1>1 DEF HttpServerInit, ArraySound, Listed
<1> QED
  BY <1>2, <1>3 DEF HttpServerInit, ServerInv, TeardownSound, ExchangeSound

(* remove_connection leaves a hole to the last connection, which gets its  *)
(* index.                                                                  *)
LEMMA RemoveKeepsArray ==
    ASSUME ServerInv, NEW c \in Conn, RemoveConnection(c)
    PROVE  ServerInv'
<1> DEFINE k == index[c]
           last == Len(connections)
<1>1. /\ connections \in Seq(Conn) /\ Listed(c) /\ stage[c] = "remove" /\ life[c] = "live"
      /\ \A n \in 1..last : index[connections[n]] = n
  BY DEF ServerInv, ServerTyped, ArraySound, TeardownSound, RemoveConnection
<1>2. k \in 1..last /\ connections[k] = c /\ last \in Nat \ {0}
  BY <1>1 DEF Listed
<1>3. /\ connections' = Front([connections EXCEPT ![k] = Last(connections)])
      /\ index' = [index EXCEPT ![connections[last]] = k]
      /\ stage' = [stage EXCEPT ![c] = "fini"]
  BY DEF RemoveConnection, Last
<1>4. /\ connections' \in Seq(Conn) /\ Len(connections') = last - 1
      /\ \A n \in 1..last - 1 :
            connections'[n] = IF n = k THEN connections[last] ELSE connections[n]
  BY <1>1, <1>2, <1>3, ReplacedByLast
<1>5. ServerTyped'
  <2>1. index' \in [Conn -> Nat] /\ stage' \in [Conn -> {"no", "remove", "fini"}]
    BY <1>2, <1>3 DEF ServerInv, ServerTyped
  <2> QED
    BY <1>4, <2>1 DEF ServerInv, ServerTyped, RemoveConnection
<1>6. ArraySound'
  <2>1. \A n \in 1..last - 1 : index'[connections'[n]] = n
    <3> SUFFICES ASSUME NEW n \in 1..last - 1 PROVE index'[connections'[n]] = n
      OBVIOUS
    <3>1. connections[last] \in Conn /\ connections[n] \in Conn
      BY <1>1, <1>2
    <3>2. CASE n = k
      BY <1>3, <1>4, <3>1, <3>2 DEF ServerInv, ServerTyped
    <3>3. CASE n # k
      <4>1. connections'[n] = connections[n] /\ index[connections[n]] = n
        BY <1>1, <1>2, <1>4, <3>3
      <4>2. connections[n] # connections[last]
        BY <1>1, <1>2
      <4> QED
        BY <1>3, <3>1, <4>1, <4>2 DEF ServerInv, ServerTyped
    <3> QED
      BY <3>2, <3>3
  <2>2. ASSUME NEW d \in Conn
        PROVE  Listed(d)' <=> Listed(d) /\ d # c
    <3>1. ASSUME Listed(d)' PROVE Listed(d) /\ d # c
      <4>1. PICK n \in 1..last - 1 : connections'[n] = d
        BY <1>4, <3>1 DEF Listed
      <4>2. CASE n = k
        <5>1. d = connections[last] /\ k # last
          BY <1>2, <1>4, <4>1, <4>2
        <5> QED
          BY <1>1, <1>2, <5>1 DEF Listed
      <4>3. CASE n # k
        BY <1>1, <1>2, <1>4, <4>1, <4>3 DEF Listed
      <4> QED
        BY <4>2, <4>3
    <3>2. ASSUME Listed(d), d # c PROVE Listed(d)'
      <4>1. PICK n \in 1..last : connections[n] = d
        BY <3>2 DEF Listed
      <4>2. n # k
        BY <1>2, <3>2, <4>1
      <4>3. CASE n = last
        BY <1>2, <1>4, <4>1, <4>2, <4>3 DEF Listed
      <4>4. CASE n # last
        BY <1>2, <1>4, <4>1, <4>2, <4>4 DEF Listed
      <4> QED
        BY <4>3, <4>4
    <3> QED
      BY <3>1, <3>2
  <2>3. \A d \in Conn : (life[d] = "live" /\ stage[d] # "fini") /\ d # c
                          <=> (life'[d] = "live" /\ stage'[d] # "fini")
    BY <1>3 DEF ServerInv, ServerTyped, RemoveConnection
  <2>4. \A d \in Conn : life[d] = "live" /\ stage[d] # "fini" <=> Listed(d)
    BY DEF ServerInv, ArraySound
  <2> QED
    BY <1>4, <2>1, <2>2, <2>3, <2>4 DEF ArraySound
<1>7. TeardownSound' /\ ExchangeSound'
  BY <1>1, <1>3 DEF ServerInv, ServerTyped, TeardownSound, ExchangeSound, RemoveConnection
<1> QED
  BY <1>5, <1>6, <1>7 DEF ServerInv

-----------------------------------------------------------------------------
(* Every step of the HTTP server keeps its invariant. *)

(* http_server_accept adds a connection that was not in the array.         *)
LEMMA AcceptKeepsArray ==
    ASSUME ServerInv, NEW c \in Conn, AcceptConnection(c)
    PROVE  ServerInv'
<1> DEFINE l == Len(connections)
<1>1. /\ connections \in Seq(Conn) /\ l \in Nat /\ life[c] = "none" /\ ~Listed(c)
      /\ stage[c] = "no" /\ exchange[c] = "none"
  BY DEF ServerInv, ServerTyped, ArraySound, TeardownSound, AcceptConnection
<1>2. /\ connections' \in Seq(Conn) /\ Len(connections') = l + 1
      /\ connections'[l + 1] = c
      /\ \A n \in 1..l : connections'[n] = connections[n]
  BY <1>1 DEF AcceptConnection
<1>3. /\ index' = [index EXCEPT ![c] = l + 1]
      /\ life' = [life EXCEPT ![c] = "live"]
      /\ stage' = stage
  BY DEF AcceptConnection
<1>4. ServerTyped'
  BY <1>1, <1>2, <1>3 DEF ServerInv, ServerTyped, AcceptConnection
<1>5. \A d \in Conn : Listed(d)' <=> Listed(d) \/ d = c
  BY <1>1, <1>2 DEF Listed
<1>6. \A n \in 1..l + 1 : index'[connections'[n]] = n
  <2> SUFFICES ASSUME NEW n \in 1..l + 1 PROVE index'[connections'[n]] = n
    OBVIOUS
  <2>1. CASE n = l + 1
    BY <1>1, <1>2, <1>3, <2>1 DEF ServerInv, ServerTyped
  <2>2. CASE n # l + 1
    <3>1. n \in 1..l /\ connections[n] \in Conn /\ connections[n] # c
      BY <1>1, <2>2 DEF Listed
    <3>2. index[connections[n]] = n /\ connections'[n] = connections[n]
      BY <1>2, <3>1 DEF ServerInv, ArraySound
    <3> QED
      BY <1>3, <3>1, <3>2 DEF ServerInv, ServerTyped
  <2> QED
    BY <2>1, <2>2
<1>7. ArraySound'
  <2>1. \A d \in Conn : life'[d] = "live" /\ stage'[d] # "fini"
                          <=> (life[d] = "live" /\ stage[d] # "fini") \/ d = c
    BY <1>1, <1>3 DEF ServerInv, ServerTyped
  <2> QED
    BY <1>2, <1>5, <1>6, <2>1 DEF ServerInv, ArraySound
<1>8. TeardownSound' /\ ExchangeSound'
  BY <1>1, <1>3 DEF ServerInv, ServerTyped, TeardownSound, ExchangeSound, AcceptConnection
<1> QED
  BY <1>4, <1>7, <1>8 DEF ServerInv

(* A step that leaves the array alone, and who lives, and finalizes        *)
(* nothing, keeps the array sound.                                         *)
LEMMA ArrayKept ==
    ASSUME ArraySound, connections' = connections, index' = index, life' = life,
           \A c \in Conn : stage'[c] = "fini" <=> stage[c] = "fini"
    PROVE  ArraySound'
BY DEF ArraySound, Listed

(* The connection's tasklet, its exchange and its timeout, which may begin *)
(* to destroy it.                                                          *)
LEMMA ConnectionStepKeeps ==
    ASSUME ServerInv, NEW c \in Conn, ConnectionStep(c)
    PROVE  ServerInv'
<1>1. /\ connections' = connections /\ index' = index /\ life' = life /\ destroyer' = destroyer
      /\ victim' = victim /\ serverMutex' = serverMutex
  BY DEF ConnectionStep, ConnectionRuns, ExchangeGoesOn, ExchangeDone, TimerFires, TimeoutRuns
<1>2. CASE ConnectionRuns(c)
  <2>1. /\ life[c] = "live" /\ stage[c] = "no" /\ exchange[c] = "none"
        /\ timeoutQueued' = timeoutQueued
    BY <1>2 DEF ConnectionRuns, Free, ServerInv, ServerTyped, TeardownSound
  <2>2. CASE stage' = [stage EXCEPT ![c] = "remove"] /\ holder' = [holder EXCEPT ![c] = "tasklet"]
             /\ exchange' = exchange /\ timer' = timer
    <3>1. ServerTyped'
      BY <1>1, <2>1, <2>2 DEF ServerInv, ServerTyped
    <3>2. ArraySound'
      BY <1>1, <2>1, <2>2, ArrayKept DEF ServerInv, ServerTyped
    <3> QED
      BY <1>1, <2>1, <2>2, <3>1, <3>2 DEF ServerInv, ServerTyped, TeardownSound, ExchangeSound
  <2>3. CASE /\ stage' = stage /\ holder' = holder
             /\ \/ timer' = [timer EXCEPT ![c] = "set"] /\ exchange' = exchange
                \/ /\ timer' = [timer EXCEPT ![c] = "off"]
                   /\ exchange' = [exchange EXCEPT ![c] = "body"]
    <3>1. ServerTyped'
      BY <1>1, <2>1, <2>3 DEF ServerInv, ServerTyped
    <3>2. ArraySound'
      BY <1>1, <2>1, <2>3, ArrayKept DEF ServerInv
    <3> QED
      BY <1>1, <2>1, <2>3, <3>1, <3>2 DEF ServerInv, ServerTyped, TeardownSound, ExchangeSound
  <2> QED
    BY <1>2, <2>2, <2>3 DEF ConnectionRuns, ReadPrebody, BeginDestroying
<1>3. CASE ExchangeGoesOn(c)
  <2>1. /\ life[c] = "live" /\ exchange[c] # "none" /\ stage' = stage /\ holder' = holder
        /\ timer' = timer /\ timeoutQueued' = timeoutQueued
        /\ \E next \in {"write", "done", "failed"} : exchange' = [exchange EXCEPT ![c] = next]
    BY <1>3 DEF ExchangeGoesOn
  <2>2. ServerTyped'
    BY <1>1, <2>1 DEF ServerInv, ServerTyped
  <2>3. ArraySound'
    BY <1>1, <2>1, ArrayKept DEF ServerInv
  <2> QED
    BY <1>1, <2>1, <2>2, <2>3 DEF ServerInv, ServerTyped, TeardownSound, ExchangeSound
<1>4. CASE ExchangeDone(c)
  <2>1. /\ life[c] = "live" /\ stage[c] = "no" /\ timeoutQueued' = timeoutQueued
    BY <1>4 DEF ExchangeDone, Free, ServerInv, ServerTyped, TeardownSound
  <2>2. CASE /\ stage' = [stage EXCEPT ![c] = "remove"]
             /\ holder' = [holder EXCEPT ![c] = "exchange"]
             /\ exchange' = [exchange EXCEPT ![c] = "none"]
             /\ timer' = timer \/ timer' = [timer EXCEPT ![c] = "set"]
    <3>1. ServerTyped'
      BY <1>1, <2>1, <2>2 DEF ServerInv, ServerTyped
    <3>2. ArraySound'
      BY <1>1, <2>1, <2>2, ArrayKept DEF ServerInv, ServerTyped
    <3> QED
      BY <1>1, <2>1, <2>2, <3>1, <3>2 DEF ServerInv, ServerTyped, TeardownSound, ExchangeSound
  <2>3. CASE /\ stage' = stage /\ holder' = holder
             /\ \/ /\ timer' = [timer EXCEPT ![c] = "set"]
                   /\ exchange' = [exchange EXCEPT ![c] = "none"]
                \/ /\ timer' = [timer EXCEPT ![c] = "off"]
                   /\ exchange' = [[exchange EXCEPT ![c] = "none"] EXCEPT ![c] = "body"]
    <3>1. ServerTyped'
      BY <1>1, <2>1, <2>3 DEF ServerInv, ServerTyped
    <3>2. ArraySound'
      BY <1>1, <2>1, <2>3, ArrayKept DEF ServerInv
    <3> QED
      BY <1>1, <2>1, <2>3, <3>1, <3>2 DEF ServerInv, ServerTyped, TeardownSound, ExchangeSound
  <2>4. CASE exchange[c] = "done"
    BY <1>4, <2>2, <2>3, <2>4 DEF ExchangeDone, ReadPrebody, BeginDestroying
  <2>5. CASE exchange[c] # "done"
    BY <1>4, <2>2, <2>5 DEF ExchangeDone, BeginDestroying
  <2> QED
    BY <2>4, <2>5
<1>5. CASE TimerFires(c)
  <2>1. /\ timer[c] = "set" /\ timer' = [timer EXCEPT ![c] = "fired"]
        /\ timeoutQueued' = [timeoutQueued EXCEPT ![c] = TRUE]
        /\ holder' = holder /\ stage' = stage /\ exchange' = exchange
    BY <1>5 DEF TimerFires
  <2>2. ServerTyped'
    BY <1>1, <2>1 DEF ServerInv, ServerTyped
  <2>3. ArraySound'
    BY <1>1, <2>1, ArrayKept DEF ServerInv
  <2> QED
    BY <1>1, <2>1, <2>2, <2>3 DEF ServerInv, ServerTyped, TeardownSound, ExchangeSound
<1>6. CASE TimeoutRuns(c)
  <2>1. /\ life[c] = "live" /\ stage[c] = "no" /\ timer' = timer /\ exchange' = exchange
        /\ timeoutQueued' = [timeoutQueued EXCEPT ![c] = FALSE]
        /\ \/ stage' = stage /\ holder' = holder
           \/ /\ timer[c] = "fired" /\ stage' = [stage EXCEPT ![c] = "remove"]
              /\ holder' = [holder EXCEPT ![c] = "timeout"]
    BY <1>6 DEF TimeoutRuns, BeginDestroying, Free, ServerInv, ServerTyped, TeardownSound
  <2>2. ServerTyped'
    BY <1>1, <2>1 DEF ServerInv, ServerTyped
  <2>3. ArraySound'
    BY <1>1, <2>1, ArrayKept DEF ServerInv, ServerTyped
  <2> QED
    BY <1>1, <2>1, <2>2, <2>3 DEF ServerInv, ServerTyped, TeardownSound, ExchangeSound
<1> QED
  BY <1>2, <1>3, <1>4, <1>5, <1>6 DEF ConnectionStep

(* The end of connection_destroy_locked turns away who waits for the       *)
(* connection, so that nobody wants one that was freed.                    *)
LEMMA FreeKeeps ==
    ASSUME ServerInv, NEW c \in Conn, FreeConnection(c)
    PROVE  ServerInv'
<1>1. /\ stage[c] = "fini" /\ life[c] = "live"
      /\ stage' = [stage EXCEPT ![c] = "no"] /\ life' = [life EXCEPT ![c] = "freed"]
      /\ holder' = [holder EXCEPT ![c] = "free"] /\ timer' = [timer EXCEPT ![c] = "off"]
      /\ timeoutQueued' = [timeoutQueued EXCEPT ![c] = FALSE]
      /\ connections' = connections /\ index' = index /\ exchange' = exchange
      /\ serverMutex' = serverMutex /\ victim' = victim
      /\ destroyer' = "no" <=> destroyer = "no"
      /\ destroyer' = "transfer" => destroyer = "transfer" /\ victim # c
  BY DEF FreeConnection, ServerInv, ServerTyped, TeardownSound
<1>2. ServerTyped'
  BY <1>1 DEF ServerInv, ServerTyped
<1>3. \A d \in Conn : life'[d] = "live" /\ stage'[d] # "fini"
                        <=> life[d] = "live" /\ stage[d] # "fini"
  BY <1>1 DEF ServerInv, ServerTyped
<1>4. ArraySound'
  BY <1>1, <1>3 DEF ServerInv, ArraySound, Listed
<1>5. TeardownSound'
  BY <1>1 DEF ServerInv, ServerTyped, TeardownSound
<1>6. ExchangeSound'
  BY <1>1 DEF ServerInv, ServerTyped, ExchangeSound
<1> QED
  BY <1>2, <1>4, <1>5, <1>6 DEF ServerInv

(* http_server_destroy wants the first of the array, which lives.          *)
LEMMA DestroyerKeeps ==
    ASSUME ServerInv,
           \/ DestroyHttpServer /\ UNCHANGED <<connections, index, life, timer, timeoutQueued,
                                               exchange>>
           \/ Destroyer
    PROVE  ServerInv'
<1>1. /\ connections' = connections /\ index' = index /\ life' = life /\ timer' = timer
      /\ timeoutQueued' = timeoutQueued /\ exchange' = exchange
      /\ destroyer' # "no"
  BY DEF DestroyHttpServer, Destroyer, NextVictim, Transferred, BackToServer
<1>2. CASE /\ stage' = stage /\ holder' = holder
           /\ serverMutex' \in {"free", "destroyer"} /\ victim' \in Conn \cup {NoConn}
           /\ destroyer' = "transfer" => victim' \in Conn /\ life[victim'] = "live"
  <2>1. ServerTyped'
    BY <1>1, <1>2 DEF ServerInv, ServerTyped
  <2>2. ArraySound'
    BY <1>1, <1>2, ArrayKept DEF ServerInv
  <2> QED
    BY <1>1, <1>2, <2>1, <2>2 DEF ServerInv, TeardownSound, ExchangeSound
<1>3. CASE DestroyHttpServer \/ BackToServer
  BY <1>2, <1>3 DEF DestroyHttpServer, BackToServer, ServerInv, ServerTyped
<1>4. CASE NextVictim
  <2>1. CASE connections = << >>
    BY <1>2, <1>4, <2>1 DEF NextVictim, ServerInv, ServerTyped
  <2>2. CASE connections # << >>
    <3>1. /\ connections \in Seq(Conn) /\ 1 \in 1..Len(connections)
      BY <2>2 DEF ServerInv, ServerTyped
    <3>2. connections[1] \in Conn /\ Listed(connections[1])
      BY <3>1 DEF Listed
    <3>3. life[connections[1]] = "live"
      BY <3>2 DEF ServerInv, ArraySound
    <3> QED
      BY <1>2, <1>4, <2>2, <3>2, <3>3 DEF NextVictim
  <2> QED
    BY <2>1, <2>2
<1>5. CASE Transferred
  <2>1. /\ victim \in Conn /\ life[victim] = "live" /\ stage[victim] = "no"
        /\ stage' = [stage EXCEPT ![victim] = "remove"]
        /\ holder' = [holder EXCEPT ![victim] = "destroyer"]
        /\ serverMutex' = serverMutex /\ victim' = victim /\ destroyer' = "destroying"
    BY <1>5 DEF Transferred, Free, BeginDestroying, ServerInv, ServerTyped, TeardownSound
  <2>2. ServerTyped'
    BY <1>1, <2>1 DEF ServerInv, ServerTyped
  <2>3. ArraySound'
    BY <1>1, <2>1, ArrayKept DEF ServerInv, ServerTyped
  <2> QED
    BY <1>1, <2>1, <2>2, <2>3 DEF ServerInv, ServerTyped, TeardownSound, ExchangeSound
<1> QED
  BY <1>3, <1>4, <1>5 DEF Destroyer

(* The server's invariant is inductive. *)
LEMMA ServerStep == ServerInv /\ HttpServerNext => ServerInv'
BY AcceptKeepsArray, ConnectionStepKeeps, RemoveKeepsArray, FreeKeeps, DestroyerKeeps
   DEF HttpServerNext, Teardown

(* The other subjects leave the server alone. *)
LEMMA ServerStutter == ServerInv /\ UNCHANGED serverVars => ServerInv'
BY DEF serverVars, ServerInv, ServerTyped, ArraySound, Listed, TeardownSound, ExchangeSound

-----------------------------------------------------------------------------
(* The socket transport. *)

(* Who has the mutex, and what the two counters count.                     *)
TransportInv ==
    /\ sMutex \in {"free", "acceptor", "destroyer"}
    /\ acceptor \in {"idle", "accept", "handler", "stopped"}
    /\ ssDestroy \in {"no", "blocked", "woken", "fini", "gone"}
    /\ callingHandler = IF acceptor \in {"accept", "handler"} THEN 1 ELSE 0
    /\ waitingForHandlers = IF ssDestroy \in {"blocked", "woken"} THEN 1 ELSE 0
    /\ acceptor = "accept" <=> sMutex = "acceptor"
    /\ ssDestroy = "fini" <=> sMutex = "destroyer"
    /\ ssDestroy = "blocked" => callingHandler > 0
    /\ ssDestroy \in {"fini", "gone"} => callingHandler = 0
    /\ ssDestroy = "gone" => ~acceptorQueued

(* The invariant implies what is said about the transport. *)
LEMMA TransportInvSound == TransportInv => TransportSound
BY DEF TransportInv, TransportSound

(* The acceptor starts idle, with a run to come. *)
LEMMA TransportInvInit == TransportInit => TransportInv
BY DEF TransportInit, TransportInv

(* Each step of the acceptor and of ss_destroy keeps it. *)
LEMMA TransportStep == TransportInv /\ TransportNext => TransportInv'
<1> SUFFICES ASSUME TransportInv, TransportNext PROVE TransportInv'
  OBVIOUS
<1> USE DEF TransportInv
<1>1. CASE Connection
  BY <1>1 DEF Connection
<1>2. CASE AcceptBegins
  BY <1>2 DEF AcceptBegins
<1>3. CASE CallHandler
  BY <1>3 DEF CallHandler
<1>4. CASE HandlerReturns
  BY <1>4 DEF HandlerReturns
<1>5. CASE AcceptEnds
  BY <1>5 DEF AcceptEnds
<1>6. CASE DestroyTransport
  BY <1>6 DEF DestroyTransport
<1>7. CASE SpuriousWake
  BY <1>7 DEF SpuriousWake
<1>8. CASE WaitOver
  BY <1>8 DEF WaitOver
<1>9. CASE FreeTransport
  BY <1>9 DEF FreeTransport
<1> QED
  BY <1>1, <1>2, <1>3, <1>4, <1>5, <1>6, <1>7, <1>8, <1>9
  DEF TransportNext, Accepting, Destroying

(* The other subjects leave the transport alone. *)
LEMMA TransportStutter == TransportInv /\ UNCHANGED transportVars => TransportInv'
BY DEF transportVars, TransportInv

-----------------------------------------------------------------------------
(* The array of connections and the mutexes of the two servers stay sound  *)
(* for any number of connections: http_server_destroy never waits for a    *)
(* connection that was freed, the array is removed from as it should be,   *)
(* no exchange loses its connection but with the server, and ss_destroy    *)
(* does not finalize under a handler (http_server.c, socket_transport.c).  *)
THEOREM ServersStaySound == Spec => []ServersSound
<1> DEFINE Inv == ServerInv /\ TransportInv
<1>1. Init => Inv
  BY ServerInvInit, TransportInvInit DEF Init
<1>2. Inv /\ [Next]_vars => Inv'
  <2> SUFFICES ASSUME Inv, [Next]_vars PROVE Inv'
    OBVIOUS
  <2>1. CASE HttpServerNext /\ ServerAlone
    BY <2>1, ServerStep, TransportStutter DEF ServerAlone
  <2>2. CASE TransportNext /\ TransportAlone
    BY <2>2, TransportStep, ServerStutter DEF TransportAlone
  <2>3. CASE UNCHANGED <<serverVars, transportVars>>
    BY <2>3, ServerStutter, TransportStutter
  <2> QED
    BY <2>1, <2>2, <2>3 DEF Next, vars, Delim, ReaderAlone, WriterAlone, ApplicationAlone
<1>3. Inv => ServersSound
  BY ServerInvSound, TransportInvSound DEF ServersSound
<1> HIDE DEF Inv
<1> QED
  BY <1>1, <1>2, <1>3, PTL DEF Spec

-----------------------------------------------------------------------------
(* Delimited streams. *)

(* A place in what the writer sends: the number of the                     *)
(* stream, how much of it is before the place, how much of the chunk is    *)
(* after it, and whether it is in the middle of an intro.                  *)
Place == [s : Nat, v : Nat, left : Nat, intro : {"none", "chunk", "end"}]
PlaceAt(s, v, left, intro) == [s |-> s, v |-> v, left |-> left, intro |-> intro]
StartOf(s) == PlaceAt(s, 0, 0, "none")

IntroByte(part, n, end) == [intro |-> TRUE, part |-> part, n |-> n, end |-> end]
PayloadByte(s, v) == [intro |-> FALSE, stream |-> s, v |-> v]
Byte == {IntroByte(part, n, end) : part \in 1..2, n \in Nat, end \in BOOLEAN}
        \cup {PayloadByte(s, v) : s \in Nat, v \in Nat}

(* The byte x leads from one place to the next. *)
Leads(p, x, q) ==
    \/ /\ p.intro = "none" /\ p.left = 0
       /\ \E n \in Nat : /\ x = IntroByte(1, n, FALSE)
                         /\ q = PlaceAt(p.s, p.v, n, "chunk")
    \/ /\ p.intro = "none" /\ p.left = 0
       /\ x = IntroByte(1, 0, TRUE)
       /\ q = PlaceAt(p.s, p.v, 0, "end")
    \/ /\ p.intro = "chunk"
       /\ x = IntroByte(2, p.left, FALSE)
       /\ q = PlaceAt(p.s, p.v, p.left, "none")
    \/ /\ p.intro = "end"
       /\ x = IntroByte(2, 0, TRUE)
       /\ q = StartOf(p.s + 1)
    \/ /\ p.intro = "none" /\ p.left > 0
       /\ x = PayloadByte(p.s, p.v + 1)
       /\ q = PlaceAt(p.s, p.v + 1, p.left - 1, "none")

(* The places that the bytes lead through. *)
Path(bytes, path) ==
    /\ bytes \in Seq(Byte)
    /\ path \in [0..Len(bytes) -> Place]
    /\ \A n \in 1..Len(bytes) : Leads(path[n - 1], bytes[n], path[n])

(* More bytes lead further. *)
Joins(h, b, f, c, g) ==
    /\ Path(b \o c, h)
    /\ h[0] = f[0] /\ h[Len(b \o c)] = g[Len(c)]
    /\ \A n \in 0..Len(b \o c) : \/ \E m \in 0..Len(b) : h[n] = f[m]
                                 \/ \E m \in 0..Len(c) : h[n] = g[m]

LEMMA PathExtended ==
    ASSUME NEW b, NEW f, Path(b, f), NEW c, NEW g, Path(c, g), g[0] = f[Len(b)]
    PROVE  \E h : Joins(h, b, f, c, g)
<1> DEFINE k == Len(b)
           l == Len(c)
           h == [n \in 0..k + l |-> IF n <= k THEN f[n] ELSE g[n - k]]
<1>1. /\ k \in Nat /\ l \in Nat /\ f \in [0..k -> Place] /\ g \in [0..l -> Place]
      /\ b \in Seq(Byte) /\ c \in Seq(Byte)
  BY DEF Path
<1>2. /\ b \o c \in Seq(Byte) /\ Len(b \o c) = k + l
      /\ \A n \in 1..k + l : (b \o c)[n] = IF n <= k THEN b[n] ELSE c[n - k]
  BY <1>1, Concatenated
<1> HIDE DEF k, l
<1>3. ASSUME NEW n \in 0..k + l
      PROVE  /\ n <= k => n \in 0..k /\ h[n] = f[n]
             /\ ~(n <= k) => n - k \in 0..l /\ h[n] = g[n - k]
  BY <1>1
<1>4. h \in [0..k + l -> Place]
  <2>1. \A n \in 0..k + l : h[n] \in Place
    BY <1>1, <1>3
  <2> QED
    BY <2>1
<1>5. ASSUME NEW n \in 1..k + l PROVE Leads(h[n - 1], (b \o c)[n], h[n])
  <2>1. CASE n <= k
    <3>1. n \in 1..k /\ n - 1 \in 0..k + l /\ n - 1 <= k /\ n \in 0..k + l
      BY <1>1, <2>1
    <3>2. h[n - 1] = f[n - 1] /\ h[n] = f[n] /\ (b \o c)[n] = b[n]
      BY <1>2, <1>3, <2>1, <3>1
    <3> QED
      BY <3>1, <3>2 DEF Path, k
  <2>2. CASE ~(n <= k)
    <3>1. n - k \in 1..l /\ n - 1 \in 0..k + l /\ n \in 0..k + l /\ n - 1 - k = n - k - 1
      BY <1>1, <2>2
    <3>2. h[n] = g[n - k] /\ (b \o c)[n] = c[n - k]
      BY <1>2, <1>3, <2>2, <3>1
    <3>3. h[n - 1] = g[n - k - 1]
      <4>1. CASE n - 1 <= k
        <5>1. n - 1 = k /\ n - k - 1 = 0
          BY <1>1, <2>2, <4>1
        <5>2. h[n - 1] = f[k] /\ g[0] = f[k]
          BY <1>3, <3>1, <4>1, <5>1 DEF k
        <5> QED
          BY <5>1, <5>2
      <4>2. CASE ~(n - 1 <= k)
        BY <1>3, <3>1, <4>2
      <4> QED
        BY <4>1, <4>2
    <3>4. Leads(g[n - k - 1], c[n - k], g[n - k])
      BY <3>1 DEF Path, l
    <3> QED
      BY <3>2, <3>3, <3>4
  <2> QED
    BY <2>1, <2>2
<1>6. Path(b \o c, h)
  BY <1>2, <1>4, <1>5 DEF Path
<1>7. h[0] = f[0]
  BY <1>1
<1>8. h[k + l] = g[l]
  <2>1. CASE l = 0
    <3>1. k + l \in 0..k + l /\ k + l <= k /\ k + l = k
      BY <1>1, <2>1
    <3>2. h[k + l] = f[k] /\ g[0] = f[k]
      BY <1>3, <3>1 DEF k
    <3> QED
      BY <2>1, <3>2
  <2>2. CASE l # 0
    <3>1. k + l \in 0..k + l /\ ~(k + l <= k) /\ k + l - k = l
      BY <1>1, <2>2
    <3> DEFINE z == k + l
    <3>2. z \in 0..k + l /\ ~(z <= k) /\ z - k = l
      BY <1>1, <2>2
    <3>3. \A n \in 0..k + l : ~(n <= k) => h[n] = g[n - k]
      BY <1>3
    <3> HIDE DEF h, z
    <3>4. h[z] = g[z - k]
      BY <3>2, <3>3
    <3>5. h[z] = g[l]
      BY <3>2, <3>4
    <3> QED
      BY <3>5 DEF z
  <2> QED
    BY <2>1, <2>2
<1>9. \A n \in 0..k + l : \/ \E m \in 0..k : h[n] = f[m]
                          \/ \E m \in 0..l : h[n] = g[m]
  <2> HIDE DEF h
  <2> QED
    BY <1>3
<1> HIDE DEF h
<1> QED
  BY <1>2, <1>6, <1>7, <1>8, <1>9 DEF k, l, Joins

(* And the rest of the bytes lead from where the first ones have led to.   *)
RestOf(h, b, f, r) ==
    LET rest == SubSeq(b, r + 1, Len(b))
    IN  /\ Path(rest, h)
        /\ h[0] = f[r] /\ h[Len(rest)] = f[Len(b)]
        /\ \A n \in 0..Len(rest) : \E m \in 0..Len(b) : h[n] = f[m]

LEMMA PathRest ==
    ASSUME NEW b, NEW f, Path(b, f), NEW r \in 0..Len(b)
    PROVE  \E h : RestOf(h, b, f, r)
<1> DEFINE k == Len(b)
           rest == SubSeq(b, r + 1, k)
           h == [n \in 0..k - r |-> f[n + r]]
<1>1. k \in Nat /\ r \in Nat /\ r <= k /\ f \in [0..k -> Place] /\ b \in Seq(Byte)
  BY DEF Path
<1>2. /\ rest \in Seq(Byte) /\ Len(rest) = k - r
      /\ \A n \in 1..k - r : rest[n] = b[n + r]
  BY <1>1
<1> HIDE DEF rest
<1>3. \A n \in 0..k - r : n + r \in 0..k /\ h[n] = f[n + r]
  BY <1>1
<1>4. h \in [0..k - r -> Place]
  BY <1>1, <1>3
<1>5. ASSUME NEW n \in 1..k - r PROVE Leads(h[n - 1], rest[n], h[n])
  <2>1. n + r \in 1..k /\ n - 1 \in 0..k - r /\ n \in 0..k - r /\ n - 1 + r = n + r - 1
    BY <1>1
  <2>2. Leads(f[n + r - 1], b[n + r], f[n + r])
    BY <2>1 DEF Path
  <2> QED
    BY <1>2, <1>3, <2>1, <2>2
<1>6. Path(rest, h)
  BY <1>2, <1>4, <1>5 DEF Path
<1>7. h[0] = f[r] /\ h[k - r] = f[k]
  BY <1>1
<1>8. \A n \in 0..k - r : \E m \in 0..k : h[n] = f[m]
  BY <1>3
<1>9. Len(rest) = k - r
  BY <1>2
<1> HIDE DEF h
<1>10. \E g : /\ Path(rest, g)
              /\ g[0] = f[r] /\ g[Len(rest)] = f[k]
              /\ \A n \in 0..Len(rest) : \E m \in 0..k : g[n] = f[m]
  BY <1>6, <1>7, <1>8, <1>9
<1> QED
  BY <1>10 DEF rest, k, RestOf

(* A chunk that has begun is followed by its payload. *)
LEMMA PayloadRun ==
    ASSUME NEW b, NEW f, Path(b, f), NEW s \in Nat, NEW v \in Nat, NEW left \in Nat,
           f[0] = PlaceAt(s, v, left, "none"), NEW r \in 0..Len(b), r <= left
    PROVE  /\ \A n \in 0..r : f[n] = PlaceAt(s, v + n, left - n, "none")
           /\ \A n \in 1..r : b[n] = PayloadByte(s, v + n)
<1> DEFINE At(n) == PlaceAt(s, v + n, left - n, "none")
           Off == {n \in 0..r : f[n] # At(n)}
<1>1. r \in Nat /\ Len(b) \in Nat /\ r <= Len(b)
  BY DEF Path
<1>2. ASSUME NEW n \in 1..r, f[n - 1] = At(n - 1)
      PROVE  b[n] = PayloadByte(s, v + n) /\ f[n] = At(n)
  <2>1. /\ n \in 1..Len(b) /\ n \in Nat /\ left - (n - 1) > 0
        /\ v + (n - 1) + 1 = v + n /\ left - (n - 1) - 1 = left - n
    BY <1>1
  <2>2. Leads(f[n - 1], b[n], f[n])
    BY <2>1 DEF Path
  <2>3. f[n - 1].s = s /\ f[n - 1].v = v + (n - 1) /\ f[n - 1].left = left - (n - 1)
        /\ f[n - 1].intro = "none"
    BY <1>2 DEF PlaceAt
  <2> DEFINE p == f[n - 1]
  <2> HIDE DEF p, At
  <2>4. p.s = s /\ p.v = v + (n - 1) /\ p.left = left - (n - 1) /\ p.intro = "none" /\ p.left \in Nat \ {0}
    BY <2>1, <2>3 DEF p
  <2>5. Leads(p, b[n], f[n])
    BY <2>2 DEF p
  <2>6. /\ b[n] = PayloadByte(p.s, p.v + 1)
        /\ f[n] = PlaceAt(p.s, p.v + 1, p.left - 1, "none")
    BY <2>4, <2>5 DEF Leads
  <2> QED
    BY <2>1, <2>4, <2>6 DEF At
<1>3. \A n \in 0..r : f[n] = At(n)
  <2> SUFFICES ASSUME Off # {} PROVE FALSE
    OBVIOUS
  <2>1. Min(Off) \in Off /\ \A x \in Off : Min(Off) <= x
    <3>1. Off \in SUBSET Nat
      BY <1>1
    <3> HIDE DEF Off
    <3> QED
      BY <3>1, NatMinimum
  <2>2. PICK n \in Off : \A x \in Off : n <= x
    BY <2>1
  <2>3. n # 0
    <3>1. f[0] = At(0)
      <4>1. v + 0 = v /\ left - 0 = left
        OBVIOUS
      <4> QED
        BY <4>1
    <3> HIDE DEF At
    <3> QED
      BY <2>2, <3>1
  <2>4. n \in 1..r /\ n - 1 \in 0..r /\ ~(n <= n - 1)
    BY <1>1, <2>2, <2>3
  <2> HIDE DEF At
  <2>5. f[n - 1] = At(n - 1)
    BY <2>2, <2>4
  <2> QED
    BY <1>2, <2>2, <2>4, <2>5
<1>4. \A n \in 1..r : n - 1 \in 0..r
  BY <1>1
<1> HIDE DEF At
<1>5. \A n \in 1..r : b[n] = PayloadByte(s, v + n)
  BY <1>2, <1>3, <1>4
<1> QED
  BY <1>3, <1>5 DEF At

Written(t) == IF t \in 1..Len(sent) THEN sent[t] ELSE 0
Ending(t) == t < Len(sent) \/ (t = Len(sent) /\ writer.final)
Finished(t) == t < Len(sent) \/ (t = Len(sent) /\ writer.at = "closed")

(* Where the writer is, that is, where the last byte it has put leads to.  *)
Frontier ==
    LET s == Len(sent) IN
    IF writer.at = "closed" THEN StartOf(s + 1)
    ELSE PlaceAt(s, sent[s], IF writer.final \/ writer.state = 0 THEN 0 ELSE writer.left,
                 IF writer.state # 1 THEN "none" ELSE IF writer.final THEN "end" ELSE "chunk")

(* The writer may have been at p: not further than it is, and where it     *)
(* ends a stream all of the stream is before p.                            *)
Passed(p) ==
    /\ 1 <= p.s /\ p.s <= Frontier.s /\ p.v <= Written(p.s)
    /\ p.intro = "end" => p.v = Written(p.s) /\ Ending(p.s)

(* The reader is at p. *)
ReaderAt(p) ==
    IF reader.ended THEN p = StartOf(Len(got) + 1)
    ELSE /\ p.s = Len(got) /\ p.v = Len(got[Len(got)])
         /\ reader.state = 0 => p.left = 0 /\ p.intro = "none"
         /\ reader.state = 1 => p.intro # "none"
         /\ reader.state = 2 => p.left = reader.left /\ p.intro = "none"

WriterTyped ==
    /\ sent \in Seq(Nat) /\ Len(sent) > 0
    /\ writer.state \in 0..2 /\ writer.left \in Nat /\ writer.len \in Nat
    /\ writer.final \in BOOLEAN
    /\ writer = [state |-> writer.state, final |-> writer.final, left |-> writer.left,
                 at |-> writer.at, len |-> writer.len]
    /\ writer.at \in {"idle", "write", "close", "closed", "aborted"}
    /\ writer.at = "write" => ~writer.final
    /\ writer.at = "close" => writer.final /\ writer.state < 2
    /\ writer.at = "closed" <=> writer.final /\ writer.state = 2

ReaderTyped ==
    /\ got \in Seq(Seq(Byte)) /\ Len(got) > 0
    /\ reader.state \in 0..2 /\ reader.left \in Nat /\ reader.len \in Nat
    /\ reader.ended \in BOOLEAN /\ reader.last = FALSE
    /\ reader = [state |-> reader.state, ended |-> reader.ended, left |-> reader.left,
                 last |-> reader.last, at |-> reader.at, len |-> reader.len]
    /\ reader.ended => reader.at = "told"

(* What the reader was given. *)
Given ==
    \A t \in 1..Len(got) :
        /\ got[t] = Bytes(t, 0, Len(got[t])) /\ Len(got[t]) <= Written(t)
        /\ t < Len(got) \/ reader.ended => Len(got[t]) = Written(t) /\ Finished(t)

(* The bytes in the pipe lead from the reader to the writer. *)
Between(f) ==
    /\ Path(pipe, f) /\ ReaderAt(f[0]) /\ f[Len(pipe)] = Frontier
    /\ \A n \in 0..Len(pipe) : Passed(f[n])

DelimInv == WriterTyped /\ ReaderTyped /\ Given /\ \E f : Between(f)

(* The payload that a writer writes. *)
LEMMA BytesMade ==
    ASSUME NEW s \in Nat, NEW from \in Nat, NEW n \in Nat
    PROVE  /\ Bytes(s, from, n) \in Seq(Byte) /\ Len(Bytes(s, from, n)) = n
           /\ \A k \in 1..n : Bytes(s, from, n)[k] = PayloadByte(s, from + k)
<1>1. \A k \in 1..n : PayloadByte(s, from + k) \in Byte
  <2>1. \A k \in 1..n : from + k \in Nat
    OBVIOUS
  <2>2. \A v \in Nat : PayloadByte(s, v) \in Byte
    BY DEF Byte
  <2> QED
    BY <2>1, <2>2
<1>2. Bytes(s, from, n) = [k \in 1..n |-> PayloadByte(s, from + k)]
  BY DEF Bytes, PayloadByte
<1> QED
  BY <1>1, <1>2

LEMMA DelimInvSound == DelimInv => StreamsDelimited
<1> SUFFICES ASSUME DelimInv PROVE StreamsDelimited
  OBVIOUS
<1>1. PICK f : Between(f)
  BY DEF DelimInv
<1>2. /\ sent \in Seq(Nat) /\ Len(sent) \in Nat /\ got \in Seq(Seq(Byte)) /\ Len(got) \in Nat
      /\ DOMAIN sent = 1..Len(sent) /\ DOMAIN got = 1..Len(got)
  BY DEF DelimInv, WriterTyped, ReaderTyped
<1>3. Len(got) <= Len(sent) + 1
  <2>1. Len(pipe) \in Nat /\ f[0] \in Place
    BY <1>1 DEF Between, Path
  <2>2. Passed(f[0]) /\ ReaderAt(f[0])
    BY <1>1, <2>1 DEF Between
  <2>3. f[0].s <= Frontier.s /\ Len(got) <= f[0].s /\ f[0].s \in Nat
    BY <1>2, <2>1, <2>2 DEF Passed, ReaderAt, StartOf, PlaceAt, Place
  <2>4. Frontier.s \in {Len(sent), Len(sent) + 1}
    BY DEF Frontier, StartOf, PlaceAt
  <2> QED
    BY <1>2, <2>3, <2>4
<1>4. ASSUME NEW s \in 1..Len(got)
      PROVE  /\ IsPrefix(got[s], Bytes(s, 0, Written(s)))
             /\ s < Len(got) \/ reader.ended
                   => Len(got[s]) = Written(s) /\ (s < Len(sent) \/ writer.at = "closed")
  <2>1. /\ got[s] = Bytes(s, 0, Len(got[s])) /\ Len(got[s]) <= Written(s)
        /\ s < Len(got) \/ reader.ended => Len(got[s]) = Written(s) /\ Finished(s)
    BY DEF DelimInv, Given
  <2> DEFINE l == Len(got[s])
             w == Written(s)
             b == Bytes(s, 0, w)
  <2>2. l \in Nat /\ w \in Nat /\ l <= w /\ s \in Nat
    BY <1>2, <2>1 DEF Written
  <2>3. b \in Seq(Byte) /\ Len(b) = w /\ \A n \in 1..w : b[n] = PayloadByte(s, 0 + n)
    BY <2>2, BytesMade
  <2>4. \A n \in 1..l : got[s][n] = b[n]
    <3>1. \A n \in 1..l : got[s][n] = PayloadByte(s, 0 + n)
      <4>1. got[s] = Bytes(s, 0, l)
        BY <2>1
      <4> HIDE DEF l
      <4>2. \A n \in 1..l : Bytes(s, 0, l)[n] = PayloadByte(s, 0 + n)
        BY <2>2, BytesMade
      <4> QED
        BY <4>1, <4>2
    <3>2. \A n \in 1..l : n \in 1..w
      BY <2>2
    <3> HIDE DEF b, w, l
    <3> QED
      BY <2>3, <3>1, <3>2
  <2>5. got[s] \in Seq(Byte) /\ l = Len(got[s])
    BY <1>2
  <2> HIDE DEF b, w
  <2>6. /\ SubSeq(got[s], 1, l) \in Seq(Byte) /\ Len(SubSeq(got[s], 1, l)) = l
        /\ \A n \in 1..l : SubSeq(got[s], 1, l)[n] = got[s][n]
    BY <2>2, <2>5
  <2>7. /\ SubSeq(b, 1, l) \in Seq(Byte) /\ Len(SubSeq(b, 1, l)) = l
        /\ \A n \in 1..l : SubSeq(b, 1, l)[n] = b[n]
    BY <2>2, <2>3
  <2>8. SubSeq(got[s], 1, l) = SubSeq(b, 1, l)
    BY <2>4, <2>6, <2>7
  <2>9. IsPrefix(got[s], b)
    BY <2>2, <2>3, <2>8 DEF IsPrefix
  <2> QED
    BY <2>1, <2>9 DEF b, w, Finished
<1> QED
  BY <1>2, <1>3, <1>4 DEF StreamsDelimited, Written

LEMMA DelimInvInit == DelimInit => DelimInv
<1> SUFFICES ASSUME DelimInit PROVE DelimInv
  OBVIOUS
<1>1. /\ writer.state = 0 /\ ~writer.final /\ writer.left = 0 /\ writer.len = 0 /\ writer.at = "idle"
      /\ reader.state = 0 /\ ~reader.ended /\ reader.left = 0 /\ reader.len = 0
      /\ reader.last = FALSE
  BY DEF DelimInit, NewWriter, NewReader
<1>2. sent \in Seq(Nat) /\ Len(sent) = 1 /\ sent[1] = 0
  BY DEF DelimInit
<1>3. got \in Seq(Seq(Byte)) /\ Len(got) = 1 /\ got[1] = << >> /\ Len(got[1]) = 0
  BY DEF DelimInit
<1>4. pipe \in Seq(Byte) /\ Len(pipe) = 0
  BY DEF DelimInit
<1>5. WriterTyped
  BY <1>1, <1>2 DEF DelimInit, NewWriter, WriterTyped
<1>6. ReaderTyped
  BY <1>1, <1>3 DEF DelimInit, NewReader, ReaderTyped
<1>7. Frontier = StartOf(1)
  BY <1>1, <1>2 DEF Frontier, StartOf
<1>8. Given
  <2>1. << >> = Bytes(1, 0, 0)
    BY DEF Bytes
  <2> QED
    BY <1>1, <1>2, <1>3, <2>1 DEF Given, Written
<1> DEFINE f == [n \in 0..0 |-> StartOf(1)]
<1>9. Path(pipe, f)
  BY <1>4 DEF Path, StartOf, PlaceAt, Place
<1>10. f[0] = StartOf(1)
  OBVIOUS
<1> HIDE DEF f
<1>11. Between(f)
  <2>1. Passed(StartOf(1))
    BY <1>2, <1>7 DEF Passed, StartOf, PlaceAt, Written
  <2>2. ReaderAt(StartOf(1))
    BY <1>1, <1>3 DEF ReaderAt, StartOf, PlaceAt
  <2>3. \A n \in 0..0 : n = 0
    OBVIOUS
  <2> QED
    BY <1>4, <1>7, <1>9, <1>10, <2>1, <2>2, <2>3 DEF Between
<1> QED
  BY <1>5, <1>6, <1>8, <1>11 DEF DelimInv

(* A step of the writer takes nothing back: what it has passed it has      *)
(* passed, and a stream that is ending or has ended grows no more.         *)
Onward ==
    /\ Frontier.s <= Frontier'.s
    /\ \A t \in Nat :
          /\ Written(t) <= Written(t)'
          /\ Ending(t) => Ending(t)' /\ Written(t)' = Written(t)
          /\ Finished(t) => Finished(t)'

(* The writer puts the bytes c, or none, and goes to where they lead.      *)
LEMMA WriterMoves ==
    ASSUME DelimInv, WriterTyped', UNCHANGED <<reader, got>>, Onward,
           NEW c, NEW g, Path(c, g), pipe' = pipe \o c,
           g[0] = Frontier, g[Len(c)] = Frontier',
           \A n \in 0..Len(c) : Passed(g[n])'
    PROVE  DelimInv'
<1>1. PICK f : Between(f)
  BY DEF DelimInv
<1>2. /\ Path(pipe, f) /\ g[0] = f[Len(pipe)]
      /\ \A m \in 0..Len(pipe) : f[m] \in Place /\ Passed(f[m])
  <2>1. Path(pipe, f) /\ f[Len(pipe)] = Frontier /\ \A m \in 0..Len(pipe) : Passed(f[m])
    BY <1>1 DEF Between
  <2>2. \A m \in 0..Len(pipe) : f[m] \in Place
    BY <2>1 DEF Path
  <2> QED
    BY <2>1, <2>2
<1>3. PICK h : Joins(h, pipe, f, c, g)
  BY <1>2, PathExtended
<1>4. /\ sent \in Seq(Nat) /\ Len(sent) \in Nat /\ sent' \in Seq(Nat) /\ Len(sent') \in Nat
      /\ \A t \in Nat : Written(t) \in Nat /\ Written(t)' \in Nat
  <2>1. sent \in Seq(Nat) /\ Len(sent) \in Nat /\ sent' \in Seq(Nat) /\ Len(sent') \in Nat
    BY DEF DelimInv, WriterTyped
  <2> QED
    BY <2>1 DEF Written
<1>5. Frontier.s \in Nat /\ Frontier'.s \in Nat
  <2>1. Len(c) \in Nat /\ g \in [0..Len(c) -> Place]
    BY DEF Path
  <2>2. 0 \in 0..Len(c) /\ Len(c) \in 0..Len(c)
    BY <2>1
  <2>3. Frontier \in Place /\ Frontier' \in Place
    BY <2>1, <2>2
  <2> QED
    BY <2>3 DEF Place
<1>6. ASSUME NEW p \in Place, Passed(p) PROVE Passed(p)'
  <2>1. /\ Frontier.s <= Frontier'.s /\ Written(p.s) <= Written(p.s)'
        /\ Ending(p.s) => Ending(p.s)' /\ Written(p.s)' = Written(p.s)
        /\ p.s \in Nat /\ p.v \in Nat
    BY DEF Onward, Place
  <2>2. Written(p.s) \in Nat /\ Written(p.s)' \in Nat
    BY <1>4, <2>1
  <2>3. 1 <= p.s /\ p.s <= Frontier'.s /\ p.v <= Written(p.s)'
    BY <1>5, <1>6, <2>1, <2>2 DEF Passed
  <2>4. p.intro = "end" => p.v = Written(p.s)' /\ Ending(p.s)'
    BY <1>6, <2>1 DEF Passed
  <2> QED
    BY <2>3, <2>4 DEF Passed
<1>7. \A n \in 0..Len(pipe') : Passed(h[n])'
  <2>1. \A m \in 0..Len(pipe) : Passed(f[m])'
    BY <1>2, <1>6
  <2>2. \A n \in 0..Len(pipe') : \/ \E m \in 0..Len(pipe) : h[n] = f[m]
                                 \/ \E m \in 0..Len(c) : h[n] = g[m]
    BY <1>3 DEF Joins
  <2> QED
    BY <2>1, <2>2
<1>8. ReaderAt(h[0])'
  BY <1>1, <1>3 DEF Between, ReaderAt, Joins
<1>9. Between(h)'
  <2>1. Path(pipe', h) /\ h[Len(pipe')] = Frontier'
    BY <1>3 DEF Joins
  <2> QED
    BY <1>7, <1>8, <2>1 DEF Between
<1>10. Given'
  <2> SUFFICES ASSUME NEW t \in 1..Len(got)
               PROVE  /\ got[t] = Bytes(t, 0, Len(got[t])) /\ Len(got[t]) <= Written(t)'
                      /\ t < Len(got) \/ reader.ended
                            => Len(got[t]) = Written(t)' /\ Finished(t)'
    BY DEF Given
  <2>1. /\ got[t] = Bytes(t, 0, Len(got[t])) /\ Len(got[t]) <= Written(t)
        /\ t < Len(got) \/ reader.ended => Len(got[t]) = Written(t) /\ Finished(t)
    BY DEF DelimInv, Given
  <2>2. t \in Nat /\ Len(got[t]) \in Nat
    BY DEF DelimInv, ReaderTyped
  <2>3. Finished(t) => Ending(t)
    BY DEF Finished, Ending, DelimInv, WriterTyped
  <2>4. /\ Written(t) <= Written(t)' /\ Written(t) \in Nat /\ Written(t)' \in Nat
        /\ Ending(t) => Written(t)' = Written(t)
        /\ Finished(t) => Finished(t)'
    BY <1>4, <2>2 DEF Onward
  <2>5. Len(got[t]) <= Written(t)'
    BY <2>1, <2>2, <2>4
  <2> QED
    BY <2>1, <2>3, <2>4, <2>5
<1>11. ReaderTyped'
  BY DEF DelimInv, ReaderTyped
<1> QED
  BY <1>9, <1>10, <1>11 DEF DelimInv

(* A step of the writer that puts nothing. *)
LEMMA WriterStays ==
    ASSUME DelimInv, WriterTyped', UNCHANGED <<reader, got>>, Onward,
           pipe' = pipe, Frontier' = Frontier
    PROVE  DelimInv'
<1>1. PICK f : Between(f)
  BY DEF DelimInv
<1>2. pipe \in Seq(Byte) /\ Frontier \in Place /\ Passed(Frontier)
  <2>1. Path(pipe, f) /\ f[Len(pipe)] = Frontier /\ \A m \in 0..Len(pipe) : Passed(f[m])
    BY <1>1 DEF Between
  <2>2. pipe \in Seq(Byte) /\ Len(pipe) \in 0..Len(pipe) /\ f[Len(pipe)] \in Place
    BY <2>1 DEF Path
  <2> QED
    BY <2>1, <2>2
<1> DEFINE none == << >>
<1>3. PICK g : g = [n \in 0..0 |-> Frontier]
  OBVIOUS
<1>4. pipe' = pipe \o none /\ Len(none) = 0 /\ Path(none, g)
  BY <1>2, <1>3 DEF Path
<1>5. \A n \in 0..0 : n = 0 /\ g[n] = Frontier
  BY <1>3
<1> HIDE DEF none
<1>6. g[0] = Frontier /\ g[Len(none)] = Frontier'
  BY <1>4, <1>5
<1>7. Passed(Frontier)'
  <2>1. Frontier.s \in Nat /\ Frontier.v \in Nat
    BY <1>2 DEF Place
  <2>2. /\ Written(Frontier.s) <= Written(Frontier.s)'
        /\ Ending(Frontier.s) => Ending(Frontier.s)' /\ Written(Frontier.s)' = Written(Frontier.s)
    BY <2>1 DEF Onward
  <2>3. \A t \in Nat : Written(t) \in Nat /\ Written(t)' \in Nat
    BY DEF DelimInv, WriterTyped, Written
  <2>4. Written(Frontier.s) \in Nat /\ Written(Frontier.s)' \in Nat
    BY <2>1, <2>3
  <2> QED
    BY <1>2, <2>1, <2>2, <2>4 DEF Passed
<1>8. \A n \in 0..Len(none) : Passed(g[n])'
  <2>1. \A n \in 0..0 : g[n] = Frontier'
    BY <1>5
  <2> QED
    BY <1>4, <1>7, <2>1
<1> QED
  BY <1>4, <1>6, <1>8, WriterMoves

LEMMA FrontierStream ==
    /\ Frontier.s = IF writer.at = "closed" THEN Len(sent) + 1 ELSE Len(sent)
    /\ Frontier'.s = IF writer'.at = "closed" THEN Len(sent') + 1 ELSE Len(sent')
BY DEF Frontier, StartOf, PlaceAt

(* Within a stream, what is final stays final. *)
LEMMA StreamGoesOn ==
    ASSUME DelimInv, WriterTyped', sent' = sent, writer.final => writer'.final,
           writer.at = "closed" => writer'.at = "closed"
    PROVE  Onward
<1>1. sent \in Seq(Nat) /\ Len(sent) \in Nat
  BY DEF DelimInv, WriterTyped
<1>2. \A t \in Nat : Written(t)' = Written(t) /\ Written(t) \in Nat
  BY <1>1 DEF Written
<1>3. Frontier.s <= Frontier'.s
  <2>1. CASE writer.at = "closed"
    <3>1. Frontier.s = Len(sent) + 1 /\ Frontier'.s = Len(sent) + 1
      BY <2>1, FrontierStream
    <3> QED
      BY <1>1, <3>1
  <2>2. CASE writer.at # "closed"
    <3>1. Frontier.s = Len(sent) /\ Frontier'.s \in {Len(sent), Len(sent) + 1}
      BY <2>2, FrontierStream
    <3> QED
      BY <1>1, <3>1
  <2> QED
    BY <2>1, <2>2
<1> QED
  BY <1>1, <1>2, <1>3 DEF Onward, Ending, Finished

LEMMA WriteCallKeeps == DelimInv /\ WriteCall /\ UNCHANGED <<reader, got>> => DelimInv'
<1> SUFFICES ASSUME DelimInv, WriteCall, UNCHANGED <<reader, got>> PROVE DelimInv'
  OBVIOUS
<1>1. PICK len \in Nat : writer' = [writer EXCEPT !.at = "write", !.len = len]
  <2>1. PICK len \in 0..Least(MaxLen, MaxBytes - sent[Len(sent)]) :
           writer' = [writer EXCEPT !.at = "write", !.len = len]
    BY DEF WriteCall
  <2>2. len \in Nat
    OBVIOUS
  <2> QED
    BY <2>1, <2>2
<1>2. WriterTyped /\ writer.at = "idle" /\ ~writer.final /\ sent' = sent /\ pipe' = pipe
  BY DEF DelimInv, WriteCall
<1>3. /\ writer'.at = "write" /\ writer'.len = len /\ writer'.state = writer.state
      /\ writer'.final = writer.final /\ writer'.left = writer.left
  BY <1>1, <1>2 DEF WriterTyped
<1>4. WriterTyped'
  BY <1>1, <1>2, <1>3 DEF WriterTyped
<1>5. Frontier' = Frontier
  BY <1>2, <1>3 DEF Frontier
<1>6. Onward
  BY <1>2, <1>3, <1>4, StreamGoesOn
<1> QED
  BY <1>2, <1>4, <1>5, <1>6, WriterStays

LEMMA CloseCallKeeps == DelimInv /\ CloseCall /\ UNCHANGED <<reader, got>> => DelimInv'
<1> SUFFICES ASSUME DelimInv, CloseCall, UNCHANGED <<reader, got>> PROVE DelimInv'
  OBVIOUS
<1>1. WriterTyped /\ writer.at = "idle" /\ sent' = sent /\ pipe' = pipe
  BY DEF DelimInv, CloseCall
<1>2. /\ writer'.at = IF writer.final \/ writer.state = 0 THEN "close" ELSE "aborted"
      /\ writer'.final <=> writer.final \/ writer.state = 0
      /\ writer'.len = writer.len /\ writer'.state = writer.state /\ writer'.left = writer.left
      /\ writer' = [state |-> writer'.state, final |-> writer'.final, left |-> writer'.left,
                    at |-> writer'.at, len |-> writer'.len]
      /\ writer'.final \in BOOLEAN
  BY <1>1 DEF WriterTyped, CloseCall
<1>4. WriterTyped'
  BY <1>1, <1>2 DEF WriterTyped
<1>5. Frontier' = Frontier
  BY <1>1, <1>2 DEF Frontier, WriterTyped
<1>6. Onward
  BY <1>1, <1>2, <1>4, StreamGoesOn
<1> QED
  BY <1>1, <1>4, <1>5, <1>6, WriterStays

LEMMA NextWriterKeeps == DelimInv /\ NextWriter /\ UNCHANGED <<reader, got>> => DelimInv'
<1> SUFFICES ASSUME DelimInv, NextWriter, UNCHANGED <<reader, got>> PROVE DelimInv'
  OBVIOUS
<1>1. /\ writer.at = "closed" /\ writer' = NewWriter /\ pipe' = pipe
      /\ sent' = Append(sent, 0) /\ sent \in Seq(Nat) /\ Len(sent) \in Nat
  BY DEF DelimInv, WriterTyped, NextWriter
<1>2. /\ sent' \in Seq(Nat) /\ Len(sent') = Len(sent) + 1 /\ sent'[Len(sent) + 1] = 0
      /\ \A t \in 1..Len(sent) : sent'[t] = sent[t]
  BY <1>1
<1>3. WriterTyped'
  BY <1>1, <1>2 DEF WriterTyped, NewWriter
<1>4. Frontier = StartOf(Len(sent) + 1)
  BY <1>1 DEF Frontier
<1>5. Frontier' = StartOf(Len(sent) + 1)
  BY <1>1, <1>2 DEF Frontier, NewWriter, StartOf
<1>6. ASSUME NEW t \in Nat
      PROVE  /\ Written(t) <= Written(t)'
             /\ Ending(t) => Ending(t)' /\ Written(t)' = Written(t)
             /\ Finished(t) => Finished(t)'
  <2>1. t \in 1..Len(sent') <=> t \in 1..Len(sent) \/ t = Len(sent) + 1
    BY <1>1, <1>2
  <2>2. Written(t)' = Written(t) /\ Written(t) \in Nat
    BY <1>1, <1>2, <2>1 DEF Written
  <2>3. t = Len(sent) \/ t < Len(sent) => t < Len(sent')
    BY <1>1, <1>2
  <2> QED
    BY <2>2, <2>3 DEF Ending, Finished
<1>7. Onward
  <2>1. Frontier.s <= Frontier'.s
    BY <1>1, <1>4, <1>5 DEF StartOf, PlaceAt
  <2> QED
    BY <1>6, <2>1 DEF Onward
<1> QED
  BY <1>1, <1>3, <1>4, <1>5, <1>7, WriterStays

-----------------------------------------------------------------------------
LEMMA MayWriteWhat ==
    ASSUME NEW bytes \in Seq(Byte), NEW r \in MayWrite(bytes), pipe \in Seq(Byte)
    PROVE  \/ r = Waiting /\ Len(bytes) > 0
           \/ r = 0 /\ Len(bytes) = 0
           \/ r \in 1..Len(bytes)
<1>1. Len(bytes) \in Nat /\ Len(pipe) \in Nat /\ PipeSize \in Nat
  BY DelimAssumption
<1>2. bytes = << >> <=> Len(bytes) = 0
  OBVIOUS
<1> QED
  BY <1>1, <1>2 DEF MayWrite, Least

(* The places in an intro. *)
InIntro(s, v, n, end, j) ==
    IF j = 0 THEN PlaceAt(s, v, 0, "none")
    ELSE IF j = 1 THEN PlaceAt(s, v, n, IF end THEN "end" ELSE "chunk")
    ELSE IF end THEN StartOf(s + 1) ELSE PlaceAt(s, v, n, "none")

IntroLeads(s, v, n, end, from, r) ==
    LET rest == SubSeq(Intro(n, end), from + 1, 2)
        c == SubSeq(rest, 1, r)
    IN  /\ rest \in Seq(Byte) /\ Len(rest) = 2 - from
        /\ Len(c) = r /\ Path(c, [k \in 0..r |-> InIntro(s, v, n, end, from + k)])

LEMMA IntroPath ==
    ASSUME NEW s \in Nat, NEW v \in Nat, NEW n \in Nat, NEW end \in BOOLEAN, end => n = 0,
           NEW from \in 0..1, NEW r \in 1..2 - from
    PROVE  IntroLeads(s, v, n, end, from, r)
<1> DEFINE i == Intro(n, end)
           rest == SubSeq(i, from + 1, 2)
           c == SubSeq(rest, 1, r)
           g == [k \in 0..r |-> InIntro(s, v, n, end, from + k)]
<1>1. i \in Seq(Byte) /\ Len(i) = 2 /\ \A k \in 1..2 : i[k] = IntroByte(k, n, end)
  <2>1. \A k \in 1..2 : IntroByte(k, n, end) \in Byte
    BY DEF Byte
  <2>2. i = [k \in 1..2 |-> IntroByte(k, n, end)]
    BY DEF Intro, IntroByte
  <2> QED
    BY <2>1, <2>2
<1> HIDE DEF i
<1>2. /\ rest \in Seq(Byte) /\ Len(rest) = 2 - from
      /\ \A k \in 1..2 - from : rest[k] = IntroByte(from + k, n, end)
  <2>1. from + 1 \in Int /\ 2 \in Int /\ \A j \in from + 1 .. 2 : j \in 1..2 /\ i[j] \in Byte
    BY <1>1
  <2>2. /\ rest \in Seq(Byte) /\ Len(rest) = IF from + 1 <= 2 THEN 2 - (from + 1) + 1 ELSE 0
        /\ \A k \in 1 .. 2 - (from + 1) + 1 : rest[k] = i[from + 1 + k - 1]
    BY <2>1, SubSeqProperties
  <2>3. /\ from + 1 <= 2 /\ 2 - (from + 1) + 1 = 2 - from
        /\ \A k \in 1..2 - from : from + 1 + k - 1 = from + k /\ from + k \in 1..2
    OBVIOUS
  <2> HIDE DEF rest
  <2> QED
    BY <1>1, <2>2, <2>3
<1> HIDE DEF rest
<1>3. /\ c \in Seq(Byte) /\ Len(c) = r
      /\ \A k \in 1..r : c[k] = IntroByte(from + k, n, end)
  BY <1>2
<1> HIDE DEF c
<1>4. \A k \in 0..r : InIntro(s, v, n, end, from + k) \in Place
  BY DEF InIntro, StartOf, PlaceAt, Place
<1>5. g \in [0..r -> Place] /\ \A k \in 0..r : g[k] = InIntro(s, v, n, end, from + k)
  BY <1>4
<1> HIDE DEF g
<1>6. ASSUME NEW k \in 1..r PROVE Leads(g[k - 1], c[k], g[k])
  <2>1. /\ g[k - 1] = InIntro(s, v, n, end, from + k - 1)
        /\ g[k] = InIntro(s, v, n, end, from + k) /\ c[k] = IntroByte(from + k, n, end)
    <3>1. k - 1 \in 0..r /\ k \in 0..r /\ from + (k - 1) = from + k - 1
      OBVIOUS
    <3> QED
      BY <1>3, <1>5, <3>1
  <2>2. CASE from + k = 1
    <3>1. /\ g[k - 1] = PlaceAt(s, v, 0, "none") /\ c[k] = IntroByte(1, n, end)
          /\ g[k] = PlaceAt(s, v, n, IF end THEN "end" ELSE "chunk")
      BY <2>1, <2>2 DEF InIntro
    <3>2. CASE end = TRUE
      <4>1. n = 0 /\ c[k] = IntroByte(1, 0, TRUE) /\ g[k] = PlaceAt(s, v, 0, "end")
        BY <3>1, <3>2
      <4>2. g[k - 1].intro = "none" /\ g[k - 1].left = 0 /\ g[k - 1].s = s /\ g[k - 1].v = v
        BY <3>1 DEF PlaceAt
      <4> QED
        BY <4>1, <4>2 DEF Leads
    <3>3. CASE end = FALSE
      <4>1. c[k] = IntroByte(1, n, FALSE) /\ g[k] = PlaceAt(s, v, n, "chunk")
        BY <3>1, <3>3
      <4>2. g[k - 1].intro = "none" /\ g[k - 1].left = 0 /\ g[k - 1].s = s /\ g[k - 1].v = v
        BY <3>1 DEF PlaceAt
      <4> QED
        BY <4>1, <4>2 DEF Leads
    <3> QED
      BY <3>2, <3>3
  <2>3. CASE from + k = 2
    <3>1. /\ g[k - 1] = PlaceAt(s, v, n, IF end THEN "end" ELSE "chunk")
          /\ c[k] = IntroByte(2, n, end)
          /\ g[k] = IF end THEN StartOf(s + 1) ELSE PlaceAt(s, v, n, "none")
      BY <2>1, <2>3 DEF InIntro
    <3>2. CASE end = TRUE
      <4>1. /\ g[k - 1] = PlaceAt(s, v, 0, "end") /\ c[k] = IntroByte(2, 0, TRUE)
            /\ g[k] = StartOf(s + 1)
        BY <3>1, <3>2
      <4> QED
        BY <4>1 DEF Leads, PlaceAt
    <3>3. CASE end = FALSE
      <4>1. /\ g[k - 1] = PlaceAt(s, v, n, "chunk") /\ c[k] = IntroByte(2, n, FALSE)
            /\ g[k] = PlaceAt(s, v, n, "none")
        BY <3>1, <3>3
      <4> QED
        BY <4>1 DEF Leads, PlaceAt
    <3> QED
      BY <3>2, <3>3
  <2> QED
    BY <2>2, <2>3
<1>7. Path(c, g)
  BY <1>3, <1>5, <1>6 DEF Path
<1> QED
  BY <1>2, <1>3, <1>7 DEF i, rest, c, g, IntroLeads

LEMMA WriteIntroKeeps == DelimInv /\ WriteIntro /\ UNCHANGED <<reader, got>> => DelimInv'
<1> SUFFICES ASSUME DelimInv, WriteIntro, UNCHANGED <<reader, got>> PROVE DelimInv'
  OBVIOUS
<1>1. /\ writer.at = "write" /\ writer.state \in 0..1 /\ ~writer.final /\ writer.left \in Nat
      /\ writer.len \in Nat /\ sent' = sent /\ sent \in Seq(Nat) /\ Len(sent) \in Nat \ {0}
      /\ sent[Len(sent)] \in Nat
  BY DEF DelimInv, WriterTyped, WriteIntro, Payload
<1> DEFINE s == Len(sent)
           v == sent[s]
           from == writer.state
           n == IF writer.state = 0 THEN Least(writer.len, MaxChunk) ELSE writer.left
           rest == SubSeq(Intro(n, FALSE), writer.state + 1, 2)
           State(r) == IF r > 0 THEN writer.state + r ELSE writer.state
<1>2. PICK r \in MayWrite(rest) :
         /\ Put(rest, r)
         /\ writer' = [writer EXCEPT !.left = n, !.state = State(r),
                                     !.at = IF State(r) = Payload THEN "write" ELSE "idle"]
  BY DEF WriteIntro
<1>3. n \in Nat
  BY <1>1, DelimAssumption DEF Least
<1> HIDE DEF n
<1>4. ASSUME NEW m \in 1..2 - from PROVE IntroLeads(s, v, n, FALSE, from, m)
  <2>1. FALSE \in BOOLEAN /\ (FALSE => n = 0)
    OBVIOUS
  <2>2. s \in Nat /\ v \in Nat /\ from \in 0..1
    BY <1>1
  <2> HIDE DEF s, v, from
  <2> QED
    BY <1>3, <2>1, <2>2, IntroPath
<1>5. rest \in Seq(Byte) /\ Len(rest) = 2 - from
  <2>1. 1 \in 1..2 - from
    BY <1>1
  <2> QED
    BY <1>4, <2>1 DEF IntroLeads
<1>6. r = Waiting \/ r \in 1..2 - from
  <2>1. pipe \in Seq(Byte)
    BY DEF DelimInv, Between, Path
  <2> HIDE DEF rest
  <2> QED
    BY <1>1, <1>5, <2>1, MayWriteWhat
<1> HIDE DEF rest
<1>7. /\ writer'.left = n /\ writer'.state = State(r) /\ writer'.len = writer.len
      /\ writer'.final = writer.final
      /\ writer'.at = IF State(r) = Payload THEN "write" ELSE "idle"
      /\ writer' = [state |-> writer'.state, final |-> writer'.final, left |-> writer'.left,
                    at |-> writer'.at, len |-> writer'.len]
  BY <1>2 DEF DelimInv, WriterTyped
<1>8. WriterTyped'
  <2>1. State(r) \in 0..2
    BY <1>1, <1>6 DEF Waiting
  <2> HIDE DEF State
  <2>2. writer'.final \in BOOLEAN /\ ~writer'.final
    BY <1>1, <1>7 DEF DelimInv, WriterTyped
  <2> QED
    BY <1>1, <1>3, <1>7, <2>1, <2>2 DEF WriterTyped
<1>9. Onward
  BY <1>1, <1>7, <1>8, StreamGoesOn
<1>10. CASE r = Waiting
  <2>1. pipe' = pipe /\ State(r) = writer.state
    BY <1>2, <1>10 DEF Put, Waiting
  <2>2. Frontier' = Frontier
    BY <1>1, <1>7, <2>1 DEF Frontier, n
  <2> QED
    BY <1>8, <1>9, <2>1, <2>2, WriterStays
<1>11. CASE r \in 1..2 - from
  <2>1. r > 0 /\ from + r \in 1..2 /\ r \in Nat /\ State(r) = from + r
    BY <1>1, <1>11
  <2>2. PICK c : c = SubSeq(rest, 1, r)
    OBVIOUS
  <2>3. PICK g : g = [k \in 0..r |-> InIntro(s, v, n, FALSE, from + k)]
    OBVIOUS
  <2>4. pipe' = pipe \o c
    BY <1>2, <2>1, <2>2 DEF Put
  <2>5. Len(c) = r /\ Path(c, g)
    BY <1>4, <1>11, <2>2, <2>3 DEF IntroLeads, rest
  <2>6. \A k \in 0..r : g[k] = InIntro(s, v, n, FALSE, from + k)
    BY <2>3
  <2>7. g[0] = Frontier
    BY <1>1, <2>1, <2>6 DEF Frontier, InIntro, n
  <2>8. g[Len(c)] = Frontier'
    BY <1>1, <1>7, <2>1, <2>5, <2>6 DEF Frontier, InIntro
  <2>9. ASSUME NEW k \in 0..Len(c) PROVE Passed(g[k])'
    <3>1. g[k] = InIntro(s, v, n, FALSE, from + k)
      BY <2>5, <2>6
    <3>2. g[k].s = s /\ g[k].v = v /\ g[k].intro # "end"
      BY <3>1 DEF InIntro, PlaceAt
    <3>3. Frontier'.s = s
      BY <1>1, <1>7, FrontierStream
    <3>4. Written(s)' = v
      BY <1>1 DEF Written
    <3> QED
      BY <1>1, <3>2, <3>3, <3>4 DEF Passed
  <2> QED
    BY <1>8, <1>9, <2>4, <2>5, <2>7, <2>8, <2>9, WriterMoves
<1> QED
  BY <1>6, <1>10, <1>11

LEMMA CloseStepKeeps == DelimInv /\ CloseStep /\ UNCHANGED <<reader, got>> => DelimInv'
<1> SUFFICES ASSUME DelimInv, CloseStep, UNCHANGED <<reader, got>> PROVE DelimInv'
  OBVIOUS
<1>1. /\ writer.at = "close" /\ writer.state \in 0..1 /\ writer.final
      /\ sent' = sent /\ sent \in Seq(Nat) /\ Len(sent) \in Nat \ {0}
      /\ sent[Len(sent)] \in Nat
  BY DEF DelimInv, WriterTyped, CloseStep
<1> DEFINE s == Len(sent)
           v == sent[s]
           from == writer.state
           rest == SubSeq(Intro(0, TRUE), writer.state + 1, 2)
<1>2. PICK r \in MayWrite(rest) :
         /\ Put(rest, r)
         /\ writer' = IF r = Waiting THEN [writer EXCEPT !.at = "idle"]
                      ELSE [writer EXCEPT !.state = @ + r,
                                          !.at = IF writer.state + r = 2 THEN "closed" ELSE @]
  BY DEF CloseStep
<1>3. ASSUME NEW m \in 1..2 - from PROVE IntroLeads(s, v, 0, TRUE, from, m)
  <2>1. TRUE \in BOOLEAN /\ (TRUE => 0 = 0) /\ 0 \in Nat
    OBVIOUS
  <2>2. s \in Nat /\ v \in Nat /\ from \in 0..1
    BY <1>1
  <2> HIDE DEF s, v, from
  <2> QED
    BY <2>1, <2>2, IntroPath
<1>4. rest \in Seq(Byte) /\ Len(rest) = 2 - from
  <2>1. 1 \in 1..2 - from
    BY <1>1
  <2> QED
    BY <1>3, <2>1 DEF IntroLeads
<1>5. r = Waiting \/ r \in 1..2 - from
  <2>1. pipe \in Seq(Byte)
    BY DEF DelimInv, Between, Path
  <2> HIDE DEF rest
  <2> QED
    BY <1>1, <1>4, <2>1, MayWriteWhat
<1> HIDE DEF rest
<1>6. /\ writer'.left = writer.left /\ writer'.len = writer.len /\ writer'.final = writer.final
      /\ writer'.state = IF r = Waiting THEN from ELSE from + r
      /\ writer'.at = IF r = Waiting THEN "idle" ELSE IF from + r = 2 THEN "closed" ELSE "close"
      /\ writer' = [state |-> writer'.state, final |-> writer'.final, left |-> writer'.left,
                    at |-> writer'.at, len |-> writer'.len]
  BY <1>1, <1>2 DEF DelimInv, WriterTyped
<1>7. WriterTyped'
  <2>1. writer'.state \in 0..2 /\ (writer'.at = "closed" <=> writer'.state = 2)
    BY <1>1, <1>5, <1>6 DEF Waiting
  <2>2. writer'.final \in BOOLEAN /\ writer'.final
    BY <1>1, <1>6 DEF DelimInv, WriterTyped
  <2>3. writer'.at = "close" => writer'.state < 2
    BY <2>1, <1>1, <1>5, <1>6 DEF Waiting
  <2>4. writer'.left \in Nat /\ writer'.len \in Nat
    BY <1>6 DEF DelimInv, WriterTyped
  <2> QED
    BY <1>1, <1>6, <2>1, <2>2, <2>3, <2>4 DEF WriterTyped
<1>8. Onward
  BY <1>1, <1>6, <1>7, StreamGoesOn
<1>9. CASE r = Waiting
  <2>1. pipe' = pipe
    BY <1>2, <1>9 DEF Put, Waiting
  <2>2. Frontier' = Frontier
    BY <1>1, <1>6, <1>9 DEF Frontier
  <2> QED
    BY <1>7, <1>8, <2>1, <2>2, WriterStays
<1>10. CASE r \in 1..2 - from
  <2>1. r > 0 /\ from + r \in 1..2 /\ r \in Nat /\ r # Waiting
    BY <1>1, <1>10 DEF Waiting
  <2>2. PICK c : c = SubSeq(rest, 1, r)
    OBVIOUS
  <2>3. PICK g : g = [k \in 0..r |-> InIntro(s, v, 0, TRUE, from + k)]
    OBVIOUS
  <2>4. pipe' = pipe \o c
    BY <1>2, <2>1, <2>2 DEF Put
  <2>5. Len(c) = r /\ Path(c, g)
    BY <1>3, <1>10, <2>2, <2>3 DEF IntroLeads, rest
  <2>6. \A k \in 0..r : g[k] = InIntro(s, v, 0, TRUE, from + k)
    BY <2>3
  <2>7. g[0] = Frontier
    BY <1>1, <2>1, <2>6 DEF Frontier, InIntro
  <2>8. g[Len(c)] = Frontier'
    BY <1>1, <1>6, <2>1, <2>5, <2>6 DEF Frontier, InIntro
  <2>9. ASSUME NEW k \in 0..Len(c) PROVE Passed(g[k])'
    <3>1. g[k] = InIntro(s, v, 0, TRUE, from + k) /\ k \in 0..r
      BY <2>5, <2>6
    <3>2. Written(s)' = v /\ Ending(s)'
      BY <1>1, <1>6 DEF Written, Ending
    <3>3. CASE from + k = 2
      <4>1. g[k].s = s + 1 /\ g[k].v = 0 /\ g[k].intro = "none"
        BY <3>1, <3>3 DEF InIntro, StartOf, PlaceAt
      <4>2. Frontier'.s = s + 1
        <5>1. from + r = 2
          BY <1>1, <1>10, <3>1, <3>3
        <5> QED
          BY <1>1, <1>6, <2>1, <5>1, FrontierStream
      <4>3. Written(s + 1)' = 0
        BY <1>1 DEF Written
      <4> QED
        BY <1>1, <4>1, <4>2, <4>3 DEF Passed
    <3>4. CASE from + k # 2
      <4>1. g[k].s = s /\ g[k].v = v
        BY <1>1, <1>10, <3>1, <3>4 DEF InIntro, PlaceAt
      <4>2. s <= Frontier'.s
        BY <1>1, <1>6, FrontierStream
      <4> QED
        BY <1>1, <3>2, <4>1, <4>2 DEF Passed
    <3> QED
      BY <3>3, <3>4
  <2> QED
    BY <1>7, <1>8, <2>4, <2>5, <2>7, <2>8, <2>9, WriterMoves
<1> QED
  BY <1>5, <1>9, <1>10

(* What is written of a chunk. *)
LEMMA WritePayloadKeeps == DelimInv /\ WritePayload /\ UNCHANGED <<reader, got>> => DelimInv'
<1> SUFFICES ASSUME DelimInv, WritePayload, UNCHANGED <<reader, got>> PROVE DelimInv'
  OBVIOUS
<1>1. /\ writer.at = "write" /\ writer.state = 2 /\ ~writer.final /\ writer.left \in Nat
      /\ writer.len \in Nat /\ sent \in Seq(Nat) /\ Len(sent) \in Nat \ {0}
      /\ sent[Len(sent)] \in Nat
  BY DEF DelimInv, WriterTyped, WritePayload, Payload
<1> DEFINE s == Len(sent)
           v == sent[s]
           left == writer.left
           bytes == Bytes(s, sent[s], Least(writer.len, writer.left))
           N(r) == IF r > 0 THEN r ELSE 0
<1>2. PICK r \in MayWrite(bytes) :
         /\ Put(bytes, r)
         /\ sent' = [sent EXCEPT ![s] = @ + N(r)]
         /\ writer' = [writer EXCEPT !.left = @ - N(r), !.at = "idle",
                           !.state = IF r >= 0 /\ writer.left = N(r) THEN 0 ELSE @]
  BY DEF WritePayload
<1>3. Least(writer.len, left) \in 0..left
  BY <1>1 DEF Least
<1>4. /\ bytes \in Seq(Byte) /\ Len(bytes) = Least(writer.len, left)
      /\ \A k \in 1..Len(bytes) : bytes[k] = PayloadByte(s, v + k)
  <2> DEFINE w == Least(writer.len, left)
  <2>1. w \in Nat
    BY <1>1, <1>3
  <2>2. s \in Nat /\ v \in Nat
    BY <1>1
  <2>3. bytes = Bytes(s, v, w)
    OBVIOUS
  <2> HIDE DEF w, s, v, bytes
  <2>4. /\ Bytes(s, v, w) \in Seq(Byte) /\ Len(Bytes(s, v, w)) = w
        /\ \A k \in 1..w : Bytes(s, v, w)[k] = PayloadByte(s, v + k)
    BY <2>1, <2>2, BytesMade
  <2>5. /\ bytes \in Seq(Byte) /\ Len(bytes) = w
        /\ \A k \in 1..w : bytes[k] = PayloadByte(s, v + k)
    BY <2>3, <2>4
  <2> QED
    BY <2>5 DEF w
<1>5. r = Waiting \/ (r = 0 /\ Len(bytes) = 0) \/ r \in 1..Len(bytes)
  <2>1. pipe \in Seq(Byte)
    BY DEF DelimInv, Between, Path
  <2> HIDE DEF bytes
  <2> QED
    BY <1>4, <2>1, MayWriteWhat
<1> HIDE DEF bytes
<1>6. N(r) \in 0..left /\ (r > 0 => N(r) = r) /\ (~(r > 0) => N(r) = 0)
  BY <1>1, <1>3, <1>4, <1>5 DEF Waiting
<1> DEFINE n == N(r)
<1> HIDE DEF N, n
<1>7. /\ writer'.left = left - n /\ writer'.len = writer.len /\ writer'.final = writer.final
      /\ writer'.at = "idle" /\ writer'.state = IF r >= 0 /\ left = n THEN 0 ELSE 2
      /\ writer' = [state |-> writer'.state, final |-> writer'.final, left |-> writer'.left,
                    at |-> writer'.at, len |-> writer'.len]
  BY <1>1, <1>2 DEF DelimInv, WriterTyped, n
<1>8. n \in 0..left
  BY <1>6 DEF n
<1>9. /\ sent' \in Seq(Nat) /\ Len(sent') = s /\ sent'[s] = v + n
      /\ \A t \in 1..s : sent'[t] = IF t = s THEN v + n ELSE sent[t]
  BY <1>1, <1>2, <1>8 DEF n
<1>10. WriterTyped'
  <2>1. writer'.final \in BOOLEAN /\ ~writer'.final
    BY <1>1, <1>7 DEF DelimInv, WriterTyped
  <2>2. writer'.left \in Nat /\ writer'.state \in 0..2
    BY <1>1, <1>7, <1>8
  <2> QED
    BY <1>1, <1>7, <1>9, <2>1, <2>2 DEF WriterTyped
<1>11. ASSUME NEW t \in Nat
       PROVE  /\ Written(t) <= Written(t)'
              /\ Ending(t) => Ending(t)' /\ Written(t)' = Written(t)
              /\ Finished(t) => Finished(t)'
  <2>1. Written(t) <= Written(t)' /\ (t < s => Written(t)' = Written(t))
    <3>1. /\ Written(t) = IF t \in 1..s THEN sent[t] ELSE 0
          /\ Written(t)' = IF t \in 1..s THEN sent'[t] ELSE 0
      BY <1>9 DEF Written
    <3>2. CASE t = s
      <4>1. Written(t) = v /\ Written(t)' = v + n /\ ~(t < s)
        BY <1>1, <1>9, <3>1, <3>2
      <4> QED
        BY <1>1, <1>8, <4>1
    <3>3. CASE t # s
      <4>1. Written(t)' = Written(t) /\ Written(t) \in Nat
        BY <1>1, <1>9, <3>1, <3>3
      <4> QED
        BY <4>1
    <3> QED
      BY <3>2, <3>3
  <2>2. Ending(t) => t < s
    BY <1>1 DEF Ending
  <2>3. Finished(t) => t < s
    BY <1>1 DEF Finished
  <2>4. t < s => Ending(t)' /\ Finished(t)'
    BY <1>9 DEF Ending, Finished
  <2> QED
    BY <2>1, <2>2, <2>3, <2>4
<1>12. Frontier.s = s /\ Frontier'.s = s
  BY <1>1, <1>7, <1>9, FrontierStream
<1>13. Onward
  BY <1>1, <1>11, <1>12 DEF Onward
<1>14. CASE ~(r > 0)
  <2>1. n = 0 /\ pipe' = pipe
    BY <1>2, <1>6, <1>14 DEF Put, n
  <2>2. Frontier' = Frontier
    BY <1>1, <1>7, <1>9, <2>1 DEF Frontier
  <2> QED
    BY <1>10, <1>13, <2>1, <2>2, WriterStays
<1>15. CASE r > 0
  <2>1. r \in 1..Len(bytes) /\ n = r /\ r \in Nat /\ r <= left
    BY <1>5, <1>6, <1>8, <1>15 DEF Waiting, n
  <2>2. PICK c : c = SubSeq(bytes, 1, r)
    OBVIOUS
  <2>3. PICK g : g = [k \in 0..r |-> PlaceAt(s, v + k, left - k, "none")]
    OBVIOUS
  <2>4. pipe' = pipe \o c
    BY <1>2, <2>1, <2>2, <1>15 DEF Put
  <2>5. /\ c \in Seq(Byte) /\ Len(c) = r
        /\ \A k \in 1..r : c[k] = PayloadByte(s, v + k)
    BY <1>4, <2>1, <2>2
  <2>6. \A k \in 0..r : g[k] = PlaceAt(s, v + k, left - k, "none")
    BY <2>3
  <2>7. g \in [0..r -> Place]
    <3>1. \A k \in 0..r : PlaceAt(s, v + k, left - k, "none") \in Place
      <4>1. s \in Nat /\ \A k \in 0..r : v + k \in Nat /\ left - k \in Nat
        BY <1>1, <2>1
      <4> HIDE DEF s, v, left
      <4> QED
        BY <4>1 DEF PlaceAt, Place
    <3> QED
      BY <2>3, <3>1
  <2>8. ASSUME NEW k \in 1..r PROVE Leads(g[k - 1], c[k], g[k])
    <3>1. k - 1 \in 0..r /\ k \in 0..r /\ v + (k - 1) + 1 = v + k
          /\ left - (k - 1) - 1 = left - k /\ left - (k - 1) > 0
      BY <1>1, <2>1
    <3>2. /\ g[k - 1].s = s /\ g[k - 1].v = v + (k - 1) /\ g[k - 1].left = left - (k - 1)
          /\ g[k - 1].intro = "none"
      <4>1. g[k - 1] = PlaceAt(s, v + (k - 1), left - (k - 1), "none")
        BY <2>6, <3>1
      <4> HIDE DEF s, v, left
      <4> QED
        BY <4>1 DEF PlaceAt
    <3>3. c[k] = PayloadByte(s, v + k) /\ g[k] = PlaceAt(s, v + k, left - k, "none")
      BY <2>5, <2>6, <3>1
    <3> QED
      BY <3>1, <3>2, <3>3 DEF Leads
  <2>9. Path(c, g)
    BY <2>5, <2>7, <2>8 DEF Path
  <2>10. g[0] = Frontier
    BY <1>1, <2>1, <2>6 DEF Frontier
  <2>11. g[Len(c)] = Frontier'
    BY <1>1, <1>7, <1>9, <2>1, <2>5, <2>6 DEF Frontier
  <2>12. ASSUME NEW k \in 0..Len(c) PROVE Passed(g[k])'
    <3>1. k \in 0..r /\ k \in Nat /\ k <= n
      BY <2>1, <2>5
    <3>2. g[k].s = s /\ g[k].v = v + k /\ g[k].intro # "end"
      <4>1. g[k] = PlaceAt(s, v + k, left - k, "none")
        BY <2>6, <3>1
      <4> HIDE DEF s, v, left
      <4> QED
        BY <4>1 DEF PlaceAt
    <3>3. Written(g[k].s)' = v + n
      BY <1>1, <1>9, <3>2 DEF Written
    <3>4. s \in Nat \ {0} /\ v \in Nat /\ n \in Nat
      BY <1>1, <2>1
    <3> HIDE DEF s, v, left
    <3> QED
      BY <1>12, <3>1, <3>2, <3>3, <3>4 DEF Passed
  <2> QED
    BY <1>10, <1>13, <2>4, <2>9, <2>10, <2>11, <2>12, WriterMoves
<1> QED
  BY <1>14, <1>15

-----------------------------------------------------------------------------
(* The reader takes r bytes, or none, and goes to where they lead.         *)
LEMMA ReaderMoves ==
    ASSUME DelimInv, UNCHANGED <<writer, sent>>, NEW f, Between(f), NEW r \in 0..Len(pipe),
           pipe' = SubSeq(pipe, r + 1, Len(pipe)), ReaderAt(f[r])', ReaderTyped', Given'
    PROVE  DelimInv'
<1>1. Path(pipe, f) /\ f[Len(pipe)] = Frontier /\ \A n \in 0..Len(pipe) : Passed(f[n])
  BY DEF Between
<1>2. PICK h : RestOf(h, pipe, f, r)
  BY <1>1, PathRest
<1>3. /\ Path(pipe', h) /\ h[0] = f[r] /\ h[Len(pipe')] = Frontier
      /\ \A n \in 0..Len(pipe') : \E m \in 0..Len(pipe) : h[n] = f[m]
  BY <1>1, <1>2 DEF RestOf
<1>4. Frontier' = Frontier /\ \A n \in 0..Len(pipe) : Passed(f[n])'
  BY <1>1 DEF Frontier, Passed, Written, Ending
<1>5. \A n \in 0..Len(pipe') : Passed(h[n])'
  BY <1>3, <1>4
<1>6. ReaderAt(h[0])'
  BY <1>3
<1>7. Between(h)'
  BY <1>3, <1>4, <1>5, <1>6 DEF Between
<1>8. WriterTyped'
  BY DEF DelimInv, WriterTyped
<1> QED
  BY <1>7, <1>8 DEF DelimInv

(* The reader takes nothing. *)
LEMMA ReaderStays ==
    ASSUME DelimInv, UNCHANGED <<writer, sent, pipe, got>>, ReaderTyped',
           reader'.ended <=> reader.ended, reader'.state = reader.state,
           reader'.left = reader.left
    PROVE  DelimInv'
<1>1. PICK f : Between(f)
  BY DEF DelimInv
<1>2. pipe \in Seq(Byte) /\ Len(pipe) \in Nat /\ ReaderAt(f[0])
  BY <1>1 DEF Between, Path
<1>3. pipe' = SubSeq(pipe, 0 + 1, Len(pipe)) /\ 0 \in 0..Len(pipe)
  BY <1>2
<1>4. ReaderAt(f[0])'
  BY <1>2 DEF ReaderAt
<1>5. Given'
  BY DEF DelimInv, Given, Written, Finished
<1> QED
  BY <1>1, <1>3, <1>4, <1>5, ReaderMoves

LEMMA ReadCallKeeps == DelimInv /\ ReadCall /\ UNCHANGED <<writer, sent>> => DelimInv'
<1> SUFFICES ASSUME DelimInv, ReadCall, UNCHANGED <<writer, sent>> PROVE DelimInv'
  OBVIOUS
<1>1. PICK len \in 1..MaxLen : reader' = [reader EXCEPT !.at = "read", !.len = len]
  BY DEF ReadCall
<1>2. reader.at = "idle" /\ UNCHANGED <<pipe, got>> /\ ReaderTyped /\ len \in Nat
  BY DEF ReadCall, DelimInv
<1>3. /\ reader'.at = "read" /\ reader'.len = len /\ reader'.state = reader.state
      /\ reader'.left = reader.left /\ reader'.ended = reader.ended
      /\ reader'.last = reader.last
      /\ reader' = [state |-> reader'.state, ended |-> reader'.ended, left |-> reader'.left,
                    last |-> reader'.last, at |-> reader'.at, len |-> reader'.len]
  BY <1>1, <1>2 DEF ReaderTyped
<1>4. ReaderTyped'
  BY <1>2, <1>3 DEF ReaderTyped
<1> QED
  BY <1>2, <1>3, <1>4, ReaderStays

LEMMA MayReadWhat ==
    ASSUME NEW len \in Nat, NEW r \in MayRead(len), pipe \in Seq(Byte)
    PROVE  \/ r = Waiting /\ len > 0
           \/ r = 0 /\ len = 0
           \/ r \in 1..len /\ r \in 0..Len(pipe) /\ len > 0
<1>1. Len(pipe) \in Nat
  OBVIOUS
<1> QED
  BY <1>1 DEF MayRead, Least

LEMMA FromIntro ==
    ASSUME NEW p \in Place, NEW x, NEW q, Leads(p, x, q), p.intro # "none"
    PROVE  \/ /\ p.intro = "chunk" /\ x.end = FALSE /\ x.n = p.left
              /\ q = PlaceAt(p.s, p.v, p.left, "none")
           \/ /\ p.intro = "end" /\ x.end = TRUE /\ x.n = 0 /\ q = StartOf(p.s + 1)
BY DEF Leads, IntroByte

LEMMA IntoIntro ==
    ASSUME NEW p \in Place, NEW x, NEW q, Leads(p, x, q), p.intro = "none", p.left = 0
    PROVE  q.s = p.s /\ q.v = p.v /\ q.intro # "none"
<1>1. ~(p.left > 0)
  OBVIOUS
<1>2. (\E n \in Nat : q = PlaceAt(p.s, p.v, n, "chunk")) \/ q = PlaceAt(p.s, p.v, 0, "end")
  BY <1>1 DEF Leads
<1> QED
  BY <1>2 DEF PlaceAt

LEMMA ReadIntroKeeps == DelimInv /\ ReadIntro /\ UNCHANGED <<writer, sent>> => DelimInv'
<1> SUFFICES ASSUME DelimInv, ReadIntro, UNCHANGED <<writer, sent>> PROVE DelimInv'
  OBVIOUS
<1> DEFINE s == Len(got)
           v == Len(got[s])
           from == reader.state
<1>1. /\ ReaderTyped /\ reader.at = "read" /\ reader.state \in 0..1 /\ ~reader.ended
      /\ got' = got /\ got \in Seq(Seq(Byte)) /\ s \in Nat \ {0} /\ v \in Nat
  BY DEF DelimInv, ReaderTyped, ReadIntro, Payload
<1>2. PICK f : Between(f)
  BY DEF DelimInv
<1>3. /\ pipe \in Seq(Byte) /\ Len(pipe) \in Nat
      /\ \A n \in 0..Len(pipe) : f[n] \in Place /\ Passed(f[n])
      /\ \A n \in 1..Len(pipe) : Leads(f[n - 1], pipe[n], f[n])
  BY <1>2 DEF Between, Path
<1>4. /\ f[0].s = s /\ f[0].v = v
      /\ from = 0 => f[0].left = 0 /\ f[0].intro = "none"
      /\ from = 1 => f[0].intro # "none"
  BY <1>1, <1>2 DEF Between, ReaderAt
<1>5. PICK r \in MayRead(2 - from) :
         /\ Take(r)
         /\ reader' =
               IF r = Waiting THEN NoBytes
               ELSE IF from + r < 2 THEN [reader EXCEPT !.state = @ + r, !.at = "idle"]
               ELSE LET h == pipe[r] IN
                    IF h.end /\ h.n = 0
                    THEN [reader EXCEPT !.state = 2, !.ended = TRUE, !.at = "told"]
                    ELSE [reader EXCEPT !.state = 2, !.left = h.n, !.last = h.end]
  BY DEF ReadIntro
<1>6. r = Waiting \/ (r \in 1..2 - from /\ r \in 0..Len(pipe))
  <2>1. 2 - from \in Nat /\ 2 - from > 0
    BY <1>1
  <2> HIDE DEF from
  <2> QED
    BY <1>3, <2>1, MayReadWhat
<1>7. CASE r = Waiting
  <2>1. pipe' = pipe /\ reader' = NoBytes
    BY <1>5, <1>7 DEF Take, Waiting
  <2>2. /\ reader'.at \in {"told", "idle"} /\ reader'.len = reader.len
        /\ reader'.state = reader.state /\ reader'.left = reader.left
        /\ reader'.ended = reader.ended /\ reader'.last = reader.last
        /\ reader' = [state |-> reader'.state, ended |-> reader'.ended, left |-> reader'.left,
                      last |-> reader'.last, at |-> reader'.at, len |-> reader'.len]
    BY <1>1, <2>1 DEF ReaderTyped, NoBytes
  <2>3. ReaderTyped'
    BY <1>1, <2>2 DEF ReaderTyped
  <2> QED
    BY <1>1, <2>1, <2>2, <2>3, ReaderStays
<1>8. CASE r \in 1..2 - from /\ r \in 0..Len(pipe)
  <2>1. r \in Nat /\ r > 0 /\ r # Waiting /\ r \in 1..Len(pipe) /\ r - 1 \in 0..Len(pipe)
        /\ from + r \in 1..2
    BY <1>1, <1>3, <1>8 DEF Waiting
  <2>2. pipe' = SubSeq(pipe, r + 1, Len(pipe))
    BY <1>5, <2>1 DEF Take
  <2>3. CASE from + r = 1
    <3>1. from = 0 /\ r = 1
      BY <1>1, <2>1, <2>3
    <3>2. reader' = [reader EXCEPT !.state = 1, !.at = "idle"]
      BY <1>5, <2>1, <3>1
    <3>3. /\ reader'.at = "idle" /\ reader'.len = reader.len
          /\ reader'.state = 1 /\ reader'.left = reader.left
          /\ reader'.ended = reader.ended /\ reader'.last = reader.last
          /\ reader' = [state |-> reader'.state, ended |-> reader'.ended, left |-> reader'.left,
                        last |-> reader'.last, at |-> reader'.at, len |-> reader'.len]
      BY <1>1, <3>2 DEF ReaderTyped
    <3>4. ReaderTyped'
      BY <1>1, <3>3 DEF ReaderTyped
    <3>5. f[1].s = s /\ f[1].v = v /\ f[1].intro # "none"
      <4>1. f[0] \in Place /\ Leads(f[0], pipe[1], f[1])
        BY <1>3, <2>1, <3>1
      <4> HIDE DEF s, v
      <4> QED
        BY <1>4, <3>1, <4>1, IntoIntro
    <3>6. ReaderAt(f[r])'
      BY <1>1, <3>1, <3>3, <3>5 DEF ReaderAt
    <3>7. Given'
      BY <1>1, <3>3 DEF DelimInv, Given, Written, Finished
    <3> QED
      BY <1>2, <1>8, <2>2, <3>4, <3>6, <3>7, ReaderMoves
  <2>4. CASE from + r = 2
    <3> DEFINE p == f[r - 1]
    <3>1. p \in Place /\ Leads(p, pipe[r], f[r]) /\ Passed(p) /\ Passed(f[r])
      BY <1>3, <1>8, <2>1
    <3>2. p.s = s /\ p.v = v /\ p.intro # "none"
      <4>1. CASE from = 1
        BY <1>4, <2>1, <2>4, <4>1
      <4>2. CASE from = 0
        <5>1. r = 2 /\ f[0] \in Place /\ Leads(f[0], pipe[1], f[1])
          <6>1. 0 \in 0..Len(pipe) /\ 1 \in 1..Len(pipe) /\ r = 2
            BY <1>1, <1>3, <2>1, <2>4, <4>2
          <6> QED
            BY <1>3, <6>1
        <5> HIDE DEF s, v
        <5> QED
          BY <1>4, <4>2, <5>1, IntoIntro
      <4> QED
        BY <1>1, <4>1, <4>2
    <3> HIDE DEF p
    <3>3. CASE pipe[r].end = TRUE /\ pipe[r].n = 0 /\ f[r] = StartOf(p.s + 1) /\ p.intro = "end"
      <4>1. reader' = [reader EXCEPT !.state = 2, !.ended = TRUE, !.at = "told"]
        BY <1>5, <2>1, <2>4, <3>3
      <4>2. /\ reader'.at = "told" /\ reader'.len = reader.len
            /\ reader'.state = 2 /\ reader'.left = reader.left
            /\ reader'.ended = TRUE /\ reader'.last = reader.last
            /\ reader' = [state |-> reader'.state, ended |-> reader'.ended, left |-> reader'.left,
                          last |-> reader'.last, at |-> reader'.at, len |-> reader'.len]
        BY <1>1, <4>1 DEF ReaderTyped
      <4>3. ReaderTyped'
        <5>1. reader'.ended \in BOOLEAN /\ reader'.last = FALSE
          BY <1>1, <4>2 DEF ReaderTyped
        <5> QED
          BY <1>1, <4>2, <5>1 DEF ReaderTyped
      <4>4. ReaderAt(f[r])'
        BY <1>1, <3>2, <3>3, <4>2 DEF ReaderAt
      <4>5. v = Written(s) /\ Finished(s)
        <5>1. p.v = Written(p.s)
          BY <3>1, <3>3 DEF Passed
        <5>2. s + 1 <= Frontier.s
          BY <3>1, <3>2, <3>3 DEF Passed, StartOf, PlaceAt
        <5>3. Len(sent) \in Nat
          BY DEF DelimInv, WriterTyped
        <5> QED
          BY <1>1, <3>2, <5>1, <5>2, <5>3, FrontierStream DEF Finished
      <4>6. Given'
        <5> SUFFICES ASSUME NEW t \in 1..s
                     PROVE  /\ got[t] = Bytes(t, 0, Len(got[t])) /\ Len(got[t]) <= Written(t)
                            /\ Len(got[t]) = Written(t) /\ Finished(t)
          BY <1>1 DEF Given, Written, Finished
        <5>1. t < s \/ t = s
          BY <1>1
        <5> QED
          BY <4>5, <5>1 DEF DelimInv, Given
      <4> QED
        BY <1>2, <1>8, <2>2, <4>3, <4>4, <4>6, ReaderMoves
    <3>4. CASE /\ pipe[r].end = FALSE /\ pipe[r].n = p.left
               /\ f[r] = PlaceAt(p.s, p.v, p.left, "none")
      <4>1. reader' = [reader EXCEPT !.state = 2, !.left = p.left, !.last = FALSE]
        <5>1. ~(pipe[r].end /\ pipe[r].n = 0) /\ ~(r = Waiting) /\ ~(from + r < 2)
          BY <2>1, <2>4, <3>4
        <5>2. reader' = [reader EXCEPT !.state = 2, !.left = pipe[r].n, !.last = pipe[r].end]
          BY <1>5, <5>1
        <5> QED
          BY <3>4, <5>2
      <4>2. /\ reader'.at = "read" /\ reader'.len = reader.len
            /\ reader'.state = 2 /\ reader'.left = p.left
            /\ reader'.ended = reader.ended /\ reader'.last = FALSE
            /\ reader' = [state |-> reader'.state, ended |-> reader'.ended, left |-> reader'.left,
                          last |-> reader'.last, at |-> reader'.at, len |-> reader'.len]
        BY <1>1, <4>1 DEF ReaderTyped
      <4>3. ReaderTyped'
        BY <1>1, <3>1, <4>2 DEF ReaderTyped, Place
      <4>4. ReaderAt(f[r])'
        BY <1>1, <3>2, <3>4, <4>2 DEF ReaderAt, PlaceAt
      <4>5. Given'
        BY <1>1, <4>2 DEF DelimInv, Given, Written, Finished
      <4> QED
        BY <1>2, <1>8, <2>2, <4>3, <4>4, <4>5, ReaderMoves
    <3> QED
      BY <3>1, <3>2, <3>3, <3>4, FromIntro
  <2> QED
    BY <2>1, <2>3, <2>4
<1> QED
  BY <1>6, <1>7, <1>8

LEMMA ReadPayloadKeeps == DelimInv /\ ReadPayload /\ UNCHANGED <<writer, sent>> => DelimInv'
<1> SUFFICES ASSUME DelimInv, ReadPayload, UNCHANGED <<writer, sent>> PROVE DelimInv'
  OBVIOUS
<1> DEFINE s == Len(got)
           v == Len(got[s])
           left == reader.left
<1>1. /\ ReaderTyped /\ reader.at = "read" /\ reader.state = 2 /\ ~reader.ended
      /\ got \in Seq(Seq(Byte)) /\ s \in Nat \ {0} /\ v \in Nat /\ got[s] \in Seq(Byte)
      /\ left \in Nat /\ reader.len \in Nat
  BY DEF DelimInv, ReaderTyped, ReadPayload, Payload
<1>2. PICK f : Between(f)
  BY DEF DelimInv
<1>3. /\ Path(pipe, f) /\ pipe \in Seq(Byte) /\ Len(pipe) \in Nat
      /\ \A n \in 0..Len(pipe) : f[n] \in Place /\ Passed(f[n])
  BY <1>2 DEF Between, Path
<1>4. f[0] = PlaceAt(s, v, left, "none")
  <2>1. f[0].s = s /\ f[0].v = v /\ f[0].left = left /\ f[0].intro = "none" /\ f[0] \in Place
    BY <1>1, <1>2, <1>3 DEF Between, ReaderAt
  <2> HIDE DEF s, v, left
  <2> QED
    BY <2>1 DEF Place, PlaceAt
<1>5. PICK r \in MayRead(Least(reader.len, left)) :
         /\ Take(r)
         /\ IF r <= 0
            THEN reader' = IF r = 0 THEN [reader EXCEPT !.at = "idle"] ELSE NoBytes
            ELSE reader' = [reader EXCEPT !.left = @ - r, !.at = "idle",
                               !.state = IF reader.left = r /\ ~reader.last THEN 0 ELSE @,
                               !.ended = reader.left = r /\ reader.last]
         /\ got' = IF r > 0 THEN [got EXCEPT ![Len(got)] = @ \o SubSeq(pipe, 1, r)] ELSE got
  BY DEF ReadPayload
<1>6. r = Waiting \/ r = 0 \/ (r \in 1..left /\ r \in 0..Len(pipe))
  <2>1. Least(reader.len, left) \in 0..left
    BY <1>1 DEF Least
  <2> DEFINE len == Least(reader.len, left)
  <2>2. len \in Nat /\ len <= left
    BY <1>1, <2>1
  <2> HIDE DEF len
  <2>3. r \in MayRead(len)
    BY DEF len
  <2>4. \/ r = Waiting \/ r = 0
        \/ r \in 1..len /\ r \in 0..Len(pipe)
    BY <1>3, <2>2, <2>3, MayReadWhat
  <2> QED
    BY <1>1, <2>2, <2>4
<1>7. CASE r = Waiting \/ r = 0
  <2>1. pipe' = pipe /\ got' = got /\ reader' \in {[reader EXCEPT !.at = "idle"], NoBytes}
    BY <1>5, <1>7 DEF Take, Waiting
  <2>2. /\ reader'.at \in {"told", "idle"} /\ reader'.len = reader.len
        /\ reader'.state = reader.state /\ reader'.left = reader.left
        /\ reader'.ended = reader.ended /\ reader'.last = reader.last
        /\ reader' = [state |-> reader'.state, ended |-> reader'.ended, left |-> reader'.left,
                      last |-> reader'.last, at |-> reader'.at, len |-> reader'.len]
    BY <1>1, <2>1 DEF ReaderTyped, NoBytes
  <2>3. ReaderTyped'
    BY <1>1, <2>1, <2>2 DEF ReaderTyped
  <2> QED
    BY <1>1, <2>1, <2>2, <2>3, ReaderStays
<1>8. CASE r \in 1..left /\ r \in 0..Len(pipe)
  <2>1. r \in Nat /\ r > 0 /\ ~(r <= 0) /\ r <= left
    BY <1>1, <1>8
  <2> DEFINE part == SubSeq(pipe, 1, r)
  <2>2. pipe' = SubSeq(pipe, r + 1, Len(pipe)) /\ got' = [got EXCEPT ![s] = @ \o part]
    BY <1>5, <2>1 DEF Take
  <2>3. reader' = [reader EXCEPT !.left = left - r, !.at = "idle",
                                 !.state = IF left = r THEN 0 ELSE 2, !.ended = FALSE]
    BY <1>1, <1>5, <2>1 DEF ReaderTyped
  <2>4. /\ reader'.at = "idle" /\ reader'.len = reader.len
        /\ reader'.state = IF left = r THEN 0 ELSE 2
        /\ reader'.left = left - r
        /\ reader'.ended = FALSE /\ reader'.last = reader.last
        /\ reader' = [state |-> reader'.state, ended |-> reader'.ended, left |-> reader'.left,
                      last |-> reader'.last, at |-> reader'.at, len |-> reader'.len]
    BY <1>1, <2>3 DEF ReaderTyped
  <2>5. /\ f[r] = PlaceAt(s, v + r, left - r, "none")
        /\ \A n \in 1..r : pipe[n] = PayloadByte(s, v + n)
    <3>1. r \in 0..r
      BY <2>1
    <3> HIDE DEF s, v, left
    <3>2. /\ Path(pipe, f) /\ s \in Nat /\ v \in Nat /\ left \in Nat
          /\ f[0] = PlaceAt(s, v, left, "none") /\ r \in 0..Len(pipe) /\ r <= left
      BY <1>1, <1>3, <1>4, <1>8, <2>1
    <3>3. /\ \A n \in 0..r : f[n] = PlaceAt(s, v + n, left - n, "none")
          /\ \A n \in 1..r : pipe[n] = PayloadByte(s, v + n)
      BY <3>2, PayloadRun
    <3> QED
      BY <3>1, <3>3
  <2>6. /\ part \in Seq(Byte) /\ Len(part) = r
        /\ \A n \in 1..r : part[n] = PayloadByte(s, v + n)
    <3>1. part \in Seq(Byte) /\ Len(part) = r /\ \A n \in 1..r : part[n] = pipe[n]
      BY <1>3, <1>8, <2>1
    <3> HIDE DEF part
    <3> QED
      BY <2>5, <3>1
  <2> HIDE DEF part
  <2> DEFINE all == got[s] \o part
  <2>7. all = Bytes(s, 0, v + r)
    <3>1. /\ all \in Seq(Byte) /\ Len(all) = v + r
          /\ \A n \in 1..v + r : all[n] = IF n <= v THEN got[s][n] ELSE part[n - v]
      <4>1. got[s] \in Seq(Byte) /\ part \in Seq(Byte)
        BY <1>1, <2>6
      <4>2. /\ all \in Seq(Byte) /\ Len(all) = Len(got[s]) + Len(part)
            /\ \A n \in 1..Len(got[s]) + Len(part) :
                  all[n] = IF n <= Len(got[s]) THEN got[s][n] ELSE part[n - Len(got[s])]
        BY <4>1, Concatenated
      <4> QED
        BY <2>6, <4>2
    <3>2. got[s] = Bytes(s, 0, v)
      BY <1>1 DEF DelimInv, Given
    <3>3. \A n \in 1..v : got[s][n] = PayloadByte(s, n)
      <4>1. s \in Nat
        BY <1>1
      <4>2. \A n \in 1..v : 0 + n = n
        BY <1>1
      <4> DEFINE g == got[s]
      <4>3. g = Bytes(s, 0, v)
        BY <3>2
      <4> HIDE DEF s, v, g
      <4>4. \A n \in 1..v : Bytes(s, 0, v)[n] = PayloadByte(s, 0 + n)
        BY <1>1, <4>1, BytesMade
      <4>5. \A n \in 1..v : g[n] = PayloadByte(s, n)
        BY <4>2, <4>3, <4>4
      <4> QED
        BY <4>5 DEF g
    <3> HIDE DEF all
    <3>4. \A n \in 1..v + r : all[n] = PayloadByte(s, n)
      <4> SUFFICES ASSUME NEW n \in 1..v + r PROVE all[n] = PayloadByte(s, n)
        OBVIOUS
      <4>1. CASE n <= v
        <5>1. n \in 1..v
          BY <1>1, <4>1
        <5> QED
          BY <3>1, <3>3, <4>1, <5>1
      <4>2. CASE ~(n <= v)
        <5>1. n - v \in 1..r /\ v + (n - v) = n
          BY <1>1, <2>1, <4>2
        <5>2. part[n - v] = PayloadByte(s, v + (n - v))
          BY <2>6, <5>1
        <5> QED
          BY <3>1, <4>2, <5>1, <5>2
      <4> QED
        BY <4>1, <4>2
    <3>5. /\ Bytes(s, 0, v + r) \in Seq(Byte) /\ Len(Bytes(s, 0, v + r)) = v + r
          /\ \A n \in 1..v + r : Bytes(s, 0, v + r)[n] = PayloadByte(s, 0 + n)
      <4>1. s \in Nat /\ v + r \in Nat
        BY <1>1, <2>1
      <4> QED
        BY <4>1, BytesMade
    <3>6. \A n \in 1..v + r : 0 + n = n
      BY <1>1, <2>1
    <3> DEFINE t == Bytes(s, 0, v + r)
               l == v + r
    <3>7. /\ t \in Seq(Byte) /\ Len(t) = l /\ \A n \in 1..l : t[n] = all[n]
          /\ all \in Seq(Byte) /\ Len(all) = l
      BY <3>1, <3>4, <3>5, <3>6
    <3> HIDE DEF t, l
    <3>8. all = t
      BY <3>7
    <3> QED
      BY <3>8 DEF t
  <2>8. Len(all) = v + r /\ all \in Seq(Byte)
    <3>1. s \in Nat /\ v + r \in Nat
      BY <1>1, <2>1
    <3> HIDE DEF all
    <3> QED
      BY <2>7, <3>1, BytesMade
  <2>9. /\ got' \in Seq(Seq(Byte)) /\ Len(got') = s
        /\ \A t \in 1..s : got'[t] = IF t = s THEN all ELSE got[t]
    <3>1. got' = [got EXCEPT ![s] = all]
      BY <2>2
    <3> HIDE DEF all
    <3> QED
      BY <1>1, <2>8, <3>1
  <2>10. ReaderTyped'
    <3>1. reader'.ended \in BOOLEAN /\ ~reader'.ended
      BY <2>4
    <3>2. reader'.last = FALSE
      BY <1>1, <2>4 DEF ReaderTyped
    <3>3. reader'.left \in Nat /\ reader'.state \in 0..2
      BY <1>1, <2>1, <2>4
    <3> QED
      BY <1>1, <2>4, <2>9, <3>1, <3>2, <3>3 DEF ReaderTyped
  <2>11. got'[s] = all
    <3>1. s \in 1..s
      BY <1>1
    <3> HIDE DEF all
    <3> QED
      BY <2>9, <3>1
  <2> HIDE DEF all
  <2>12. ReaderAt(f[r])'
    <3>1. f[r].s = s /\ f[r].v = v + r /\ f[r].left = left - r /\ f[r].intro = "none"
      <4> HIDE DEF s, v, left
      <4> QED
        BY <2>5 DEF PlaceAt
    <3>2. Len(got') = s /\ Len(got'[Len(got')]) = v + r
      BY <2>8, <2>9, <2>11
    <3>3. left = r => left - r = 0
      BY <1>1
    <3> HIDE DEF s, v, left
    <3> QED
      BY <2>4, <3>1, <3>2, <3>3 DEF ReaderAt
  <2>13. Given'
    <3> SUFFICES ASSUME NEW t \in 1..s
                 PROVE  /\ got'[t] = Bytes(t, 0, Len(got'[t])) /\ Len(got'[t]) <= Written(t)
                        /\ t < s => Len(got'[t]) = Written(t) /\ Finished(t)
      BY <2>4, <2>9 DEF Given, Written, Finished
    <3>1. CASE t = s
      <4>1. v + r <= Written(s)
        <5>1. Passed(f[r])
          BY <1>3, <1>8
        <5> QED
          BY <2>5, <5>1 DEF Passed, PlaceAt
      <4> QED
        BY <1>1, <2>7, <2>8, <2>11, <3>1, <4>1
    <3>2. CASE t # s
      <4>1. got'[t] = got[t] /\ t < s
        BY <1>1, <2>9, <3>2
      <4> QED
        BY <4>1 DEF DelimInv, Given
    <3> QED
      BY <3>1, <3>2
  <2> QED
    BY <1>2, <1>8, <2>2, <2>10, <2>12, <2>13, ReaderMoves
<1> QED
  BY <1>6, <1>7, <1>8

LEMMA NextReaderKeeps == DelimInv /\ NextReader /\ UNCHANGED <<writer, sent>> => DelimInv'
<1> SUFFICES ASSUME DelimInv, NextReader, UNCHANGED <<writer, sent>> PROVE DelimInv'
  OBVIOUS
<1> DEFINE s == Len(got)
<1>1. /\ ReaderTyped /\ reader.at = "told" /\ pipe' = pipe
      /\ got \in Seq(Seq(Byte)) /\ s \in Nat \ {0}
  BY DEF DelimInv, ReaderTyped, NextReader
<1>2. CASE ~reader.ended
  <2>1. reader' = [reader EXCEPT !.at = "aborted"] /\ got' = got
    BY <1>2 DEF NextReader
  <2>2. /\ reader'.at = "aborted" /\ reader'.len = reader.len
        /\ reader'.state = reader.state /\ reader'.left = reader.left
        /\ reader'.ended = reader.ended /\ reader'.last = reader.last
        /\ reader' = [state |-> reader'.state, ended |-> reader'.ended, left |-> reader'.left,
                      last |-> reader'.last, at |-> reader'.at, len |-> reader'.len]
    BY <1>1, <2>1 DEF ReaderTyped
  <2>3. ReaderTyped'
    BY <1>1, <1>2, <2>1, <2>2 DEF ReaderTyped
  <2> QED
    BY <1>1, <2>1, <2>2, <2>3, ReaderStays
<1>3. CASE reader.ended
  <2>1. reader' = NewReader /\ got' = Append(got, << >>)
    BY <1>3 DEF NextReader
  <2>2. /\ got' \in Seq(Seq(Byte)) /\ Len(got') = s + 1 /\ got'[s + 1] = << >>
        /\ \A t \in 1..s : got'[t] = got[t]
    <3>1. << >> \in Seq(Byte)
      OBVIOUS
    <3> QED
      BY <1>1, <2>1, <3>1
  <2>3. ReaderTyped'
    BY <1>1, <2>1, <2>2 DEF ReaderTyped, NewReader
  <2>4. PICK f : Between(f)
    BY DEF DelimInv
  <2>5. f[0] = StartOf(s + 1) /\ pipe \in Seq(Byte) /\ Len(pipe) \in Nat
    BY <1>3, <2>4 DEF Between, ReaderAt, Path
  <2>6. ReaderAt(f[0])'
    BY <1>1, <2>1, <2>2, <2>5 DEF ReaderAt, StartOf, PlaceAt, NewReader
  <2>7. Given'
    <3> SUFFICES ASSUME NEW t \in 1..s + 1
                 PROVE  /\ got'[t] = Bytes(t, 0, Len(got'[t])) /\ Len(got'[t]) <= Written(t)
                        /\ t < s + 1 => Len(got'[t]) = Written(t) /\ Finished(t)
      BY <2>1, <2>2 DEF Given, Written, Finished, NewReader
    <3>1. CASE t = s + 1
      <4>1. Len(<< >>) = 0 /\ << >> = Bytes(t, 0, 0) /\ 0 <= Written(t)
        <5>1. << >> = Bytes(t, 0, 0)
          BY DEF Bytes
        <5>2. Written(t) \in Nat
          BY <1>1 DEF DelimInv, WriterTyped, Written
        <5> QED
          BY <5>1, <5>2
      <4> QED
        BY <1>1, <2>2, <3>1, <4>1
    <3>2. CASE t # s + 1
      <4>1. t \in 1..s /\ got'[t] = got[t]
        <5>1. t \in 1..s
          BY <1>1, <3>2
        <5> QED
          BY <2>2, <5>1
      <4> QED
        BY <1>3, <4>1 DEF DelimInv, Given
    <3> QED
      BY <3>1, <3>2
  <2>8. pipe' = SubSeq(pipe, 0 + 1, Len(pipe)) /\ 0 \in 0..Len(pipe)
    BY <1>1, <2>5
  <2> QED
    BY <2>3, <2>4, <2>6, <2>7, <2>8, ReaderMoves
<1> QED
  BY <1>2, <1>3

LEMMA DelimStutter == DelimInv /\ UNCHANGED delimVars => DelimInv'
<1> SUFFICES ASSUME DelimInv, UNCHANGED delimVars PROVE DelimInv'
  OBVIOUS
<1>1. UNCHANGED <<writer, sent, pipe, got, reader>>
  BY DEF delimVars
<1>2. ReaderTyped'
  BY <1>1 DEF DelimInv, ReaderTyped
<1> QED
  BY <1>1, <1>2, ReaderStays

LEMMA DelimStep == DelimInv /\ DelimNext => DelimInv'
<1> SUFFICES ASSUME DelimInv, DelimNext PROVE DelimInv'
  OBVIOUS
<1>1. CASE Writer
  BY <1>1, WriteCallKeeps, WriteIntroKeeps, WritePayloadKeeps, CloseCallKeeps, CloseStepKeeps,
     NextWriterKeeps DEF Writer
<1>2. CASE HangUp
  <2>1. UNCHANGED <<writer, sent, pipe, got, reader>>
    BY <1>2 DEF HangUp
  <2>2. ReaderTyped'
    BY <2>1 DEF DelimInv, ReaderTyped
  <2> QED
    BY <2>1, <2>2, ReaderStays
<1>3. CASE Reader
  BY <1>3, ReadCallKeeps, ReadIntroKeeps, ReadPayloadKeeps, NextReaderKeeps DEF Reader
<1> QED
  BY <1>1, <1>2, <1>3 DEF DelimNext

(* What a reader is given of a stream is the beginning of what was written *)
(* to it, and all of it at its end, for any chunk size, however long and   *)
(* many the streams, wherever the underlying stream cuts what it takes and *)
(* gives, and wherever it ends (delim_stream.c).                           *)
THEOREM StreamsStayDelimited == Spec => []StreamsDelimited
<1>1. Init => DelimInv
  BY DelimInvInit DEF Init
<1>2. DelimInv /\ [Next]_vars => DelimInv'
  <2> SUFFICES ASSUME DelimInv, [Next]_vars PROVE DelimInv'
    OBVIOUS
  <2>1. CASE DelimNext /\ Delim
    BY <2>1, DelimStep
  <2>2. CASE UNCHANGED delimVars
    BY <2>2, DelimStutter
  <2> QED
    BY <2>1, <2>2 DEF Next, vars, ReaderAlone, WriterAlone, ApplicationAlone, TransportAlone,
       ServerAlone
<1> QED
  BY <1>1, <1>2, DelimInvSound, PTL DEF Spec

-----------------------------------------------------------------------------
(* The HTTP reader. *)

(* What the parser has consumed. *)
Parsed == fetched - Len(prebody)

(* Up to p, each head is of a request that is over. *)
BetweenHeads(p) == \A m \in 1..p : Kind(m) = "E" => \E l \in m..p : Wire[l].last

(* The head of the request that the parser is in at p ends at h.           *)
LastHead(h, p) == Kind(h) = "E" /\ \A m \in h + 1..p : Kind(m) # "E"
Unfinished(h, p) == \A l \in h..p : ~Wire[l].last

BodyCells(h, p) == {m \in h + 1..p : Kind(m) = "B"}

(* bytes are the cells of the body that were consumed, but for some that   *)
(* went through the prebody buffer.                                        *)
Collected(h, p, bytes, via) ==
    /\ Rising(bytes)
    /\ Members(bytes) \subseteq BodyCells(h, p)
    /\ BodyCells(h, p) \ Members(bytes) \subseteq via

(* bytes are the positions that follow p. *)
Follow(p, bytes) == bytes \in Seq(Nat) /\ \A n \in 1..Len(bytes) : bytes[n] = p + n

ReadTyped ==
    /\ arrived \in 0..Len(Wire) /\ fetched \in 0..arrived
    /\ announced \in BOOLEAN
    /\ Follow(Parsed, prebody) /\ Len(prebody) <= fetched
    /\ copied \in Seq(Nat) /\ given \in Seq(Nat)

(* The parser is in the body, or before the line feed that ends its head.  *)
InBody ==
    \E h \in 1..Parsed + 1 :
        /\ LastHead(h, Parsed) /\ Unfinished(h, Parsed)
        /\ announced <=> h = Parsed + 1
        /\ Collected(h, Parsed, given \o copied, viaPrebody)
BodyDone ==
    /\ ~announced /\ Wire[Parsed].last
    /\ \E h \in 1..Parsed : LastHead(h, Parsed) /\ Collected(h, Parsed, given, viaPrebody)

ReadInv ==
    /\ ReadTyped
    /\ Rising(given)
    /\ Members(prebody) \subseteq viaPrebody /\ Members(copied) \subseteq viaPrebody
    /\ announced => prebody # << >>
    /\ caller \in {"head", "prebody"} => ~announced /\ BetweenHeads(Parsed)
    /\ caller = "body" => state \in {"body", "eom"}
    /\ caller = "reading" => state = "body" /\ want \in Nat /\ Len(copied) < want
    /\ caller \in {"body", "reading"} /\ state = "body" => InBody
    /\ caller = "body" /\ state = "eom" => BodyDone
    /\ caller \notin {"reading", "gone"} => copied = << >>

LEMMA AscendingEnumerates ==
    ASSUME NEW n \in Nat, NEW S \in SUBSET (1..n)
    PROVE  Cardinality(S) \in 0..n /\ Enumerates(Ascending(S), S)
<1> DEFINE c == Cardinality(S)
           Orders(s) == \A i, j \in DOMAIN s : i < j => s[i] < s[j]
<1>1. c \in 0..n /\ \E s : Enumerates(s, S)
  BY Enumerable
<1>2. PICK e : Enumerates(e, S)
  BY <1>1
<1>3. e \in [1..c -> S] /\ Orders(e)
  BY <1>2 DEF Enumerates
<1> DEFINE a == Ascending(S)
<1>4. a \in [1..c -> S] /\ Orders(a)
  BY <1>3 DEF Ascending
<1> HIDE DEF a
<1>5. S \subseteq Nat /\ c \in Nat
  BY <1>1
<1>6. \A x \in S : \E i \in 1..c : a[i] = x
  <2>1. IsFiniteSet(S)
    BY FiniteBelow
  <2> DEFINE R == {a[i] : i \in 1..c}
  <2>2. a \in Injection(1..c, S)
    <3>1. ASSUME NEW i \in 1..c, NEW j \in 1..c, i # j
          PROVE  a[i] # a[j]
      <4>1. a[i] \in Nat /\ a[j] \in Nat
        BY <1>4, <1>5
      <4>2. i < j \/ j < i
        BY <1>5, <3>1
      <4>3. DOMAIN a = 1..c
        BY <1>4
      <4>4. a[i] < a[j] \/ a[j] < a[i]
        BY <1>4, <4>2, <4>3
      <4> QED
        BY <4>1, <4>4
    <3> QED
      BY <1>4, <3>1, Fun_IsInj
  <2>3. a \in Surjection(1..c, S)
    <3>1. IsFiniteSet(1..c) /\ Cardinality(1..c) = c
      BY <1>5, FS_Interval
    <3> QED
      BY <2>1, <2>2, <3>1, FS_Injection
  <2> QED
    BY <2>3 DEF Surjection
<1> QED
  BY <1>1, <1>4, <1>6 DEF Enumerates, a

(* The first c and the rest follow too. *)
LEMMA FollowParts ==
    ASSUME NEW p \in Nat, NEW bytes, Follow(p, bytes), NEW c \in 0..Len(bytes)
    PROVE  /\ Follow(p, SubSeq(bytes, 1, c)) /\ Len(SubSeq(bytes, 1, c)) = c
           /\ Follow(p + c, From(bytes, c)) /\ Len(From(bytes, c)) = Len(bytes) - c
<1> DEFINE a == SubSeq(bytes, 1, c)
           b == From(bytes, c)
<1>1. bytes \in Seq(Nat) /\ Len(bytes) \in Nat /\ c \in Nat /\ c <= Len(bytes)
  BY DEF Follow
<1>2. a \in Seq(Nat) /\ Len(a) = c /\ \A n \in 1..c : a[n] = bytes[n]
  BY <1>1
<1>3. b \in Seq(Nat) /\ Len(b) = Len(bytes) - c /\ \A n \in 1..Len(bytes) - c : b[n] = bytes[c + n]
  BY <1>1 DEF From
<1> HIDE DEF a, b
<1>4. Follow(p, a)
  BY <1>1, <1>2 DEF Follow
<1>5. Follow(p + c, b)
  <2> SUFFICES ASSUME NEW n \in 1..Len(b) PROVE b[n] = p + c + n
    BY <1>3 DEF Follow
  <2>1. c + n \in 1..Len(bytes) /\ b[n] = bytes[c + n]
    BY <1>1, <1>3
  <2> QED
    BY <1>1, <2>1 DEF Follow
<1> QED
  BY <1>2, <1>3, <1>4, <1>5 DEF a, b

LEMMA FollowOn ==
    ASSUME NEW p \in Nat, NEW a, NEW b, Follow(p, a), Follow(p + Len(a), b)
    PROVE  Follow(p, a \o b) /\ Len(a \o b) = Len(a) + Len(b)
<1>1. a \in Seq(Nat) /\ b \in Seq(Nat)
  BY DEF Follow
<1>2. /\ a \o b \in Seq(Nat) /\ Len(a \o b) = Len(a) + Len(b) /\ Len(a) \in Nat /\ Len(b) \in Nat
      /\ \A n \in 1..Len(a) + Len(b) : (a \o b)[n] = IF n <= Len(a) THEN a[n] ELSE b[n - Len(a)]
  BY <1>1, Concatenated
<1> DEFINE ab == a \o b
<1> HIDE DEF ab
<1>3. ASSUME NEW n \in 1..Len(ab) PROVE ab[n] = p + n
  <2>1. CASE n <= Len(a)
    <3>1. n \in 1..Len(a) /\ ab[n] = a[n]
      BY <1>2, <2>1 DEF ab
    <3> QED
      BY <3>1 DEF Follow
  <2>2. CASE ~ (n <= Len(a))
    <3>1. n - Len(a) \in 1..Len(b) /\ ab[n] = b[n - Len(a)]
      BY <1>2, <2>2 DEF ab
    <3> QED
      BY <1>2, <3>1 DEF Follow
  <2> QED
    BY <2>1, <2>2
<1> QED
  BY <1>2, <1>3 DEF Follow, ab

LEMMA FollowFetched ==
    ASSUME NEW p \in Nat, NEW r \in Nat, p = fetched
    PROVE  Follow(p, Fetch(r)) /\ Len(Fetch(r)) = r
BY DEF Follow, Fetch

(* BodyOf picks the cells of the body. *)
LEMMA BodyOfBytes ==
    ASSUME NEW p \in Nat, NEW bytes, Follow(p, bytes)
    PROVE  /\ BodyOf(bytes) \in Seq(Nat) /\ Len(BodyOf(bytes)) <= Len(bytes)
           /\ Rising(BodyOf(bytes)) /\ Members(BodyOf(bytes)) = BodyCells(p, p + Len(bytes))
<1> DEFINE l == Len(bytes)
           S == {n \in DOMAIN bytes : Kind(bytes[n]) = "B"}
           c == Cardinality(S)
           places == Ascending(S)
           body == BodyOf(bytes)
<1>1. l \in Nat /\ DOMAIN bytes = 1..l /\ \A n \in 1..l : bytes[n] = p + n
  BY DEF Follow
<1>2. S \in SUBSET (1..l) /\ \A n \in 1..l : n \in S <=> Kind(p + n) = "B"
  BY <1>1
<1> HIDE DEF S, l
<1>3. c \in 0..l /\ Enumerates(places, S)
  BY <1>1, <1>2, AscendingEnumerates
<1> HIDE DEF c, places
<1>4. /\ c \in Nat /\ c <= l /\ places \in [1..c -> S]
      /\ \A i, j \in 1..c : i < j => places[i] < places[j]
      /\ \A x \in S : \E i \in 1..c : places[i] = x
  BY <1>1, <1>3 DEF Enumerates, c
<1>5. body = [n \in 1..c |-> bytes[places[n]]]
  BY <1>4 DEF BodyOf, places, S
<1>6. \A n \in 1..c : places[n] \in 1..l /\ body[n] = p + places[n] /\ Kind(body[n]) = "B"
  <2> TAKE n \in 1..c
  <2>1. places[n] \in S
    BY <1>4
  <2>2. places[n] \in 1..l
    BY <1>2, <2>1
  <2>3. body[n] = bytes[places[n]]
    BY <1>5
  <2> QED
    BY <1>1, <1>2, <2>1, <2>2, <2>3
<1>7. \A n \in 1..c : body[n] \in Nat
  BY <1>1, <1>6
<1>8. body \in Seq(Nat) /\ Len(body) = c
  BY <1>4, <1>5, <1>7
<1> HIDE DEF body
<1>9. Rising(body)
  <2> SUFFICES ASSUME NEW m \in 1..c, NEW n \in 1..c, m < n PROVE body[m] < body[n]
    BY <1>8 DEF Rising
  <2>1. places[m] < places[n] /\ places[m] \in Nat /\ places[n] \in Nat
    BY <1>1, <1>4, <1>6
  <2> QED
    BY <1>6, <2>1
<1>10. ASSUME NEW x \in Members(body) PROVE x \in BodyCells(p, p + l)
  <2>1. PICK n \in 1..c : x = body[n]
    BY <1>8 DEF Members
  <2>2. x \in p + 1..p + l
    BY <1>1, <1>6, <2>1
  <2> QED
    BY <1>6, <2>1, <2>2 DEF BodyCells
<1>11. ASSUME NEW x \in BodyCells(p, p + l) PROVE x \in Members(body)
  <2>1. x \in p + 1..p + l /\ Kind(x) = "B"
    BY DEF BodyCells
  <2>2. x - p \in 1..l /\ p + (x - p) = x
    BY <1>1, <2>1
  <2>3. x - p \in S
    BY <1>2, <2>1, <2>2
  <2>4. PICK i \in 1..c : places[i] = x - p
    BY <1>4, <2>3
  <2>5. body[i] = x
    BY <1>6, <2>2, <2>4
  <2> QED
    BY <1>8, <2>5 DEF Members
<1> QED
  BY <1>4, <1>8, <1>9, <1>10, <1>11 DEF body, l

(* What the parser does with the bytes that follow p. *)
Ran(p, bytes, ann, x) ==
    /\ x.consumed \in 0..Len(bytes)
    /\ x.body \in Seq(Nat) /\ Len(x.body) <= x.consumed
    /\ Rising(x.body) /\ Members(x.body) = BodyCells(p, p + x.consumed)
    /\ x.paused \in {"no", "headers", "complete"}
    /\ \A m \in p + 1..p + x.consumed :
          /\ Kind(m) = "E" => ann /\ m = p + 1
          /\ Wire[m].last => x.paused = "complete" /\ m = p + x.consumed
    /\ x.paused = "no" => x.consumed = Len(bytes)
    /\ x.paused = "headers" =>
          x.consumed < Len(bytes) /\ Kind(p + x.consumed + 1) = "E" /\ ~(ann /\ x.consumed = 0)
    /\ x.paused = "complete" => x.consumed >= 1 /\ Wire[p + x.consumed].last

LEMMA ExecuteRuns ==
    ASSUME NEW p \in Nat, NEW bytes, Follow(p, bytes), NEW ann \in BOOLEAN
    PROVE  Ran(p, bytes, ann, Execute(bytes, ann))
<1> DEFINE l == Len(bytes)
           Pauses(n) == Wire[p + n].last \/ (Kind(p + n) = "E" /\ ~(ann /\ n = 1))
           pauses == {n \in DOMAIN bytes :
                         \/ Wire[bytes[n]].last
                         \/ Kind(bytes[n]) = "E" /\ ~(ann /\ n = 1)}
           n == IF pauses = {} THEN Len(bytes) ELSE Min(pauses)
           headers == pauses # {} /\ Kind(bytes[n]) = "E" /\ ~(ann /\ n = 1)
           c == IF headers THEN n - 1 ELSE n
           x == Execute(bytes, ann)
<1>1. l \in Nat /\ DOMAIN bytes = 1..l /\ \A i \in 1..l : bytes[i] = p + i
  BY DEF Follow
<1>2. x = [consumed |-> c, body |-> BodyOf(SubSeq(bytes, 1, c)),
           paused |-> IF pauses = {} THEN "no" ELSE IF headers THEN "headers" ELSE "complete"]
  BY DEF Execute
<1>3. pauses \subseteq 1..l /\ \A i \in 1..l : i \in pauses <=> Pauses(i)
  BY <1>1
<1>4. /\ n \in 0..l
      /\ pauses = {} => n = l
      /\ pauses # {} => n \in 1..l /\ Pauses(n)
      /\ \A i \in 1..l : Pauses(i) => pauses # {} /\ n <= i
  <2>1. CASE pauses = {}
    BY <1>1, <1>3, <2>1
  <2>2. CASE pauses # {}
    <3>1. pauses \in SUBSET Nat
      BY <1>1, <1>3
    <3>2. n \in pauses /\ \A i \in pauses : n <= i
      <4>1. Min(pauses) \in pauses /\ \A i \in pauses : Min(pauses) <= i
        BY <2>2, <3>1, NatMinimum
      <4> QED
        BY <2>2, <4>1
    <3> HIDE DEF n, pauses, Pauses, l
    <3> QED
      BY <1>1, <1>3, <2>2, <3>2
  <2> QED
    BY <2>1, <2>2
<1>5. headers <=> pauses # {} /\ Kind(p + n) = "E" /\ ~(ann /\ n = 1)
  <2>1. CASE pauses = {}
    BY <2>1
  <2>2. CASE pauses # {}
    <3>1. bytes[n] = p + n
      BY <1>1, <1>4, <2>2
    <3> QED
      BY <3>1
  <2> QED
    BY <2>1, <2>2
<1> HIDE DEF pauses, n, headers, x, l, Pauses
<1>6. (headers => n \in 1..l /\ c = n - 1) /\ (~headers => c = n) /\ c \in 0..l
  BY <1>1, <1>4, <1>5
<1> DEFINE head == SubSeq(bytes, 1, c)
<1> HIDE DEF c
<1>7. Follow(p, head) /\ Len(head) = c
  BY <1>6, FollowParts DEF l
<1>8. /\ BodyOf(head) \in Seq(Nat) /\ Len(BodyOf(head)) <= c
      /\ Rising(BodyOf(head)) /\ Members(BodyOf(head)) = BodyCells(p, p + c)
  BY <1>7, BodyOfBytes
<1>9. x.consumed = c /\ x.body = BodyOf(head)
      /\ x.paused = IF pauses = {} THEN "no" ELSE IF headers THEN "headers" ELSE "complete"
  BY <1>2
<1> HIDE DEF head
<1>10. ASSUME NEW m \in p + 1..p + c
       PROVE  /\ Kind(m) = "E" => ann /\ m = p + 1
              /\ Wire[m].last => x.paused = "complete" /\ m = p + c
  <2> DEFINE i == m - p
  <2>1. i \in 1..c /\ m = p + i /\ i \in 1..l /\ c \in Nat /\ n \in Nat
    BY <1>1, <1>4, <1>6
  <2> HIDE DEF i
  <2>2. ASSUME Pauses(i) PROVE pauses # {} /\ ~headers /\ i = n /\ c = n
    BY <1>4, <1>6, <2>1, <2>2
  <2>3. ASSUME Kind(m) = "E" PROVE ann /\ m = p + 1
    <3> SUFFICES ASSUME ~(ann /\ i = 1) PROVE FALSE
      BY <2>1
    <3>1. Pauses(i)
      BY <2>1, <2>3 DEF Pauses
    <3> QED
      BY <1>5, <2>1, <2>2, <2>3, <3>1
  <2>4. ASSUME Wire[m].last PROVE x.paused = "complete" /\ m = p + c
    <3>1. Pauses(i)
      BY <2>1, <2>4 DEF Pauses
    <3> QED
      BY <1>9, <2>1, <2>2, <3>1
  <2> QED
    BY <2>3, <2>4
<1>11. ASSUME x.paused = "headers"
       PROVE  c < l /\ Kind(p + c + 1) = "E" /\ ~(ann /\ c = 0)
  <2>1. headers
    BY <1>9, <1>11
  <2>2. n = c + 1 /\ p + c + 1 = p + n /\ c < l
    BY <1>1, <1>6, <2>1
  <2> QED
    BY <1>5, <1>6, <2>1, <2>2
<1>12. ASSUME x.paused = "complete" PROVE c >= 1 /\ Wire[p + c].last
  <2>1. pauses # {} /\ ~headers /\ c = n
    BY <1>6, <1>9, <1>12
  <2> QED
    BY <1>1, <1>4, <1>5, <2>1 DEF Pauses
<1>13. x.paused = "no" => c = l
  BY <1>4, <1>5, <1>6, <1>9
<1>14. x.paused \in {"no", "headers", "complete"}
  BY <1>9
<1> QED
  BY <1>6, <1>8, <1>9, <1>10, <1>11, <1>12, <1>13, <1>14 DEF Ran, l, x

(* What each request of the wire consists of. *)
LEMMA WireGrammar ==
    /\ Len(Wire) \in Nat
    /\ \A n \in 1..Len(Wire) : Wire[n].last =>
          \E m \in 1..n : Kind(m) = "E" /\ \A l \in m..n - 1 : ~Wire[l].last
    /\ \A m, n \in 1..Len(Wire) : Kind(m) = "E" /\ Kind(n) = "E" /\ m < n =>
          \E l \in m..n - 1 : Wire[l].last
<1>1. Len(Wire) \in Nat /\ DOMAIN Wire = 1..Len(Wire)
  BY WireAssumption
<1>2. /\ \A n \in DOMAIN Wire : Wire[n].last =>
             \E m \in 1..n : Kind(m) = "E" /\ \A l \in m..n - 1 : ~Wire[l].last
      /\ \A m, n \in DOMAIN Wire : Kind(m) = "E" /\ Kind(n) = "E" /\ m < n =>
             \E l \in m..n - 1 : Wire[l].last
  BY Zenon, WireAssumption
<1> QED
  BY Zenon, <1>1, <1>2

(* What a request's grammar makes of it: in a head the parser is paused by *)
(* the end of it only, and in a body by the end of the request only.       *)
LEMMA HeadParsed ==
    ASSUME NEW p \in Nat, NEW bytes, NEW x, Follow(p, bytes), p + Len(bytes) <= Len(Wire),
           Ran(p, bytes, FALSE, x), BetweenHeads(p)
    PROVE  x.paused # "complete" /\ BetweenHeads(p + x.consumed)
<1> DEFINE c == x.consumed
<1>1. c \in Nat /\ c <= Len(bytes) /\ Len(bytes) \in Nat /\ Len(Wire) \in Nat
  BY WireGrammar DEF Ran, Follow
<1>2. \A m \in p + 1..p + c : Kind(m) # "E"
  BY DEF Ran
<1>3. x.paused = "complete" => c >= 1 /\ Wire[p + c].last
  BY DEF Ran
<1> HIDE DEF c
<1>4. \A m \in 1..p + c : Kind(m) = "E" => m \in 1..p
  BY <1>1, <1>2
<1>5. BetweenHeads(p + c)
  <2> SUFFICES ASSUME NEW m \in 1..p + c, Kind(m) = "E"
               PROVE  \E l \in m..p + c : Wire[l].last
    BY DEF BetweenHeads
  <2>1. PICK l \in m..p : Wire[l].last
    BY <1>4 DEF BetweenHeads
  <2> QED
    BY <1>1, <2>1
<1>6. ASSUME x.paused = "complete" PROVE FALSE
  <2> DEFINE q == p + c
  <2>1. q \in 1..Len(Wire) /\ Wire[q].last /\ c >= 1
    BY <1>1, <1>3, <1>6
  <2> HIDE DEF q
  <2>2. PICK m \in 1..q : Kind(m) = "E" /\ \A l \in m..q - 1 : ~Wire[l].last
    BY Zenon, <2>1, WireGrammar
  <2>3. PICK l \in m..p : Wire[l].last
    BY <1>4, <2>2 DEF BetweenHeads, q
  <2>4. l \in m..q - 1
    BY <1>1, <2>1, <2>3 DEF q
  <2> QED
    BY <2>2, <2>3, <2>4
<1> QED
  BY <1>5, <1>6 DEF c

(* What the caller has of the body remains what was consumed of it.        *)
LEMMA BodyParsed ==
    ASSUME NEW p \in Nat, NEW h \in 1..p + 1, NEW bytes, NEW ann \in BOOLEAN, NEW x,
           NEW had \in Seq(Nat), NEW via,
           Follow(p, bytes), bytes # << >>, p + Len(bytes) <= Len(Wire), Ran(p, bytes, ann, x),
           LastHead(h, p), Unfinished(h, p), ann <=> h = p + 1, Collected(h, p, had, via)
    PROVE  /\ x.paused # "headers"
           /\ h \in 1..p + x.consumed /\ LastHead(h, p + x.consumed)
           /\ x.paused = "no" => Unfinished(h, p + x.consumed)
           /\ x.paused = "complete" => Wire[p + x.consumed].last
           /\ Collected(h, p + x.consumed, had \o x.body, via)
<1> DEFINE c == x.consumed
           q == p + c
<1>1. c \in Nat /\ c <= Len(bytes) /\ Len(bytes) \in Nat /\ Len(Wire) \in Nat
      /\ h \in Nat /\ q \in Nat
  BY WireGrammar DEF Ran, Follow
<1>2. Len(bytes) # 0
  BY DEF Follow
<1>3. /\ \A m \in p + 1..q : Kind(m) = "E" => ann /\ m = p + 1
      /\ \A m \in p + 1..q : Wire[m].last => x.paused = "complete" /\ m = q
      /\ x.paused = "no" => c = Len(bytes)
      /\ x.paused = "headers" => c < Len(bytes) /\ Kind(q + 1) = "E" /\ ~(ann /\ c = 0)
      /\ x.paused = "complete" => c >= 1 /\ Wire[q].last
      /\ x.paused \in {"no", "headers", "complete"}
  BY DEF Ran
<1>4. x.body \in Seq(Nat) /\ Rising(x.body) /\ Members(x.body) = BodyCells(p, q)
  BY DEF Ran
<1> HIDE DEF c
<1>5. h \in 1..q
  <2>1. CASE ann
    <3>1. c # 0
      BY <1>1, <1>2, <1>3, <2>1
    <3> QED
      BY <1>1, <3>1
  <2>2. CASE ~ann
    BY <1>1, <2>2
  <2> QED
    BY <2>1, <2>2
<1>6. Kind(h) = "E" /\ LastHead(h, q)
  <2>1. ASSUME NEW m \in h + 1..q PROVE Kind(m) # "E"
    <3>1. CASE m \in h + 1..p
      BY <3>1 DEF LastHead
    <3>2. CASE m \in p + 1..q
      BY <1>1, <1>3, <3>2
    <3> QED
      BY <1>1, <3>1, <3>2
  <2> QED
    BY <2>1 DEF LastHead
<1>7. \A l \in h..q : Wire[l].last => x.paused = "complete" /\ l = q
  <2> TAKE l \in h..q
  <2>1. CASE l \in h..p
    BY <2>1 DEF Unfinished
  <2>2. CASE l \in p + 1..q
    BY <1>3, <2>2
  <2> QED
    BY <1>1, <2>1, <2>2
<1>8. x.paused # "headers"
  <2> SUFFICES ASSUME x.paused = "headers" PROVE FALSE
    OBVIOUS
  <2> DEFINE n == q + 1
  <2>1. Kind(n) = "E" /\ n \in 1..Len(Wire) /\ h \in 1..Len(Wire) /\ h < n
    BY <1>1, <1>3, <1>5
  <2> HIDE DEF n
  <2>2. PICK l \in h..n - 1 : Wire[l].last
    BY Zenon, <1>6, <2>1, WireGrammar
  <2>3. l \in h..q
    BY <1>1, <2>2 DEF n
  <2> QED
    BY <1>7, <2>2, <2>3
<1>9. x.paused = "no" => Unfinished(h, q)
  BY <1>7 DEF Unfinished
<1>10. BodyCells(h, q) = BodyCells(h, p) \cup BodyCells(p, q)
  <2>1. CASE h = p + 1
    <3>1. BodyCells(h, p) = {}
      BY <1>1, <2>1 DEF BodyCells
    <3>2. Kind(p + 1) # "B"
      BY <1>6, <2>1
    <3> QED
      BY <1>1, <2>1, <3>1, <3>2 DEF BodyCells
  <2>2. CASE h \in 1..p
    BY <1>1, <2>2 DEF BodyCells
  <2> QED
    BY <1>1, <2>1, <2>2
<1>11. \A m \in Members(had), n \in Members(x.body) : m < n
  <2> SUFFICES ASSUME NEW m \in Members(had), NEW n \in Members(x.body) PROVE m < n
    OBVIOUS
  <2>1. m \in h + 1..p /\ n \in p + 1..q
    BY <1>4 DEF Collected, BodyCells
  <2> QED
    BY <1>1, <2>1
<1>12. /\ Members(had \o x.body) = Members(had) \cup Members(x.body)
       /\ Rising(had \o x.body)
  BY <1>4, <1>11, MembersJoined DEF Collected
<1>13. Collected(h, q, had \o x.body, via)
  BY <1>4, <1>10, <1>12 DEF Collected
<1> QED
  BY <1>3, <1>5, <1>6, <1>8, <1>9, <1>13 DEF c

LEMMA BodyUpToHead ==
    ASSUME NEW p \in Nat, NEW h \in 1..p, LastHead(h, p)
    PROVE  BodyUpTo(p) = BodyCells(h, p)
<1> DEFINE H == {0} \cup {m \in 1..p : Kind(m) = "E"}
<1>1. h \in H /\ H \subseteq Nat
  BY DEF LastHead
<1>2. \A y \in H : h >= y
  <2> SUFFICES ASSUME NEW y \in H, ~(h >= y) PROVE FALSE
    OBVIOUS
  <2>1. y \in h + 1..p /\ Kind(y) = "E"
    BY <1>1
  <2> QED
    BY <2>1 DEF LastHead
<1>3. \A x \in H : (\A y \in H : x >= y) => x = h
  BY <1>1, <1>2
<1> HIDE DEF H
<1>4. Max(H) = h
  BY <1>1, <1>2, <1>3 DEF Max
<1> QED
  BY <1>4 DEF BodyUpTo, BodyCells, H

LEMMA ReadInvSound == ReadInv => BodyIntact
<1> SUFFICES ASSUME ReadInv PROVE BodyIntact
  OBVIOUS
<1>1. given \in Seq(Nat) /\ Rising(given)
  BY DEF ReadInv, ReadTyped
<1>2. \A m, n \in DOMAIN given : m < n => given[m] < given[n]
  BY <1>1, RangeIsMembers DEF Rising
<1>3. ASSUME state = "eom", caller = "body"
      PROVE  LET body == BodyUpTo(fetched - Len(prebody))
             IN  Range(given) \subseteq body /\ body \ Range(given) \subseteq viaPrebody
  <2>1. Parsed \in Nat
    BY DEF ReadInv, ReadTyped, Follow, Parsed
  <2>2. PICK h \in 1..Parsed : LastHead(h, Parsed) /\ Collected(h, Parsed, given, viaPrebody)
    BY <1>3 DEF ReadInv, BodyDone
  <2>3. BodyUpTo(Parsed) = BodyCells(h, Parsed)
    BY <2>1, <2>2, BodyUpToHead
  <2> QED
    BY <1>1, <2>2, <2>3, RangeIsMembers DEF Collected, Parsed
<1> QED
  BY <1>2, <1>3 DEF BodyIntact

LEMMA ReadInvInit == ReaderInit => ReadInv
<1> SUFFICES ASSUME ReaderInit PROVE ReadInv
  OBVIOUS
<1>1. prebody = << >> /\ given = << >> /\ copied = << >> /\ fetched = 0
  BY DEF ReaderInit
<1>4. Parsed = 0 /\ Len(prebody) = 0 /\ Len(given) = 0 /\ Len(copied) = 0
  <2>1. Len(<< >>) = 0
    OBVIOUS
  <2>2. Len(prebody) = 0 /\ Len(given) = 0 /\ Len(copied) = 0
    BY Zenon, <1>1, <2>1
  <2>3. fetched = 0
    BY <1>1
  <2>4. Parsed = 0
    BY <2>2, <2>3 DEF Parsed
  <2> QED
    BY <2>2, <2>4
<1>5. Follow(Parsed, prebody) /\ copied \in Seq(Nat) /\ given \in Seq(Nat)
  BY <1>1, <1>4 DEF Follow
<1>2. ReadTyped
  <2>1. arrived = 0 /\ announced = FALSE /\ Len(Wire) \in Nat
    BY WireGrammar DEF ReaderInit
  <2>2. arrived \in 0..Len(Wire) /\ fetched \in 0..arrived /\ Len(prebody) <= fetched
    BY <1>1, <1>4, <2>1
  <2> QED
    BY <1>5, <2>1, <2>2 DEF ReadTyped
<1>3. Rising(given) /\ Members(prebody) = {} /\ Members(copied) = {}
  BY <1>4 DEF Rising, Members
<1>6. BetweenHeads(Parsed)
  BY <1>4 DEF BetweenHeads
<1> QED
  BY <1>2, <1>3, <1>6 DEF ReadInv, ReaderInit

(* Steps that touch no bytes. *)
LEMMA ReadStays ==
    ASSUME ReadInv, UNCHANGED <<fetched, prebody, announced, copied, given, viaPrebody>>,
           arrived' \in arrived..Len(Wire)
    PROVE  /\ ReadTyped' /\ Parsed' = Parsed
           /\ Rising(given)' /\ (Members(prebody) \subseteq viaPrebody)'
           /\ (Members(copied) \subseteq viaPrebody)' /\ (announced => prebody # << >>)'
           /\ BetweenHeads(Parsed)' <=> BetweenHeads(Parsed)
           /\ InBody' <=> InBody
           /\ BodyDone' <=> BodyDone
<1>1. Parsed' = Parsed
  BY DEF Parsed
<1>2. ReadTyped'
  BY <1>1 DEF ReadInv, ReadTyped
<1> QED
  BY <1>1, <1>2 DEF ReadInv, InBody, BodyDone

LEMMA ArriveKeeps == ReadInv /\ Arrive => ReadInv'
<1> SUFFICES ASSUME ReadInv, Arrive PROVE ReadInv'
  OBVIOUS
<1>1. arrived' \in arrived..Len(Wire)
  BY WireGrammar DEF Arrive, ReadInv, ReadTyped
<1> QED
  BY <1>1, ReadStays DEF Arrive, ReadInv

LEMMA StillArrived == ReadInv /\ UNCHANGED arrived => arrived' \in arrived..Len(Wire)
BY WireGrammar DEF ReadInv, ReadTyped

LEMMA PrebodyCallKeeps == ReadInv /\ PrebodyCall /\ UNCHANGED <<arrived, want>> => ReadInv'
<1> SUFFICES ASSUME ReadInv, PrebodyCall, UNCHANGED <<arrived, want>> PROVE ReadInv'
  OBVIOUS
<1>1. UNCHANGED <<fetched, prebody, announced, copied, given, viaPrebody>>
  BY DEF PrebodyCall
<1>2. arrived' \in arrived..Len(Wire)
  BY StillArrived
<1> QED
  BY <1>1, <1>2, ReadStays DEF PrebodyCall, ReadInv

LEMMA PrebodyWaitsKeeps == ReadInv /\ PrebodyWaits /\ UNCHANGED <<arrived, want>> => ReadInv'
<1> SUFFICES ASSUME ReadInv, PrebodyWaits, UNCHANGED <<arrived, want>> PROVE ReadInv'
  OBVIOUS
<1>1. UNCHANGED <<fetched, prebody, announced, copied, given, viaPrebody>>
  BY DEF PrebodyWaits
<1>2. arrived' \in arrived..Len(Wire)
  BY StillArrived
<1> QED
  BY <1>1, <1>2, ReadStays DEF PrebodyWaits, ReadInv

LEMMA BodyEndsKeeps == ReadInv /\ BodyEnds /\ UNCHANGED <<arrived, want>> => ReadInv'
<1> SUFFICES ASSUME ReadInv, BodyEnds, UNCHANGED <<arrived, want>> PROVE ReadInv'
  OBVIOUS
<1>1. UNCHANGED <<fetched, prebody, announced, copied, given, viaPrebody>>
  BY DEF BodyEnds
<1>2. arrived' \in arrived..Len(Wire)
  BY StillArrived
<1> QED
  BY <1>1, <1>2, ReadStays DEF BodyEnds, ReadInv

LEMMA BodyCallKeeps == ReadInv /\ BodyCall /\ UNCHANGED arrived => ReadInv'
<1> SUFFICES ASSUME ReadInv, BodyCall, UNCHANGED arrived PROVE ReadInv'
  OBVIOUS
<1>1. caller = "body" /\ copied = << >> /\ copied' = << >>
  BY DEF BodyCall, ReadInv
<1>2. UNCHANGED <<fetched, prebody, announced, copied, given, viaPrebody>>
  BY <1>1 DEF BodyCall
<1>3. arrived' \in arrived..Len(Wire)
  BY StillArrived
<1>4. CASE state = "eom" /\ caller' = "head" /\ state' = state
  <2>1. ~announced /\ Wire[Parsed].last /\ Parsed \in Nat
    BY <1>1, <1>4 DEF ReadInv, ReadTyped, Follow, BodyDone, Parsed
  <2>2. BetweenHeads(Parsed)
    BY <2>1 DEF BetweenHeads
  <2> QED
    BY <1>1, <1>2, <1>3, <1>4, <2>1, <2>2, ReadStays DEF ReadInv
<1>5. CASE state # "eom" /\ caller' = "reading" /\ want' \in 1..MaxRead /\ state' = state
  <2>1. Len(copied') = 0
    BY <1>1
  <2>2. want' \in Nat /\ Len(copied') < want'
    BY <1>5, <2>1, WireAssumption
  <2>3. state = "body"
    BY <1>1, <1>5 DEF ReadInv
  <2> QED
    BY <1>1, <1>2, <1>3, <1>5, <2>2, <2>3, ReadStays DEF ReadInv
<1> QED
  BY <1>4, <1>5 DEF BodyCall

(* The stream has nothing: what was copied has been through the prebody    *)
(* buffer.                                                                 *)
LEMMA BodyWaitsKeeps == ReadInv /\ BodyWaits /\ UNCHANGED <<arrived, want>> => ReadInv'
<1> SUFFICES ASSUME ReadInv, BodyWaits, UNCHANGED <<arrived, want>> PROVE ReadInv'
  OBVIOUS
<1>1. caller = "reading" /\ prebody = << >> /\ caller' = "body" /\ copied' = << >> /\ given' = given \o << >>
      /\ UNCHANGED <<fetched, state, prebody, announced, viaPrebody>>
  BY DEF BodyWaits, Return
<1>2. given \in Seq(Nat) /\ copied \in Seq(Nat)
  BY DEF ReadInv, ReadTyped
<1>3. given' = given
  BY <1>1, <1>2
<1>4. Parsed' = Parsed
  BY <1>1 DEF Parsed
<1>5. ReadTyped'
  BY <1>1, <1>2, <1>3, <1>4 DEF ReadInv, ReadTyped
<1>6. state = "body" /\ InBody
  BY <1>1 DEF ReadInv
<1>7. PICK h \in 1..Parsed + 1 :
         /\ LastHead(h, Parsed) /\ Unfinished(h, Parsed)
         /\ announced <=> h = Parsed + 1
         /\ Collected(h, Parsed, given \o copied, viaPrebody)
  BY <1>6 DEF InBody
<1>8. /\ Rising(given) /\ Members(given \o copied) = Members(given) \cup Members(copied)
      /\ given \o << >> = given
  BY <1>2, MembersJoined DEF ReadInv
<1>9. Members(copied) \subseteq viaPrebody
  BY DEF ReadInv
<1>10. Collected(h, Parsed, given \o << >>, viaPrebody)
  BY <1>7, <1>8, <1>9 DEF Collected
<1>11. InBody'
  BY <1>1, <1>3, <1>4, <1>7, <1>10 DEF InBody
<1>12. (Members(copied) \subseteq viaPrebody)'
  <2>1. Members(<< >>) = {}
    BY DEF Members
  <2> QED
    BY <1>1, <2>1
<1> QED
  BY <1>1, <1>3, <1>5, <1>6, <1>8, <1>11, <1>12 DEF ReadInv

(* What of them is consumed, and what is left. *)
LEMMA FollowMembers ==
    ASSUME NEW p \in Nat, NEW bytes, Follow(p, bytes), NEW c \in 0..Len(bytes)
    PROVE  BodyCells(p, p + c) \subseteq Members(bytes) /\ Members(From(bytes, c)) \subseteq Members(bytes)
<1>1. Len(bytes) \in Nat /\ \A n \in 1..Len(bytes) : bytes[n] = p + n
  BY DEF Follow
<1>2. ASSUME NEW m \in p + 1..p + c PROVE m \in Members(bytes)
  <2>1. m - p \in 1..Len(bytes)
    BY <1>1
  <2>2. bytes[m - p] = m
    BY <1>1, <2>1
  <2> QED
    BY <2>1, <2>2 DEF Members
<1>3. ASSUME NEW m \in Members(From(bytes, c)) PROVE m \in Members(bytes)
  <2>1. Follow(p + c, From(bytes, c)) /\ Len(From(bytes, c)) = Len(bytes) - c
    BY FollowParts
  <2>2. PICK n \in 1..Len(From(bytes, c)) : m = From(bytes, c)[n]
    BY <1>3 DEF Members
  <2>3. m = p + c + n /\ c + n \in 1..Len(bytes)
    BY <1>1, <2>1, <2>2 DEF Follow
  <2>4. bytes[c + n] = m
    BY <1>1, <2>3
  <2> QED
    BY <2>3, <2>4 DEF Members
<1> QED
  BY <1>2, <1>3 DEF BodyCells

(* What is parsed in http_reader_prebody. *)
LEMMA ParsePrebodyKeeps ==
    ASSUME ReadInv, caller = "prebody", NEW p \in Nat, p = Parsed, NEW bytes, Follow(p, bytes), ParsePrebody(bytes),
           UNCHANGED <<arrived, copied>>, fetched' \in 0..arrived, fetched' = p + Len(bytes),
           viaPrebody \subseteq viaPrebody', Members(bytes) \subseteq viaPrebody'
    PROVE  ReadInv'
<1>1. /\ ~announced /\ BetweenHeads(p) /\ copied = << >> /\ arrived \in Nat /\ arrived <= Len(Wire)
      /\ given \in Seq(Nat) /\ Rising(given) /\ Len(Wire) \in Nat /\ announced \in BOOLEAN
  BY WireGrammar DEF ReadInv, ReadTyped
<1>2. PICK x : x = Execute(bytes, FALSE)
  OBVIOUS
<1>3. Ran(p, bytes, FALSE, x)
  BY <1>2, ExecuteRuns
<1>4. Len(bytes) \in Nat /\ p + Len(bytes) <= Len(Wire)
  BY <1>1 DEF Follow
<1>5. x.paused # "complete" /\ BetweenHeads(p + x.consumed)
  BY <1>1, <1>3, <1>4, HeadParsed
<1>6. PICK c \in 0..Len(bytes) : c = x.consumed
  BY <1>3 DEF Ran
<1>7. prebody' = From(bytes, c)
  BY <1>2, <1>6 DEF ParsePrebody
<1>8. Follow(p + c, prebody') /\ Len(prebody') = Len(bytes) - c
  BY <1>7, FollowParts
<1>9. Parsed' = p + c
  BY <1>4, <1>8 DEF Parsed
<1>10. Members(prebody') \subseteq viaPrebody'
  BY <1>7, FollowMembers
<1>11. Members(copied') \subseteq viaPrebody' /\ copied' = << >> /\ copied' \in Seq(Nat)
  BY <1>1, NoMembers
<1>12. CASE x.paused = "headers"
  <2>1. state' = "body" /\ announced' = TRUE /\ given' = << >> /\ caller' = "body"
    BY <1>2, <1>12 DEF ParsePrebody
  <2>2. c < Len(bytes) /\ Kind(p + c + 1) = "E"
    BY <1>3, <1>6, <1>12 DEF Ran
  <2>3. prebody' # << >>
    BY <1>4, <1>8, <2>2, NoMembers
  <2>4. ReadTyped'
    BY <1>1, <1>4, <1>8, <1>9, <1>11, <2>1, NoMembers DEF ReadTyped
  <2>5. PICK h \in 1..p + c + 1 : h = p + c + 1
    OBVIOUS
  <2>6. LastHead(h, p + c) /\ Unfinished(h, p + c)
    BY <2>2, <2>5 DEF LastHead, Unfinished
  <2>7. given' \o copied' = << >>
    BY <1>11, <2>1
  <2>8. Collected(h, p + c, << >>, viaPrebody')
    <3>1. BodyCells(h, p + c) = {}
      BY <2>5 DEF BodyCells
    <3> QED
      BY <3>1, NoMembers DEF Collected
  <2>9. InBody'
    BY <1>9, <2>1, <2>5, <2>6, <2>7, <2>8 DEF InBody
  <2> QED
    BY <1>10, <1>11, <2>1, <2>3, <2>4, <2>9, NoMembers DEF ReadInv
<1>13. CASE x.paused = "no"
  <2>1. UNCHANGED <<state, announced, given, caller>>
    BY <1>2, <1>13 DEF ParsePrebody
  <2>2. ReadTyped'
    BY <1>1, <1>4, <1>8, <1>9, <1>11, <2>1 DEF ReadTyped
  <2> QED
    BY <1>1, <1>5, <1>6, <1>9, <1>10, <1>11, <2>1, <2>2 DEF ReadInv
<1> QED
  BY <1>3, <1>5, <1>12, <1>13 DEF Ran

(* stream_read gives what has arrived, and no more than there is room for. *)
LEMMA FetchesArrived ==
    ASSUME ReadTyped, NEW len \in Nat, NEW r \in Available(len)
    PROVE  r \in Nat \ {0} /\ r <= len /\ fetched + r \in 0..arrived
<1> DEFINE S == {len, MaxRead, arrived - fetched}
<1>1. fetched \in Nat /\ arrived \in Nat /\ fetched <= arrived
  BY WireGrammar DEF ReadTyped
<1>2. S \in SUBSET Nat /\ S # {}
  BY <1>1, WireAssumption
<1>3. Min(S) \in Nat /\ Min(S) <= len /\ Min(S) <= arrived - fetched
  <2>1. Min(S) \in S /\ \A x \in S : Min(S) <= x
    BY <1>2, NatMinimum
  <2> HIDE DEF S
  <2>2. Min(S) \in Nat
    BY <1>2, <2>1
  <2> QED
    BY <2>1, <2>2 DEF S
<1>4. r \in 1..Min(S)
  BY DEF Available
<1> HIDE DEF S
<1> QED
  BY <1>1, <1>3, <1>4

LEMMA PrebodyReadsKeeps == ReadInv /\ PrebodyReads /\ UNCHANGED <<arrived, want>> => ReadInv'
<1> SUFFICES ASSUME ReadInv, PrebodyReads, UNCHANGED <<arrived, want>> PROVE ReadInv'
  OBVIOUS
<1>1. PICK r \in Available(MaxRead) :
         /\ fetched' = fetched + r
         /\ viaPrebody' = viaPrebody \cup Range(Fetch(r))
         /\ ParsePrebody(prebody \o Fetch(r))
  BY DEF PrebodyReads
<1>2. ReadTyped /\ Members(prebody) \subseteq viaPrebody /\ arrived' = arrived /\ copied' = copied
      /\ caller = "prebody"
  BY DEF ReadInv, PrebodyReads
<1>3. r \in Nat /\ fetched + r \in 0..arrived
  BY <1>1, <1>2, FetchesArrived, WireAssumption
<1>4. PICK p \in Nat : p = Parsed /\ fetched = p + Len(prebody) /\ Len(prebody) \in Nat /\ fetched \in Nat
  <2>1. fetched \in Nat /\ Len(prebody) \in Nat /\ Len(prebody) <= fetched
    BY <1>2, WireGrammar DEF ReadTyped, Follow
  <2> QED
    BY <2>1 DEF Parsed
<1>5. PICK f \in Nat : f = fetched
  BY <1>4
<1>6. Follow(f, Fetch(r)) /\ Len(Fetch(r)) = r
  BY <1>3, <1>5, FollowFetched
<1>7. PICK bytes : bytes = prebody \o Fetch(r)
  OBVIOUS
<1>8. Follow(p, prebody)
  BY <1>2, <1>4 DEF ReadTyped
<1>9. Follow(p, bytes) /\ Len(bytes) = Len(prebody) + r
  BY <1>4, <1>5, <1>6, <1>7, <1>8, FollowOn
<1>10. Members(bytes) \subseteq viaPrebody'
  <2>1. Members(bytes) = Members(prebody) \cup Members(Fetch(r))
    BY <1>6, <1>7, <1>8, MembersJoined DEF Follow
  <2>2. Range(Fetch(r)) = Members(Fetch(r))
    BY <1>6, RangeIsMembers DEF Follow
  <2> QED
    BY <1>1, <1>2, <2>1, <2>2
<1>11. fetched' = p + Len(bytes) /\ fetched' \in 0..arrived /\ ParsePrebody(bytes)
  BY <1>1, <1>3, <1>4, <1>7, <1>9
<1> QED
  BY <1>1, <1>2, <1>4, <1>9, <1>10, <1>11, ParsePrebodyKeeps

LEMMA PrebodyEndsKeeps == ReadInv /\ PrebodyEnds /\ UNCHANGED <<arrived, want>> => ReadInv'
<1> SUFFICES ASSUME ReadInv, PrebodyEnds, UNCHANGED <<arrived, want>> PROVE ReadInv'
  OBVIOUS
<1>1. CASE prebody # << >> /\ ParsePrebody(prebody)
  <2>1. ReadTyped /\ Members(prebody) \subseteq viaPrebody /\ caller = "prebody"
        /\ UNCHANGED <<arrived, copied, viaPrebody, fetched>>
    BY DEF ReadInv, PrebodyEnds
  <2>2. PICK p \in Nat : p = Parsed /\ fetched = p + Len(prebody)
    <3>1. fetched \in Nat /\ Len(prebody) \in Nat /\ Len(prebody) <= fetched
      BY <2>1, WireGrammar DEF ReadTyped, Follow
    <3> QED
      BY <3>1 DEF Parsed
  <2>3. PICK bytes : bytes = prebody
    OBVIOUS
  <2>4. Follow(p, bytes) /\ fetched' \in 0..arrived /\ fetched' = p + Len(bytes) /\ ParsePrebody(bytes)
    BY <1>1, <2>1, <2>2, <2>3 DEF ReadTyped
  <2>5. viaPrebody \subseteq viaPrebody' /\ Members(bytes) \subseteq viaPrebody'
    BY <2>1, <2>3
  <2> QED
    BY <2>1, <2>2, <2>4, <2>5, ParsePrebodyKeeps
<1>2. CASE caller' = "gone" /\ UNCHANGED <<state, prebody, announced, given>>
  <2>1. UNCHANGED <<fetched, prebody, announced, copied, given, viaPrebody>>
    BY <1>2 DEF PrebodyEnds
  <2>2. arrived' \in arrived..Len(Wire)
    BY StillArrived
  <2> QED
    BY <1>2, <2>1, <2>2, ReadStays DEF ReadInv
<1> QED
  BY <1>1, <1>2 DEF PrebodyEnds

(* The copied bytes leave room in the caller's buffer. *)
LEMMA RoomLeft ==
    ASSUME NEW a \in Nat, NEW b \in Nat, NEW k \in Nat, NEW w \in Nat, b <= k, k <= w - a, a + b # w
    PROVE  a + b < w
OBVIOUS

(* One pass of the first loop of http_reader_body. *)
LEMMA BodyFromPrebodyKeeps == ReadInv /\ BodyFromPrebody /\ UNCHANGED <<arrived, want>> => ReadInv'
<1> SUFFICES ASSUME ReadInv, BodyFromPrebody, UNCHANGED <<arrived, want>> PROVE ReadInv'
  OBVIOUS
<1>1. /\ ReadTyped /\ caller = "reading" /\ prebody # << >> /\ state = "body" /\ InBody
      /\ want \in Nat /\ Len(copied) < want
      /\ Members(prebody) \subseteq viaPrebody /\ Members(copied) \subseteq viaPrebody
      /\ Rising(given) /\ UNCHANGED <<fetched, viaPrebody, arrived, want>> /\ announced' = FALSE
  BY DEF ReadInv, BodyFromPrebody
<1>2. /\ copied \in Seq(Nat) /\ given \in Seq(Nat) /\ prebody \in Seq(Nat) /\ announced \in BOOLEAN
      /\ fetched \in Nat /\ arrived \in Nat /\ fetched <= arrived /\ arrived <= Len(Wire) /\ Len(Wire) \in Nat
      /\ Len(prebody) \in Nat /\ Len(copied) \in Nat /\ Len(prebody) <= fetched
  BY <1>1, WireGrammar DEF ReadTyped, Follow
<1>3. PICK p \in Nat : p = Parsed /\ fetched = p + Len(prebody)
  <2>1. Parsed \in Nat /\ fetched = Parsed + Len(prebody)
    BY <1>2 DEF Parsed
  <2> QED
    BY <2>1
<1>4. PICK k \in 1..Len(prebody) : k <= want - Len(copied) /\ k = Min({want - Len(copied), Len(prebody)})
  <2> DEFINE S == {want - Len(copied), Len(prebody)}
  <2>1. Len(prebody) # 0
    BY <1>1, <1>2
  <2>2. want - Len(copied) \in Nat \ {0} /\ S \in SUBSET Nat /\ S # {}
    BY <1>1, <1>2
  <2>3. Min(S) \in S /\ \A y \in S : Min(S) <= y
    BY <2>2, NatMinimum
  <2> HIDE DEF S
  <2>4. Min(S) \in Nat \ {0}
    BY <1>2, <2>1, <2>2, <2>3 DEF S
  <2>5. Min(S) <= want - Len(copied) /\ Min(S) <= Len(prebody)
    BY <2>3 DEF S
  <2> QED
    BY <1>2, <2>4, <2>5 DEF S
<1>5. PICK bytes : bytes = SubSeq(prebody, 1, k)
  OBVIOUS
<1>6. PICK pre : pre = prebody /\ Follow(p, pre) /\ Len(pre) = Len(prebody) /\ k \in 0..Len(pre)
  BY <1>1, <1>2, <1>3 DEF ReadTyped
<1>7. Follow(p, bytes) /\ Len(bytes) = k
  BY <1>5, <1>6, FollowParts
<1>8. PICK ann \in BOOLEAN : ann = announced
  BY <1>2
<1>9. PICK x : x = Execute(bytes, ann)
  OBVIOUS
<1>10. Ran(p, bytes, ann, x)
  BY <1>7, <1>9, ExecuteRuns
<1>11. PICK c \in 0..k : c = x.consumed
  BY <1>7, <1>10 DEF Ran
<1>12. /\ x.body \in Seq(Nat) /\ Len(x.body) <= c /\ Len(x.body) \in Nat
       /\ Members(x.body) = BodyCells(p, p + c)
       /\ x.paused \in {"no", "headers", "complete"}
  BY <1>10, <1>11 DEF Ran
<1>13. PICK had \in Seq(Nat) : had = given \o copied
  BY <1>2, MembersJoined
<1>14. PICK via : via = viaPrebody
  OBVIOUS
<1>15. PICK h \in 1..p + 1 :
          LastHead(h, p) /\ Unfinished(h, p) /\ (ann <=> h = p + 1) /\ Collected(h, p, had, via)
  BY <1>1, <1>3, <1>8, <1>13, <1>14 DEF InBody
<1>16. bytes # << >> /\ p + Len(bytes) <= Len(Wire)
  <2>1. Len(bytes) # 0
    BY <1>7
  <2> QED
    BY <1>2, <1>3, <1>7, <2>1, NoMembers
<1>17. /\ x.paused # "headers"
       /\ h \in 1..p + c /\ LastHead(h, p + c)
       /\ x.paused = "no" => Unfinished(h, p + c)
       /\ x.paused = "complete" => Wire[p + c].last
       /\ Collected(h, p + c, had \o x.body, via)
  BY <1>7, <1>10, <1>11, <1>15, <1>16, BodyParsed
<1>18. PICK more \in Seq(Nat) : more = copied \o x.body /\ Len(more) = Len(copied) + Len(x.body)
          /\ Members(more) \subseteq viaPrebody /\ given \o more = had \o x.body
  <2>1. copied \o x.body \in Seq(Nat) /\ Len(copied \o x.body) = Len(copied) + Len(x.body)
    BY <1>2, <1>12
  <2>2. Members(copied \o x.body) = Members(copied) \cup Members(x.body)
    BY <1>2, <1>12, MembersJoined
  <2>3. Members(x.body) \subseteq viaPrebody
    <3>1. c \in 0..Len(pre)
      BY <1>2, <1>6
    <3> QED
      BY <1>1, <1>6, <1>12, <3>1, FollowMembers
  <2>4. given \o (copied \o x.body) = (given \o copied) \o x.body
    <3>1. given \in Seq(Nat) /\ copied \in Seq(Nat) /\ x.body \in Seq(Nat)
      BY <1>2, <1>12
    <3> QED
      BY Zenon, <3>1, Reassociated
  <2> QED
    BY <1>1, <1>13, <2>1, <2>2, <2>3, <2>4
<1>19. /\ prebody' = From(prebody, c)
       /\ IF x.paused = "complete"
          THEN state' = "eom" /\ Return(more)
          ELSE /\ state' = state
               /\ IF Len(more) = want THEN Return(more)
                  ELSE copied' = more /\ UNCHANGED <<caller, given>>
  BY <1>4, <1>5, <1>8, <1>9, <1>11, <1>18 DEF BodyFromPrebody
<1>20. Follow(p + c, prebody') /\ Len(prebody') = Len(prebody) - c /\ Members(prebody') \subseteq viaPrebody'
  <2>1. c \in 0..Len(pre)
    BY <1>2, <1>6
  <2> QED
    BY <1>1, <1>6, <1>19, <2>1, FollowParts, FollowMembers
<1>21. Parsed' = p + c /\ Len(prebody') <= fetched' /\ fetched' \in 0..arrived' /\ arrived' \in 0..Len(Wire)
  BY <1>1, <1>2, <1>3, <1>20 DEF Parsed
<1>22. announced' = FALSE /\ viaPrebody' = via /\ want' = want
  BY <1>1, <1>14
<1>23. ASSUME Return(more)
       PROVE  /\ ReadTyped' /\ given' = had \o x.body /\ caller' = "body" /\ copied' = << >> /\ Rising(given)'
              /\ given' \o copied' = had \o x.body
  <2>1. given' = had \o x.body /\ caller' = "body" /\ copied' = << >>
    BY <1>18, <1>23 DEF Return
  <2>2. given' \in Seq(Nat) /\ given' \o << >> = given'
    BY <1>12, <1>13, <2>1, MembersJoined
  <2>3. Rising(given)'
    BY <1>17, <2>1 DEF Collected
  <2>4. ReadTyped'
    BY <1>20, <1>21, <1>22, <2>1, <2>2, NoMembers DEF ReadTyped
  <2> QED
    BY <2>1, <2>2, <2>3, <2>4
<1>24. ASSUME x.paused = "no", given' \o copied' = had \o x.body PROVE InBody'
  <2>1. h \in 1..p + c + 1 /\ ~ (h = p + c + 1)
    BY <1>17
  <2>2. Unfinished(h, p + c)
    BY <1>17, <1>24
  <2>3. PICK ann1 \in BOOLEAN : ann1 = announced' /\ (ann1 <=> h = p + c + 1)
    BY <1>22, <2>1
  <2> QED
    BY <1>17, <1>21, <1>22, <1>24, <2>1, <2>2 DEF InBody
<1>25. CASE x.paused = "complete"
  <2>1. Return(more) /\ state' = "eom"
    BY <1>19, <1>25
  <2>2. BodyDone'
    BY <1>17, <1>21, <1>22, <1>23, <1>25, <2>1 DEF BodyDone
  <2> QED
    BY <1>20, <1>22, <1>23, <2>1, <2>2, NoMembers DEF ReadInv
<1>26. CASE x.paused = "no" /\ Len(more) = want
  <2>1. Return(more) /\ state' = "body"
    BY <1>1, <1>19, <1>26
  <2>2. InBody'
    BY <1>23, <1>24, <1>26, <2>1
  <2> QED
    BY <1>20, <1>22, <1>23, <2>1, <2>2, NoMembers DEF ReadInv
<1>27. CASE x.paused = "no" /\ Len(more) # want
  <2>1. state' = "body" /\ copied' = more /\ caller' = "reading" /\ given' = given
    BY <1>1, <1>19, <1>27
  <2>2. Len(more) < want
    <3>1. Len(x.body) <= k /\ k <= want - Len(copied) /\ k \in Nat
      <4>1. k <= want - Len(copied) /\ k \in Nat /\ c \in Nat /\ c <= k
        BY <1>2, <1>4, <1>11
      <4>2. Len(x.body) <= c /\ Len(x.body) \in Nat
        BY <1>12
      <4> QED
        BY <4>1, <4>2
    <3>2. Len(more) = Len(copied) + Len(x.body) /\ Len(more) # want
      BY <1>18, <1>27
    <3>3. want \in Nat /\ Len(copied) \in Nat /\ Len(x.body) \in Nat
      BY <1>1, <1>2, <1>12
    <3> QED
      BY <3>1, <3>2, <3>3, RoomLeft
  <2>3. ReadTyped'
    BY <1>2, <1>18, <1>20, <1>21, <1>22, <2>1 DEF ReadTyped
  <2>4. InBody'
    BY <1>18, <1>24, <1>27, <2>1
  <2> QED
    BY <1>1, <1>18, <1>20, <1>22, <2>1, <2>2, <2>3, <2>4 DEF ReadInv
<1> QED
  BY <1>12, <1>17, <1>25, <1>26, <1>27

(* The second part of http_reader_body. *)
LEMMA BodyFromStreamKeeps == ReadInv /\ BodyFromStream /\ UNCHANGED <<arrived, want>> => ReadInv'
<1> SUFFICES ASSUME ReadInv, BodyFromStream, UNCHANGED <<arrived, want>> PROVE ReadInv'
  OBVIOUS
<1>1. /\ ReadTyped /\ caller = "reading" /\ prebody = << >> /\ state = "body" /\ InBody
      /\ want \in Nat /\ Len(copied) < want /\ ~announced
      /\ UNCHANGED <<arrived, want, announced>>
  BY DEF ReadInv, BodyFromStream
<1>2. /\ copied \in Seq(Nat) /\ given \in Seq(Nat) /\ announced \in BOOLEAN
      /\ fetched \in Nat /\ arrived \in Nat /\ fetched <= arrived /\ arrived <= Len(Wire) /\ Len(Wire) \in Nat
      /\ Len(copied) \in Nat
  BY <1>1, WireGrammar DEF ReadTyped
<1>3. PICK p \in Nat : p = fetched /\ p = Parsed
  <2>1. Len(prebody) = 0
    BY <1>1, NoMembers
  <2> QED
    BY <1>2, <2>1 DEF Parsed
<1>4. PICK space \in Nat : space = want - Len(copied)
  BY <1>1, <1>2
<1>5. PICK r \in Available(space) :
         LET x == Execute(Fetch(r), announced)
             rest == From(Fetch(r), x.consumed)
         IN  /\ fetched' = fetched + r
             /\ prebody' = rest
             /\ viaPrebody' = viaPrebody \cup Range(rest)
             /\ state' = IF x.paused = "complete" THEN "eom" ELSE state
             /\ Return(copied \o x.body)
  BY <1>4 DEF BodyFromStream
<1>6. r \in Nat \ {0} /\ fetched + r \in 0..arrived
  BY <1>1, <1>5, FetchesArrived
<1>7. PICK bytes : bytes = Fetch(r)
  OBVIOUS
<1>8. Follow(p, bytes) /\ Len(bytes) = r
  BY <1>3, <1>6, <1>7, FollowFetched
<1>9. PICK x : x = Execute(bytes, FALSE)
  OBVIOUS
<1>10. Ran(p, bytes, FALSE, x)
  BY <1>8, <1>9, ExecuteRuns
<1>11. PICK c \in 0..r : c = x.consumed
  BY <1>8, <1>10 DEF Ran
<1>12. x.body \in Seq(Nat) /\ x.paused \in {"no", "headers", "complete"} /\ (x.paused = "no" => c = r)
  BY <1>8, <1>10, <1>11 DEF Ran
<1>13. PICK rest : rest = From(bytes, c)
  OBVIOUS
<1>14. /\ fetched' = p + r /\ prebody' = rest /\ viaPrebody' = viaPrebody \cup Range(rest)
       /\ state' = IF x.paused = "complete" THEN "eom" ELSE "body"
       /\ Return(copied \o x.body)
  <2>1. announced = FALSE
    BY <1>1, <1>2
  <2> QED
    BY <1>1, <1>3, <1>5, <1>7, <1>9, <1>11, <1>13, <2>1
<1>15. Follow(p + c, rest) /\ Len(rest) = r - c /\ Range(rest) = Members(rest)
  <2>1. Follow(p + c, rest) /\ Len(rest) = r - c
    BY <1>8, <1>11, <1>13, FollowParts
  <2> QED
    BY <2>1, RangeIsMembers DEF Follow
<1>16. /\ Members(prebody') \subseteq viaPrebody' /\ viaPrebody \subseteq viaPrebody'
       /\ Parsed' = p + c /\ Len(prebody') <= fetched'
       /\ fetched' \in 0..arrived' /\ arrived' \in 0..Len(Wire)
  BY <1>1, <1>2, <1>3, <1>6, <1>14, <1>15 DEF Parsed
<1>17. PICK had \in Seq(Nat) : had = given \o copied
  BY <1>2, MembersJoined
<1>18. PICK via : via = viaPrebody
  OBVIOUS
<1>19. PICK h \in 1..p :
          LastHead(h, p) /\ Unfinished(h, p) /\ Collected(h, p, had, via)
  <2>1. PICK h \in 1..p + 1 :
           LastHead(h, p) /\ Unfinished(h, p) /\ (announced <=> h = p + 1) /\ Collected(h, p, had, via)
    BY <1>1, <1>3, <1>17, <1>18 DEF InBody
  <2>2. h \in 1..p
    BY <1>1, <2>1
  <2> QED
    BY <2>1, <2>2
<1>20. bytes # << >> /\ p + Len(bytes) <= Len(Wire)
  BY <1>2, <1>3, <1>6, <1>8, NoMembers
<1>21. PICK ann \in BOOLEAN : ann = FALSE /\ (ann <=> h = p + 1)
  <2>1. FALSE <=> h = p + 1
    BY <1>19
  <2> QED
    BY <2>1
<1>22. /\ x.paused # "headers"
       /\ h \in 1..p + c /\ LastHead(h, p + c)
       /\ x.paused = "no" => Unfinished(h, p + c)
       /\ x.paused = "complete" => Wire[p + c].last
       /\ Collected(h, p + c, had \o x.body, via)
  <2>1. h \in 1..p + 1
    BY <1>19
  <2> QED
    BY <1>8, <1>10, <1>11, <1>19, <1>20, <1>21, <2>1, BodyParsed
<1>23. Collected(h, p + c, had \o x.body, viaPrebody')
  BY <1>16, <1>18, <1>22 DEF Collected
<1>24. given' = had \o x.body /\ caller' = "body" /\ copied' = << >>
  BY <1>2, <1>12, <1>14, <1>17, Reassociated DEF Return
<1>25. given' \in Seq(Nat) /\ given' \o << >> = given' /\ Rising(given)'
  BY <1>12, <1>17, <1>22, <1>24, MembersJoined DEF Collected
<1>26. ReadTyped'
  <2>1. announced' \in BOOLEAN /\ Follow(Parsed', prebody')
    BY <1>1, <1>2, <1>14, <1>15, <1>16
  <2> QED
    BY <1>16, <1>24, <1>25, <2>1, NoMembers DEF ReadTyped
<1>27. CASE x.paused = "complete"
  <2>1. BodyDone'
    BY <1>1, <1>16, <1>22, <1>23, <1>24, <1>27 DEF BodyDone
  <2> QED
    BY <1>1, <1>14, <1>16, <1>24, <1>25, <1>26, <1>27, <2>1, NoMembers DEF ReadInv
<1>28. CASE x.paused = "no"
  <2>1. h \in 1..p + c + 1 /\ h # p + c + 1 /\ Unfinished(h, p + c)
    BY <1>22, <1>28
  <2>2. InBody'
    <3>1. given' \o copied' = had \o x.body
      BY <1>24, <1>25
    <3>2. announced' <=> h = p + c + 1
      BY <1>1, <2>1
    <3> QED
      BY <1>16, <1>22, <1>23, <2>1, <3>1, <3>2 DEF InBody
  <2> QED
    BY <1>1, <1>14, <1>16, <1>24, <1>25, <1>26, <1>28, <2>2, NoMembers DEF ReadInv
<1> QED
  BY <1>12, <1>22, <1>27, <1>28

LEMMA ReadStep == ReadInv /\ ReaderNext => ReadInv'
<1> SUFFICES ASSUME ReadInv, ReaderNext PROVE ReadInv'
  OBVIOUS
<1>1. CASE Arrive
  BY <1>1, ArriveKeeps DEF Arrive
<1>2. CASE Caller /\ UNCHANGED <<arrived, shut>>
  BY <1>2, PrebodyCallKeeps, PrebodyWaitsKeeps, PrebodyReadsKeeps, PrebodyEndsKeeps,
     BodyFromPrebodyKeeps, BodyWaitsKeeps, BodyFromStreamKeeps, BodyEndsKeeps DEF Caller
<1>3. CASE BodyCall /\ UNCHANGED <<arrived, shut>>
  BY <1>3, BodyCallKeeps
<1> QED
  BY <1>1, <1>2, <1>3 DEF ReaderNext

LEMMA ReadStutter == ReadInv /\ UNCHANGED readerVars => ReadInv'
<1> SUFFICES ASSUME ReadInv, UNCHANGED readerVars PROVE ReadInv'
  OBVIOUS
<1>1. arrived' \in arrived..Len(Wire)
  BY StillArrived DEF readerVars
<1> QED
  BY <1>1, ReadStays DEF ReadInv, readerVars

(* The caller is given the body bytes of a request in order, each once and *)
(* none of another request, and at its end all of them but for some that   *)
(* were in the prebody buffer when a call had to wait, for any requests,   *)
(* pipelined or not, wherever the stream cuts them and however little the  *)
(* caller has room for (http_reader.c).                                    *)
THEOREM BodiesArriveIntact == Spec => []BodyIntact
<1>1. Init => ReadInv
  BY ReadInvInit DEF Init
<1>2. ReadInv /\ [Next]_vars => ReadInv'
  <2> SUFFICES ASSUME ReadInv, [Next]_vars PROVE ReadInv'
    OBVIOUS
  <2>1. CASE ReaderNext /\ ReaderAlone
    BY <2>1, ReadStep
  <2>2. CASE UNCHANGED readerVars
    BY <2>2, ReadStutter
  <2> QED
    BY <2>1, <2>2 DEF Next, vars, Delim, WriterAlone, ApplicationAlone, TransportAlone, ServerAlone
<1> QED
  BY <1>1, <1>2, ReadInvSound, PTL DEF Spec

-----------------------------------------------------------------------------
(* The HTTP writer. *)

(* The capacities, up to the n-th doubling *)
Doubles(h, n) == h \in [0..n -> Nat] /\ h[0] = StartCapacity /\ \A j \in 1..n : h[j] = 2 * h[j - 1]

(* A function from 0 on exists, and only one: so Capacity is what its      *)
(* definition says.                                                        *)
LEMMA CapacityDoubles ==
    /\ Capacity[0] = StartCapacity
    /\ \A n \in Nat : Capacity[n] \in Nat /\ Capacity[n + 1] = 2 * Capacity[n]
<1> DEFINE Missing == {n \in Nat : ~ \E h : Doubles(h, n)}
           Apart(g, h, m) == {j \in 0..m : g[j] # h[j]}
<1>1. StartCapacity \in Nat
  BY WriterAssumption
<1>2. \A n \in Nat : \E h : Doubles(h, n)
  <2> SUFFICES ASSUME Missing # {} PROVE FALSE
    OBVIOUS
  <2>1. PICK n \in Missing : \A x \in Missing : n <= x
    <3>1. Min(Missing) \in Missing /\ \A x \in Missing : Min(Missing) <= x
      BY NatMinimum
    <3> QED
      BY <3>1
  <2>2. n # 0
    <3>1. Doubles([j \in 0..0 |-> StartCapacity], 0)
      BY <1>1 DEF Doubles
    <3> QED
      BY <3>1
  <2>3. n - 1 \in Nat /\ n - 1 \notin Missing
    BY <2>1, <2>2
  <2>4. PICK h : Doubles(h, n - 1)
    BY <2>3
  <2>5. Doubles([j \in 0..n |-> IF j = n THEN 2 * h[n - 1] ELSE h[j]], n)
    BY <2>2, <2>3, <2>4 DEF Doubles
  <2> QED
    BY <2>5
<1>3. ASSUME NEW m \in Nat, NEW n \in Nat, m <= n, NEW g, NEW h, Doubles(g, m), Doubles(h, n)
      PROVE  g[m] = h[m]
  <2> SUFFICES ASSUME Apart(g, h, m) # {} PROVE FALSE
    OBVIOUS
  <2>1. PICK j \in Apart(g, h, m) : \A x \in Apart(g, h, m) : j <= x
    <3>1. Apart(g, h, m) \in SUBSET Nat
      OBVIOUS
    <3>2. Min(Apart(g, h, m)) \in Apart(g, h, m)
          /\ \A x \in Apart(g, h, m) : Min(Apart(g, h, m)) <= x
      BY <3>1, NatMinimum
    <3> QED
      BY <3>2
  <2>2. j \in 0..m /\ g[j] # h[j]
    OBVIOUS
  <2>3. j # 0
    BY <1>3, <2>2 DEF Doubles
  <2>4. j - 1 \in 0..m /\ g[j - 1] = h[j - 1]
    <3>1. j - 1 \in 0..m /\ ~(j <= j - 1)
      BY <2>2, <2>3
    <3> QED
      BY <3>1, <2>1
  <2>5. g[j] = 2 * g[j - 1] /\ h[j] = 2 * h[j - 1]
    <3>1. j \in 1..m /\ j \in 1..n
      BY <2>2, <2>3, <1>3
    <3> QED
      BY <3>1, <1>3 DEF Doubles
  <2> QED
    BY <2>2, <2>4, <2>5
<1> DEFINE H(n) == CHOOSE h : Doubles(h, n)
           F == [n \in Nat |-> H(n)[n]]
<1>4. \A n \in Nat : Doubles(H(n), n)
  BY <1>2
<1> HIDE DEF H
<1>5. F[0] = StartCapacity
  BY <1>4 DEF Doubles
<1>6. ASSUME NEW n \in Nat PROVE F[n] \in Nat /\ F[n + 1] = 2 * F[n]
  <2>1. n + 1 \in Nat /\ n <= n + 1 /\ n + 1 \in 1..n + 1 /\ n \in 0..n /\ n + 1 - 1 = n
    OBVIOUS
  <2>2. H(n)[n] = H(n + 1)[n]
    BY <1>3, <1>4, <2>1
  <2>3. H(n + 1)[n + 1] = 2 * H(n + 1)[n]
    BY <1>4, <2>1 DEF Doubles
  <2>4. H(n)[n] \in Nat
    BY <1>4, <2>1 DEF Doubles
  <2> QED
    BY <2>1, <2>2, <2>3, <2>4
<1> HIDE DEF F
<1>7. F = [n \in Nat |-> IF n = 0 THEN StartCapacity ELSE 2 * F[n - 1]]
  <2>1. ASSUME NEW n \in Nat PROVE F[n] = IF n = 0 THEN StartCapacity ELSE 2 * F[n - 1]
    <3>1. CASE n = 0
      BY <1>5, <3>1
    <3>2. CASE n # 0
      <4>1. n - 1 \in Nat /\ n - 1 + 1 = n
        BY <3>2
      <4> QED
        BY <1>6, <3>2, <4>1
    <3> QED
      BY <3>1, <3>2
  <2> QED
    BY <2>1 DEF F
<1>8. Capacity = [n \in Nat |-> IF n = 0 THEN StartCapacity ELSE 2 * Capacity[n - 1]]
  BY <1>7 DEF Capacity
<1>9. \A n \in Nat : Capacity[n] = F[n]
  <2> DEFINE Wrong == {n \in Nat : Capacity[n] # F[n]}
  <2> SUFFICES ASSUME Wrong # {} PROVE FALSE
    OBVIOUS
  <2>1. PICK n \in Wrong : \A x \in Wrong : n <= x
    <3>1. Min(Wrong) \in Wrong /\ \A x \in Wrong : Min(Wrong) <= x
      BY NatMinimum
    <3> QED
      BY <3>1
  <2>2. n # 0
    BY <1>5, <1>8
  <2>3. n - 1 \in Nat /\ n - 1 \notin Wrong /\ n - 1 + 1 = n
    BY <2>1, <2>2
  <2> QED
    BY <1>6, <1>8, <2>2, <2>3
<1> QED
  BY <1>5, <1>6, <1>9

LEMMA CapacityGrows ==
    \A n \in Nat, m \in Nat : Capacity[n] \in Nat /\ n + m \in Nat /\ Capacity[n] + m <= Capacity[n + m]
<1>1. \A n \in Nat : Capacity[n] \in Nat /\ Capacity[n + 1] = 2 * Capacity[n]
  BY CapacityDoubles
<1>2. ASSUME NEW n \in Nat PROVE 0 < Capacity[n]
  <2> DEFINE Zero == {x \in Nat : Capacity[x] = 0}
  <2> SUFFICES ASSUME Zero # {} PROVE FALSE
    BY <1>1
  <2>1. PICK x \in Zero : \A y \in Zero : x <= y
    <3>1. Min(Zero) \in Zero /\ \A y \in Zero : Min(Zero) <= y
      BY NatMinimum
    <3> QED
      BY <3>1
  <2>2. x # 0
    BY CapacityDoubles, WriterAssumption
  <2>3. x - 1 \in Nat /\ x - 1 \notin Zero /\ x - 1 + 1 = x
    BY <2>1, <2>2
  <2> QED
    BY <1>1, <2>3
<1>3. ASSUME NEW n \in Nat, NEW m \in Nat PROVE Capacity[n] + m <= Capacity[n + m]
  <2> DEFINE Short == {x \in Nat : Capacity[n + x] < Capacity[n] + x}
  <2> SUFFICES ASSUME Short # {} PROVE FALSE
    BY <1>1
  <2>1. PICK x \in Short : \A y \in Short : x <= y
    <3>1. Min(Short) \in Short /\ \A y \in Short : Min(Short) <= y
      BY NatMinimum
    <3> QED
      BY <3>1
  <2>2. x # 0
    BY <1>1
  <2>3. x - 1 \in Nat /\ x - 1 \notin Short /\ n + (x - 1) + 1 = n + x /\ n + (x - 1) \in Nat
    BY <2>1, <2>2
  <2>4. ~(Capacity[n + (x - 1)] < Capacity[n] + (x - 1))
    BY <2>3
  <2>5. Capacity[n + x] = 2 * Capacity[n + (x - 1)] /\ 0 < Capacity[n + (x - 1)]
        /\ Capacity[n + (x - 1)] \in Nat /\ Capacity[n] \in Nat
    BY <1>1, <1>2, <2>3
  <2>6. Capacity[n + x] < Capacity[n] + x /\ x \in Nat
    BY <2>1
  <2> HIDE DEF Short
  <2> QED
    BY <2>3, <2>4, <2>5, <2>6
<1> QED
  BY <1>1, <1>3

BufferType == [chars : Seq(Nat), doublings : Nat, frozen : BOOLEAN]

(* No more than the buffer can hold, and no other character lost than one  *)
(* that was printed into its last place.                                   *)
BufferSound(b) ==
    /\ b \in BufferType
    /\ Len(b.chars) <= Capacity[b.doublings]
    /\ \A n \in 1..Len(b.chars) :
          b.chars[n] = n \/ (b.chars[n] = 0 /\ \E k \in 0..b.doublings : n = Capacity[k])

LEMMA ReserveFits ==
    ASSUME NEW b, BufferSound(b), NEW need \in Nat
    PROVE  /\ Reserve(b, need) \in BufferType
           /\ Reserve(b, need).chars = b.chars /\ Reserve(b, need).frozen = b.frozen
           /\ b.doublings <= Reserve(b, need).doublings
           /\ Len(b.chars) + need <= Capacity[Reserve(b, need).doublings]
<1> DEFINE d == b.doublings
           l == Len(b.chars)
           K == {k \in d .. d + need : need <= Capacity[k] - l}
<1>1. b \in BufferType /\ d \in Nat /\ l \in Nat /\ l <= Capacity[d]
  BY DEF BufferSound, BufferType
<1>2. d + need \in K /\ K \in SUBSET Nat
  <2>1. Capacity[d] + need <= Capacity[d + need] /\ Capacity[d] \in Nat /\ Capacity[d + need] \in Nat
    BY <1>1, CapacityGrows
  <2>2. d + need \in d .. d + need /\ need <= Capacity[d + need] - l
    BY <1>1, <2>1
  <2>3. \A k \in d .. d + need : k \in Nat
    BY <1>1
  <2> QED
    BY <2>2, <2>3
<1>3. Min(K) \in K
  BY <1>2, NatMinimum
<1>4. Min(K) \in Nat /\ d <= Min(K) /\ need <= Capacity[Min(K)] - l
  BY <1>1, <1>3
<1>5. l + need <= Capacity[Min(K)]
  <2>1. Capacity[Min(K)] \in Nat
    BY <1>4, CapacityDoubles
  <2> HIDE DEF K
  <2> QED
    BY <1>1, <1>4, <2>1
<1>6. Reserve(b, need) = [b EXCEPT !.doublings = Min(K)]
  BY DEF Reserve
<1> QED
  BY <1>1, <1>4, <1>5, <1>6 DEF BufferType

(* What growbuf_append and growbuf_vprintf have in common                  *)
Extended(b, t) == [Reserve(b, Len(t)) EXCEPT !.chars = @ \o t]

LEMMA ExtendedSound ==
    ASSUME NEW b, BufferSound(b), NEW t \in Seq(Nat),
           \A n \in 1..Len(t) :
              \/ t[n] = Len(b.chars) + n
              \/ t[n] = 0 /\ Len(b.chars) + n = Capacity[Reserve(b, Len(t)).doublings]
    PROVE  BufferSound(Extended(b, t)) /\ Extended(b, t).frozen = b.frozen
<1> DEFINE len == Len(t)
           r == Reserve(b, len)
           l == Len(b.chars)
           c == b.chars \o t
           e == [r EXCEPT !.chars = @ \o t]
<1>0. len \in Nat
  OBVIOUS
<1>1. /\ r \in BufferType /\ r.chars = b.chars /\ r.frozen = b.frozen
      /\ b.doublings <= r.doublings /\ l + len <= Capacity[r.doublings]
  BY <1>0, ReserveFits
<1> HIDE DEF r
<1>2. b.chars \in Seq(Nat) /\ l \in Nat /\ b.doublings \in Nat /\ r.doublings \in Nat
  BY <1>1 DEF BufferSound, BufferType
<1>3. /\ c \in Seq(Nat) /\ Len(c) = l + len
      /\ \A n \in 1..l + len : c[n] = IF n <= l THEN b.chars[n] ELSE t[n - l]
  BY <1>2, Concatenated
<1>4. e \in BufferType /\ e.chars = c /\ e.doublings = r.doublings /\ e.frozen = b.frozen
  BY <1>1, <1>3 DEF BufferType
<1>6. e = Extended(b, t)
  BY DEF Extended, r
<1>5. ASSUME NEW n \in 1..Len(c)
      PROVE  c[n] = n \/ (c[n] = 0 /\ \E k \in 0..r.doublings : n = Capacity[k])
  <2>1. CASE n <= l
    <3>1. n \in 1..l /\ c[n] = b.chars[n]
      BY <1>2, <1>3, <2>1
    <3>2. b.chars[n] = n \/ (b.chars[n] = 0 /\ \E k \in 0..b.doublings : n = Capacity[k])
      BY <3>1 DEF BufferSound
    <3>3. \A k \in 0..b.doublings : k \in 0..r.doublings
      BY <1>1, <1>2
    <3> QED
      BY <3>1, <3>2, <3>3
  <2>2. CASE ~(n <= l)
    <3>1. n - l \in 1..len /\ c[n] = t[n - l] /\ l + (n - l) = n
      BY <1>2, <1>3, <2>2
    <3>2. t[n - l] = n \/ (t[n - l] = 0 /\ n = Capacity[r.doublings])
      BY <3>1 DEF r
    <3>3. r.doublings \in 0..r.doublings
      BY <1>2
    <3> QED
      BY <3>1, <3>2, <3>3
  <2> QED
    BY <2>1, <2>2
<1> HIDE DEF c, e, l
<1> QED
  BY <1>1, <1>3, <1>4, <1>5, <1>6 DEF BufferSound

LEMMA AppendToSound ==
    ASSUME NEW b, BufferSound(b), NEW len \in Nat
    PROVE  BufferSound(AppendTo(b, len)) /\ AppendTo(b, len).frozen = b.frozen
<1> DEFINE t == Text(b, len)
<1>1. t \in Seq(Nat) /\ Len(t) = len /\ \A n \in 1..len : t[n] = Len(b.chars) + n
  BY DEF Text, BufferSound, BufferType
<1> HIDE DEF t
<1>2. AppendTo(b, len) = Extended(b, t)
  BY <1>1 DEF AppendTo, Extended, t
<1> QED
  BY <1>1, <1>2, ExtendedSound

LEMMA PrintToSound ==
    ASSUME NEW b, BufferSound(b), NEW len \in Nat
    PROVE  BufferSound(PrintTo(b, len)) /\ PrintTo(b, len).frozen = b.frozen
<1> DEFINE r == Reserve(b, len)
           l == Len(b.chars)
           Printed(n) == IF n = Capacity[r.doublings] THEN 0 ELSE n
           t == [n \in 1..len |-> Printed(l + n)]
<1>1. r.chars = b.chars /\ l \in Nat
  BY ReserveFits DEF BufferSound, BufferType
<1>2. /\ t \in Seq(Nat) /\ Len(t) = len
      /\ \A n \in 1..len : t[n] = l + n \/ (t[n] = 0 /\ l + n = Capacity[r.doublings])
  BY <1>1
<1>3. PrintTo(b, len) = Extended(b, t)
  BY <1>1, <1>2 DEF PrintTo, Extended
<1> HIDE DEF t
<1> QED
  BY <1>2, <1>3, ExtendedSound

(* How far the message is on its way. *)
WriterInv ==
    /\ wstate \in {"INIT", "HEADERS", "PREBODY", "BODY"}
    /\ user \in {"idle", "headers", "body", "end", "failed"}
    /\ BufferSound(buffer)
    /\ prebodyOut \in Nat /\ bodyLeft \in Nat /\ begun \in Nat /\ onWire \in Seq(Nat)
    /\ wstate = "HEADERS" <=> ~buffer.frozen /\ begun > 0
    /\ user = "idle" <=> wstate = "INIT"
    /\ user = "headers" => wstate = "HEADERS"
    /\ wstate = "HEADERS" => user # "failed" /\ onWire = << >>
    /\ calling => wstate \notin {"INIT", "HEADERS"}
    /\ user \in {"idle", "end"} => bodyLeft = 0
    /\ begun = 0 => wstate = "INIT" /\ onWire = << >>
    /\ wstate = "PREBODY" => Len(onWire) = prebodyOut /\ prebodyOut <= Len(buffer.chars)
    /\ begun > 0 /\ wstate \in {"INIT", "BODY"} => Len(onWire) >= Len(buffer.chars)
    /\ \A n \in 1..Len(onWire) :
          onWire[n] = IF n <= Len(buffer.chars) THEN buffer.chars[n] ELSE n

LEMMA WriterInvSound == WriterInv => MessageIntact
<1> SUFFICES ASSUME WriterInv PROVE MessageIntact
  OBVIOUS
<1>1. /\ onWire \in Seq(Nat) /\ DOMAIN onWire = 1..Len(onWire)
      /\ buffer.chars \in Seq(Nat) /\ Len(buffer.chars) \in Nat
  BY DEF WriterInv, BufferSound, BufferType
<1>2. ASSUME NEW n \in DOMAIN onWire
      PROVE  \/ onWire[n] = n
             \/ onWire[n] = 0 /\ n <= Len(buffer.chars)
                /\ \E k \in 0..buffer.doublings : n = Capacity[k]
  <2>1. n \in 1..Len(onWire) /\ n \in Nat
    BY <1>1
  <2>2. onWire[n] = IF n <= Len(buffer.chars) THEN buffer.chars[n] ELSE n
    BY <2>1 DEF WriterInv
  <2>3. CASE n <= Len(buffer.chars)
    <3>1. n \in 1..Len(buffer.chars) /\ onWire[n] = buffer.chars[n]
      BY <1>1, <2>1, <2>2, <2>3
    <3> QED
      BY <2>3, <3>1 DEF WriterInv, BufferSound
  <2> QED
    BY <2>2, <2>3
<1>3. Len(buffer.chars) <= Capacity[buffer.doublings]
  BY DEF WriterInv, BufferSound
<1>4. user = "idle" /\ begun > 0 => Len(onWire) >= Len(buffer.chars) /\ bodyLeft = 0
  BY DEF WriterInv
<1>5. wstate = "HEADERS" <=> ~buffer.frozen /\ begun > 0
  BY DEF WriterInv
<1> QED
  BY <1>2, <1>3, <1>4, <1>5 DEF MessageIntact

LEMMA WriterInvInit == WriterInit => WriterInv
<1> SUFFICES ASSUME WriterInit PROVE WriterInv
  OBVIOUS
<1>1. /\ buffer = [chars |-> << >>, doublings |-> 0, frozen |-> FALSE]
      /\ wstate = "INIT" /\ user = "idle" /\ calling = FALSE
      /\ prebodyOut = 0 /\ bodyLeft = 0 /\ begun = 0 /\ onWire = << >>
  BY DEF WriterInit
<1>2. buffer.chars \in Seq(Nat) /\ Len(buffer.chars) = 0 /\ buffer.doublings = 0
  BY <1>1
<1>3. BufferSound(buffer)
  <2>1. 0 <= Capacity[0]
    BY CapacityDoubles, WriterAssumption
  <2>2. buffer \in BufferType
    BY <1>1 DEF BufferType
  <2> QED
    BY <1>2, <2>1, <2>2 DEF BufferSound
<1>4. onWire \in Seq(Nat) /\ Len(onWire) = 0
  BY <1>1
<1> QED
  BY <1>1, <1>3, <1>4 DEF WriterInv

(* A buffer to which a message's headers are being added. *)
LEMMA HeadersKept ==
    ASSUME BufferSound(buffer)', ~buffer'.frozen, begun' \in Nat, begun' > 0,
           wstate' = "HEADERS", user' \in {"headers", "body", "end"}, ~calling',
           prebodyOut' \in Nat, bodyLeft' \in Nat, user' = "end" => bodyLeft' = 0,
           onWire' = << >>
    PROVE  WriterInv'
<1>1. onWire' \in Seq(Nat) /\ Len(onWire') = 0
  OBVIOUS
<1> QED
  BY <1>1 DEF WriterInv

LEMMA BeginMessageKeeps == WriterInv /\ BeginMessage => WriterInv'
<1> SUFFICES ASSUME WriterInv, BeginMessage PROVE WriterInv'
  OBVIOUS
<1> DEFINE empty == [buffer EXCEPT !.chars = << >>, !.frozen = FALSE]
<1>1. BufferSound(empty) /\ ~empty.frozen
  <2>1. buffer \in BufferType /\ buffer.doublings \in Nat
    BY DEF WriterInv, BufferSound, BufferType
  <2>2. empty \in BufferType /\ empty.chars = << >> /\ empty.doublings = buffer.doublings
        /\ ~empty.frozen
    <3> DEFINE one == [buffer EXCEPT !.chars = << >>]
    <3>1. << >> \in Seq(Nat)
      OBVIOUS
    <3>2. one \in BufferType /\ one.chars = << >> /\ one.doublings = buffer.doublings
      BY <2>1, <3>1 DEF BufferType
    <3>3. empty = [one EXCEPT !.frozen = FALSE]
      BY <2>1 DEF BufferType
    <3> HIDE DEF one
    <3> QED
      BY <3>2, <3>3 DEF BufferType
  <2>3. Len(empty.chars) = 0 /\ 0 <= Capacity[empty.doublings]
    BY <2>1, <2>2, CapacityDoubles
  <2> QED
    BY <2>1, <2>2, <2>3 DEF BufferSound
<1>2. PICK len \in Line : buffer' \in {AppendTo(empty, len), PrintTo(empty, len)}
  BY DEF BeginMessage
<1>3. BufferSound(buffer') /\ ~buffer'.frozen
  <2>1. len \in Nat
    BY WriterAssumption DEF Line
  <2> HIDE DEF empty
  <2> QED
    BY <1>1, <1>2, <2>1, AppendToSound, PrintToSound
<1>4. BufferSound(buffer)'
  BY <1>3 DEF BufferSound
<1>5. /\ begun' \in Nat /\ begun' > 0 /\ wstate' = "HEADERS" /\ user' = "headers"
      /\ prebodyOut' \in Nat /\ bodyLeft' \in Nat /\ onWire' = << >>
  BY WriterAssumption DEF WriterInv, BeginMessage
<1>6. ~calling'
  BY DEF WriterInv, BeginMessage
<1> QED
  BY <1>3, <1>4, <1>5, <1>6, HeadersKept

LEMMA HeaderKeeps == WriterInv /\ Header => WriterInv'
<1> SUFFICES ASSUME WriterInv, Header PROVE WriterInv'
  OBVIOUS
<1>1. BufferSound(buffer) /\ ~buffer.frozen
  BY DEF WriterInv, Header
<1>2. BufferSound(buffer') /\ ~buffer'.frozen
  <2>1. PICK name \in Line, value \in Line :
           \/ buffer' = AppendTo(buffer, name + value)
           \/ buffer' = AppendTo(PrintTo(AppendTo(buffer, name), value), 1)
    BY DEF Header
  <2>2. name \in Nat /\ value \in Nat /\ name + value \in Nat /\ 1 \in Nat
    BY WriterAssumption DEF Line
  <2>3. BufferSound(AppendTo(buffer, name + value)) /\ ~AppendTo(buffer, name + value).frozen
    BY <1>1, <2>2, AppendToSound
  <2>4. BufferSound(AppendTo(buffer, name)) /\ ~AppendTo(buffer, name).frozen
    BY <1>1, <2>2, AppendToSound
  <2>5. /\ BufferSound(PrintTo(AppendTo(buffer, name), value))
        /\ ~PrintTo(AppendTo(buffer, name), value).frozen
    BY <2>2, <2>4, PrintToSound
  <2>6. /\ BufferSound(AppendTo(PrintTo(AppendTo(buffer, name), value), 1))
        /\ ~AppendTo(PrintTo(AppendTo(buffer, name), value), 1).frozen
    BY <2>2, <2>5, AppendToSound
  <2> QED
    BY <2>1, <2>3, <2>6
<1>3. BufferSound(buffer)'
  BY <1>2 DEF BufferSound
<1>4. /\ begun' \in Nat /\ begun' > 0 /\ wstate' = "HEADERS" /\ user' = "headers"
      /\ prebodyOut' \in Nat /\ bodyLeft' \in Nat /\ onWire' = << >> /\ ~calling'
  BY DEF WriterInv, Header
<1> QED
  BY <1>2, <1>3, <1>4, HeadersKept

LEMMA CallKeeps == WriterInv /\ Call => WriterInv'
<1> SUFFICES ASSUME WriterInv, Call PROVE WriterInv'
  OBVIOUS
<1>1. CASE wstate = "HEADERS"
  <2> DEFINE b == AppendTo(buffer, 1)
  <2>1. BufferSound(b)
    BY AppendToSound DEF WriterInv
  <2>2. /\ buffer' = [b EXCEPT !.frozen = TRUE] /\ prebodyOut' = 0 /\ wstate' = "PREBODY"
        /\ user \in {"body", "end"} /\ UNCHANGED <<user, bodyLeft, onWire, begun>>
    BY <1>1 DEF Call
  <2> HIDE DEF b
  <2>3. buffer' \in BufferType /\ buffer'.frozen /\ buffer'.chars = b.chars
        /\ buffer'.doublings = b.doublings
    BY <2>1, <2>2 DEF BufferSound, BufferType
  <2>4. BufferSound(buffer')
    BY <2>1, <2>3 DEF BufferSound
  <2>5. BufferSound(buffer)'
    BY <2>4 DEF BufferSound
  <2>6. onWire' \in Seq(Nat) /\ Len(onWire') = 0 /\ Len(buffer'.chars) \in Nat
    BY <1>1, <2>2, <2>3 DEF WriterInv, BufferType
  <2> QED
    BY <1>1, <2>2, <2>3, <2>5, <2>6 DEF WriterInv
<1>2. CASE wstate # "HEADERS"
  <2>1. UNCHANGED <<wstate, buffer, prebodyOut, user, bodyLeft, onWire, begun>>
        /\ user # "idle"
    BY <1>2 DEF Call
  <2>2. BufferSound(buffer)'
    BY <2>1 DEF WriterInv, BufferSound
  <2> QED
    BY <1>2, <2>1, <2>2 DEF WriterInv
<1> QED
  BY <1>1, <1>2

(* Part of the prebody goes out. *)
LEMMA WritePrebodyKeeps == WriterInv /\ WritePrebody => WriterInv'
<1> SUFFICES ASSUME WriterInv, WritePrebody PROVE WriterInv'
  OBVIOUS
<1> DEFINE chars == buffer.chars
           o == prebodyOut
<1>1. PICK n \in o + 1 .. Len(chars) :
         onWire' = onWire \o SubSeq(chars, o + 1, n) /\ prebodyOut' = n
  BY DEF WritePrebody
<1>2. /\ wstate = "PREBODY" /\ UNCHANGED <<wstate, buffer, calling, user, bodyLeft, begun>>
      /\ chars \in Seq(Nat) /\ o \in Nat /\ onWire \in Seq(Nat) /\ Len(onWire) = o
      /\ Len(chars) \in Nat /\ n \in Nat /\ o < n /\ n <= Len(chars)
  BY <1>1 DEF WriterInv, WritePrebody, BufferSound, BufferType
<1> DEFINE part == SubSeq(chars, o + 1, n)
<1>3. part \in Seq(Nat) /\ Len(part) = n - o /\ \A m \in 1..n - o : part[m] = chars[o + m]
  <2> HIDE DEF chars, o
  <2>1. \A i \in o + 1 .. n : chars[i] \in Nat
    BY <1>2
  <2>2. /\ part \in Seq(Nat) /\ Len(part) = n - (o + 1) + 1
        /\ \A m \in 1 .. n - (o + 1) + 1 : part[m] = chars[o + 1 + m - 1]
    BY <1>2, <2>1, SubSeqProperties
  <2>3. n - (o + 1) + 1 = n - o /\ \A m \in 1..n - o : o + 1 + m - 1 = o + m
    BY <1>2
  <2> QED
    BY <2>2, <2>3
<1>4. /\ onWire' \in Seq(Nat) /\ Len(onWire') = n
      /\ \A m \in 1..n : onWire'[m] = IF m <= o THEN onWire[m] ELSE part[m - o]
  <2>1. onWire' = onWire \o part
    BY <1>1
  <2> HIDE DEF part
  <2>2. onWire \in Seq(Nat) /\ part \in Seq(Nat)
    BY <1>2, <1>3
  <2>3. /\ onWire' \in Seq(Nat) /\ Len(onWire') = Len(onWire) + Len(part)
        /\ \A m \in 1..Len(onWire) + Len(part) :
              onWire'[m] = IF m <= Len(onWire) THEN onWire[m] ELSE part[m - Len(onWire)]
    BY <2>1, <2>2, Concatenated
  <2>4. Len(onWire) = o /\ Len(onWire) + Len(part) = n
    BY <1>2, <1>3
  <2> QED
    BY <2>3, <2>4
<1> HIDE DEF part
<1>5. ASSUME NEW m \in 1..n PROVE onWire'[m] = chars[m]
  <2>1. CASE m <= o
    <3>1. m \in 1..Len(onWire) /\ m <= Len(chars)
      BY <1>2, <2>1
    <3> QED
      BY <1>4, <2>1, <3>1 DEF WriterInv
  <2>2. CASE ~(m <= o)
    <3>1. m - o \in 1..n - o /\ o + (m - o) = m
      BY <1>2, <2>2
    <3> QED
      BY <1>3, <1>4, <2>2, <3>1
  <2> QED
    BY <2>1, <2>2
<1>6. \A m \in 1..n : m <= Len(chars)
  BY <1>2
<1>7. BufferSound(buffer)'
  BY <1>2 DEF WriterInv, BufferSound
<1> QED
  BY <1>1, <1>2, <1>4, <1>5, <1>6, <1>7 DEF WriterInv

(* Part of the body goes out. *)
LEMMA WriteBodyKeeps == WriterInv /\ WriteBody => WriterInv'
<1> SUFFICES ASSUME WriterInv, WriteBody PROVE WriterInv'
  OBVIOUS
<1> DEFINE l == Len(onWire)
<1>1. PICK n \in 1..bodyLeft :
         /\ onWire' = onWire \o [m \in 1..n |-> l + m]
         /\ bodyLeft' = bodyLeft - n
         /\ user' = IF n = bodyLeft THEN "end" ELSE "body"
  BY DEF WriteBody
<1>2. /\ wstate = "BODY" /\ UNCHANGED <<wstate, buffer, prebodyOut, begun>>
      /\ onWire \in Seq(Nat) /\ l \in Nat /\ n \in Nat /\ 0 < n /\ ~calling'
      /\ bodyLeft' \in Nat /\ user' \in {"body", "end"}
      /\ user' = "end" => bodyLeft' = 0
  BY <1>1 DEF WriterInv, WriteBody
<1>3. /\ begun > 0 /\ Len(buffer.chars) <= l /\ Len(buffer.chars) \in Nat
  BY <1>2 DEF WriterInv, BufferSound, BufferType
<1>4. [m \in 1..n |-> l + m] \in Seq(Nat) /\ Len([m \in 1..n |-> l + m]) = n
  BY <1>2
<1>5. /\ onWire' \in Seq(Nat) /\ Len(onWire') = l + n
      /\ \A m \in 1..l + n : onWire'[m] = IF m <= l THEN onWire[m] ELSE l + (m - l)
  <2>1. /\ onWire' \in Seq(Nat) /\ Len(onWire') = l + n
        /\ \A m \in 1..l + n : onWire'[m] = IF m <= l THEN onWire[m]
                                            ELSE [q \in 1..n |-> l + q][m - l]
    BY <1>1, <1>2, <1>4, Concatenated
  <2>2. \A m \in 1..l + n : ~(m <= l) => m - l \in 1..n
    BY <1>2
  <2> QED
    BY <2>1, <2>2
<1>6. ASSUME NEW m \in 1..l + n
      PROVE  onWire'[m] = IF m <= Len(buffer.chars) THEN buffer.chars[m] ELSE m
  <2>1. CASE m <= l
    <3>1. m \in 1..l
      BY <2>1
    <3> QED
      BY <1>5, <2>1, <3>1 DEF WriterInv
  <2>2. CASE ~(m <= l)
    <3>1. l + (m - l) = m /\ ~(m <= Len(buffer.chars))
      BY <1>2, <1>3, <2>2
    <3> QED
      BY <1>5, <2>2, <3>1
  <2> QED
    BY <2>1, <2>2
<1>7. BufferSound(buffer)'
  BY <1>2 DEF WriterInv, BufferSound
<1>8. Len(onWire') >= Len(buffer.chars)
  BY <1>2, <1>3, <1>5
<1>9. /\ wstate' = "HEADERS" <=> ~buffer'.frozen /\ begun' > 0
      /\ prebodyOut' \in Nat /\ begun' \in Nat /\ begun' > 0 /\ wstate' = "BODY"
  BY <1>2, <1>3 DEF WriterInv
<1>10. \A m \in 1..Len(onWire') :
          onWire'[m] = IF m <= Len(buffer'.chars) THEN buffer'.chars[m] ELSE m
  BY <1>2, <1>5, <1>6
<1> QED
  BY <1>2, <1>5, <1>7, <1>8, <1>9, <1>10 DEF WriterInv

LEMMA WriterStep == WriterInv /\ WriterNext => WriterInv'
<1> SUFFICES ASSUME WriterInv, WriterNext PROVE WriterInv'
  OBVIOUS
<1>1. CASE HeadersOver
  <2>1. BufferSound(buffer)'
    BY <1>1 DEF HeadersOver, WriterInv, BufferSound
  <2> QED
    BY <1>1, <2>1 DEF HeadersOver, WriterInv
<1>2. CASE PrebodyWritten
  <2>1. BufferSound(buffer)' /\ Len(buffer.chars) \in Nat
    BY <1>2 DEF PrebodyWritten, WriterInv, BufferSound, BufferType
  <2> QED
    BY <1>2, <2>1 DEF PrebodyWritten, WriterInv
<1>3. CASE WriterEnd
  <2>1. BufferSound(buffer)'
    BY <1>3 DEF WriterEnd, WriterInv, BufferSound
  <2> QED
    BY <1>3, <2>1 DEF WriterEnd, WriterInv
<1>4. CASE StreamWaitsOrFails
  <2>1. BufferSound(buffer)'
    BY <1>4 DEF StreamWaitsOrFails, WriterInv, BufferSound
  <2> QED
    BY <1>4, <2>1 DEF StreamWaitsOrFails, WriterInv
<1> QED
  BY <1>1, <1>2, <1>3, <1>4, BeginMessageKeeps, HeaderKeeps, CallKeeps, WritePrebodyKeeps,
     WriteBodyKeeps DEF WriterNext

LEMMA WriterStutter == WriterInv /\ UNCHANGED writerVars => WriterInv'
BY DEF WriterInv, writerVars, BufferSound

(* What is on the wire is the message, but for the characters that were    *)
(* printed into the last place of the buffer, whatever the lengths of its  *)
(* lines and of its body, the size of the buffer and the parts in which    *)
(* the stream takes it (http_writer.c, buffer.c).                          *)
THEOREM MessagesArriveIntact == Spec => []MessageIntact
<1>1. Init => WriterInv
  BY WriterInvInit DEF Init
<1>2. WriterInv /\ [Next]_vars => WriterInv'
  <2> SUFFICES ASSUME WriterInv, [Next]_vars PROVE WriterInv'
    OBVIOUS
  <2>1. CASE WriterNext /\ WriterAlone
    BY <2>1, WriterStep
  <2>2. CASE UNCHANGED writerVars
    BY <2>2, WriterStutter
  <2> QED
    BY <2>1, <2>2 DEF Next, vars, Delim, ReaderAlone, ApplicationAlone, TransportAlone, ServerAlone
<1> QED
  BY <1>1, <1>2, WriterInvSound, PTL DEF Spec
=============================================================================
