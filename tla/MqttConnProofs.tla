--------------------------- MODULE MqttConnProofs ----------------------------
(***************************************************************************)
(* The back-off never leaves its bounds and the event bits follow the      *)
(* client, for every base and maximum of the back-off.                     *)
(***************************************************************************)
EXTENDS MqttConn, TLAPS

USE DEF ClientBits, STARTED, CONNECTED, NOTCONNECTED, DISCONNECTED

--------------------------------------------------------------------------------
(* The algorithm *)

(* Below half the maximum the doubled bound does not exceed the maximum, so it  *)
(* does not wrap around in a uint16_t either.                                   *)
LEMMA NextJitterBound ==
  ASSUME NEW jitter0 \in Nat, NEW max \in 0 .. Uint16 - 1,
         jitter0 <= max, BackoffAssumption
  PROVE  NextJitter(jitter0, max) \in jitter0 .. max
<1>1. CASE jitter0 < max \div 2
  <2>1. jitter0 + jitter0 \in jitter0 .. max /\ jitter0 + jitter0 < Uint16
    BY <1>1, SMT DEF BackoffAssumption
  <2>2. (jitter0 + jitter0) % Uint16 = jitter0 + jitter0
    BY <2>1, SMT DEF BackoffAssumption
  <2>. QED  BY <1>1, <2>1, <2>2, Zenon DEF NextJitter
<1>2. CASE ~(jitter0 < max \div 2)
  <2>1. NextJitter(jitter0, max) = max
    BY <1>2, Zenon DEF NextJitter
  <2>. QED  BY <2>1, SMT
<1>. QED  BY <1>1, <1>2

--------------------------------------------------------------------------------
(* The bound the watchdog doubles is the one it tested, or the base that the    *)
(* event handler has put in its place since.                                    *)
JitterRead == wd.pc = "double" => jitter \in {wd.tested, BaseBackoff}

CountLow == wd.pc \in {"wait", "count"} => wd.count <= 1

Awake == wd.pc \in {"wait", "count", "backoff", "test", "double", "stop"}

(* What the places of the three tasks say of the client and the bits *)
Control ==
  /\ start # "done" => wd.pc = "wait" /\ STARTED \notin bits
  /\ start = "client" => client = "stopped"
  /\ start # "client" /\ Awake => client # "stopped"
  /\ wd.pc \in {"clear", "sleep", "reset", "start"} => client = "stopped"
  /\ wd.pc = "started" => client # "stopped"
  /\ wd.pc \in {"sleep", "reset", "start", "started"} => STARTED \notin bits
  /\ client = "stopped" => event = "idle"
  /\ event \in {"connected", "connected2", "connected3"} => client = "up"
  /\ event \in {"disconnected", "disconnected2"} => client = "down"
  /\ event = "connected2" => CONNECTED \in bits

(* TypeOK without its two flags *)
Types ==
  /\ bits \subseteq ClientBits
  /\ client \in {"stopped", "down", "up"}
  /\ event \in EventPCs
  /\ jitter \in BaseBackoff .. MaxBackoff
  /\ wd \in WdType
  /\ caller \in {"idle", "notify"}
  /\ start \in {"client", "bit", "done"}

Flags == reach \in BOOLEAN /\ notified \in BOOLEAN

Core == Types /\ BitsFollowClient /\ JitterRead /\ CountLow /\ Control

IInv == TypeOK /\ BitsFollowClient /\ JitterRead /\ CountLow /\ Control

--------------------------------------------------------------------------------
(* What an update of the watchdog's record does to its fields *)
WdBecomes(p, count) ==
  wd' \in WdType /\ wd'.pc = p /\ wd'.count = count

WdPCs == {"wait", "count", "backoff", "test", "double", "stop", "clear", "sleep",
          "reset", "start", "started"}

LEMMA WdGotoEffect ==
  ASSUME TypeOK, NEW p \in WdPCs, WdGoto(p)
  PROVE  WdBecomes(p, wd.count) /\ wd'.tested = wd.tested
BY Zenon DEF TypeOK, WdType, WdPCs, WdGoto, WdBecomes

LEMMA WdCountEffect ==
  ASSUME TypeOK, CountLow, WdCount
  PROVE  WdBecomes(IF wd.count + 1 = 2 THEN "backoff" ELSE "wait", wd.count + 1)
<1>1. wd.count + 1 \in 0 .. 2
  BY SMT DEF TypeOK, WdType, CountLow, WdCount
<1>. QED
  BY <1>1, Zenon DEF TypeOK, WdType, WdCount, WdBecomes

LEMMA WdBackoffEffect ==
  ASSUME TypeOK, MqttConnAssumption, WdBackoff
  PROVE  WdBecomes("test", wd.count)
<1>1. PICK d \in 0 .. jitter : wd' = [wd EXCEPT !.delay = d, !.pc = "test"]
  BY Zenon DEF WdBackoff
<1>2. d \in 0 .. MaxBackoff
  BY SMT DEF TypeOK, MqttConnAssumption
<1>. QED
  BY <1>1, <1>2, Zenon DEF TypeOK, WdType, WdBecomes

LEMMA WdTestEffect ==
  ASSUME TypeOK, WdTest
  PROVE  WdBecomes("double", wd.count) /\ wd'.tested = jitter
BY Zenon DEF TypeOK, WdType, WdTest, WdBecomes

LEMMA WdStartedEffect ==
  ASSUME TypeOK, WdStarted
  PROVE  WdBecomes("wait", 0)
<1>1. 0 \in 0 .. 2
  BY SMT
<1>. QED
  BY <1>1, Zenon DEF TypeOK, WdType, WdStarted, WdBecomes

(* The doubled bound, read once or twice *)
LEMMA WdDoubleJitter ==
  ASSUME TypeOK, JitterRead, BackoffAssumption, MqttConnAssumption, WdDouble
  PROVE  jitter' \in BaseBackoff .. MaxBackoff
<1>1. PICK read \in {wd.tested, jitter} :
        jitter' = IF wd.tested < MaxBackoff \div 2 THEN (read + read) % Uint16 ELSE MaxBackoff
  BY Zenon DEF WdDouble
<1>2. read \in BaseBackoff .. MaxBackoff /\ wd.tested \in BaseBackoff .. MaxBackoff
  BY Zenon DEF TypeOK, WdType
<1>3. read <= wd.tested
  BY <1>2, SMT DEF JitterRead, WdDouble, MqttConnAssumption
<1>4. CASE wd.tested < MaxBackoff \div 2
  <2>1. read < MaxBackoff \div 2
    BY <1>2, <1>3, <1>4, SMT DEF MqttConnAssumption, BackoffAssumption
  <2>2. read + read \in BaseBackoff .. MaxBackoff /\ read + read < Uint16
    BY <1>2, <2>1, SMT DEF MqttConnAssumption, BackoffAssumption
  <2>3. (read + read) % Uint16 = read + read
    BY <1>2, <2>2, SMT DEF MqttConnAssumption, BackoffAssumption
  <2>. QED  BY <1>1, <1>4, <2>2, <2>3, Zenon
<1>5. CASE ~(wd.tested < MaxBackoff \div 2)
  <2>1. MaxBackoff \in BaseBackoff .. MaxBackoff
    BY SMT DEF MqttConnAssumption
  <2>. QED  BY <1>1, <1>5, <2>1, Zenon
<1>. QED  BY <1>4, <1>5

--------------------------------------------------------------------------------
(* The invariant *)

LEMMA CoreAndFlags == IInv <=> Core /\ Flags
BY Zenon DEF IInv, Core, TypeOK, Types, Flags

LEMMA InitIInv ==
  ASSUME MqttConnAssumption, Init
  PROVE  IInv
<1>1. wd \in WdType
  <2>1. 0 \in 0 .. 2 /\ 0 \in 0 .. MaxBackoff /\ BaseBackoff \in BaseBackoff .. MaxBackoff
    BY SMT DEF MqttConnAssumption
  <2>. QED  BY <2>1, Zenon DEF WdType, Init
<1>2. wd.pc = "wait" /\ wd.count = 0
  BY Zenon DEF Init
<1>3. /\ bits = {} /\ client = "stopped" /\ event = "idle" /\ jitter = BaseBackoff
      /\ caller = "idle" /\ start = "client"
  BY Zenon DEF Init
<1>4. Flags
  BY Zenon DEF Init, Flags
<1>5. Core
  BY <1>1, <1>2, <1>3, SMT DEF Core, Types, BitsFollowClient, JitterRead, CountLow, Control,
     Awake, EventPCs, MqttConnAssumption
<1>. QED
  BY <1>4, <1>5, CoreAndFlags

LEMMA StepFlags ==
  ASSUME Flags, Next
  PROVE  Flags'
BY Zenon DEF Flags, Next, NetworkChanges, Client, ClientConnects, ClientCannotConnect,
   ClientDisconnects, Dispatch, EventHandler, Handle, SetConnected, ClearNotConnected,
   ResetBackoff, ClearConnected, SetDisconnected, Watchdog, WdWait, WdCount, WdBackoff,
   WdTest, WdDouble, WdStop, WdClear, WdNotified, WdReset, WdTimeout, WdStart, WdStarted,
   Reconnect, ReconnectNow, ReconnectNotify, Start, StartClient, StartSetBit

LEMMA StepCore ==
  ASSUME BackoffAssumption, MqttConnAssumption, IInv, Next
  PROVE  Core'
<1>1. BaseBackoff \in BaseBackoff .. MaxBackoff
  BY SMT DEF MqttConnAssumption
<1>2. Core /\ TypeOK
  BY CoreAndFlags DEF IInv
<1>3. CASE NetworkChanges
  <2>4. /\ bits' = bits /\ client' = client /\ event' = event
        /\ jitter' = jitter /\ wd' = wd /\ caller' = caller /\ start' = start
    BY <1>3, Zenon DEF NetworkChanges
  <2>. QED
    BY <1>1, <1>2, <2>4, SMT DEF Core, Types, EventPCs, BitsFollowClient,
       JitterRead, CountLow, Control, Awake, WdType
<1>4. CASE ClientConnects
  <2>4. /\ client = "down" /\ event = "idle" /\ wd.pc # "stop"
        /\ client' = "up" /\ event' = "connected" /\ bits' = bits
        /\ jitter' = jitter /\ wd' = wd /\ caller' = caller /\ start' = start
    BY <1>4, Zenon DEF ClientConnects, Dispatch
  <2>. QED
    BY <1>1, <1>2, <2>4, SMT DEF Core, Types, EventPCs, BitsFollowClient,
       JitterRead, CountLow, Control, Awake, WdType
<1>5. CASE ClientCannotConnect
  <2>4. /\ client = "down" /\ event = "idle" /\ wd.pc # "stop"
        /\ client' = "down" /\ event' = "disconnected" /\ bits' = bits
        /\ jitter' = jitter /\ wd' = wd /\ caller' = caller /\ start' = start
    BY <1>5, Zenon DEF ClientCannotConnect, Dispatch
  <2>. QED
    BY <1>1, <1>2, <2>4, SMT DEF Core, Types, EventPCs, BitsFollowClient,
       JitterRead, CountLow, Control, Awake, WdType
<1>6. CASE ClientDisconnects
  <2>4. /\ client = "up" /\ event = "idle" /\ wd.pc # "stop"
        /\ client' = "down" /\ event' = "disconnected" /\ bits' = bits
        /\ jitter' = jitter /\ wd' = wd /\ caller' = caller /\ start' = start
    BY <1>6, Zenon DEF ClientDisconnects, Dispatch
  <2>. QED
    BY <1>1, <1>2, <2>4, SMT DEF Core, Types, EventPCs, BitsFollowClient,
       JitterRead, CountLow, Control, Awake, WdType
<1>7. CASE SetConnected
  <2>4. /\ event = "connected" /\ bits' = (bits \ {}) \cup {CONNECTED}
        /\ event' = "connected2" /\ client' = client
        /\ jitter' = jitter /\ wd' = wd /\ caller' = caller /\ start' = start
    BY <1>7, Zenon DEF SetConnected, Handle
  <2>. QED
    BY <1>1, <1>2, <2>4, SMT DEF Core, Types, EventPCs, BitsFollowClient,
       JitterRead, CountLow, Control, Awake, WdType
<1>8. CASE ClearNotConnected
  <2>4. /\ event = "connected2"
        /\ bits' = (bits \ {NOTCONNECTED}) \cup {} /\ event' = "connected3"
        /\ client' = client /\ jitter' = jitter /\ wd' = wd
        /\ caller' = caller /\ start' = start
    BY <1>8, Zenon DEF ClearNotConnected, Handle
  <2>. QED
    BY <1>1, <1>2, <2>4, SMT DEF Core, Types, EventPCs, BitsFollowClient,
       JitterRead, CountLow, Control, Awake, WdType
<1>9. CASE ClearConnected
  <2>4. /\ event = "disconnected" /\ bits' = (bits \ {CONNECTED}) \cup {}
        /\ event' = "disconnected2" /\ client' = client /\ jitter' = jitter
        /\ wd' = wd /\ caller' = caller /\ start' = start
    BY <1>9, Zenon DEF ClearConnected, Handle
  <2>. QED
    BY <1>1, <1>2, <2>4, SMT DEF Core, Types, EventPCs, BitsFollowClient,
       JitterRead, CountLow, Control, Awake, WdType
<1>10. CASE SetDisconnected
  <2>4. /\ event = "disconnected2"
        /\ bits' = (bits \ {}) \cup {DISCONNECTED, NOTCONNECTED}
        /\ event' = "idle" /\ client' = client /\ jitter' = jitter /\ wd' = wd
        /\ caller' = caller /\ start' = start
    BY <1>10, Zenon DEF SetDisconnected, Handle
  <2>. QED
    BY <1>1, <1>2, <2>4, SMT DEF Core, Types, EventPCs, BitsFollowClient,
       JitterRead, CountLow, Control, Awake, WdType
<1>11. CASE ResetBackoff
  <2>4. /\ event = "connected3" /\ jitter' = BaseBackoff /\ event' = "idle"
        /\ bits' = bits /\ client' = client /\ wd' = wd /\ caller' = caller
        /\ start' = start
    BY <1>11, Zenon DEF ResetBackoff
  <2>. QED
    BY <1>1, <1>2, <2>4, SMT DEF Core, Types, EventPCs, BitsFollowClient,
       JitterRead, CountLow, Control, Awake, WdType
<1>12. CASE WdWait
  <2>1. WdGoto("count")
    BY <1>12, Zenon DEF WdWait
  <2>2. WdBecomes("count", wd.count) /\ wd'.tested = wd.tested
    BY <1>2, <2>1, WdGotoEffect, Zenon DEF WdPCs
  <2>4. /\ wd.pc = "wait" /\ {STARTED, DISCONNECTED} \subseteq bits
        /\ bits' = bits /\ client' = client /\ event' = event
        /\ jitter' = jitter /\ caller' = caller /\ start' = start
    BY <1>12, Zenon DEF WdWait
  <2>. QED
    BY <1>1, <1>2, <2>4, <2>2, SMT DEF Core, Types, EventPCs,
       BitsFollowClient, JitterRead, CountLow, Control, Awake, WdType,
       WdBecomes
<1>13. CASE WdCount
  <2>2. WdBecomes(IF wd.count + 1 = 2 THEN "backoff" ELSE "wait", wd.count + 1)
    BY <1>2, <1>13, WdCountEffect, Zenon DEF IInv
  <2>4. /\ wd.pc = "count" /\ bits' = bits \ {DISCONNECTED}
        /\ client' = client /\ event' = event /\ jitter' = jitter
        /\ caller' = caller /\ start' = start
    BY <1>13, Zenon DEF WdCount
  <2>. QED
    BY <1>1, <1>2, <2>4, <2>2, SMT DEF Core, Types, EventPCs,
       BitsFollowClient, JitterRead, CountLow, Control, Awake, WdType,
       WdBecomes
<1>14. CASE WdBackoff
  <2>2. WdBecomes("test", wd.count)
    BY <1>2, <1>14, WdBackoffEffect, MqttConnAssumption, Zenon
  <2>4. /\ wd.pc = "backoff" /\ bits' = bits /\ client' = client
        /\ event' = event /\ jitter' = jitter /\ caller' = caller
        /\ start' = start
    BY <1>14, Zenon DEF WdBackoff
  <2>. QED
    BY <1>1, <1>2, <2>4, <2>2, SMT DEF Core, Types, EventPCs,
       BitsFollowClient, JitterRead, CountLow, Control, Awake, WdType,
       WdBecomes
<1>15. CASE WdTest
  <2>2. WdBecomes("double", wd.count) /\ wd'.tested = jitter
    BY <1>2, <1>15, WdTestEffect, Zenon
  <2>4. /\ wd.pc = "test" /\ bits' = bits /\ client' = client
        /\ event' = event /\ jitter' = jitter /\ caller' = caller
        /\ start' = start
    BY <1>15, Zenon DEF WdTest
  <2>. QED
    BY <1>1, <1>2, <2>4, <2>2, SMT DEF Core, Types, EventPCs,
       BitsFollowClient, JitterRead, CountLow, Control, Awake, WdType,
       WdBecomes
<1>16. CASE WdDouble
  <2>1. WdGoto("stop")
    BY <1>16, Zenon DEF WdDouble
  <2>2. WdBecomes("stop", wd.count) /\ wd'.tested = wd.tested
    BY <1>2, <2>1, WdGotoEffect, Zenon DEF WdPCs
  <2>3. jitter' \in BaseBackoff .. MaxBackoff
    BY <1>2, <1>16, WdDoubleJitter, Zenon DEF IInv
  <2>4. /\ wd.pc = "double" /\ bits' = bits /\ client' = client
        /\ event' = event /\ caller' = caller /\ start' = start
    BY <1>16, Zenon DEF WdDouble
  <2>. QED
    BY <1>1, <1>2, <2>4, <2>2, <2>3, SMT DEF Core, Types, EventPCs,
       BitsFollowClient, JitterRead, CountLow, Control, Awake, WdType,
       WdBecomes
<1>17. CASE WdStop
  <2>1. WdGoto("clear")
    BY <1>17, Zenon DEF WdStop
  <2>2. WdBecomes("clear", wd.count) /\ wd'.tested = wd.tested
    BY <1>2, <2>1, WdGotoEffect, Zenon DEF WdPCs
  <2>4. /\ wd.pc = "stop" /\ event = "idle" /\ client' = "stopped"
        /\ bits' = bits /\ event' = event /\ jitter' = jitter
        /\ caller' = caller /\ start' = start
    BY <1>17, Zenon DEF WdStop
  <2>. QED
    BY <1>1, <1>2, <2>4, <2>2, SMT DEF Core, Types, EventPCs,
       BitsFollowClient, JitterRead, CountLow, Control, Awake, WdType,
       WdBecomes
<1>18. CASE WdClear
  <2>1. WdGoto("sleep")
    BY <1>18, Zenon DEF WdClear
  <2>2. WdBecomes("sleep", wd.count) /\ wd'.tested = wd.tested
    BY <1>2, <2>1, WdGotoEffect, Zenon DEF WdPCs
  <2>4. /\ wd.pc = "clear" /\ bits' = bits \ {STARTED, CONNECTED}
        /\ client' = client /\ event' = event /\ jitter' = jitter
        /\ caller' = caller /\ start' = start
    BY <1>18, Zenon DEF WdClear
  <2>. QED
    BY <1>1, <1>2, <2>4, <2>2, SMT DEF Core, Types, EventPCs,
       BitsFollowClient, JitterRead, CountLow, Control, Awake, WdType,
       WdBecomes
<1>19. CASE WdNotified
  <2>1. WdGoto("reset")
    BY <1>19, Zenon DEF WdNotified
  <2>2. WdBecomes("reset", wd.count) /\ wd'.tested = wd.tested
    BY <1>2, <2>1, WdGotoEffect, Zenon DEF WdPCs
  <2>4. /\ wd.pc = "sleep" /\ bits' = bits /\ client' = client
        /\ event' = event /\ jitter' = jitter /\ caller' = caller
        /\ start' = start
    BY <1>19, Zenon DEF WdNotified
  <2>. QED
    BY <1>1, <1>2, <2>4, <2>2, SMT DEF Core, Types, EventPCs,
       BitsFollowClient, JitterRead, CountLow, Control, Awake, WdType,
       WdBecomes
<1>20. CASE WdReset
  <2>1. WdGoto("start")
    BY <1>20, Zenon DEF WdReset
  <2>2. WdBecomes("start", wd.count) /\ wd'.tested = wd.tested
    BY <1>2, <2>1, WdGotoEffect, Zenon DEF WdPCs
  <2>4. /\ wd.pc = "reset" /\ jitter' = BaseBackoff /\ bits' = bits
        /\ client' = client /\ event' = event /\ caller' = caller
        /\ start' = start
    BY <1>20, Zenon DEF WdReset
  <2>. QED
    BY <1>1, <1>2, <2>4, <2>2, SMT DEF Core, Types, EventPCs,
       BitsFollowClient, JitterRead, CountLow, Control, Awake, WdType,
       WdBecomes
<1>21. CASE WdTimeout
  <2>1. WdGoto("start")
    BY <1>21, Zenon DEF WdTimeout
  <2>2. WdBecomes("start", wd.count) /\ wd'.tested = wd.tested
    BY <1>2, <2>1, WdGotoEffect, Zenon DEF WdPCs
  <2>4. /\ wd.pc = "sleep" /\ bits' = bits /\ client' = client
        /\ event' = event /\ jitter' = jitter /\ caller' = caller
        /\ start' = start
    BY <1>21, Zenon DEF WdTimeout
  <2>. QED
    BY <1>1, <1>2, <2>4, <2>2, SMT DEF Core, Types, EventPCs,
       BitsFollowClient, JitterRead, CountLow, Control, Awake, WdType,
       WdBecomes
<1>22. CASE WdStart
  <2>1. WdGoto("started")
    BY <1>22, Zenon DEF WdStart
  <2>2. WdBecomes("started", wd.count) /\ wd'.tested = wd.tested
    BY <1>2, <2>1, WdGotoEffect, Zenon DEF WdPCs
  <2>4. /\ wd.pc = "start" /\ client' = "down" /\ bits' = bits
        /\ event' = event /\ jitter' = jitter /\ caller' = caller
        /\ start' = start
    BY <1>22, Zenon DEF WdStart
  <2>. QED
    BY <1>1, <1>2, <2>4, <2>2, SMT DEF Core, Types, EventPCs,
       BitsFollowClient, JitterRead, CountLow, Control, Awake, WdType,
       WdBecomes
<1>23. CASE WdStarted
  <2>2. WdBecomes("wait", 0)
    BY <1>2, <1>23, WdStartedEffect, Zenon
  <2>4. /\ wd.pc = "started" /\ bits' = bits \cup {STARTED}
        /\ client' = client /\ event' = event /\ jitter' = jitter
        /\ caller' = caller /\ start' = start
    BY <1>23, Zenon DEF WdStarted
  <2>. QED
    BY <1>1, <1>2, <2>4, <2>2, SMT DEF Core, Types, EventPCs,
       BitsFollowClient, JitterRead, CountLow, Control, Awake, WdType,
       WdBecomes
<1>24. CASE ReconnectNow
  <2>4. /\ caller = "idle" /\ NOTCONNECTED \in bits /\ caller' = "notify"
        /\ bits' = bits /\ client' = client /\ event' = event
        /\ jitter' = jitter /\ wd' = wd /\ start' = start
    BY <1>24, Zenon DEF ReconnectNow
  <2>. QED
    BY <1>1, <1>2, <2>4, SMT DEF Core, Types, EventPCs, BitsFollowClient,
       JitterRead, CountLow, Control, Awake, WdType
<1>25. CASE ReconnectNotify
  <2>4. /\ caller = "notify" /\ caller' = "idle" /\ bits' = bits
        /\ client' = client /\ event' = event /\ jitter' = jitter /\ wd' = wd
        /\ start' = start
    BY <1>25, Zenon DEF ReconnectNotify
  <2>. QED
    BY <1>1, <1>2, <2>4, SMT DEF Core, Types, EventPCs, BitsFollowClient,
       JitterRead, CountLow, Control, Awake, WdType
<1>26. CASE StartClient
  <2>4. /\ start = "client" /\ client' = "down" /\ start' = "bit"
        /\ bits' = bits /\ event' = event /\ jitter' = jitter /\ wd' = wd
        /\ caller' = caller
    BY <1>26, Zenon DEF StartClient
  <2>. QED
    BY <1>1, <1>2, <2>4, SMT DEF Core, Types, EventPCs, BitsFollowClient,
       JitterRead, CountLow, Control, Awake, WdType
<1>27. CASE StartSetBit
  <2>4. /\ start = "bit" /\ bits' = bits \cup {STARTED} /\ start' = "done"
        /\ client' = client /\ event' = event /\ jitter' = jitter /\ wd' = wd
        /\ caller' = caller
    BY <1>27, Zenon DEF StartSetBit
  <2>. QED
    BY <1>1, <1>2, <2>4, SMT DEF Core, Types, EventPCs, BitsFollowClient,
       JitterRead, CountLow, Control, Awake, WdType
<1>28. CASE Client
  BY <1>4, <1>5, <1>6, <1>28, Zenon DEF Client
<1>29. CASE EventHandler
  BY <1>7, <1>8, <1>9, <1>10, <1>11, <1>29, Zenon DEF EventHandler
<1>30. CASE Watchdog
  BY <1>12, <1>13, <1>14, <1>15, <1>16, <1>17, <1>18, <1>19, <1>20, <1>21, <1>22, <1>23, <1>30,
     Zenon DEF Watchdog
<1>31. CASE Reconnect \/ Start
  BY <1>24, <1>25, <1>26, <1>27, <1>31, Zenon DEF Reconnect, Start
<1>. QED
  BY <1>3, <1>28, <1>29, <1>30, <1>31, Zenon DEF Next

LEMMA StepIInv ==
  ASSUME BackoffAssumption, MqttConnAssumption, IInv, Next
  PROVE  IInv'
<1>1. Core' /\ Flags'
  BY StepCore, StepFlags, CoreAndFlags
<1>. QED
  BY <1>1, Zenon DEF IInv, Core, TypeOK, Types, Flags

LEMMA StutterIInv ==
  ASSUME IInv, UNCHANGED vars
  PROVE  IInv'
<1>1. TypeOK'
  BY Zenon DEF IInv, vars, TypeOK
<1>2. BitsFollowClient'
  BY Zenon DEF IInv, vars, BitsFollowClient
<1>3. JitterRead' /\ CountLow'
  BY Zenon DEF IInv, vars, JitterRead, CountLow
<1>4. Control'
  BY Zenon DEF IInv, vars, Control, Awake
<1>. QED
  BY Zenon, <1>1, <1>2, <1>3, <1>4 DEF IInv

LEMMA Invariance == Spec => []IInv
<1>1. Init => IInv
  BY InitIInv, MqttConnAssumption
<1>2. IInv /\ [Next]_vars => IInv'
  BY StepIInv, StutterIInv, BackoffAssumption, MqttConnAssumption
<1>. QED
  BY <1>1, <1>2, PTL DEF Spec

(* The bound of the jitter and the delay stay within the base and the maximum,  *)
(* though the event handler resets the context between any two accesses of the  *)
(* watchdog to it.                                                              *)
THEOREM BackoffBounded == Spec => []TypeOK
<1>1. IInv => TypeOK
  BY DEF IInv
<1>. QED  BY <1>1, Invariance, PTL

(* CONNECTED and STARTED are set only while the client is up, or not stopped;   *)
(* once announced, a connection is shown by both CONNECTED and NOTCONNECTED.    *)
THEOREM BitsFollow == Spec => []BitsFollowClient
<1>1. IInv => BitsFollowClient
  BY DEF IInv
<1>. QED  BY <1>1, Invariance, PTL
==============================================================================
