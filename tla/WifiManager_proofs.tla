------------------------- MODULE WifiManager_proofs -------------------------
(***************************************************************************)
(* Theorems about WifiManager, for every number of retries: what it bounds *)
(* and what is final, and that it implements WifiService.                  *)
(***************************************************************************)
EXTENDS WifiManager, SequenceTheorems, TLAPS

(* What the event queue can hold, by the state of the station.  The driver *)
(* posts at most an address and its loss before the handler answers: only  *)
(* the handler of STA_START or STA_DISCONNECTED makes it connect again.    *)
QueueMatchesLink ==
    \/ link = "down" /\ events \in {<<>>, <<"STA_START">>,
                                    <<"STA_DISCONNECTED">>,
                                    <<"GOT_IP", "STA_DISCONNECTED">>}
    \/ link \in {"connecting", "associated"} /\ events = <<>>
    \/ link = "up" /\ events \in {<<>>, <<"GOT_IP">>}

(* Every connect but the first is a retry, and an address forgives both. *)
AttemptsAreCounted ==
    attempts = IF connectedBit \/ caller = "before" \/ events = <<"STA_START">>
               THEN retryCount
               ELSE retryCount + 1

(* Nothing happens before the station is started. *)
QuietBeforeStart ==
    /\ caller = "before" => events = <<>>
    /\ caller = "before" \/ events = <<"STA_START">> =>
          link = "down" /\ ~ failBit /\ ~ connectedBit

(* An address that is not waiting to be handled was handled. *)
AddressIsTold == link = "up" /\ events = <<>> => connectedBit

Inv ==
    /\ connectedBit \in BOOLEAN /\ failBit \in BOOLEAN
    /\ retryCount \in 0 .. MaxRetries
    /\ caller \in {"before", "waiting", "returned"}
    /\ QueueMatchesLink
    /\ AttemptsAreCounted
    /\ QuietBeforeStart
    /\ AddressIsTold
    /\ GivingUpIsFinal

-----------------------------------------------------------------------------
(* The queues there are, as sequences *)

LEMMA Queues ==
    /\ Append(<<>>, "STA_START") = <<"STA_START">>
    /\ Append(<<>>, "STA_DISCONNECTED") = <<"STA_DISCONNECTED">>
    /\ Append(<<>>, "GOT_IP") = <<"GOT_IP">>
    /\ Append(<<"GOT_IP">>, "STA_DISCONNECTED")
         = <<"GOT_IP", "STA_DISCONNECTED">>
<1>1. Append(<<"GOT_IP">>, "STA_DISCONNECTED")
        = <<"GOT_IP", "STA_DISCONNECTED">>
  <2> DEFINE Events == {"STA_DISCONNECTED", "GOT_IP"}
             appended == Append(<<"GOT_IP">>, "STA_DISCONNECTED")
             both == <<"GOT_IP", "STA_DISCONNECTED">>
  <2>1. /\ appended \in Seq(Events) /\ Len(appended) = 2
        /\ appended[1] = "GOT_IP" /\ appended[2] = "STA_DISCONNECTED"
    OBVIOUS
  <2>2. /\ both \in Seq(Events) /\ Len(both) = 2
        /\ both[1] = "GOT_IP" /\ both[2] = "STA_DISCONNECTED"
    OBVIOUS
  <2> HIDE DEF Events, appended, both
  <2>3. \A i \in 1 .. Len(appended) : appended[i] = both[i]
    BY <2>1, <2>2
  <2>4. appended = both
    BY <2>1, <2>2, <2>3, SeqEqual
  <2> QED
    BY <2>4 DEF appended, both
<1> QED
  BY <1>1

LEMMA AddressWaiting ==
    ASSUME QueueMatchesLink
    PROVE  (\E i \in 1 .. Len(events) : events[i] = "GOT_IP")
             <=> events \in {<<"GOT_IP">>, <<"GOT_IP", "STA_DISCONNECTED">>}
  BY DEF QueueMatchesLink

(* What the handler finds when it takes an event, and what it leaves. *)
LEMMA HandledEvent ==
    ASSUME QueueMatchesLink, NEW event, Handle(event)
    PROVE  \/ /\ event = "STA_START" /\ link = "down"
              /\ events = <<"STA_START">> /\ events' = <<>>
           \/ /\ event = "STA_DISCONNECTED" /\ link = "down"
              /\ events = <<"STA_DISCONNECTED">> /\ events' = <<>>
           \/ /\ event = "GOT_IP" /\ link = "up"
              /\ events = <<"GOT_IP">> /\ events' = <<>>
           \/ /\ event = "GOT_IP" /\ link = "down"
              /\ events = <<"GOT_IP", "STA_DISCONNECTED">>
              /\ events' = <<"STA_DISCONNECTED">>
<1>1. /\ Head(<<"STA_START">>) = "STA_START" /\ Tail(<<"STA_START">>) = <<>>
      /\ Head(<<"STA_DISCONNECTED">>) = "STA_DISCONNECTED"
      /\ Tail(<<"STA_DISCONNECTED">>) = <<>>
      /\ Head(<<"GOT_IP">>) = "GOT_IP" /\ Tail(<<"GOT_IP">>) = <<>>
      /\ Head(<<"GOT_IP", "STA_DISCONNECTED">>) = "GOT_IP"
      /\ Tail(<<"GOT_IP", "STA_DISCONNECTED">>) = <<"STA_DISCONNECTED">>
  OBVIOUS
<1> QED
  BY <1>1 DEF QueueMatchesLink, Handle

-----------------------------------------------------------------------------
(* The invariant *)

LEMMA InitInv == Init => Inv
<1> SUFFICES ASSUME Init PROVE Inv
  OBVIOUS
<1>1. events = <<>> /\ QueueMatchesLink
  BY DEF Init, QueueMatchesLink
<1>2. retryCount \in 0 .. MaxRetries
  BY WifiManagerAssumption DEF Init
<1> QED
  BY <1>1, <1>2
  DEF Init, Inv, AttemptsAreCounted, QuietBeforeStart, AddressIsTold,
      GivingUpIsFinal

LEMMA NextInv == Inv /\ [Next]_vars => Inv'
<1> SUFFICES ASSUME Inv, [Next]_vars PROVE Inv'
  OBVIOUS
<1> USE WifiManagerAssumption
    DEF Inv, QueueMatchesLink, AttemptsAreCounted, QuietBeforeStart,
        AddressIsTold, GivingUpIsFinal
<1>1. CASE StartStation
  BY <1>1, Queues DEF StartStation, Post
<1>2. CASE InitReturns
  BY <1>2 DEF InitReturns
<1>3. CASE OnStart
  <2>1. link = "down" /\ events = <<"STA_START">> /\ events' = <<>>
    BY <1>3, HandledEvent DEF OnStart
  <2> QED
    BY <1>3, <2>1 DEF OnStart, Connect, managerVars
<1>4. CASE OnDisconnectedRetry
  <2>1. link = "down" /\ events = <<"STA_DISCONNECTED">> /\ events' = <<>>
    BY <1>4, HandledEvent DEF OnDisconnectedRetry
  <2> QED
    BY <1>4, <2>1 DEF OnDisconnectedRetry, Connect
<1>5. CASE OnDisconnectedFail
  <2>1. link = "down" /\ events = <<"STA_DISCONNECTED">> /\ events' = <<>>
    BY <1>5, HandledEvent DEF OnDisconnectedFail
  <2> QED
    BY <1>5, <2>1 DEF OnDisconnectedFail
<1>6. CASE OnGotIp
  <2>1. \/ link = "up" /\ events = <<"GOT_IP">> /\ events' = <<>>
        \/ /\ link = "down" /\ events = <<"GOT_IP", "STA_DISCONNECTED">>
           /\ events' = <<"STA_DISCONNECTED">>
    BY <1>6, HandledEvent DEF OnGotIp
  <2> QED
    BY <1>6, <2>1 DEF OnGotIp
<1>7. CASE Associate
  BY <1>7 DEF Associate, managerVars
<1>8. CASE GetIp
  BY <1>8, Queues DEF GetIp, Post, managerVars
<1>9. CASE Disconnect
  <2>1. \/ events = <<>> /\ events' = <<"STA_DISCONNECTED">>
        \/ events = <<"GOT_IP">>
           /\ events' = <<"GOT_IP", "STA_DISCONNECTED">>
    BY <1>9, Queues DEF Disconnect, Post
  <2> QED
    BY <1>9, <2>1 DEF Disconnect, managerVars
<1>10. CASE UNCHANGED vars
  BY <1>10 DEF vars, managerVars
<1> QED
  BY <1>1, <1>2, <1>3, <1>4, <1>5, <1>6, <1>7, <1>8, <1>9, <1>10
  DEF Next, Handler, Driver

LEMMA InvHolds == Spec => []Inv
  BY InitInv, NextInv, PTL DEF Spec

-----------------------------------------------------------------------------
(* The theorems *)

(* The bits, the retry count, the event queue and the number of connects   *)
(* keep their types, for every number of retries: the count never passes   *)
(* s_max_retries.                                                          *)
THEOREM TypeCorrect == Spec => []TypeOK
<1>1. Inv => TypeOK
  <2> SUFFICES ASSUME Inv PROVE TypeOK
    OBVIOUS
  <2>1. attempts \in 0 .. MaxRetries + 1
    BY WifiManagerAssumption DEF Inv, AttemptsAreCounted
  <2>2. events \in Seq({"STA_START", "STA_DISCONNECTED", "GOT_IP"})
    <3> DEFINE Events == {"STA_START", "STA_DISCONNECTED", "GOT_IP"}
    <3>1. /\ <<>> \in Seq(Events) /\ <<"STA_START">> \in Seq(Events)
          /\ <<"STA_DISCONNECTED">> \in Seq(Events)
          /\ <<"GOT_IP">> \in Seq(Events)
          /\ <<"GOT_IP", "STA_DISCONNECTED">> \in Seq(Events)
      OBVIOUS
    <3> HIDE DEF Events
    <3>2. events \in Seq(Events)
      BY <3>1 DEF Inv, QueueMatchesLink
    <3> QED
      BY <3>2 DEF Events
  <2>3. link \in {"down", "connecting", "associated", "up"}
    BY DEF Inv, QueueMatchesLink
  <2> QED
    BY <2>1, <2>2, <2>3 DEF Inv, TypeOK
<1> QED
  BY <1>1, InvHolds, PTL

(* Between two addresses esp_wifi_connect is called at most MaxRetries     *)
(* times, and once more before the first.                                  *)
THEOREM RetriesAreBounded == Spec => []AttemptsBounded
<1>1. Inv => AttemptsBounded
  BY WifiManagerAssumption DEF Inv, AttemptsAreCounted, AttemptsBounded
<1> QED
  BY <1>1, InvHolds, PTL

(* Once WIFI_FAIL_BIT is set the station is down and no event is left that *)
(* could bring it up again.                                                *)
THEOREM GivingUpLasts == Spec => []GivingUpIsFinal
  BY InvHolds, PTL DEF Inv

(* The manager implements the service it promises its users.  The driver's *)
(* getting and losing an address are ComeUp and GoDown, the handlers of    *)
(* GOT_IP and of the last STA_DISCONNECTED are Tell and GiveUp.            *)
THEOREM RefinesWifiService == Spec => ImplementsService
<1> DEFINE up == link = "up"
           waiting == \E i \in 1 .. Len(events) : events[i] = "GOT_IP"
           hadIp == up \/ connectedBit \/ waiting
<1>1. Init => Service!Init
  BY DEF Init, Service!Init
<1>2. Inv /\ Inv' /\ [Next]_vars => [Service!Next]_(Service!serviceVars)
  <2> SUFFICES ASSUME Inv, Inv', [Next]_vars
               PROVE  Service!Next \/ UNCHANGED Service!serviceVars
    OBVIOUS
  <2>1. QueueMatchesLink /\ QueueMatchesLink'
    BY DEF Inv
  <2>2. waiting <=> events \in {<<"GOT_IP">>,
                                <<"GOT_IP", "STA_DISCONNECTED">>}
    BY <2>1, AddressWaiting
  <2>3. waiting' <=> events' \in {<<"GOT_IP">>,
                                  <<"GOT_IP", "STA_DISCONNECTED">>}
    BY <2>1 DEF QueueMatchesLink
  <2> HIDE DEF waiting
  <2> USE DEF Service!Next, Service!ComeUp, Service!GoDown, Service!Tell,
              Service!GiveUp, Service!serviceVars
  <2>4. CASE StartStation
    BY <2>4, Queues DEF StartStation, Post, Inv, QuietBeforeStart
  <2>5. CASE InitReturns
    BY <2>5 DEF InitReturns
  <2>6. CASE OnStart
    <3>1. link = "down" /\ events = <<"STA_START">> /\ events' = <<>>
      BY <2>1, <2>6, HandledEvent DEF OnStart
    <3>2. link' # "up" /\ connectedBit' = connectedBit /\ failBit' = failBit
      BY <2>6 DEF OnStart, Connect, managerVars
    <3>3. waiting' <=> waiting
      BY <3>1, <2>2, <2>3
    <3> QED
      BY <3>1, <3>2, <3>3 DEF waiting
  <2>7. CASE OnDisconnectedRetry
    <3>1. link = "down" /\ events = <<"STA_DISCONNECTED">> /\ events' = <<>>
      BY <2>1, <2>7, HandledEvent DEF OnDisconnectedRetry
    <3>2. link' # "up" /\ connectedBit' = connectedBit /\ failBit' = failBit
      BY <2>7 DEF OnDisconnectedRetry, Connect
    <3>3. waiting' <=> waiting
      BY <3>1, <2>2, <2>3
    <3> QED
      BY <3>1, <3>2, <3>3 DEF waiting
  <2>8. CASE OnDisconnectedFail
    <3>1. link = "down" /\ events = <<"STA_DISCONNECTED">> /\ events' = <<>>
      BY <2>1, <2>8, HandledEvent DEF OnDisconnectedFail
    <3>2. link' = link /\ connectedBit' = connectedBit /\ failBit' = TRUE
      BY <2>8 DEF OnDisconnectedFail
    <3>3. waiting' <=> waiting
      BY <3>1, <2>2, <2>3
    <3> QED
      BY <3>1, <3>2, <3>3 DEF waiting
  <2>9. CASE OnGotIp
    <3>1. waiting
      BY <2>1, <2>2, <2>9, HandledEvent DEF OnGotIp
    <3>2. link' = link /\ connectedBit' = TRUE /\ failBit' = failBit
      BY <2>9 DEF OnGotIp
    <3> QED
      BY <3>1, <3>2 DEF waiting
  <2>10. CASE Associate
    <3>1. /\ link # "up" /\ link' # "up"
          /\ connectedBit' = connectedBit /\ failBit' = failBit
          /\ waiting' = waiting
      BY <2>10 DEF Associate, managerVars, waiting
    <3> QED
      BY <3>1 DEF waiting
  <2>11. CASE GetIp
    <3>1. /\ link = "associated" /\ link' = "up" /\ ~ failBit
          /\ connectedBit' = connectedBit /\ failBit' = failBit
      BY <2>11 DEF GetIp, managerVars, Inv, GivingUpIsFinal
    <3> QED
      BY <3>1
  <2>12. CASE Disconnect
    <3>1. /\ events \in {<<>>, <<"GOT_IP">>}
          /\ events' = IF events = <<>> THEN <<"STA_DISCONNECTED">>
                       ELSE <<"GOT_IP", "STA_DISCONNECTED">>
      BY <2>1, <2>12, Queues DEF Disconnect, Post, QueueMatchesLink
    <3>2. /\ link # "down" /\ link' = "down"
          /\ connectedBit' = connectedBit /\ failBit' = failBit
      BY <2>12 DEF Disconnect, managerVars
    <3>3. waiting' <=> waiting
      BY <3>1, <2>2, <2>3
    <3>4. link = "up" => connectedBit \/ waiting
      BY <3>1, <2>2 DEF Inv, AddressIsTold
    <3> QED
      BY <3>2, <3>3, <3>4 DEF waiting
  <2>13. CASE UNCHANGED vars
    BY <2>13 DEF vars, managerVars, waiting
  <2> QED
    BY <2>4, <2>5, <2>6, <2>7, <2>8, <2>9, <2>10, <2>11, <2>12, <2>13
    DEF Next, Handler, Driver
<1> QED
  BY <1>1, <1>2, InvHolds, PTL DEF Spec, ImplementsService, Service!Spec
=============================================================================
