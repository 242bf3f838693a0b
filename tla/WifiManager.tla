---------------------------- MODULE WifiManager ----------------------------
(***************************************************************************)
(* components/wifi_manager/src/wifi_manager.c: connect, retry, give up.    *)
(* The caller of wifi_manager_init waits on the event group while the      *)
(* handler runs on the ESP-IDF event task, which delivers the events the   *)
(* driver posts one by one and in order.  The driver and the network are   *)
(* external: what esp_wifi_connect leads to is open.                       *)
(***************************************************************************)
EXTENDS Naturals, Sequences

CONSTANT MaxRetries  \* s_max_retries

ASSUME WifiManagerAssumption == MaxRetries \in Nat

VARIABLES
    connectedBit,  \* WIFI_CONNECTED_BIT of s_wifi_event_group
    failBit,       \* WIFI_FAIL_BIT
    retryCount,    \* s_retry_count
    caller,        \* wifi_manager_init: before, waiting or returned
    link,          \* the driver's station: down, connecting, associated, up
    events,        \* events posted and not yet handled
    attempts       \* history: connects since the last address, or the start

managerVars == <<connectedBit, failBit, retryCount, caller>>
vars == <<managerVars, link, events, attempts>>

Post(event) == events' = Append(events, event)

Init ==
    /\ connectedBit = FALSE /\ failBit = FALSE
    /\ retryCount = 0
    /\ caller = "before"
    /\ link = "down"
    /\ events = <<>>
    /\ attempts = 0

(* wifi_manager_init up to esp_wifi_start, which posts WIFI_EVENT_STA_START. *)
StartStation ==
    /\ caller = "before"
    /\ caller' = "waiting"
    /\ Post("STA_START")
    /\ UNCHANGED <<connectedBit, failBit, retryCount, link, attempts>>

(* xEventGroupWaitBits for either bit, without clearing it or a timeout *)
(* A mutant waits for both bits. *)
InitWaitsForBoth ==
    /\ caller = "waiting"
    /\ connectedBit /\ failBit
    /\ caller' = "returned"
    /\ UNCHANGED <<connectedBit, failBit, retryCount, link, events, attempts>>

InitReturns ==
    /\ caller = "waiting"
    /\ connectedBit \/ failBit
    /\ caller' = "returned"
    /\ UNCHANGED <<connectedBit, failBit, retryCount, link, events, attempts>>

-----------------------------------------------------------------------------
(* wifi_event_handler *)

Handle(event) ==
    /\ events # <<>>
    /\ Head(events) = event
    /\ events' = Tail(events)

(* esp_wifi_connect *)
Connect ==
    /\ link' = "connecting"
    /\ attempts' = attempts + 1

OnStart ==
    /\ Handle("STA_START")
    /\ Connect
    /\ UNCHANGED managerVars

(* Mutants: one retry too many, and retries that are not counted. *)
OneRetryMore ==
    /\ Handle("STA_DISCONNECTED")
    /\ retryCount <= MaxRetries
    /\ Connect
    /\ retryCount' = retryCount + 1
    /\ UNCHANGED <<connectedBit, failBit, caller>>

RetryUncounted ==
    /\ Handle("STA_DISCONNECTED")
    /\ retryCount < MaxRetries
    /\ Connect
    /\ UNCHANGED managerVars

OnDisconnectedRetry ==
    /\ Handle("STA_DISCONNECTED")
    /\ retryCount < MaxRetries
    /\ Connect
    /\ retryCount' = retryCount + 1
    /\ UNCHANGED <<connectedBit, failBit, caller>>

(* A mutant reports the failure and tries again all the same. *)
FailAndReconnect ==
    /\ Handle("STA_DISCONNECTED")
    /\ retryCount >= MaxRetries
    /\ failBit' = TRUE
    /\ Connect
    /\ UNCHANGED <<connectedBit, retryCount, caller>>

OnDisconnectedFail ==
    /\ Handle("STA_DISCONNECTED")
    /\ retryCount >= MaxRetries
    /\ failBit' = TRUE
    /\ UNCHANGED <<connectedBit, retryCount, caller, link, attempts>>

OnGotIp ==
    /\ Handle("GOT_IP")
    /\ retryCount' = 0
    /\ connectedBit' = TRUE
    /\ attempts' = 0
    /\ UNCHANGED <<failBit, caller, link>>

-----------------------------------------------------------------------------
(* The driver and the network (external) *)

Associate ==
    /\ link = "connecting"
    /\ link' = "associated"
    /\ UNCHANGED <<managerVars, events, attempts>>

GetIp ==
    /\ link = "associated"
    /\ link' = "up"
    /\ Post("GOT_IP")
    /\ UNCHANGED <<managerVars, attempts>>

(* The attempt fails, or the access point is lost. *)
Disconnect ==
    /\ link # "down"
    /\ link' = "down"
    /\ Post("STA_DISCONNECTED")
    /\ UNCHANGED <<managerVars, attempts>>

Handler == OnStart \/ OnDisconnectedRetry \/ OnDisconnectedFail \/ OnGotIp
Driver == Associate \/ GetIp \/ Disconnect

Next == StartStation \/ InitReturns \/ Handler \/ Driver

(* The event task and the caller are scheduled, and the driver answers an  *)
(* esp_wifi_connect one way or the other.  A DHCP server that never        *)
(* answers is possible, so nothing is said of an associated station.       *)
Fairness ==
    /\ WF_vars(StartStation)
    /\ WF_vars(InitReturns)
    /\ WF_vars(Handler)
    /\ WF_vars(link = "connecting" /\ Driver)

Spec == Init /\ [][Next]_vars /\ Fairness

-----------------------------------------------------------------------------
(* Properties *)

TypeOK ==
    /\ connectedBit \in BOOLEAN /\ failBit \in BOOLEAN
    /\ retryCount \in 0 .. MaxRetries
    /\ caller \in {"before", "waiting", "returned"}
    /\ link \in {"down", "connecting", "associated", "up"}
    /\ events \in Seq({"STA_START", "STA_DISCONNECTED", "GOT_IP"})
    /\ attempts \in 0 .. MaxRetries + 1

(* One outage costs at most the retries that were asked for: between two   *)
(* addresses esp_wifi_connect is called at most MaxRetries times, once     *)
(* more before the first, although an address and its loss may both be     *)
(* waiting in the event queue when the count is looked at.                 *)
AttemptsBounded ==
    attempts <= retryCount + 1 /\ (connectedBit => attempts <= MaxRetries)

(* Giving up is final: the station is down, nothing is pending that could  *)
(* bring it back, and that stays so until the device restarts.             *)
GivingUpIsFinal == failBit => link = "down" /\ events = <<>>

(* wifi_manager.h: "Blocks until connected or max_retries is exhausted."   *)
(* It does not block for ever, provided an associated station gets its     *)
(* address or is thrown out.                                               *)
InitComesBack ==
    []<>(link # "associated") => <>(caller = "returned")

(* The manager implements the service its users see. *)
Service == INSTANCE WifiService WITH
    up <- link = "up",
    hadIp <- \/ link = "up"
             \/ connectedBit
             \/ \E i \in 1 .. Len(events) : events[i] = "GOT_IP",
    connected <- connectedBit,
    gaveUp <- failBit

ImplementsService == Service!Spec

(* wifi_manager.h:18, "Returns true if the station currently has an IP     *)
(* address": once the handler is idle, connected means an address.         *)
ConnectedMeansAddress == connectedBit /\ events = <<>> => link = "up"
=============================================================================
