--------------------------- MODULE GarageOpener ---------------------------
(***************************************************************************)
(* devices/garage-opener/main/main.c: a button whose interrupt handler     *)
(* latches presses, a main loop that services them with HTTP requests to   *)
(* Home Assistant and polls the door every few seconds, a button LED that  *)
(* both of them drive, and a pixel that shows the door.  The connection is *)
(* the one WifiService promises; Home Assistant and the door are external. *)
(*                                                                         *)
(* The code keeps three points in time (now, button_led_on_at and          *)
(* last_poll_time) and only ever subtracts them.  Here each is kept as its *)
(* age, which makes the clock unbounded and the model finite: an age stops *)
(* growing where no comparison can tell the difference any more.           *)
(***************************************************************************)
EXTENDS Integers

CONSTANTS
    Doors,         \* cover states of Home Assistant that occur
    PollInterval,  \* POLL_INTERVAL_MS, in units of the clock
    LedDuration,   \* BUTTON_LED_DURATION_MS, in units of the clock
    MaxTurn,       \* bound: a turn of the loop, its HTTP time-outs included
    MaxEdges       \* bound: presses and rebounds of the button

ASSUME GarageOpenerAssumption ==
    /\ Doors \subseteq {"open", "opening", "closing", "closed"}
    /\ PollInterval \in Nat \ {0}
    /\ LedDuration \in Nat \ {0}
    /\ MaxTurn \in Nat
    /\ MaxEdges \in Nat

VARIABLES
    pc,           \* where app_main is
    poller,       \* who called poll_garage_status: "boot", "button", "timer"
    latched,      \* s_button_latched
    held,         \* the button is down
    debouncing,   \* less than DEBOUNCE_MS since s_last_press_us
    buttonLed,    \* the level of BUTTON_LED_PIN
    pixel,        \* the colour of the NeoPixel
    response,     \* what ha_get returned: a door state or "error"
    nowAge,       \* time since now was read
    ledAge,       \* time since button_led_on_at, NoTime when that is 0
    pollAge,      \* time since last_poll_time
    up, hadIp, connected, gaveUp,  \* the connection
    haUp,         \* Home Assistant answers requests
    door,         \* the garage door
    edges,        \* history: presses and rebounds of the button
    toggles,      \* history: cover/toggle requests made
    buttonPollAge \* history: time since a press was serviced with a poll

NoTime == -1

isrVars == <<latched, debouncing, buttonLed>>
clockVars == <<nowAge, ledAge, pollAge, buttonPollAge>>
wifiVars == <<up, hadIp, connected, gaveUp>>
worldVars == <<haUp, door>>
buttonVars == <<held, edges>>
mainVars == <<pc, poller, response>>
externals == <<wifiVars, worldVars, buttonVars>>
vars == <<mainVars, isrVars, pixel, clockVars, externals, toggles>>

Wifi == INSTANCE WifiService

Online == up /\ haUp

(* A mutant: an answer that could not be had is taken for a closed door. *)
ColorIgnoringErrors(answer) ==
    CASE answer = "open"                   -> "GREEN"
      [] answer \in {"opening", "closing"} -> "YELLOW"
      [] OTHER                             -> "RED"

(* poll_garage_status's choice of colour *)
Color(answer) ==
    CASE answer = "open"                            -> "GREEN"
      [] answer \in {"opening", "closing", "error"} -> "YELLOW"
      [] OTHER                                      -> "RED"

(* GPIO and the interrupt are set up, the pixel is blue. *)
Init ==
    /\ pc = "secrets" /\ poller = "boot" /\ response = "none"
    /\ latched = FALSE /\ debouncing = FALSE
    /\ buttonLed = FALSE /\ pixel = "BLUE"
    /\ nowAge = 0 /\ ledAge = NoTime /\ pollAge = 0
    /\ buttonPollAge = PollInterval
    /\ Wifi!Init
    /\ haUp \in BOOLEAN /\ door \in Doors
    /\ held = FALSE /\ edges = 0 /\ toggles = 0

-----------------------------------------------------------------------------
(* The interrupt: button_isr_handler *)

(* A mutant: no debouncing. *)
IsrAcceptsAll == TRUE

(* The debounce window since the last accepted edge is over. *)
IsrAccepts == ~ debouncing

Isr ==
    IF IsrAccepts
    THEN latched' = TRUE /\ debouncing' = TRUE /\ buttonLed' = TRUE
    ELSE UNCHANGED isrVars

(* An edge that starts a debounce window *)
Edge ==
    /\ edges < MaxEdges
    /\ edges' = edges + 1
    /\ Isr
    /\ UNCHANGED <<mainVars, pixel, clockVars, wifiVars, worldVars, toggles>>

(* The button is pressed ... *)
Press ==
    /\ ~ held /\ ~ debouncing
    /\ held' = TRUE
    /\ Edge

(* ... and its contact bounces, for less than DEBOUNCE_MS. *)
Bounce ==
    /\ debouncing
    /\ Isr
    /\ UNCHANGED <<mainVars, pixel, clockVars, externals, toggles>>

Release ==
    /\ held
    /\ held' = FALSE
    /\ UNCHANGED <<mainVars, isrVars, pixel, clockVars, wifiVars, worldVars,
                   edges, toggles>>

(* A contact that bounces on its release gives rising edges, too.  When    *)
(* the press is long past the first of them starts a debounce window.      *)
Rebound ==
    /\ held /\ ~ debouncing
    /\ held' = FALSE
    /\ Edge

DebounceOver ==
    /\ debouncing
    /\ debouncing' = FALSE
    /\ UNCHANGED <<mainVars, latched, buttonLed, pixel, clockVars, externals,
                   toggles>>

-----------------------------------------------------------------------------
(* app_main up to the loop *)

LoadSecrets ==
    /\ pc = "secrets"
    /\ \/ pc' = "wifi" /\ UNCHANGED pixel
       \/ pc' = "noSecrets" /\ pixel' = "RED"
    /\ UNCHANGED <<poller, response, isrVars, clockVars, externals, toggles>>

(* wifi_manager_init waits for an address or for the manager to give up. *)
WifiInitReturns ==
    /\ pc = "wifi"
    /\ connected \/ gaveUp
    /\ pc' = "get" /\ poller' = "boot"
    /\ UNCHANGED <<response, isrVars, pixel, clockVars, externals, toggles>>

-----------------------------------------------------------------------------
(* poll_garage_status: the request, then the colour *)

Get ==
    /\ pc = "get"
    /\ pc' = "show"
    /\ response' = IF Online THEN door ELSE "error"
    /\ UNCHANGED <<poller, isrVars, pixel, clockVars, externals, toggles>>

(* A mutant: the poll after a press is noted with the turn's now. *)
NotePollWithNow ==
    /\ pollAge' = IF poller = "boot" THEN 0 ELSE nowAge
    /\ buttonPollAge' = IF poller = "button" THEN 0 ELSE buttonPollAge
    /\ UNCHANGED <<nowAge, ledAge>>

(* After the colour, each caller notes the time of the poll: a fresh time  *)
(* at boot and after a press, the turn's now after a periodic poll.        *)
NotePoll ==
    /\ pollAge' = IF poller = "timer" THEN nowAge ELSE 0
    /\ buttonPollAge' = IF poller = "button" THEN 0 ELSE buttonPollAge
    /\ UNCHANGED <<nowAge, ledAge>>

Show ==
    /\ pc = "show"
    /\ pixel' = Color(response)
    /\ response' = "none"
    /\ NotePoll
    /\ pc' = CASE poller = "boot"   -> "top"
               [] poller = "button" -> "led"
               [] poller = "timer"  -> "delay"
    /\ UNCHANGED <<poller, isrVars, externals, toggles>>

-----------------------------------------------------------------------------
(* The loop of app_main *)

ReadNow ==
    /\ pc = "top"
    /\ pc' = "latch"
    /\ nowAge' = 0
    /\ UNCHANGED <<poller, response, isrVars, pixel, ledAge, pollAge,
                   buttonPollAge, externals, toggles>>

CheckLatch ==
    /\ pc = "latch"
    /\ pc' = IF latched THEN "press" ELSE "led"
    /\ UNCHANGED <<poller, response, isrVars, pixel, clockVars, externals,
                   toggles>>

(* A mutant: the LED's time starts only when there is a connection. *)
LedTimerIfConnected == ledAge' = IF connected THEN nowAge ELSE ledAge

(* button_led_on_at = now *)
StartLedTimer == ledAge' = nowAge

(* The latch is cleared, the LED's time starts, and without a connection   *)
(* that is all: the press is dropped.                                      *)
TakePress ==
    /\ pc = "press"
    /\ latched' = FALSE
    /\ StartLedTimer
    /\ \/ connected /\ pc' = "post" /\ UNCHANGED pixel
       \/ ~ connected /\ pc' = "led" /\ pixel' = "YELLOW"
    /\ UNCHANGED <<poller, response, debouncing, buttonLed, nowAge, pollAge,
                   buttonPollAge, externals, toggles>>

(* Mutants: a request that failed is made again, and the latch is cleared  *)
(* after the request instead of before.                                    *)
ToggleRetried ==
    /\ pc = "post"
    /\ toggles' = toggles + 1
    /\ \/ Online /\ door' \in Doors /\ pc' = "get" /\ poller' = "button"
       \/ ~ Online /\ UNCHANGED <<door, pc, poller>>
    /\ UNCHANGED <<response, isrVars, pixel, clockVars, wifiVars, haUp,
                   buttonVars>>

ToggleThenClear ==
    /\ pc = "post"
    /\ pc' = "get" /\ poller' = "button"
    /\ toggles' = toggles + 1
    /\ latched' = FALSE
    /\ \/ Online /\ door' \in Doors
       \/ ~ Online /\ UNCHANGED door
    /\ UNCHANGED <<response, debouncing, buttonLed, pixel, clockVars,
                   wifiVars, haUp, buttonVars>>

(* toggle_garage: one POST, whose failure is only logged.  Online, it may  *)
(* reach Home Assistant, with or without the answer coming back.           *)
ToggleGarage ==
    /\ pc = "post"
    /\ pc' = "get" /\ poller' = "button"
    /\ toggles' = toggles + 1
    /\ \/ Online /\ door' \in Doors
       \/ ~ Online /\ UNCHANGED door
    /\ UNCHANGED <<response, isrVars, pixel, clockVars, wifiVars, haUp,
                   buttonVars>>

LedIsDue == ledAge # NoTime /\ ledAge - nowAge >= LedDuration

LedOff ==
    /\ pc = "led"
    /\ pc' = "poll"
    /\ IF LedIsDue
       THEN buttonLed' = FALSE /\ ledAge' = NoTime
       ELSE UNCHANGED <<buttonLed, ledAge>>
    /\ UNCHANGED <<poller, response, latched, debouncing, pixel, nowAge,
                   pollAge, buttonPollAge, externals, toggles>>

(* A mutant: the difference taken the wrong way round. *)
PollIsDueSwapped == nowAge - pollAge >= PollInterval

(* now - last_poll_time has reached the interval. *)
PollIsDue == pollAge - nowAge >= PollInterval

PollIfDue ==
    /\ pc = "poll"
    /\ \/ /\ PollIsDue /\ connected
          /\ pc' = "get" /\ poller' = "timer"
          /\ UNCHANGED <<pixel, pollAge>>
       \/ /\ PollIsDue /\ ~ connected
          /\ pc' = "delay"
          /\ pixel' = "YELLOW"
          /\ pollAge' = nowAge
          /\ UNCHANGED poller
       \/ /\ ~ PollIsDue
          /\ pc' = "delay"
          /\ UNCHANGED <<poller, pixel, pollAge>>
    /\ UNCHANGED <<response, isrVars, nowAge, ledAge, buttonPollAge,
                   externals, toggles>>

Delay ==
    /\ pc = "delay"
    /\ pc' = "top"
    /\ UNCHANGED <<poller, response, isrVars, pixel, clockVars, externals,
                   toggles>>

-----------------------------------------------------------------------------
(* Time, the network and the door *)

InLoop ==
    /\ pc \notin {"secrets", "noSecrets", "wifi"}
    /\ ~ (pc \in {"get", "show"} /\ poller = "boot")

Older(age, limit) == IF age < limit THEN age + 1 ELSE age

(* The clock moves on where the loop blocks: in a request and its delays.  *)
Tick ==
    /\ pc \in {"post", "get", "delay"}
    /\ nowAge < MaxTurn
    /\ nowAge' = nowAge + 1
    /\ ledAge' = IF ledAge = NoTime THEN NoTime
                 ELSE Older(ledAge, LedDuration + MaxTurn)
    /\ pollAge' = Older(pollAge, PollInterval + MaxTurn)
    /\ buttonPollAge' = Older(buttonPollAge, PollInterval)
    /\ UNCHANGED <<mainVars, isrVars, pixel, externals, toggles>>

Network ==
    /\ Wifi!Next
    /\ UNCHANGED <<mainVars, isrVars, pixel, clockVars, worldVars,
                   buttonVars, toggles>>

HomeAssistant ==
    /\ haUp' = ~ haUp
    /\ UNCHANGED <<mainVars, isrVars, pixel, clockVars, wifiVars, door,
                   buttonVars, toggles>>

Door ==
    /\ door' \in Doors \ {door}
    /\ UNCHANGED <<mainVars, isrVars, pixel, clockVars, wifiVars, haUp,
                   buttonVars, toggles>>

Main ==
    \/ LoadSecrets \/ WifiInitReturns \/ Get \/ Show
    \/ ReadNow \/ CheckLatch \/ TakePress \/ ToggleGarage \/ LedOff
    \/ PollIfDue \/ Delay

Next ==
    \/ Main
    \/ Press \/ Bounce \/ Release \/ Rebound \/ DebounceOver
    \/ Tick \/ Network \/ HomeAssistant \/ Door

(* app_main is scheduled and every request ends, by its time-out at the    *)
(* latest; time goes on; the event task delivers what the driver posted.   *)
Fairness ==
    /\ WF_vars(Main)
    /\ SF_vars(Tick)
    /\ WF_vars(Wifi!Tell /\ Network)

Spec == Init /\ [][Next]_vars /\ Fairness

-----------------------------------------------------------------------------
(* Properties *)

TypeOK ==
    /\ pc \in {"secrets", "noSecrets", "wifi", "get", "show", "top", "latch",
               "press", "post", "led", "poll", "delay"}
    /\ poller \in {"boot", "button", "timer"}
    /\ latched \in BOOLEAN /\ debouncing \in BOOLEAN /\ buttonLed \in BOOLEAN
    /\ pixel \in {"BLUE", "RED", "GREEN", "YELLOW"}
    /\ response \in Doors \cup {"none", "error"}
    /\ nowAge \in 0 .. MaxTurn
    /\ ledAge \in {NoTime} \cup 0 .. LedDuration + MaxTurn
    /\ pollAge \in 0 .. PollInterval + MaxTurn
    /\ buttonPollAge \in 0 .. PollInterval
    /\ up \in BOOLEAN /\ hadIp \in BOOLEAN
    /\ connected \in BOOLEAN /\ gaveUp \in BOOLEAN
    /\ haUp \in BOOLEAN /\ door \in Doors
    /\ held \in BOOLEAN /\ edges \in 0 .. MaxEdges
    /\ toggles \in 0 .. MaxEdges

(* The garage door is toggled at most once for each press of the button,   *)
(* however long its contact bounces and whenever the interrupt comes:      *)
(* between the loop's look at the latch and its clearing, or during a      *)
(* request.  Only a release that bounces when the press's debounce window  *)
(* is over toggles it once more: the handler cannot tell it from a press.  *)
NoUnaskedToggle ==
    toggles + (IF latched THEN 1 ELSE 0)
            + (IF pc = "post" THEN 1 ELSE 0) <= edges

(* A press latched while the loop runs is taken, even one that comes while *)
(* a request blocks.                                                       *)
PressIsTaken == latched /\ InLoop ~> pc = "press"

(* A button LED the interrupt lit goes out again once nobody presses any   *)
(* more, on a device that got past its start-up.                           *)
ButtonLedGoesOut == <>InLoop => <>[](~ buttonLed)

(* main.c:229-230: the poll after a press counts, "so the periodic one     *)
(* below does not immediately fire a second request": the next periodic    *)
(* poll is a whole interval later, however long the requests took.         *)
NoPollRightAfterPress ==
    [][ pc = "poll" /\ pc' = "get" => buttonPollAge >= PollInterval ]_vars

(* While the door, the connection and Home Assistant stay as they are, the *)
(* pixel ends up showing the door.                                         *)
PixelShowsDoor ==
    \A d \in Doors :
        <>[](Online /\ door = d) =>
            <>[](pixel = Color(d)) \/ <>(pc = "noSecrets")

(* Once the door can no longer be asked, the pixel does not go on showing  *)
(* what it was: it ends up yellow.                                         *)
PixelAdmitsIgnorance ==
    <>[](~ Online) /\ <>InLoop => <>[](pixel = "YELLOW")
=============================================================================
